----------------------------- MODULE CodeEditor -----------------------------
(***************************************************************************)
(* A CodeEditor and the language-server client it is registered with: the  *)
(* user's events, the host's calls, the sync that sends what an event      *)
(* recorded and lands what the client answers by itself, and the answers   *)
(* that come later (matcha-iced: code_editor.rs, code_editor/lsp.rs).      *)
(*                                                                         *)
(* The client is taken from what the editor sees of it: a request it is    *)
(* synced for is answered at once or at any later time, in any order, and  *)
(* a newer request of a kind takes the place of the one before.            *)
(***************************************************************************)
EXTENDS EditorSlots, SequencesExt

CONSTANTS MaxLine,      \* bounds the characters of the line
          MaxView,      \* bounds how far the view scrolls
          MaxUpdates,   \* bounds the events and the host's calls, the rarer counted twice
          MaxBatch      \* bounds the events between two syncs

ASSUME CodeEditorAssumption == {MaxLine, MaxView, MaxUpdates, MaxBatch} \subseteq Nat \ {0}

VARIABLES editor,   \* the CodeEditor
          client,   \* synced: the revision it holds; asked: the requests in flight
          updates, batch

vars == <<editor, client, updates, batch>>

Answered == Kinds \ {"rename", "format"}

\* The log starts afresh at the registered text.
Opened(e) == Wait([e EXCEPT !.registered = TRUE])

NoClient == [synced |-> 0, asked |-> [k \in Kinds |-> NoTicket]]

\* An editor, registered or not. The host opens a document once it has one.
Init ==
  /\ \/ editor = Fresh /\ client = NoClient
     \/ editor = Opened(Fresh) /\ client = [NoClient EXCEPT !.synced = Fresh.rev]
  /\ updates = 0 /\ batch = 0

----------------------------------------------------------------------------
(* Landing an answer. some: whether it has an item, a box, a card, a place *)
(* in this document, or edits; for hints, whether the fetch went well. p   *)
(* is where a definition is.                                               *)

\* Whether the caret is where it was when the answer was asked for, or has
\* strayed since.
InPlace(e, ticket) == ticket.caret = e.caret \/ ticket.strays # e.strays

Refused(e) == [e EXCEPT !.refused = TRUE]

LandCompletion(e, ticket, some) == SetItems([e EXCEPT !.misplaced = @ \/ ~InPlace(e, ticket)], some)

LandBox(e, k, some) ==
  LET kept == IF some THEN e ELSE Abandon(e, {k}) IN [kept EXCEPT ![k] = some]

LandDefinition(e, ticket, some, p) ==
  LET placed == InPlace(e, ticket) \/ ticket = e.overtyped
      done == Abandon([e EXCEPT !.misplaced = @ \/ ~placed], {"definition"})
  IN IF some THEN Select(done, p, FALSE) ELSE done

\* The server shows the hint unless the text spells it out.
LandInlays(e, some) ==
  LET kept == Abandon(e, {"inlays"})
      done == [kept EXCEPT !.fetched = e.rev]
  IN IF some THEN [done EXCEPT !.card = @ /\ ~e.spelt, !.hints = e.rev, !.shown = ~e.spelt] ELSE done

LandTooltip(e, some) ==
  LET kept == Abandon(e, {"tooltip"}) IN [kept EXCEPT !.card = some, !.hover = @ /\ ~some]

\* A hint's edits spell its label out, so the hint goes first.
LandInsert(e, some) ==
  IF some
  THEN Changed([e EXCEPT !.awaiting["insert"] = NoTicket, !.shown = FALSE, !.spelt = TRUE], FALSE)
  ELSE Abandon(e, {"insert"})

\* The edits of a rename or a format, stamped with no awaited ticket, fit
\* by their revision alone.
LandEdits(e, ticket) ==
  IF ticket.rev = e.rev THEN Changed(e, FALSE) ELSE Refused(e)

Land(e, k, ticket, some, p) ==
  IF k \in {"rename", "format"} THEN LandEdits(e, ticket)
  ELSE IF ~Accepts(e, k, ticket) THEN Refused(e)
  ELSE CASE k = "completion" -> LandCompletion(e, ticket, some)
         [] k \in {"signature", "hover"} -> LandBox(e, k, some)
         [] k = "definition" -> LandDefinition(e, ticket, some, p)
         [] k = "inlays" -> LandInlays(e, some)
         [] k = "tooltip" -> LandTooltip(e, some)
         [] k = "insert" -> LandInsert(e, some)

----------------------------------------------------------------------------
(* Sync. *)

\* A jump through a hint's label is answered as a definition.
GestureKind(e) == CASE e.gesture.what = "jump" -> {"definition"}
                    [] e.gesture.what = "none" -> {}
                    [] OTHER -> {e.gesture.what}

Recorded(e) == {k \in Kinds : e.pending[k] # NoTicket}

\* The client answers nothing asked at a revision it is not synced to.
Answerable(e) == {k \in Recorded(e) : e.pending[k].rev = e.rev}

\* Which of the requests the client answers by itself, and how. It always
\* declines a gesture on hints of another revision, and needs no server
\* for a jump or an insert.
Outcomes(e) ==
  LET stale == e.gesture.ticket.rev # e.rev
      here == IF e.gesture.what = "tooltip" /\ ~stale THEN {TRUE, FALSE} ELSE {e.gesture.what # "none"}
  IN [local : SUBSET (Answerable(e) \cap Answered), gesture : here,
      items : IF "completion" \in Answerable(e) THEN BOOLEAN ELSE {FALSE},
      some : IF stale THEN {FALSE} ELSE BOOLEAN,
      caret : IF e.gesture.what = "jump" /\ ~stale THEN 0..Len(e.line) ELSE {e.caret}]

\* A refusal counts only for what was awaited when the pass began.
Gestured(e, taken, choice) ==
  IF ~choice.gesture THEN e
  ELSE \* one of GestureKind
       LET k == CHOOSE k \in GestureKind(taken) : TRUE
           landed == Land(e, k, taken.gesture.ticket, choice.some, choice.caret)
       IN [landed EXCEPT !.refused = IF Accepts(taken, k, taken.gesture.ticket) THEN @ ELSE e.refused]

\* What the client answers a request of its own with is empty, but for the
\* items of a completion list it has. No hints are hints fetched.
LandOwn(e, k, taken, choice) ==
  IF k \notin choice.local THEN e
  ELSE [Land(e, k, taken.pending[k], k = "inlays" \/ (k = "completion" /\ choice.items), e.caret)
          EXCEPT !.shown = @ /\ k # "inlays"]

\* The order a pass lands in; the gesture comes last.
LandLocal(e, taken, choice) ==
  LET completion == LandOwn(e, "completion", taken, choice)
      signature == LandOwn(completion, "signature", taken, choice)
      hover == LandOwn(signature, "hover", taken, choice)
      definition == LandOwn(hover, "definition", taken, choice)
  IN LandOwn(definition, "inlays", taken, choice)

\* A defect: the gesture is answered first, so its edit outdates the rest.
PassLandsGestureFirst(e, taken, choice) == LandLocal(Gestured(e, taken, choice), taken, choice)

PassLands(e, taken, choice) == Gestured(LandLocal(e, taken, choice), taken, choice)

\* What a pass sends to the server.
Sent(e, choice) ==
  (Answerable(e) \ choice.local) \cup (IF choice.gesture THEN {} ELSE GestureKind(e))

Pass(e, c, choice) ==
  [e |-> PassLands([e EXCEPT !.pending = [k \in Kinds |-> NoTicket], !.gesture = NoGesture], e, choice),
   c |-> [synced |-> e.rev,
          asked |-> [k \in Kinds |-> IF k \in Sent(e, choice)
                                     THEN IF e.pending[k] = NoTicket THEN e.gesture.ticket ELSE e.pending[k]
                                     ELSE c.asked[k]]]]

Settle(done) == editor' = done.e /\ client' = done.c

\* A defect: one pass.
SyncedOnce(e, c) ==
  IF ~e.registered THEN Settle([e |-> e, c |-> c])
  ELSE \E choice \in Outcomes(e) : Settle(Pass(e, c, choice))

\* An insert lands its edit in the first pass; a second sends what that
\* recorded.
Synced(e, c) ==
  IF ~e.registered THEN Settle([e |-> e, c |-> c])
  ELSE \E choice \in Outcomes(e) : \E first \in {Pass(e, c, choice)} :
         IF first.e.rev = e.rev THEN Settle(first)
         ELSE \E again \in Outcomes(first.e) : Settle(Pass(first.e, first.c, again))

----------------------------------------------------------------------------
(* The user's events and the host's calls. *)

Places == 0..Len(editor.line)

\* Whether the caret may have left a snippet's stops, whether a popup may
\* run out of matching items, and whether an answer may be either way.
MayEscape == IF editor.snippet THEN BOOLEAN ELSE {FALSE}
MayMatch == IF Open(editor) THEN BOOLEAN ELSE {TRUE}

\* What an event or a call takes of the budget.
Cost(n) == updates + n <= MaxUpdates /\ updates' = updates + n

Event(e, n) == batch < MaxBatch /\ batch' = batch + 1 /\ Cost(n) /\ editor' = e /\ UNCHANGED client

Update(e) == Event(e, 1)
Rarely(e) == Event(e, 2)

Inserted(line, at, chars) == SubSeq(line, 1, at) \o chars \o SubSeq(line, at + 1, Len(line))

\* Of the characters ";" stands for, some open a pair, some close one.
MayPair(char) ==
  /\ char # "a"
  /\ editor.caret < Len(editor.line) => editor.line[editor.caret + 1] = ";"

\* Whether a pair is inserted depends on the other carets, too.
Type ==
  \E char \in Chars, match \in MayMatch, escapes, pairs \in BOOLEAN :
    LET typed == IF pairs THEN <<char, ";">> ELSE <<char>> IN
    /\ escapes \in MayEscape /\ (pairs => MayPair(char))
    /\ Len(editor.line) + Len(typed) <= MaxLine
    /\ Update(AfterEdit([editor EXCEPT !.line = Inserted(@, editor.caret, typed), !.caret = @ + 1, !.rev = @ + 1,
                                       !.pair = IF pairs THEN editor.caret + 1 ELSE @],
                        char, match, escapes))

\* A closer typed where one was inserted moves past it. It is a character
\* typed all the same: a definition asked for before it stays awaited.
Overtype ==
  \E escapes \in MayEscape :
    /\ editor.pair # 0
    /\ Update(AfterEdit([editor EXCEPT !.caret = @ + 1, !.pair = 0, !.overtyped = editor.awaiting["definition"]],
                        ";", TRUE, escapes))

\* An empty pair is deleted whole.
Erased ==
  IF editor.caret = 0 THEN editor
  ELSE IF editor.pair = editor.caret
  THEN [editor EXCEPT !.line = RemoveAt(RemoveAt(@, editor.caret), editor.caret), !.caret = @ - 1, !.pair = 0,
                      !.rev = @ + 1]
  ELSE [editor EXCEPT !.line = RemoveAt(@, editor.caret), !.caret = @ - 1, !.rev = @ + 1]

Backspace ==
  \E match \in MayMatch, escapes \in MayEscape : Update(AfterEdit(Erased, "deleting", match, escapes))

MoveCaret == \E p \in Places, escapes \in MayEscape : Update(Select(editor, p, escapes))

\* An edit of the host's, a paste or a replacement.
Edit == \E escapes \in MayEscape : Update(Changed(editor, escapes))

\* An undo or a redo, maybe of a hint's insertion.
Revisit ==
  \E escapes \in MayEscape, spelt \in BOOLEAN :
    /\ spelt => editor.spelt \/ editor.undone = editor.rev
    /\ Update(Revisited(editor, escapes, spelt))

CloseFind == [editor EXCEPT !.find = FALSE]

\* Escape closes the find bar before it retires the signature box.
Collapse ==
  \E escapes \in MayEscape :
    Rarely(IF editor.find THEN CloseFind
           ELSE AfterEdit(Abandon([editor EXCEPT !.signature = FALSE, !.pair = 0], {"signature"}), "close", TRUE, escapes))

\* A defect: the text loaded is not waited for.
LoadBehindHints ==
  \E p \in {0, 1} :
    Rarely(Abandon([editor EXCEPT !.line = <<"a">>, !.caret = p, !.strays = @ + 1, !.rev = @ + 1, !.spelt = FALSE,
                                  !.pair = 0, !.hints = 0, !.shown = FALSE, !.card = FALSE,
                                  !.seen = editor.rev + 1, !.window = 0],
                   {"inlays", "tooltip", "insert"}))

\* A load does not run the tail.
Load ==
  \E p \in {0, 1} :
    Rarely(Wait(Abandon([editor EXCEPT !.line = <<"a">>, !.caret = p, !.strays = @ + 1, !.rev = @ + 1, !.spelt = FALSE,
                                       !.pair = 0, !.hints = 0, !.shown = FALSE, !.card = FALSE,
                                       !.seen = editor.rev + 1, !.window = 0],
                        {"inlays", "tooltip", "insert"})))

\* The rows the inner half of a fetch at row w covers.
Inner(w) == w..w + 1

Scroll ==
  \E view \in (1..MaxView) \ {editor.view} :
    LET seen == Abandon([editor EXCEPT !.view = view, !.hover = FALSE, !.card = FALSE], {"hover", "tooltip"})
    IN Rarely(IF editor.window # 0 /\ view \notin Inner(editor.window) THEN Wait(seen) ELSE seen)

\* Folding, Tab through a snippet's stops, and the find bar's arrows move
\* the caret past the tail.
Stray(e) == \E p \in Places : Rarely([e EXCEPT !.caret = p, !.strays = @ + 1, !.pair = 0])

Fold == Stray(editor)

SnippetTab == editor.snippet /\ \E stays \in BOOLEAN : Stray([editor EXCEPT !.snippet = stays])

SnippetCancel == editor.snippet /\ Rarely([editor EXCEPT !.snippet = FALSE])

FindNext == editor.find /\ Stray(editor)

OpenFind == Rarely([editor EXCEPT !.find = TRUE, !.rename = 0])

\* One bar is open at a time.
CloseBar ==
  /\ editor.find \/ editor.rename # 0
  /\ Rarely(IF editor.rename # 0 THEN [editor EXCEPT !.rename = 0] ELSE CloseFind)

PopupDismiss ==
  /\ Open(editor)
  /\ Update(Abandon([editor EXCEPT !.popup.state = "dismissed", !.popup.anchor = 0], {"completion"}))

\* The word makes way for the item. snippet, retrigger and signature are
\* the item's: it has stops, it asks again, or it opens the signature box.
PopupAccept ==
  /\ Open(editor)
  /\ \E snippet, retrigger, signature \in BOOLEAN :
       LET start == WordStart(editor)
           rest == SubSeq(editor.line, editor.caret + 1, Len(editor.line))
           put == [Abandon(editor, {"completion"}) EXCEPT
                     !.popup = NoPopup, !.line = SubSeq(@, 1, start) \o <<"a">> \o rest, !.caret = start + 1,
                     !.rev = @ + 1, !.snippet = snippet, !.pair = 0]
           tail == InlaysAfterEdit(put)
           again == IF retrigger /\ ~snippet THEN RequestCompletions(tail, "manual", TRUE) ELSE tail
       IN /\ Len(put.line) <= MaxLine
          /\ Update(IF signature THEN DriveSignature(again, "(") ELSE again)

TriggerCompletion == Update(RequestCompletions(editor, "manual", TRUE))

SignatureClose == editor.signature /\ Rarely(Abandon([editor EXCEPT !.signature = FALSE], {"signature"}))

\* The pointer rests on a word or beside one.
HoverQuery ==
  \E word \in BOOLEAN :
    LET left == Abandon([editor EXCEPT !.hover = FALSE, !.card = FALSE], {"tooltip"})
    IN Rarely(IF word THEN Ask(left, "hover") ELSE Abandon(left, {"hover"}))

HoverDismiss == Rarely(Abandon([editor EXCEPT !.hover = FALSE, !.card = FALSE], {"hover", "tooltip"}))

GotoDefinition == Update(Ask(editor, "definition"))

Rename == editor.rename = 0 /\ Rarely([editor EXCEPT !.find = FALSE, !.rename = editor.rev])

\* Requests no answer is awaited for.
AskUnawaited(e, k) == [e EXCEPT !.issued = @ + 1, !.pending[k] = Stamped(e)]

SubmitRename ==
  /\ editor.rename # 0
  /\ LET closed == [editor EXCEPT !.rename = 0]
     IN Rarely(IF editor.rename = editor.rev THEN AskUnawaited(closed, "rename") ELSE closed)

Format == Rarely(AskUnawaited(editor, "format"))

----------------------------------------------------------------------------
(* Hints. *)

Wake ==
  /\ editor.wait
  /\ Update([Ask(editor, "inlays") EXCEPT !.wait = FALSE, !.window = editor.view])

\* A gesture takes the one slot there is, and the slot its answer lands in.
Gesture(e, k, what) ==
  [e EXCEPT !.issued = @ + 1, !.awaiting[k] = Stamped(e), !.pending[k] = NoTicket,
            !.gesture = [what |-> what, ticket |-> Stamped(e)]]

InlayHover ==
  /\ editor.shown
  /\ LET left == Abandon([editor EXCEPT !.hover = FALSE, !.card = FALSE], {"hover", "tooltip"})
     IN Update(IF InlaysCurrent(editor) THEN Gesture(left, "tooltip", "tooltip") ELSE left)

InlayJump ==
  /\ editor.shown /\ InlaysCurrent(editor)
  /\ Update(Gesture(editor, "definition", "jump"))

InlayInsert ==
  /\ editor.shown /\ InlaysCurrent(editor)
  /\ Update(Gesture(editor, "insert", "insert"))

SetInlayHints ==
  Rarely(IF ~editor.enabled THEN Wait([editor EXCEPT !.enabled = TRUE])
         ELSE [Abandon(editor, {"inlays", "tooltip", "insert"}) EXCEPT
                 !.enabled = FALSE, !.hints = 0, !.shown = FALSE, !.card = FALSE,
                 !.gesture = NoGesture, !.wait = FALSE, !.window = 0])

----------------------------------------------------------------------------
(* The client. *)

OpenLsp ==
  /\ ~editor.registered /\ Cost(2)
  /\ editor' = Opened(editor)
  /\ client' = [NoClient EXCEPT !.synced = editor.rev]
  /\ UNCHANGED batch

CloseLsp ==
  /\ editor.registered /\ Cost(2)
  /\ editor' = [Abandon(editor, Kinds) EXCEPT
                  !.registered = FALSE, !.rename = 0, !.popup = NoPopup, !.signature = FALSE, !.hover = FALSE,
                  !.card = FALSE, !.gesture = NoGesture, !.wait = FALSE, !.window = 0, !.hints = 0, !.shown = FALSE]
  /\ client' = NoClient
  /\ UNCHANGED batch

\* After an event, a save, or an update that lands in the document alone.
Sync == batch > 0 /\ batch' = 0 /\ Synced(editor, client) /\ UNCHANGED updates

\* Another editor's definition is here.
JumpHere ==
  \E p \in Places, escapes \in MayEscape :
    /\ Cost(2)
    /\ Synced(Select(editor, p, escapes), client) /\ batch' = 0

\* The server answers a request in flight; a refusal is the host's to see.
Answer ==
  \E k \in Kinds :
    /\ editor.registered /\ client.asked[k] # NoTicket
    /\ \E some \in BOOLEAN, p \in IF k = "definition" THEN Places ELSE {editor.caret} :
         Synced([Land(editor, k, client.asked[k], some, p) EXCEPT !.refused = editor.refused],
                [client EXCEPT !.asked[k] = NoTicket])
    /\ batch' = 0
    /\ UNCHANGED updates

\* The server's hints have changed.
InlayRefresh ==
  /\ editor.registered /\ Cost(2) /\ batch' = 0
  /\ Synced(Wait(editor), client)

Next ==
  \/ Type \/ Overtype \/ Backspace \/ MoveCaret \/ Edit \/ Revisit \/ Collapse \/ Load \/ Scroll
  \/ Fold \/ SnippetTab \/ SnippetCancel \/ FindNext \/ OpenFind \/ CloseBar
  \/ PopupDismiss \/ PopupAccept \/ TriggerCompletion \/ SignatureClose
  \/ HoverQuery \/ HoverDismiss \/ GotoDefinition \/ Rename \/ SubmitRename \/ Format
  \/ Wake \/ InlayHover \/ InlayJump \/ InlayInsert \/ SetInlayHints
  \/ OpenLsp \/ CloseLsp \/ Sync \/ JumpHere \/ Answer \/ InlayRefresh

Spec == Init /\ [][Next]_vars

----------------------------------------------------------------------------
(* Properties. *)

\* A completion list and a definition land only where they were asked for:
\* whatever moves the caret through the tail retires what was asked at the
\* old place (after_edit, drive_completion, abandon, accepts), but for the
\* definition awaited while a closer is typed over (try_overtype).
AnswersFitTheCaret == ~editor.misplaced

\* No answer the client gives by itself is lost to one landed before it in
\* the same pass (sync_pass: the gesture comes last).
LocalAnswersLand == ~editor.refused

\* While hints are on, those of the rows on screen are here, asked for, or
\* waited for: no edit, scroll, load, toggle or reopening leaves the screen
\* without a fetch (wait_inlays, inlays_after_edit, Wake, ViewportChanged).
HintsComing ==
  editor.registered /\ editor.enabled =>
    \/ editor.wait
    \/ /\ editor.window # 0 /\ editor.view \in Inner(editor.window)
       /\ \/ editor.fetched = editor.rev
          \/ /\ editor.awaiting["inlays"].rev = editor.rev
             /\ editor.awaiting["inlays"] \in {editor.pending["inlays"], client.asked["inlays"]}

\* A hint whose text was inserted is not shown beside that text, even by an
\* answer asked for before (land, set_inlays), but for one fetched before a
\* redo put the text back (Document::redo moves the hints along).
NoHintTwice == editor.spelt /\ editor.shown => editor.hints < editor.redone

\* Hints come, and come once: the two of them.
HintsAreFetched == HintsComing /\ NoHintTwice

\* A sync leaves the client at the document's revision with every recorded
\* request sent, but for a signature box asked for again when a label's
\* jump moved the caret (sync_lsp).
SyncSettles ==
  [][editor'.registered /\ batch' = 0 /\ batch > 0 =>
       /\ client'.synced = editor'.rev
       /\ Recorded(editor') \subseteq {"signature"} /\ editor'.gesture = NoGesture]_vars

\* "then send each request the editor recorded" (sync_lsp): after a sync
\* nothing is left to send.
SyncSendsAll ==
  [][editor'.registered /\ batch' = 0 /\ batch > 0 => Recorded(editor') = {}]_vars

\* "Absolute byte offset of the completion-word start" (PopupList): an open
\* popup is anchored at the word the caret ends.
PopupAnchored == Open(editor) => editor.popup.anchor = WordStart(editor)
=============================================================================
