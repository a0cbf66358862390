---------------------------- MODULE EditorSlots ----------------------------
(***************************************************************************)
(* What a CodeEditor keeps for code intelligence, as operators on the      *)
(* editor's record e: the line the caret is on, the completion popup, a    *)
(* slot for each kind of request, the inlay hint scheduler, and the        *)
(* post-edit tail that keeps them consistent (matcha-iced: code_editor.rs; *)
(* matcha-core: intel/completion.rs).                                      *)
(*                                                                         *)
(* A line is a sequence of characters of three kinds: "a" continues a      *)
(* completion word, "(" is a trigger and opens the signature box, and ";"  *)
(* is neither.                                                             *)
(***************************************************************************)
EXTENDS Integers, Sequences, FiniteSetsExt

Chars == {"a", "(", ";"}

\* The services with a slot for the request the host has not pulled; the
\* first five, and two gestures on hints, also keep the ticket they await.
Kinds == {"completion", "signature", "hover", "definition", "inlays", "tooltip", "insert", "rename", "format"}

\* A ticket also tells, for the properties, where the caret was and how
\* often it had strayed: moved without the post-edit tail.
NoTicket == [seq |-> 0, rev |-> 0, caret |-> 0, strays |-> 0]
NoGesture == [what |-> "none", ticket |-> NoTicket]
NoPopup == [state |-> "closed", anchor |-> 0]

\* pair is where the opener of a live auto-closed pair is, 0 for none; the
\* closer is right after the caret. The fields from spelt on are history:
\* whether an inserted hint's text is in the document, the revision at which
\* a redo brings it back, the one at which the last redo did, and the ticket
\* of the definition awaited when a closer was last typed over.
Fresh == [rev |-> 1, line |-> <<>>, caret |-> 0, strays |-> 0, issued |-> 0,
          popup |-> NoPopup,
          awaiting |-> [k \in Kinds |-> NoTicket], pending |-> [k \in Kinds |-> NoTicket],
          gesture |-> NoGesture,
          signature |-> FALSE, hover |-> FALSE, card |-> FALSE,
          snippet |-> FALSE, find |-> FALSE, rename |-> 0, pair |-> 0,
          enabled |-> TRUE, seen |-> 1, wait |-> FALSE, window |-> 0, view |-> 1,
          hints |-> 0, shown |-> FALSE, registered |-> FALSE,
          spelt |-> FALSE, undone |-> 0, redone |-> 0, overtyped |-> NoTicket,
          fetched |-> 0, refused |-> FALSE, misplaced |-> FALSE]

\* Where the completion word that ends at the caret starts.
WordStart(e) == Max({0} \cup {p \in 1..e.caret : e.line[p] # "a"})

Stamped(e) == [seq |-> e.issued + 1, rev |-> e.rev, caret |-> e.caret, strays |-> e.strays]

\* Record a request of kind k under a fresh ticket.
Ask(e, k) ==
  [e EXCEPT !.issued = @ + 1, !.awaiting[k] = Stamped(e), !.pending[k] = Stamped(e)]

Accepts(e, k, ticket) == e.awaiting[k] = ticket /\ ticket.rev = e.rev

\* Stop waiting for each kind of ks. A gesture goes with the slot it filled.
Abandon(e, ks) ==
  [e EXCEPT !.awaiting = [k \in Kinds |-> IF k \in ks THEN NoTicket ELSE @[k]],
            !.pending = [k \in Kinds |-> IF k \in ks THEN NoTicket ELSE @[k]],
            !.gesture = IF \E k \in ks \cap {"definition", "tooltip", "insert"} : e.awaiting[k] = @.ticket
                        THEN NoGesture ELSE @]

----------------------------------------------------------------------------
(* The inlay hint scheduler. *)

Wait(e) == [e EXCEPT !.wait = @ \/ e.enabled]

InlaysAfterEdit(e) ==
  IF e.rev = e.seen THEN e
  ELSE Wait(Abandon([e EXCEPT !.seen = e.rev, !.card = FALSE], {"tooltip", "insert"}))

InlaysCurrent(e) == e.enabled /\ e.hints = e.rev

----------------------------------------------------------------------------
(* The completion popup. *)

Open(e) == e.popup.state = "open"

\* Escape keeps the popup away until the word ends.
OnBoundary(e) == IF e.popup.state = "dismissed" THEN [e EXCEPT !.popup = NoPopup] ELSE e

\* match: whether an item of the list still matches the word.
Refilter(e, match) == IF Open(e) /\ ~match THEN [e EXCEPT !.popup = NoPopup] ELSE e

SetItems(e, some) ==
  IF e.popup.state = "dismissed" THEN e
  ELSE [e EXCEPT !.popup = IF some THEN [state |-> "open", anchor |-> WordStart(e)] ELSE NoPopup]

RequestCompletions(e, trigger, match) ==
  IF trigger = "word" /\ e.popup.state = "dismissed" THEN e
  ELSE Ask(CASE trigger = "word" -> Refilter(e, match)
             [] trigger = "char" -> [e EXCEPT !.popup = NoPopup]
             [] trigger = "manual" -> OnBoundary(e),
           "completion")

\* event: the character typed, "deleting", or "close" for anything else.
DriveCompletion(e, event, match) ==
  LET asked == Open(e) \/ e.awaiting["completion"] # NoTicket
  IN CASE event = "a" -> RequestCompletions(e, "word", match)
       [] event = "(" -> RequestCompletions(e, "char", match)
       [] event = ";" -> Abandon(OnBoundary(e), {"completion"})
       [] event = "deleting" ->
            IF ~asked THEN e
            ELSE IF WordStart(e) < e.caret THEN RequestCompletions(e, "word", match)
            ELSE Abandon([e EXCEPT !.popup = NoPopup], {"completion"})
       [] event = "close" -> Abandon([e EXCEPT !.popup = NoPopup], {"completion"})

\* The open box, or one on its way, is asked for again after every event.
DriveSignature(e, event) ==
  IF event = "(" \/ e.signature \/ e.awaiting["signature"] # NoTicket THEN Ask(e, "signature") ELSE e

----------------------------------------------------------------------------
(* The post-edit tail. escapes: whether the caret has left the stops of    *)
(* the snippet session.                                                    *)

\* A defect: a caret move leaves the definition it was asked for awaited.
AfterEditKeepsJump(e, event, match, escapes) ==
  LET driven == DriveSignature(DriveCompletion(e, event, match), event)
      closed == [driven EXCEPT !.snippet = @ /\ ~escapes, !.hover = FALSE, !.card = FALSE]
      left == IF event = "close" THEN Abandon(closed, {"hover"}) ELSE closed
  IN InlaysAfterEdit([left EXCEPT !.rename = IF @ = e.rev THEN @ ELSE 0])

AfterEdit(e, event, match, escapes) ==
  LET driven == DriveSignature(DriveCompletion(e, event, match), event)
      closed == [driven EXCEPT !.snippet = @ /\ ~escapes, !.hover = FALSE, !.card = FALSE]
      left == IF event = "close" THEN Abandon(closed, {"hover", "definition"}) ELSE closed
  IN InlaysAfterEdit([left EXCEPT !.rename = IF @ = e.rev THEN @ ELSE 0])

\* A caret move of the host's, or of an answer that jumps. It ends a pair.
Select(e, p, escapes) == AfterEdit([e EXCEPT !.caret = p, !.pair = 0], "close", TRUE, escapes)

\* A text change off this line.
Changed(e, escapes) == AfterEdit([e EXCEPT !.rev = @ + 1], "close", TRUE, escapes)

\* An undo or a redo off this line, after which an inserted hint's text is
\* there or not.
Revisited(e, escapes, spelt) ==
  LET undone == IF spelt /\ ~e.spelt THEN 0
                ELSE IF (e.spelt /\ ~spelt) \/ e.undone = e.rev THEN e.rev + 1
                ELSE e.undone
  IN AfterEdit([e EXCEPT !.rev = @ + 1, !.pair = 0, !.spelt = spelt, !.undone = undone,
                         !.redone = IF spelt /\ ~e.spelt THEN e.rev + 1 ELSE @],
               "close", TRUE, escapes)
=============================================================================
