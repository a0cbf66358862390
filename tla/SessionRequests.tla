-------------------------- MODULE SessionRequests ---------------------------
(***************************************************************************)
(* The requests of a matcha-lsp Session (session.rs, with completion.rs    *)
(* and inlay.rs for what it keeps between them): at most one in flight per *)
(* document and kind, later editor tickets adopted into it or superseding  *)
(* it, replies checked against the synced text and answered under the      *)
(* newest ticket, and requests sent again after ContentModified.           *)
(*                                                                         *)
(* The host calls with a snapshot it has synced, as Session::awaited       *)
(* demands; a call the session ignores altogether is not a step.  The      *)
(* server answers whatever is pending, in any order; an answer to a        *)
(* request no longer pending is ignored and left out.  Items, hints and    *)
(* cards are left out: a reply is what it makes the session do.            *)
(***************************************************************************)
EXTENDS SessionDocuments

CONSTANTS
  Kinds,       \* the kinds of request the host makes in a model
  MaxTickets,  \* bound: tickets the editors mint
  MaxCaret     \* bound: carets are 0..MaxCaret

Commands == {"Definition", "Rename", "Format"}
Slots    == {"Completion", "Signature", "Hover", "Inlays", "Tooltip"}
Queries  == Commands \cup (Slots \ {"Tooltip"}) \cup {"Resolve", "LocationHover"}

ASSUME RequestBounds ==
  /\ Kinds \subseteq Commands \cup Slots /\ MaxTickets \in Nat /\ MaxCaret \in Nat

VARIABLES
  pending,      \* Session::pending
  nextRequest,  \* Session::next_request
  issued,       \* tickets minted; a ticket's seq tells it from the others
  session,      \* Tracked::session: document -> rev, caret, filled, incomplete
  inlays,       \* Tracked::inlays: document -> rev, revisions
  owed,         \* <<document, kind>> -> the ticket its editor waits under
  silenced,     \* history: the tickets an editor waited under when the session dropped them unanswered
  view,         \* request id -> what the server had open when it computed the reply
  landed        \* the spans last handed out: file -> the texts they were computed on, converted
                \* against and are meant for, and whether the code can tell that these are one

reqVars == <<pending, nextRequest, issued, session, inlays, owed, silenced, view, landed>>

\* Query::kind
KindOf(query) == IF query \in {"Resolve", "LocationHover"} THEN "Tooltip" ELSE query

Ticket == [seq : Nat, rev : Nat]

\* "caret" is Pending::latest_caret and "asked" the caret the query was made at; only completions
\* and signatures use them, and only signatures a "call" (0 is outside any call). "reissued" is
\* the seq of reissued_for, 0 for None. "disturbed" is a history: the files opened or closed since.
PendingEntry ==
  [id : Nat, doc : Docs, query : Queries, rev : Nat, ticket : Ticket, caret : 0..MaxCaret,
   asked : 0..MaxCaret, call : {0, 1}, reissued : Nat, disturbed : SUBSET Keys,
   revisions : UNION {[S -> 0..MaxRev] : S \in SUBSET Keys}]

CompletionSession == [rev : 0..MaxRev, caret : 0..MaxCaret, filled : BOOLEAN, incomplete : BOOLEAN]

ReqTypes ==
  /\ pending \in SUBSET PendingEntry
  /\ nextRequest \in Nat /\ issued \in 0..MaxTickets
  /\ DOMAIN session \subseteq Registered /\ DOMAIN inlays \subseteq Registered
  /\ session \in [DOMAIN session -> CompletionSession]
  /\ DOMAIN owed \subseteq Docs \X Slots
  /\ \A x \in DOMAIN owed : owed[x] \in Ticket
  /\ silenced \subseteq Ticket
  /\ DOMAIN view \subseteq {p.id : p \in pending}

ReqInit ==
  /\ pending = {} /\ nextRequest = 2 /\ issued = 0
  /\ session = Nothing /\ inlays = Nothing /\ owed = Nothing /\ view = Nothing /\ landed = Nothing
  /\ silenced = {}

----------------------------------------------------------------------------
\* Helpers.

Running(kind) == state = "Running" /\ kind \in server.provides

\* Session::answerable for a ticket minted at the snapshot handed over.
Answerable(d, snapshot) ==
  /\ d \in Registered
  /\ IF state = "Running" THEN snapshot = tracked[d].synced ELSE snapshot >= tracked[d].synced

\* Session::awaited
Awaited(p) == p.doc \in Registered /\ tracked[p.doc].synced = p.ticket.rev

Of(d, kind) == {p \in pending : p.doc = d /\ KindOf(p.query) = kind}

\* What Session::send records for queries whose results name other documents.
Revisions(query) ==
  IF query \in {"Definition", "Rename", "Inlays"}
  THEN [k \in OpenKeys |-> tracked[CHOOSE d \in Named(k) : TRUE].synced]
  ELSE Nothing

\* The entry Session::send makes.
Request(d, ticket, query, asked, call, reissued) ==
  [id |-> nextRequest, doc |-> d, query |-> query, rev |-> tracked[d].synced, ticket |-> ticket,
   caret |-> asked, asked |-> asked, call |-> call, reissued |-> reissued, disturbed |-> {},
   revisions |-> Revisions(query)]

\* The pending table becomes P, and nothing is sent for it but cancels.
Keeping(P) ==
  /\ pending' = P
  /\ view' = [i \in DOMAIN view \cap {p.id : p \in P} |-> view[i]]
  /\ UNCHANGED nextRequest

\* Session::send with P in flight: the request of the same kind is cancelled and superseded.
Sending(P, d, ticket, query, asked, call, reissued) ==
  LET kept == {p \in P : ~(p.doc = d /\ KindOf(p.query) = KindOf(query))} IN
  /\ pending' = kept \cup {Request(d, ticket, query, asked, call, reissued)}
  /\ view' = [i \in DOMAIN view \cap {p.id : p \in kept} |-> view[i]]
  /\ nextRequest' = nextRequest + 1

\* Session::request_completion
RequestingCompletion(P, d, ticket, caret, reissued) ==
  /\ session' = With(session, d, [rev |-> tracked[d].synced, caret |-> caret,
                                  filled |-> FALSE, incomplete |-> FALSE])
  /\ Sending(P, d, ticket, "Completion", caret, 0, reissued)

\* The editors' waits, once the tickets of ps are answered.
Settled(ps) ==
  [x \in {y \in DOMAIN owed : ~\E p \in ps : y = <<p.doc, KindOf(p.query)>> /\ owed[y] = p.ticket}
     |-> owed[x]]

Owing(d, kind, ticket) == owed' = With(owed, <<d, kind>>, ticket)
Paying(d, kind) == owed' = Without(owed, <<d, kind>>)

----------------------------------------------------------------------------
\* The editors' requests.

\* A ticket minted at the snapshot the host hands over with the request.
Minting(d, kind, snapshot) ==
  /\ kind \in Kinds /\ issued < MaxTickets
  /\ issued' = issued + 1
  /\ d \in Registered /\ snapshot \in 0..rev[d]

Minted(snapshot) == [seq |-> issued + 1, rev |-> snapshot]

\* A request the server cannot be asked gets its empty answer at once, and so does one the session
\* has the answer to.
AnsweringAtOnce(d, kind) == Paying(d, kind) /\ Keeping(pending) /\ UNCHANGED session

\* completion::Session::continues. Whether the text before the caret is unchanged is up to the
\* editor; the caret is past the session's by what was typed since.
Continues(d, snapshot, caret) ==
  /\ d \in DOMAIN session
  /\ caret >= session[d].caret
  /\ snapshot = session[d].rev => caret = session[d].caret

\* A defect: the request in flight keeps the ticket it was made under.
AdoptingCaret(ps, ticket, caret) ==
  Keeping((pending \ ps) \cup {[p EXCEPT !.caret = caret] : p \in ps})

Adopting(ps, ticket, caret) ==
  Keeping((pending \ ps) \cup {[p EXCEPT !.ticket = ticket, !.caret = caret] : p \in ps})

\* Session::complete
Complete(d) ==
  \E snapshot \in 0..rev[d], caret \in 0..MaxCaret, typed \in BOOLEAN, unmatched \in BOOLEAN :
    LET ticket == Minted(snapshot)
        inFlight == Of(d, "Completion")
        continuing == typed /\ Continues(d, snapshot, caret)
        answered == /\ d \in DOMAIN session
                    /\ session[d].filled /\ ~session[d].incomplete
    IN
    /\ Minting(d, "Completion", snapshot) /\ Answerable(d, snapshot)
    /\ IF ~Running("Completion") \/ (unmatched /\ ~typed) \/ (continuing /\ inFlight = {} /\ answered)
       THEN AnsweringAtOnce(d, "Completion")
       ELSE /\ Owing(d, "Completion", ticket)
            /\ IF continuing /\ inFlight # {}
               THEN Adopting(inFlight, ticket, caret) /\ UNCHANGED session
               ELSE RequestingCompletion(pending, d, ticket, caret, 0)
    /\ UNCHANGED <<inlays, landed>>

\* Session::signature_help
SignatureHelp(d) ==
  \E snapshot \in 0..rev[d], caret \in 0..MaxCaret, call \in {0, 1} :
    LET ticket == Minted(snapshot)
        sameCall == {p \in Of(d, "Signature") : p.call = call}
    IN
    /\ Minting(d, "Signature", snapshot) /\ Answerable(d, snapshot)
    /\ \/ /\ ~Running("Signature")
          /\ AnsweringAtOnce(d, "Signature")
       \/ /\ Running("Signature")
          /\ Owing(d, "Signature", ticket)
          /\ IF call # 0 /\ sameCall # {}
             THEN Adopting(sameCall, ticket, caret)
             ELSE Sending(pending, d, ticket, "Signature", caret, call, 0)
    /\ UNCHANGED <<session, inlays, landed>>

\* Session::hover and Session::inlays
Ask(d, kind) ==
  \E snapshot \in 0..rev[d] :
    /\ kind \in {"Hover", "Inlays"}
    /\ Minting(d, kind, snapshot) /\ Answerable(d, snapshot)
    /\ IF Running(kind)
       THEN /\ Sending(pending, d, Minted(snapshot), kind, 0, 0, 0)
            /\ Owing(d, kind, Minted(snapshot))
            /\ UNCHANGED session
       ELSE AnsweringAtOnce(d, kind)
    /\ UNCHANGED <<inlays, landed>>

\* Session::definition, Session::rename and Session::format. No slot waits for them: what they do
\* not answer is an error or nothing.
Command(d, kind) ==
  /\ kind \in Commands
  /\ Minting(d, kind, rev[d]) /\ Answerable(d, rev[d]) /\ Running(kind)
  /\ Sending(pending, d, Minted(rev[d]), kind, 0, 0, 0)
  /\ UNCHANGED <<session, inlays, owed, landed>>

\* Session::hover_location: whether the location of a hint's part, if it has one, may be asked
\* about. In another open document it must not have moved since the hints were asked for.
Unmoved(d, k) ==
  \A other \in Named(k) \ {d} :
    k \in DOMAIN inlays[d].revisions /\ inlays[d].revisions[k] = tracked[other].synced

HoverLocation(P, d, ticket, reissued) ==
  /\ Running("Hover") /\ d \in DOMAIN inlays /\ \E k \in Keys : Unmoved(d, k)
  /\ Sending(P, d, ticket, "LocationHover", 0, 0, reissued)

\* Session::interact with a tooltip gesture. Jumps and inserts are answered from the hint set at
\* once and leave the session as it was.
Interact(d) ==
  \E snapshot \in 0..rev[d] :
    LET ticket == Minted(snapshot)
        current == /\ state = "Running" /\ d \in DOMAIN inlays /\ inlays[d].rev = snapshot
                   /\ snapshot = tracked[d].synced
    IN
    /\ Minting(d, "Tooltip", snapshot)
    /\ \/ Keeping(pending) /\ Paying(d, "Tooltip")
       \/ /\ current
          /\ \/ Running("Resolve") /\ Sending(pending, d, ticket, "Resolve", 0, 0, 0)
             \/ HoverLocation(pending, d, ticket, 0)
          /\ Owing(d, "Tooltip", ticket)
    /\ UNCHANGED <<session, inlays, landed>>

----------------------------------------------------------------------------
\* The replies: Session::settled takes the request out of the table, and drops the reply when its
\* editor moved on.

\* The server works out the reply to a command from the texts it has.
ServerReads(p) ==
  /\ p.query \in Commands /\ p.id \notin DOMAIN view
  /\ view' = With(view, p.id, has)
  /\ UNCHANGED <<pending, nextRequest, issued, session, inlays, owed, landed>>

Viewed(p, k) == IF k \in DOMAIN view[p.id] THEN view[p.id][k].text ELSE Disk

\* Spans in file k handed out, for the editors that hold it or for the disk.
Landing(p, k, others, versioned) ==
  [texts |-> {Viewed(p, k)} \cup others,
   sure  |-> k \notin p.disturbed \/ (versioned /\ Named(k) # {} /\ k \in DOMAIN view[p.id])]

Current(k) == IF Named(k) = {} THEN {Disk} ELSE {<<d, tracked[d].synced>> : d \in Named(k)}

ReplyDropped(p) ==
  /\ ~Awaited(p)
  /\ Keeping(pending \ {p})
  /\ UNCHANGED <<issued, session, inlays, owed, landed>>

\* RequestCancelled or ServerCancelled, or ContentModified for a ticket that was sent again before:
\* nothing is answered, and the editor goes on waiting.
ReplySilent(p) ==
  /\ Awaited(p)
  /\ Keeping(pending \ {p})
  /\ silenced' = silenced \cup ({p.ticket} \cap {owed[x] : x \in DOMAIN owed})
  /\ UNCHANGED <<issued, session, inlays, owed, landed>>

\* Any other error, or a payload that does not decode: the empty answer or, for a command, an error.
ReplyEmpty(p) ==
  /\ Awaited(p)
  /\ Keeping(pending \ {p})
  /\ owed' = Settled({p})
  /\ UNCHANGED <<issued, session, inlays, landed>>

\* A defect: sent again however often the server asks for it.
ReplyModifiedAgain(p) ==
  /\ Awaited(p)
  /\ IF p.query = "Completion"
     THEN RequestingCompletion(pending \ {p}, p.doc, p.ticket, p.caret, p.ticket.seq)
     ELSE /\ Sending(pending \ {p}, p.doc, p.ticket, p.query, p.caret, p.call, p.ticket.seq)
          /\ UNCHANGED session
  /\ UNCHANGED <<issued, inlays, owed, landed>>

\* ContentModified, with Session::reissue: sent again at the latest caret, once per ticket.
ReplyModified(p) ==
  /\ Awaited(p)
  /\ p.reissued # p.ticket.seq
  /\ IF p.query = "Completion"
     THEN RequestingCompletion(pending \ {p}, p.doc, p.ticket, p.caret, p.ticket.seq)
     ELSE /\ Sending(pending \ {p}, p.doc, p.ticket, p.query, p.caret, p.call, p.ticket.seq)
          /\ UNCHANGED session
  /\ UNCHANGED <<issued, inlays, owed, landed>>

\* Session::completed
Completed(p) ==
  /\ Awaited(p) /\ p.query = "Completion"
  /\ IF p.doc \notin DOMAIN session
     THEN Keeping(pending \ {p}) /\ UNCHANGED <<session, owed>>
     ELSE \E incomplete \in BOOLEAN :
            /\ IF incomplete /\ p.caret # p.asked
               THEN RequestingCompletion(pending \ {p}, p.doc, p.ticket, p.caret, p.reissued)
               ELSE /\ session' = [session EXCEPT ![p.doc].filled = TRUE,
                                                  ![p.doc].incomplete = incomplete]
                    /\ Keeping(pending \ {p})
            /\ owed' = Settled({p})
  /\ UNCHANGED <<issued, inlays, landed>>

\* Session::signed
Signed(p) ==
  /\ Awaited(p) /\ p.query = "Signature"
  /\ IF p.caret # p.asked
     THEN Sending(pending \ {p}, p.doc, p.ticket, "Signature", p.caret, p.call, p.reissued)
     ELSE Keeping(pending \ {p})
  /\ owed' = Settled({p})
  /\ UNCHANGED <<issued, session, inlays, landed>>

\* Session::hovered and Session::location_hovered
Hovered(p) ==
  /\ Awaited(p) /\ p.query \in {"Hover", "LocationHover"}
  /\ Keeping(pending \ {p}) /\ owed' = Settled({p})
  /\ UNCHANGED <<issued, session, inlays, landed>>

\* Session::inlaid
Inlaid(p) ==
  /\ Awaited(p) /\ p.query = "Inlays"
  /\ inlays' = With(inlays, p.doc, [rev |-> p.rev, revisions |-> p.revisions])
  /\ Keeping(pending \ {p}) /\ owed' = Settled({p})
  /\ UNCHANGED <<issued, session, landed>>

\* Session::tooltip_resolved
TooltipResolved(p) ==
  /\ Awaited(p) /\ p.query = "Resolve"
  /\ \/ Keeping(pending \ {p}) /\ owed' = Settled({p})
     \/ /\ p.doc \in DOMAIN inlays /\ inlays[p.doc].rev = p.ticket.rev
        /\ HoverLocation(pending \ {p}, p.doc, p.ticket, p.reissued)
        /\ UNCHANGED owed
  /\ UNCHANGED <<issued, session, inlays, landed>>

\* A defect: only a version the server names is looked at.
StaleByVersion(p, k, versioned) ==
  \E d \in Named(k) : versioned /\ k \in DOMAIN view[p.id] /\ view[p.id][k].version # tracked[d].version

\* Session::renamed: what makes a touched file stale. A file the server names a version of must
\* still be at it.
Stale(p, k, versioned) ==
  LET recorded == k \in DOMAIN p.revisions IN
  IF Named(k) = {} THEN recorded
  ELSE \E d \in Named(k) :
         \/ ~recorded \/ p.revisions[k] # tracked[d].synced
         \/ versioned /\ k \in DOMAIN view[p.id] /\ view[p.id][k].version # tracked[d].version

\* Session::renamed: all of the edit or none of it.
Renamed(p) ==
  /\ Awaited(p) /\ p.query = "Rename" /\ p.id \in DOMAIN view
  /\ \E touched \in SUBSET Keys, versioned \in BOOLEAN :
       landed' = IF \E k \in touched : Stale(p, k, versioned) THEN landed
                 ELSE [k \in touched |-> Landing(p, k, Current(k), versioned)]
  /\ Keeping(pending \ {p})
  /\ UNCHANGED <<issued, session, inlays, owed>>

\* Session::formatted: converted against the request's text, for the editor at the ticket's.
Formatted(p) ==
  /\ Awaited(p) /\ p.query = "Format" /\ p.id \in DOMAIN view
  /\ LET k == tracked[p.doc].key IN
     landed' = [x \in {k} |-> Landing(p, k, {<<p.doc, p.rev>>, <<p.doc, p.ticket.rev>>}, FALSE)]
  /\ Keeping(pending \ {p})
  /\ UNCHANGED <<issued, session, inlays, owed>>

\* Session::defined with Session::target: a span in another open document is offered when that
\* document is at the revision it was asked at. One in a file that is not open is left to the host.
Defined(p) ==
  /\ Awaited(p) /\ p.query = "Definition" /\ p.id \in DOMAIN view
  /\ \E k \in Keys :
       landed' =
         IF k = tracked[p.doc].key THEN [x \in {k} |-> Landing(p, k, {<<p.doc, p.rev>>}, FALSE)]
         ELSE IF \E d \in Named(k) : k \in DOMAIN p.revisions /\ p.revisions[k] = tracked[d].synced
         THEN [x \in {k} |-> Landing(p, k, Current(k), FALSE)]
         ELSE landed
  /\ Keeping(pending \ {p})
  /\ UNCHANGED <<issued, session, inlays, owed>>

Answer(p) ==
  \/ ReplyDropped(p) \/ ReplyEmpty(p) \/ ReplyModified(p)
  \/ Completed(p) \/ Signed(p) \/ Hovered(p) \/ Inlaid(p) \/ TooltipResolved(p)
  \/ Renamed(p) \/ Formatted(p) \/ Defined(p)

Reply(p) == ReplySilent(p) \/ (Answer(p) /\ UNCHANGED silenced)
=============================================================================
