----------------------------- MODULE LspSession -----------------------------
(***************************************************************************)
(* A matcha-lsp Session: SessionDocuments and SessionRequests together,    *)
(* with what must hold between the editors, the session and the server.    *)
(***************************************************************************)
EXTENDS SessionRequests

vars == <<docVars, reqVars>>

Init == DocInit /\ ReqInit

\* Session::close, and the first half of Session::open: the document's requests are cancelled.
\* The other requests note which files were opened or closed.
Forgetting(d, files) ==
  /\ Keeping({[p EXCEPT !.disturbed = @ \cup files] : p \in {q \in pending : q.doc # d}})
  /\ session' = Without(session, d)
  /\ inlays' = Without(inlays, d)
  /\ owed' = [x \in {y \in DOMAIN owed : y[1] # d} |-> owed[x]]
  /\ UNCHANGED <<issued, landed, silenced>>

KeyOf(d) == IF d \in Registered THEN {tracked[d].key} ELSE {}

Open(d, k) == OpenDoc(d, k) /\ Forgetting(d, {k} \cup KeyOf(d))
Close(d) == CloseDoc(d) /\ Forgetting(d, KeyOf(d))

\* Session::settle_pending: the requests an editor still waits for get their empty answer.
SettlingPending ==
  /\ Keeping({})
  /\ owed' = Settled({p \in pending : Awaited(p)})
  /\ UNCHANGED silenced

Shutdown == ShutdownDocs /\ SettlingPending /\ UNCHANGED <<issued, session, inlays, landed>>

Disconnected ==
  /\ DisconnectedDocs /\ SettlingPending
  /\ session' = Nothing /\ inlays' = Nothing /\ landed' = Nothing
  /\ UNCHANGED issued

Reinitialize ==
  /\ ReinitializeDocs
  /\ nextRequest' = nextRequest + 1
  /\ UNCHANGED <<pending, issued, session, inlays, owed, silenced, view, landed>>

DocumentStep ==
  /\ \/ \E d \in Docs : Edit(d) \/ SyncDoc(d)
     \/ \E s \in Servers : InitializedDocs(s)
     \/ RefusedDocs
     \/ \E k \in Keys : Publish(k)
     \/ ReceivePublish
  /\ UNCHANGED reqVars

RequestStep ==
  /\ \/ /\ UNCHANGED silenced
        /\ \/ \E d \in Docs :
                \/ Complete(d) \/ SignatureHelp(d) \/ Interact(d)
                \/ \E kind \in Kinds : Ask(d, kind) \/ Command(d, kind)
           \/ \E p \in pending : ServerReads(p)
     \/ \E p \in pending : Reply(p)
  /\ UNCHANGED docVars

Next ==
  \/ \E d \in Docs, k \in Keys : Open(d, k)
  \/ \E d \in Docs : Close(d)
  \/ Shutdown \/ Disconnected \/ Reinitialize
  \/ DocumentStep
  \/ RequestStep

Spec == Init /\ [][Next]_vars

----------------------------------------------------------------------------
\* Every variable has its type.
TypeOK == DocTypes /\ ReqTypes

\* Whether the server's copies follow the editors'.
Follows == state = "Running" /\ server.openClose /\ server.change # "None"

\* While the server runs, what it has open is exactly what is registered, under the versions last
\* sent and with the synced texts, whatever the change logs held, across closing, reopening
\* (under the same URI or another) and losing the server.
ServerHasSynced ==
  state = "Running" /\ server.openClose =>
    /\ DOMAIN has = OpenKeys
    /\ \A d \in Registered :
         /\ has[tracked[d].key].version = tracked[d].version
         /\ server.change # "None" => has[tracked[d].key].text = <<d, tracked[d].synced>>

\* "Version high-water marks ... survive close, so a reopened document continues its count and a
\* late publish for the old incarnation never matches the new one": a versioned publish an editor
\* was shown was computed on the very text it is stamped with.
DiagnosticsFit ==
  Follows => \A d \in DOMAIN shown :
    shown[d].version # NoVersion => shown[d].text = <<d, shown[d].stamp>>

\* "Stamp::Revision: computed against this document revision", whatever became of the session
\* since.
DiagnosticsFitStamp ==
  (server.openClose /\ server.change # "None") => \A d \in DOMAIN shown :
    shown[d].version # NoVersion => shown[d].text = <<d, shown[d].stamp>>

\* Diagnostics kept for an unopened file are of this connection, in whose encoding open() converts
\* them, and of no file that is open.
CacheIsCurrent ==
  \A k \in DOMAIN cached : cached[k] = connection /\ k \notin OpenKeys

\* "Requests in flight, at most one per document and Kind".
OneInFlight ==
  \A p, q \in pending : p.doc = q.doc /\ KindOf(p.query) = KindOf(q.query) => p = q

\* An editor that waits under a ticket of the synced text has it in flight, unless the server has
\* cancelled that very request, or called it modified twice: superseding, adopting, dropping,
\* settling and sending again never lose the newest ticket, so nothing else leaves a slot hanging.
OwedIsInFlight ==
  \A x \in DOMAIN owed :
    x[1] \in Registered /\ tracked[x[1]].synced = owed[x].rev =>
      owed[x] \in silenced \/ \E p \in Of(x[1], x[2]) : p.ticket = owed[x]

\* "The completion session of the document's latest completion request, which the pending
\* completion entry, if any, answers"; and a caret only moves forward from it (answer() subtracts
\* the two unsigned).
SessionOfPending ==
  \A p \in pending : p.query = "Completion" =>
    /\ p.doc \in DOMAIN session
    /\ session[p.doc].rev = p.rev /\ session[p.doc].caret = p.asked /\ ~session[p.doc].filled
    /\ p.caret >= p.asked

\* The request in flight is the one the editor waits for and the session it continues: the two.
InFlightIsOwed == OwedIsInFlight /\ SessionOfPending

RequestsPerTicket == IF "Tooltip" \in Kinds THEN 3 ELSE 2

\* A ticket costs a bounded number of requests: its own, one more after ContentModified, and one
\* at a moved caret or for a hint's location. Server errors and replies never make the client ask
\* for ever.
BoundedReissue ==
  nextRequest - connection - 1 <= RequestsPerTicket * issued

\* "Either the whole rename arrives, or receive reports why none of it can"; formatting is
\* "converted against the request's text, which is still the synced text"; a target "in another
\* open document that moved since the request" is not offered. So spans handed out were computed
\* on, converted against and are meant for one and the same text, when the file was neither opened
\* nor closed since the request, or is open and the server named the version it edited.
LandedFits ==
  Follows => \A k \in DOMAIN landed : landed[k].sure => Cardinality(landed[k].texts) = 1

\* "A result pointing into a document that has moved since, or opened since, is stale": spans
\* handed to a document's editor always fit.
LandedAlwaysFits ==
  Follows => \A k \in DOMAIN landed :
    Disk \notin landed[k].texts => Cardinality(landed[k].texts) = 1
----------------------------------------------------------------------------
\* Why the copies, the diagnostics and the cache are right, as an inductive invariant.

\* "The same URI under another document" is an error of open().
KeysApart == \A d, e \in Registered : tracked[d].key = tracked[e].key => d = e

\* A version in use is at most its file's mark, and a server that hears of documents heard of each.
VersionsAreMarks ==
  \A d \in Registered :
    /\ tracked[d].version <= versions[tracked[d].key]
    /\ OpensAndCloses => tracked[d].version # NoVersion

UpWhileInUse == state \in {"Initializing", "Running"} => link = "Up"

\* What came of a connection does not outlive it.
NothingOutlives ==
  (state = "Initializing" \/ link \in {"Down", "Over"}) =>
    inbox = <<>> /\ DOMAIN cached = {} /\ DOMAIN shown = {}

\* A copy the server looked at some time ago, under version v, is told from the present one by its
\* version.
OldCopy(k, v, text) ==
  /\ v <= versions[k]
  /\ \A d \in Named(k) : v = tracked[d].version => text = <<d, tracked[d].synced>>

PublishesAreOld ==
  Follows => \A i \in 1..Len(inbox) :
    inbox[i].version # NoVersion => OldCopy(inbox[i].key, inbox[i].version, inbox[i].text)

DocInv ==
  /\ DocTypes
  /\ KeysApart /\ VersionsAreMarks /\ UpWhileInUse /\ NothingOutlives
  /\ ServerHasSynced /\ CacheIsCurrent /\ PublishesAreOld /\ DiagnosticsFit

----------------------------------------------------------------------------
\* Why the editors' tickets are in flight.

\* Request ids only grow, and requests are those of registered documents on a running server.
TableInv ==
  /\ pending \in SUBSET PendingEntry /\ nextRequest \in Nat
  /\ DOMAIN view \subseteq {p.id : p \in pending}
  /\ \A p \in pending : p.id < nextRequest /\ p.doc \in Registered
  /\ state # "Running" => pending = {}
  /\ OneInFlight

\* An editor never waits under a revision its session has yet to reach.
SlotInv ==
  /\ DOMAIN owed \subseteq Docs \X Slots
  /\ \A x \in DOMAIN owed : owed[x] \in Ticket
  /\ \A x \in DOMAIN owed : x[1] \in Registered => owed[x].rev <= tracked[x[1]].synced
  /\ OwedIsInFlight

CompletionInv ==
  /\ DOMAIN session \subseteq Registered /\ session \in [DOMAIN session -> CompletionSession]
  /\ SessionOfPending

ReqInv ==
  /\ TableInv /\ SlotInv /\ CompletionInv
  /\ issued \in 0..MaxTickets /\ DOMAIN inlays \subseteq Registered

\* What tickets may still cost: the requests that ContentModified would send again, those whose
\* caret moved since they were asked, and those that may ask about a location next.
Reissuable == {p \in pending : p.reissued # p.ticket.seq}
Moved == {p \in pending : p.caret # p.asked}
Resolving == {p \in pending : p.query = "Resolve"}

CostInv ==
  /\ IsFiniteSet(pending)
  /\ \A p \in pending : p.ticket.seq <= issued /\ p.reissued <= issued
  /\ (nextRequest - connection - 1)
       + Cardinality(Reissuable) + Cardinality(Moved) + Cardinality(Resolving)
     <= RequestsPerTicket * issued

----------------------------------------------------------------------------
\* Why the spans handed out fit.

Recorded(p) == p.query \in {"Definition", "Rename"}

\* A file that was neither opened nor closed since the request is open now as it was then, its
\* text at the request no newer than the one the server looked at, and that no newer than the
\* present one.
UndisturbedKept(p, k) ==
  /\ Recorded(p) =>
       /\ k \in DOMAIN p.revisions <=> k \in OpenKeys
       /\ \A d \in Named(k) : p.revisions[k] <= tracked[d].synced
  /\ p.id \in DOMAIN view =>
       /\ k \in DOMAIN view[p.id] <=> k \in OpenKeys
       /\ \A d \in Named(k) : \E r \in 0..tracked[d].synced :
            /\ view[p.id][k].text = <<d, r>>
            /\ Recorded(p) => p.revisions[k] <= r
            /\ d = p.doc => p.rev <= r

\* What a request recorded, and what the server saw of it, are an old state of the documents.
SeenIsOld(p) ==
  /\ \A k \in Keys \ p.disturbed : UndisturbedKept(p, k)
  /\ p.id \in DOMAIN view =>
       \A k \in DOMAIN view[p.id] : OldCopy(k, view[p.id][k].version, view[p.id][k].text)

ViewsAreOld == Follows => \A p \in pending : SeenIsOld(p)

ViewTypes ==
  \A i \in DOMAIN view : DOMAIN view[i] \subseteq Keys /\ \A k \in DOMAIN view[i] : view[i][k] \in Copies

\* A command's text is the one its ticket was minted at.
CommandsAreCurrent ==
  \A p \in pending :
    /\ p.query \in Commands => p.rev = p.ticket.rev
    /\ p.rev <= tracked[p.doc].synced

NothingLanded == state = "Initializing" \/ link \in {"Down", "Over"} => DOMAIN landed = {}

SeenInv == ViewTypes /\ ViewsAreOld /\ CommandsAreCurrent
LandedInv == SeenInv /\ NothingLanded /\ LandedFits

\* All of it.
SessionInv == DocInv /\ ReqInv /\ CostInv /\ LandedInv
=============================================================================
