-------------------------- MODULE SessionDocuments --------------------------
(***************************************************************************)
(* The documents of a matcha-lsp Session (session.rs): which are           *)
(* registered, what the server was last told of each, the versions it was  *)
(* told them under, and the diagnostics it publishes back.                 *)
(*                                                                         *)
(* A text is <<document, revision>>.  What the client sends is applied by  *)
(* the server at once (has); what the server publishes waits in inbox, so  *)
(* it may be read after any number of further edits, closes and reopens.   *)
(* A delay on the way to the server would add nothing: the server would    *)
(* publish the same text under the same version, only later.               *)
(***************************************************************************)
EXTENDS Integers, FiniteSets, Sequences

CONSTANTS
  Docs,            \* DocIds
  Keys,            \* normalized URIs
  Servers,         \* what a server's initialize result may announce
  MaxRev,          \* bound: edits of one document
  MaxOpens,        \* bound: calls of open()
  MaxConnections,  \* bound: connections, the first included
  MaxInbox         \* bound: publishes under way

ASSUME SessionBounds ==
  /\ MaxRev \in Nat /\ MaxOpens \in Nat /\ MaxInbox \in Nat
  /\ MaxConnections \in Nat \ {0}

Syncs == {"Incremental", "Full", "None"}

ASSUME ServersAssumption ==
  /\ Servers # {}
  /\ \A s \in Servers :
       s.openClose \in BOOLEAN /\ s.change \in Syncs /\ s.provides \in SUBSET STRING

VARIABLES
  state,       \* session::State: Initializing, Running, Disconnected
  server,      \* capabilities::Server of a Running state; the last one's otherwise
  link,        \* what the client keeps of the connection: Up, Shut (after shutdown()), Down, Over
  connection,  \* counts connections
  rev,         \* the revision each document reached in its editor
  tracked,     \* Session::tracked: registered document -> key, synced revision, version
  versions,    \* Session::versions
  cached,      \* Session::cached: key -> the connection its diagnostics came from
  has,         \* the documents open on the server: key -> version and text
  inbox,       \* publishDiagnostics on their way to the client
  shown,       \* document -> the last publish handed to its editor
  opens        \* calls of open(), capped by MaxOpens

docVars == <<state, server, link, connection, rev, tracked, versions, cached, has, inbox, shown, opens>>

With(f, x, e) == [y \in DOMAIN f \cup {x} |-> IF y = x THEN e ELSE f[y]]
Without(f, x) == [y \in DOMAIN f \ {x} |-> f[y]]
Nothing == [x \in {} |-> 0]

NoVersion == 0   \* Tracked::version = None; versions count from 1

\* What no open document holds: the file on disk, and a text the server lost track of.
Disk    == <<"disk">>
Garbled == <<>>

Registered == DOMAIN tracked
Named(k) == {d \in Registered : tracked[d].key = k}
OpenKeys == {tracked[d].key : d \in Registered}

\* Session::opens_and_closes
OpensAndCloses == state = "Running" /\ server.openClose

Texts == {Disk, Garbled} \cup (Docs \X (0..MaxRev))
Entries == [key : Keys, synced : 0..MaxRev, version : Nat]
Copies == [version : Nat, text : Texts]
Publications == [key : Keys, version : Nat, text : Texts, empty : BOOLEAN]
Diagnoses == [text : Texts, stamp : 0..MaxRev, version : Nat]

DocTypes ==
  /\ state \in {"Initializing", "Running", "Disconnected"}
  /\ link \in {"Up", "Shut", "Down", "Over"}
  /\ server \in Servers /\ connection \in 1..MaxConnections
  /\ rev \in [Docs -> 0..MaxRev]
  /\ Registered \subseteq Docs
  /\ tracked \in [Registered -> Entries]
  /\ versions \in [Keys -> Nat]
  /\ DOMAIN cached \subseteq Keys
  /\ DOMAIN has \subseteq Keys /\ \A k \in DOMAIN has : has[k] \in Copies
  /\ inbox \in Seq(Publications)
  /\ DOMAIN shown \subseteq Docs /\ \A d \in DOMAIN shown : shown[d] \in Diagnoses
  /\ opens \in 0..MaxOpens

DocInit ==
  /\ state = "Initializing" /\ server = (CHOOSE s \in Servers : TRUE) /\ link = "Up" /\ connection = 1
  /\ rev = [d \in Docs |-> 0]
  /\ tracked = Nothing /\ versions = [k \in Keys |-> 0] /\ cached = Nothing
  /\ has = Nothing /\ inbox = <<>> /\ shown = Nothing /\ opens = 0

----------------------------------------------------------------------------
\* What the server makes of didOpen, didClose and didChange. A document opened twice, or changed
\* from a text the server does not hold, is lost track of.
DidOpen(h, k, v, text) ==
  With(h, k, [version |-> v, text |-> IF k \in DOMAIN h THEN Garbled ELSE text])

DidClose(h, k) == Without(h, k)

DidChange(h, k, v, old, new) ==
  IF k \notin DOMAIN h THEN h
  ELSE With(h, k, [version |-> v,
                   text    |-> IF old # Garbled /\ h[k].text # old THEN Garbled ELSE new])

\* A defect: versions that a close forgets.
NextVersionOfOpen(k) == IF k \in OpenKeys THEN (CHOOSE n \in {tracked[d].version : d \in Named(k)} : TRUE) + 1
                        ELSE 1

\* session::next_version
NextVersion(k) == versions[k] + 1

----------------------------------------------------------------------------
\* The host's calls.

\* A commit in a document's editor; the session hears of it through sync().
Edit(d) ==
  /\ rev[d] < MaxRev
  /\ rev' = [rev EXCEPT ![d] = @ + 1]
  /\ UNCHANGED <<state, server, link, connection, tracked, versions, cached, has, inbox, shown, opens>>

\* Session::close: the didClose it sends, if the server was told of the document.
Closed(d) ==
  IF d \in Registered /\ tracked[d].version # NoVersion /\ OpensAndCloses
  THEN DidClose(has, tracked[d].key)
  ELSE has

CloseDoc(d) ==
  /\ d \in Registered
  /\ has' = Closed(d)
  /\ tracked' = Without(tracked, d)
  /\ shown' = Without(shown, d)
  /\ UNCHANGED <<state, server, link, connection, rev, versions, cached, inbox, opens>>

\* Session::open at document d's current snapshot. The same URI under another document is an
\* error that changes nothing.
OpenDoc(d, k) ==
  /\ opens < MaxOpens /\ opens' = opens + 1
  /\ Named(k) \subseteq {d}
  /\ cached' = Without(cached, k)
  /\ shown' = Without(shown, d)
  /\ LET v == IF OpensAndCloses THEN NextVersion(k) ELSE NoVersion IN
     /\ tracked' = With(tracked, d, [key |-> k, synced |-> rev[d], version |-> v])
     /\ versions' = IF OpensAndCloses THEN [versions EXCEPT ![k] = v] ELSE versions
     /\ has' = IF OpensAndCloses THEN DidOpen(Closed(d), k, v, <<d, rev[d]>>) ELSE Closed(d)
  /\ UNCHANGED <<state, server, link, connection, rev, inbox>>

\* A defect: any log that ends at the snapshot is good.
LeadsTo(d, snapshot, from, to) == to = snapshot

\* session::incremental: whether a log from one revision to another leads exactly from the
\* synced text to the snapshot. A log that was off, broke, or is another document's leads nowhere.
Leads(d, snapshot, from, to) == from = tracked[d].synced /\ to = snapshot

\* Session::sync with a snapshot newer than the synced text and some drained log.
SyncDoc(d) ==
  /\ d \in Registered
  /\ \E snapshot \in tracked[d].synced + 1 .. rev[d], from \in 0..rev[d], to \in 0..rev[d] :
       LET k == tracked[d].key
           v == NextVersion(k)
           told == OpensAndCloses /\ tracked[d].version # NoVersion /\ server.change # "None"
           ranges == server.change = "Incremental" /\ Leads(d, snapshot, from, to)
       IN
       IF told
       THEN /\ tracked' = [tracked EXCEPT ![d].synced = snapshot, ![d].version = v]
            /\ versions' = [versions EXCEPT ![k] = v]
            /\ has' = IF ranges THEN DidChange(has, k, v, <<d, from>>, <<d, to>>)
                                ELSE DidChange(has, k, v, Garbled, <<d, snapshot>>)
       ELSE /\ tracked' = [tracked EXCEPT ![d].synced = snapshot]
            /\ UNCHANGED <<versions, has>>
  /\ UNCHANGED <<state, server, link, connection, rev, cached, inbox, shown, opens>>

----------------------------------------------------------------------------
\* The connection.

\* Session::initialized: every registered document is opened with its synced text.
InitializedDocs(s) ==
  /\ state = "Initializing" /\ link = "Up"
  /\ state' = "Running" /\ server' = s
  /\ IF s.openClose
     THEN /\ tracked' = [d \in Registered |->
                           [tracked[d] EXCEPT !.version = NextVersion(tracked[d].key)]]
          /\ versions' = [k \in Keys |-> IF k \in OpenKeys THEN NextVersion(k) ELSE versions[k]]
          /\ has' = [k \in OpenKeys |->
                       LET d == CHOOSE x \in Named(k) : TRUE IN
                       [version |-> NextVersion(k), text |-> <<d, tracked[d].synced>>]]
     ELSE UNCHANGED <<tracked, versions, has>>
  /\ UNCHANGED <<link, connection, rev, cached, inbox, shown, opens>>

\* A failed initialize. The client stops, and takes no message of this connection any more.
RefusedDocs ==
  /\ state = "Initializing" /\ link = "Up"
  /\ state' = "Disconnected" /\ link' = "Down"
  /\ has' = Nothing /\ inbox' = <<>>
  /\ UNCHANGED <<server, connection, rev, tracked, versions, cached, shown, opens>>

\* Session::shutdown. The connection stays for the grace period, and so do its publishes.
ShutdownDocs ==
  /\ link \in {"Up", "Down"}
  /\ state' = "Disconnected" /\ link' = IF link = "Up" THEN "Shut" ELSE "Over"
  /\ UNCHANGED <<server, connection, rev, tracked, versions, cached, has, inbox, shown, opens>>

\* A defect: the unopened files' diagnostics outlive their connection.
DisconnectedKeepingCache ==
  /\ link \in {"Up", "Shut"}
  /\ state' = "Disconnected" /\ link' = IF link = "Up" THEN "Down" ELSE "Over"
  /\ tracked' = [d \in Registered |-> [tracked[d] EXCEPT !.version = NoVersion]]
  /\ shown' = Nothing /\ has' = Nothing /\ inbox' = <<>>
  /\ UNCHANGED <<server, connection, rev, versions, cached, opens>>

\* Session::disconnected, for a loss, a restart() or the end of a shutdown.
DisconnectedDocs ==
  /\ link \in {"Up", "Shut"}
  /\ state' = "Disconnected" /\ link' = IF link = "Up" THEN "Down" ELSE "Over"
  /\ tracked' = [d \in Registered |-> [tracked[d] EXCEPT !.version = NoVersion]]
  /\ cached' = Nothing /\ shown' = Nothing
  /\ has' = Nothing /\ inbox' = <<>>
  /\ UNCHANGED <<server, connection, rev, versions, opens>>

\* Session::reinitialize on a new connection.
ReinitializeDocs ==
  /\ link = "Down" /\ connection < MaxConnections
  /\ state' = "Initializing" /\ link' = "Up" /\ connection' = connection + 1
  /\ UNCHANGED <<server, rev, tracked, versions, cached, has, inbox, shown, opens>>

----------------------------------------------------------------------------
\* Diagnostics.

\* A server that answered initialize publishes for any file it likes, with or without the version
\* of the text it looked at. After shutdown() it may still publish for what it has open.
Publish(k) ==
  /\ state = "Running" \/ (link = "Shut" /\ k \in DOMAIN has)
  /\ Len(inbox) < MaxInbox
  /\ \E versioned \in BOOLEAN, empty \in BOOLEAN :
       /\ versioned => k \in DOMAIN has
       /\ inbox' = Append(inbox,
            [key     |-> k,
             version |-> IF versioned THEN has[k].version ELSE NoVersion,
             text    |-> IF k \in DOMAIN has THEN has[k].text ELSE Disk,
             empty   |-> empty])
  /\ UNCHANGED <<state, server, link, connection, rev, tracked, versions, cached, has, shown, opens>>

\* Session::notified: a publish for an open document is for the last version sent, or names none.
Shows(d, p) == p.version \in {NoVersion, tracked[d].version}

\* Session::notified. What is shown is stamped with the synced revision.
ReceivePublish ==
  /\ inbox # <<>>
  /\ inbox' = Tail(inbox)
  /\ LET p == Head(inbox) IN
     /\ cached' = IF Named(p.key) # {}                    THEN cached
                  ELSE IF p.version # NoVersion \/ p.empty THEN Without(cached, p.key)
                  ELSE With(cached, p.key, connection)
     /\ shown' = [d \in {x \in Docs : \/ x \in DOMAIN shown
                                      \/ x \in Named(p.key) /\ Shows(x, p)} |->
                    IF d \in Named(p.key) /\ Shows(d, p)
                    THEN [text |-> p.text, stamp |-> tracked[d].synced, version |-> p.version]
                    ELSE shown[d]]
  /\ UNCHANGED <<state, server, link, connection, rev, tracked, versions, has, opens>>
=============================================================================
