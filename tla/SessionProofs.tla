--------------------------- MODULE SessionProofs ---------------------------
(***************************************************************************)
(* For every set of documents, files and servers and any number of edits,  *)
(* connections and tickets: what the server holds and what the editors are *)
(* shown stays true to their texts, the request an editor waits for is in  *)
(* flight, what a ticket costs is bounded, and spans handed out fit their  *)
(* text.                                                                   *)
(***************************************************************************)
EXTENDS LspSession, SequenceTheorems, FiniteSetTheorems, TLAPS

----------------------------------------------------------------------------
LEMMA NothingFacts == DOMAIN Nothing = {}
BY DEF Nothing

----------------------------------------------------------------------------
LEMMA InitDocTypes == DocInit => DocTypes
<1> SUFFICES ASSUME DocInit PROVE DocTypes
  OBVIOUS
<1>1. server \in Servers
  BY ServersAssumption DEF DocInit
<1> QED
  BY <1>1, SessionBounds DEF DocInit, DocTypes, Registered, Nothing

\* What is known of a registered document and of a copy.
LEMMA TrackedFacts ==
  ASSUME DocTypes, NEW d \in Registered
  PROVE  /\ d \in Docs /\ tracked[d].key \in Keys /\ tracked[d].synced \in 0..MaxRev
         /\ tracked[d].version \in Nat /\ versions[tracked[d].key] \in Nat
         /\ rev[d] \in 0..MaxRev /\ tracked[d].key \in OpenKeys /\ d \in Named(tracked[d].key)
BY DEF DocTypes, Registered, OpenKeys, Named, Entries

LEMMA TextTypes ==
  /\ Disk \in Texts /\ Garbled \in Texts
  /\ \A d \in Docs, r \in 0..MaxRev : <<d, r>> \in Texts
BY DEF Texts

\* What syncing and announcing make of an entry.
LEMMA EntryTypes ==
  ASSUME DocTypes, NEW d \in Registered, NEW v \in Nat, NEW r \in 0..MaxRev
  PROVE  /\ [tracked[d] EXCEPT !.version = v] \in Entries
         /\ [tracked EXCEPT ![d].synced = r] \in [Registered -> Entries]
         /\ [tracked EXCEPT ![d].synced = r, ![d].version = v] \in [Registered -> Entries]
<1>1. tracked \in [Registered -> Entries] /\ tracked[d] \in Entries
  BY DEF DocTypes
<1>2. /\ [tracked[d] EXCEPT !.version = v] \in Entries
      /\ [tracked[d] EXCEPT !.synced = r] \in Entries
      /\ [[tracked[d] EXCEPT !.synced = r] EXCEPT !.version = v] \in Entries
  BY <1>1 DEF Entries
<1>3. [tracked EXCEPT ![d].synced = r] \in [Registered -> Entries]
  BY <1>1, <1>2
<1>4. [tracked EXCEPT ![d].synced = r, ![d].version = v] \in [Registered -> Entries]
  BY <1>1, <1>2
<1> QED
  BY <1>2, <1>3, <1>4

LEMMA DidCloseTypes ==
  ASSUME DocTypes, NEW d
  PROVE  DOMAIN Closed(d) \subseteq Keys /\ \A x \in DOMAIN Closed(d) : Closed(d)[x] \in Copies
<1>1. DOMAIN has \subseteq Keys /\ \A x \in DOMAIN has : has[x] \in Copies
  BY DEF DocTypes
<1>2. CASE Closed(d) = has
  BY <1>1, <1>2
<1>3. CASE Closed(d) = Without(has, tracked[d].key)
  BY <1>1, <1>3 DEF Without
<1> QED
  BY <1>2, <1>3 DEF Closed, DidClose

LEMMA DidChangeTypes ==
  ASSUME DocTypes, NEW k \in Keys, NEW v \in Nat, NEW old, NEW new \in Texts
  PROVE  LET h == DidChange(has, k, v, old, new) IN
         DOMAIN h \subseteq Keys /\ \A x \in DOMAIN h : h[x] \in Copies
<1>1. DOMAIN has \subseteq Keys /\ \A x \in DOMAIN has : has[x] \in Copies
  BY DEF DocTypes
<1>2. CASE k \notin DOMAIN has
  BY <1>1, <1>2 DEF DidChange
<1>3. CASE k \in DOMAIN has
  <2> DEFINE e == [version |-> v, text |-> IF old # Garbled /\ has[k].text # old THEN Garbled ELSE new]
  <2>1. e \in Copies
    BY TextTypes DEF Copies
  <2>2. DidChange(has, k, v, old, new) = With(has, k, e)
    BY <1>3 DEF DidChange
  <2> HIDE DEF e
  <2> QED
    BY <1>1, <2>1, <2>2 DEF With
<1> QED
  BY <1>2, <1>3

LEMMA OpenTypes ==
  ASSUME DocTypes, NEW d \in Docs, NEW k \in Keys, OpenDoc(d, k)
  PROVE  DocTypes'
<1> DEFINE v == IF OpensAndCloses THEN NextVersion(k) ELSE NoVersion
           entry == [key |-> k, synced |-> rev[d], version |-> v]
<1>1. v \in Nat
  BY DEF NextVersion, NoVersion, DocTypes
<1>2. DOMAIN tracked' \subseteq Docs
      /\ tracked' \in [DOMAIN tracked' -> Entries]
  <2>1. tracked' = With(tracked, d, entry)
    BY DEF OpenDoc
  <2>2. entry \in Entries
    BY <1>1 DEF DocTypes, Entries
  <2> HIDE DEF entry
  <2> QED
    BY <2>1, <2>2 DEF With, DocTypes, Registered
<1>3. versions' \in [Keys -> Nat]
  BY <1>1 DEF OpenDoc, DocTypes
<1>4. DOMAIN cached' \subseteq Keys
  BY DEF Without, OpenDoc, DocTypes
<1>5. DOMAIN shown' \subseteq Docs /\ \A x \in DOMAIN shown' : shown'[x] \in Diagnoses
  BY DEF Without, OpenDoc, DocTypes
<1>6. DOMAIN has' \subseteq Keys /\ \A x \in DOMAIN has' : has'[x] \in Copies
  <2> DEFINE e == [version |-> v, text |-> IF k \in DOMAIN Closed(d) THEN Garbled ELSE <<d, rev[d]>>]
  <2>1. e \in Copies
    BY <1>1, TextTypes DEF Copies, DocTypes
  <2>2. has' = Closed(d) \/ has' = With(Closed(d), k, e)
    BY DEF OpenDoc, DidOpen
  <2> HIDE DEF e
  <2> QED
    BY <2>1, <2>2, DidCloseTypes DEF With
<1>7. opens' \in 0..MaxOpens
  BY SessionBounds DEF OpenDoc, DocTypes
<1> QED
  BY <1>2, <1>3, <1>4, <1>5, <1>6, <1>7 DEF OpenDoc, DocTypes, Registered

LEMMA CloseTypes ==
  ASSUME DocTypes, NEW d \in Docs, CloseDoc(d)
  PROVE  DocTypes'
<1>1. DOMAIN tracked' \subseteq Docs
      /\ tracked' \in [DOMAIN tracked' -> Entries]
  BY DEF Without, CloseDoc, DocTypes, Registered
<1>2. DOMAIN shown' \subseteq Docs /\ \A x \in DOMAIN shown' : shown'[x] \in Diagnoses
  BY DEF Without, CloseDoc, DocTypes
<1>3. DOMAIN has' \subseteq Keys /\ \A x \in DOMAIN has' : has'[x] \in Copies
  BY DidCloseTypes DEF CloseDoc
<1> QED
  BY <1>1, <1>2, <1>3 DEF CloseDoc, DocTypes, Registered

LEMMA SyncTypes ==
  ASSUME DocTypes, NEW d \in Docs, SyncDoc(d)
  PROVE  DocTypes'
<1> DEFINE k == tracked[d].key
           v == NextVersion(k)
<1>0. d \in Registered
  BY DEF SyncDoc
<1>1. PICK snapshot \in tracked[d].synced + 1 .. rev[d], from \in 0..rev[d], to \in 0..rev[d] :
        \/ /\ tracked' = [tracked EXCEPT ![d].synced = snapshot, ![d].version = v]
           /\ versions' = [versions EXCEPT ![k] = v]
           /\ \/ has' = DidChange(has, k, v, <<d, from>>, <<d, to>>)
              \/ has' = DidChange(has, k, v, Garbled, <<d, snapshot>>)
        \/ /\ tracked' = [tracked EXCEPT ![d].synced = snapshot]
           /\ UNCHANGED <<versions, has>>
  BY DEF SyncDoc
<1>2. /\ k \in Keys /\ v \in Nat /\ snapshot \in 0..MaxRev /\ to \in 0..MaxRev
      /\ <<d, snapshot>> \in Texts /\ <<d, to>> \in Texts
  <2>1. snapshot \in 0..MaxRev /\ to \in 0..MaxRev
    BY <1>0, SessionBounds, TrackedFacts
  <2> QED
    BY <1>0, <2>1, TrackedFacts, TextTypes DEF NextVersion
<1>3. /\ versions' \in [Keys -> Nat]
      /\ tracked' \in [Registered -> Entries]
      /\ DOMAIN tracked' = Registered
  <2>1. tracked' \in [Registered -> Entries]
    <3>1. /\ [tracked EXCEPT ![d].synced = snapshot] \in [Registered -> Entries]
          /\ [tracked EXCEPT ![d].synced = snapshot, ![d].version = v] \in [Registered -> Entries]
      BY <1>0, <1>2, EntryTypes
    <3> QED
      BY <1>1, <3>1
  <2>2. versions' \in [Keys -> Nat]
    BY <1>1, <1>2 DEF DocTypes
  <2> QED
    BY <2>1, <2>2
<1>4. DOMAIN has' \subseteq Keys /\ \A x \in DOMAIN has' : has'[x] \in Copies
  BY <1>1, <1>2, DidChangeTypes DEF DocTypes
<1> QED
  BY <1>3, <1>4 DEF SyncDoc, DocTypes, Registered

LEMMA InitializedTypes ==
  ASSUME DocTypes, NEW s \in Servers, InitializedDocs(s)
  PROVE  DocTypes'
<1>1. CASE ~s.openClose
  BY <1>1 DEF InitializedDocs, DocTypes, Registered
<1>2. CASE s.openClose
  <2>1. \A k \in Keys : NextVersion(k) \in Nat
    BY DEF NextVersion, DocTypes
  <2>2. versions' \in [Keys -> Nat]
    BY <1>2, <2>1 DEF InitializedDocs, DocTypes
  <2>3. /\ tracked' \in [Registered -> Entries]
        /\ DOMAIN tracked' = Registered
    <3>1. \A d \in Registered : [tracked[d] EXCEPT !.version = NextVersion(tracked[d].key)] \in Entries
      BY <2>1, TrackedFacts, EntryTypes, SessionBounds
    <3> QED
      BY <1>2, <3>1 DEF InitializedDocs
  <2>4. OpenKeys \subseteq Keys
    BY TrackedFacts DEF OpenKeys
  <2>5. \A k \in OpenKeys : LET d == CHOOSE x \in Named(k) : TRUE IN
          [version |-> NextVersion(k), text |-> <<d, tracked[d].synced>>] \in Copies
    <3> SUFFICES ASSUME NEW k \in OpenKeys
                 PROVE  LET d == CHOOSE x \in Named(k) : TRUE IN
                        [version |-> NextVersion(k), text |-> <<d, tracked[d].synced>>] \in Copies
      OBVIOUS
    <3> DEFINE d == CHOOSE x \in Named(k) : TRUE
    <3>1. \E x : x \in Named(k)
      BY DEF OpenKeys, Named
    <3>2. d \in Registered
      BY <3>1 DEF Named
    <3> HIDE DEF d
    <3>3. <<d, tracked[d].synced>> \in Texts
      BY <3>2, TrackedFacts, TextTypes
    <3>4. NextVersion(k) \in Nat
      BY <2>1, <2>4
    <3> QED
      BY <3>3, <3>4 DEF Copies, d
  <2>6. DOMAIN has' \subseteq Keys /\ \A x \in DOMAIN has' : has'[x] \in Copies
    <3> DEFINE e(k) == LET d == CHOOSE x \in Named(k) : TRUE IN
                       [version |-> NextVersion(k), text |-> <<d, tracked[d].synced>>]
    <3>1. has' = [k \in OpenKeys |-> e(k)]
      BY <1>2 DEF InitializedDocs
    <3>2. \A k \in OpenKeys : e(k) \in Copies
      BY <2>5
    <3> HIDE DEF e
    <3> QED
      BY <2>4, <3>1, <3>2
  <2> QED
    BY <2>2, <2>3, <2>6 DEF InitializedDocs, DocTypes, Registered
<1> QED
  BY <1>1, <1>2

LEMMA PublishTypes ==
  ASSUME DocTypes, NEW k \in Keys, Publish(k)
  PROVE  DocTypes'
<1>1. PICK versioned \in BOOLEAN, empty \in BOOLEAN :
        /\ versioned => k \in DOMAIN has
        /\ inbox' = Append(inbox,
             [key     |-> k,
              version |-> IF versioned THEN has[k].version ELSE NoVersion,
              text    |-> IF k \in DOMAIN has THEN has[k].text ELSE Disk,
              empty   |-> empty])
  BY DEF Publish
<1>2. k \in DOMAIN has => has[k].version \in Nat /\ has[k].text \in Texts
  BY DEF DocTypes, Copies
<1>3. [key     |-> k,
       version |-> IF versioned THEN has[k].version ELSE NoVersion,
       text    |-> IF k \in DOMAIN has THEN has[k].text ELSE Disk,
       empty   |-> empty] \in Publications
  BY <1>1, <1>2, TextTypes DEF Publications, NoVersion
<1>4. inbox' \in Seq(Publications)
  BY <1>1, <1>3, AppendProperties DEF DocTypes
<1> QED
  BY <1>4 DEF Publish, DocTypes, Registered

LEMMA ReceiveTypes ==
  ASSUME DocTypes, ReceivePublish
  PROVE  DocTypes'
<1> DEFINE p == Head(inbox)
<1>1. p \in Publications /\ inbox' \in Seq(Publications)
  BY HeadTailProperties DEF ReceivePublish, DocTypes
<1>2. p.key \in Keys /\ p.text \in Texts /\ p.version \in Nat
  BY <1>1 DEF Publications
<1>3. DOMAIN cached' \subseteq Keys
  BY <1>2 DEF With, Without, ReceivePublish, DocTypes
<1>4. DOMAIN shown' \subseteq Docs /\ \A x \in DOMAIN shown' : shown'[x] \in Diagnoses
  <2>1. \A d \in Named(p.key) : [text |-> p.text, stamp |-> tracked[d].synced, version |-> p.version] \in Diagnoses
    BY <1>2, TrackedFacts DEF Diagnoses, Named
  <2>2. \A d \in DOMAIN shown : shown[d] \in Diagnoses
    BY DEF DocTypes
  <2> QED
    BY <2>1, <2>2 DEF ReceivePublish
<1> QED
  BY <1>1, <1>3, <1>4 DEF ReceivePublish, DocTypes, Registered

\* The steps of the connection and of the editors.
LEMMA ConnectionTypes ==
  ASSUME DocTypes
  PROVE  /\ RefusedDocs => DocTypes'
         /\ ShutdownDocs => DocTypes'
         /\ DisconnectedDocs => DocTypes'
         /\ ReinitializeDocs => DocTypes'
         /\ \A d \in Docs : Edit(d) => DocTypes'
<1>1. ASSUME RefusedDocs PROVE DocTypes'
  BY <1>1, NothingFacts DEF RefusedDocs, DocTypes, Registered
<1>2. ASSUME ShutdownDocs PROVE DocTypes'
  BY <1>2 DEF ShutdownDocs, DocTypes, Registered
<1>3. ASSUME DisconnectedDocs PROVE DocTypes'
  <2>1. /\ tracked' \in [Registered -> Entries]
        /\ DOMAIN tracked' = Registered
    <3>1. \A d \in Registered : [tracked[d] EXCEPT !.version = NoVersion] \in Entries
      <4> SUFFICES ASSUME NEW d \in Registered PROVE [tracked[d] EXCEPT !.version = NoVersion] \in Entries
        OBVIOUS
      <4>1. NoVersion \in Nat /\ 0 \in 0..MaxRev
        BY SessionBounds DEF NoVersion
      <4> QED
        BY <4>1, EntryTypes
    <3> QED
      BY <1>3, <3>1 DEF DisconnectedDocs
  <2> QED
    BY <1>3, <2>1, NothingFacts DEF DisconnectedDocs, DocTypes, Registered
<1>4. ASSUME ReinitializeDocs PROVE DocTypes'
  BY <1>4, SessionBounds DEF ReinitializeDocs, DocTypes, Registered
<1>5. ASSUME NEW d \in Docs, Edit(d) PROVE DocTypes'
  BY <1>5, SessionBounds DEF Edit, DocTypes, Registered
<1> QED
  BY <1>1, <1>2, <1>3, <1>4, <1>5
----------------------------------------------------------------------------
\* The steps that leave the documents' texts alone.
LEMMA InitDocInv == DocInit => DocInv
<1> SUFFICES ASSUME DocInit PROVE DocInv
  OBVIOUS
<1>1. DocTypes
  BY InitDocTypes
<1>2. /\ Registered = {} /\ state = "Initializing" /\ link = "Up"
      /\ inbox = <<>> /\ DOMAIN cached = {} /\ DOMAIN shown = {}
  BY NothingFacts DEF DocInit, Registered
<1> QED
  BY <1>1, <1>2 DEF DocInv, KeysApart, VersionsAreMarks, UpWhileInUse, NothingOutlives,
    ServerHasSynced, CacheIsCurrent, PublishesAreOld, DiagnosticsFit, Follows

\* What a step leaves true that touches neither the table nor the server's copies.
LEMMA SameTable ==
  ASSUME DocInv, UNCHANGED <<state, server, tracked, versions, has>>
  PROVE  KeysApart' /\ VersionsAreMarks' /\ ServerHasSynced'
BY DEF DocInv, KeysApart, VersionsAreMarks, ServerHasSynced, Registered, OpenKeys, OpensAndCloses

\* A stopped session has nothing to follow.
LEMMA StoppedFacts ==
  ASSUME state' # "Running"
  PROVE  ServerHasSynced' /\ PublishesAreOld' /\ DiagnosticsFit' /\ ~OpensAndCloses'
BY DEF ServerHasSynced, PublishesAreOld, DiagnosticsFit, Follows, OpensAndCloses

LEMMA EditInv ==
  ASSUME DocInv, NEW d \in Docs, Edit(d)
  PROVE  DocInv'
<1>1. DocTypes'
  BY ConnectionTypes DEF DocInv
<1>2. UNCHANGED <<state, server, link, connection, tracked, versions, cached, has, inbox, shown>>
  BY DEF Edit
<1>3. UpWhileInUse' /\ NothingOutlives' /\ CacheIsCurrent' /\ PublishesAreOld' /\ DiagnosticsFit'
  BY <1>2 DEF DocInv, UpWhileInUse, NothingOutlives, CacheIsCurrent, PublishesAreOld,
    DiagnosticsFit, Follows, OldCopy, Named, OpenKeys, Registered
<1> QED
  BY <1>1, <1>2, <1>3, SameTable DEF DocInv

LEMMA RefusedInv ==
  ASSUME DocInv, RefusedDocs
  PROVE  DocInv'
<1>1. DocTypes'
  BY ConnectionTypes DEF DocInv
<1>2. state' # "Running" /\ ~OpensAndCloses'
  BY StoppedFacts DEF RefusedDocs
<1>3. KeysApart' /\ VersionsAreMarks'
  BY <1>2 DEF RefusedDocs, DocInv, KeysApart, VersionsAreMarks, Registered
<1>4. DOMAIN cached = {} /\ DOMAIN shown = {}
  BY DEF RefusedDocs, DocInv, NothingOutlives
<1>5. UpWhileInUse' /\ NothingOutlives' /\ CacheIsCurrent'
  BY <1>4 DEF RefusedDocs, UpWhileInUse, NothingOutlives, CacheIsCurrent
<1> QED
  BY <1>1, <1>2, <1>3, <1>5, StoppedFacts DEF DocInv

LEMMA ShutdownInv ==
  ASSUME DocInv, ShutdownDocs
  PROVE  DocInv'
<1>1. DocTypes'
  BY ConnectionTypes DEF DocInv
<1>2. state' # "Running" /\ ~OpensAndCloses'
  BY StoppedFacts DEF ShutdownDocs
<1>3. KeysApart' /\ VersionsAreMarks' /\ CacheIsCurrent'
  BY <1>2 DEF ShutdownDocs, DocInv, KeysApart, VersionsAreMarks, CacheIsCurrent, Registered, OpenKeys
<1>4. UpWhileInUse' /\ NothingOutlives'
  BY DEF ShutdownDocs, DocInv, UpWhileInUse, NothingOutlives
<1> QED
  BY <1>1, <1>2, <1>3, <1>4, StoppedFacts DEF DocInv

LEMMA DisconnectedInv ==
  ASSUME DocInv, DisconnectedDocs
  PROVE  DocInv'
<1>1. DocTypes'
  BY ConnectionTypes DEF DocInv
<1>2. state' # "Running" /\ ~OpensAndCloses'
  BY StoppedFacts DEF DisconnectedDocs
<1>3. Registered' = Registered
  BY DEF DisconnectedDocs, Registered
<1>4. \A d \in Registered : tracked'[d].key = tracked[d].key /\ tracked'[d].version = NoVersion
  BY TrackedFacts DEF DisconnectedDocs, DocInv, DocTypes, Entries
<1>5. \A d \in Registered : versions'[tracked[d].key] \in Nat
  BY TrackedFacts DEF DisconnectedDocs, DocInv
<1>6. KeysApart' /\ VersionsAreMarks'
  BY <1>2, <1>3, <1>4, <1>5 DEF DocInv, KeysApart, VersionsAreMarks, NoVersion
<1>7. UpWhileInUse' /\ NothingOutlives' /\ CacheIsCurrent'
  BY NothingFacts DEF DisconnectedDocs, UpWhileInUse, NothingOutlives, CacheIsCurrent
<1> QED
  BY <1>1, <1>2, <1>6, <1>7, StoppedFacts DEF DocInv

LEMMA ReinitializeInv ==
  ASSUME DocInv, ReinitializeDocs
  PROVE  DocInv'
<1>1. DocTypes'
  BY ConnectionTypes DEF DocInv
<1>2. state' # "Running" /\ ~OpensAndCloses'
  BY StoppedFacts DEF ReinitializeDocs
<1>3. inbox = <<>> /\ DOMAIN cached = {} /\ DOMAIN shown = {}
  BY DEF ReinitializeDocs, DocInv, NothingOutlives
<1>4. KeysApart' /\ VersionsAreMarks'
  BY <1>2 DEF ReinitializeDocs, DocInv, KeysApart, VersionsAreMarks, Registered
<1>5. UpWhileInUse' /\ NothingOutlives' /\ CacheIsCurrent'
  BY <1>3 DEF ReinitializeDocs, UpWhileInUse, NothingOutlives, CacheIsCurrent
<1> QED
  BY <1>1, <1>2, <1>4, <1>5, StoppedFacts DEF DocInv

----------------------------------------------------------------------------
\* Publishing and receiving.
LEMMA PublishInv ==
  ASSUME DocInv, NEW k \in Keys, Publish(k)
  PROVE  DocInv'
<1>1. DocTypes'
  BY PublishTypes DEF DocInv
<1>2. UNCHANGED <<state, server, link, connection, tracked, versions, cached, has, shown>>
  BY DEF Publish
<1>3. UpWhileInUse' /\ NothingOutlives' /\ CacheIsCurrent' /\ DiagnosticsFit'
  <2>1. state # "Initializing" /\ link \notin {"Down", "Over"}
    BY DEF Publish, DocInv, UpWhileInUse
  <2> QED
    BY <1>2, <2>1 DEF DocInv, UpWhileInUse, NothingOutlives, CacheIsCurrent, DiagnosticsFit,
      Follows, OpenKeys, Registered
<1>4. ASSUME Follows
      PROVE  \A i \in 1..Len(inbox') : inbox'[i].version # NoVersion =>
               OldCopy(inbox'[i].key, inbox'[i].version, inbox'[i].text)
  <2>1. PICK versioned \in BOOLEAN, empty \in BOOLEAN :
          /\ versioned => k \in DOMAIN has
          /\ inbox' = Append(inbox,
               [key     |-> k,
                version |-> IF versioned THEN has[k].version ELSE NoVersion,
                text    |-> IF k \in DOMAIN has THEN has[k].text ELSE Disk,
                empty   |-> empty])
    BY DEF Publish
  <2> DEFINE p == [key     |-> k,
                   version |-> IF versioned THEN has[k].version ELSE NoVersion,
                   text    |-> IF k \in DOMAIN has THEN has[k].text ELSE Disk,
                   empty   |-> empty]
  <2>2. p.version # NoVersion => OldCopy(p.key, p.version, p.text)
    <3> SUFFICES ASSUME p.version # NoVersion PROVE OldCopy(k, has[k].version, has[k].text)
      BY <2>1
    <3>1. k \in OpenKeys
      BY <1>4, <2>1 DEF DocInv, ServerHasSynced, Follows
    <3>2. \A d \in Named(k) : /\ has[k].version = tracked[d].version
                              /\ has[k].text = <<d, tracked[d].synced>>
                              /\ tracked[d].version <= versions[k]
      BY <1>4 DEF DocInv, ServerHasSynced, VersionsAreMarks, Follows, Named
    <3>3. \E d : d \in Named(k)
      BY <3>1 DEF OpenKeys, Named
    <3> QED
      BY <3>2, <3>3 DEF OldCopy
  <2>3. \A i \in 1..Len(inbox) : inbox[i].version # NoVersion =>
          OldCopy(inbox[i].key, inbox[i].version, inbox[i].text)
    BY <1>4 DEF DocInv, PublishesAreOld
  <2>4. inbox' = Append(inbox, p) /\ inbox \in Seq(Publications) /\ p \in Publications
    BY <2>1, <1>1, AppendProperties DEF DocInv, DocTypes, Copies, Publications, Texts, NoVersion
  <2> HIDE DEF p
  <2> QED
    BY <2>2, <2>3, <2>4, AppendProperties
<1>5. PublishesAreOld'
  BY <1>2, <1>4 DEF PublishesAreOld, Follows, OldCopy, Named, Registered
<1> QED
  BY <1>1, <1>2, <1>3, <1>5, SameTable DEF DocInv

LEMMA ReceiveInv ==
  ASSUME DocInv, ReceivePublish
  PROVE  DocInv'
<1> DEFINE p == Head(inbox)
<1>1. DocTypes'
  BY ReceiveTypes DEF DocInv
<1>2. UNCHANGED <<state, server, link, connection, tracked, versions, has>> /\ inbox' = Tail(inbox)
  BY DEF ReceivePublish
<1>3. inbox # <<>> /\ inbox \in Seq(Publications)
  BY DEF ReceivePublish, DocInv, DocTypes
<1>4. UpWhileInUse' /\ NothingOutlives'
  BY <1>2, <1>3 DEF DocInv, UpWhileInUse, NothingOutlives
<1>5. CacheIsCurrent'
  <2>1. cached' = cached \/ cached' = Without(cached, p.key)
          \/ (Named(p.key) = {} /\ cached' = With(cached, p.key, connection))
    BY DEF ReceivePublish
  <2>2. Named(p.key) = {} => p.key \notin OpenKeys
    BY DEF Named, OpenKeys
  <2>3. \A k \in DOMAIN cached' : cached'[k] = connection /\ k \notin OpenKeys
    BY <2>1, <2>2 DEF DocInv, CacheIsCurrent, With, Without
  <2> QED
    BY <1>2, <2>3 DEF CacheIsCurrent, OpenKeys, Registered
<1>6. PublishesAreOld'
  <2>1. \A i \in 1..Len(Tail(inbox)) : i + 1 \in 1..Len(inbox) /\ Tail(inbox)[i] = inbox[i + 1]
    BY <1>3, HeadTailProperties
  <2>2. ASSUME Follows
        PROVE  \A i \in 1..Len(inbox') : inbox'[i].version # NoVersion =>
                 OldCopy(inbox'[i].key, inbox'[i].version, inbox'[i].text)
    BY <1>2, <2>1, <2>2 DEF DocInv, PublishesAreOld
  <2> QED
    BY <1>2, <2>2 DEF PublishesAreOld, Follows, OldCopy, Named, Registered
<1>7. DiagnosticsFit'
  <2> SUFFICES ASSUME Follows, NEW d \in DOMAIN shown', shown'[d].version # NoVersion
               PROVE  shown'[d].text = <<d, shown'[d].stamp>>
    BY <1>2 DEF DiagnosticsFit, Follows
  <2>1. shown' = [x \in {y \in Docs : y \in DOMAIN shown \/ (y \in Named(p.key) /\ Shows(y, p))} |->
                    IF x \in Named(p.key) /\ Shows(x, p)
                    THEN [text |-> p.text, stamp |-> tracked[x].synced, version |-> p.version]
                    ELSE shown[x]]
    BY DEF ReceivePublish
  <2>2. CASE d \in Named(p.key) /\ Shows(d, p)
    <3>1. shown'[d] = [text |-> p.text, stamp |-> tracked[d].synced, version |-> p.version]
      BY <2>1, <2>2
    <3>2. p.version # NoVersion /\ p.version = tracked[d].version
      BY <2>2, <3>1 DEF Shows
    <3>3. inbox[1] = p /\ 1 \in 1..Len(inbox)
      BY <1>3, HeadTailProperties
    <3>4. OldCopy(p.key, p.version, p.text)
      BY <3>2, <3>3 DEF DocInv, PublishesAreOld
    <3> QED
      BY <2>2, <3>1, <3>2, <3>4 DEF OldCopy
  <2>3. CASE ~(d \in Named(p.key) /\ Shows(d, p))
    <3>1. d \in DOMAIN shown /\ shown'[d] = shown[d]
      BY <2>1, <2>3
    <3> QED
      BY <3>1 DEF DocInv, DiagnosticsFit
  <2> QED
    BY <2>2, <2>3
<1> QED
  BY <1>1, <1>2, <1>4, <1>5, <1>6, <1>7, SameTable DEF DocInv
----------------------------------------------------------------------------
\* The steps that change the table and the server's copies.
\* What closing, opening and syncing make of the table.
LEMMA CloseFacts ==
  ASSUME DocInv, NEW d \in Docs, CloseDoc(d)
  PROVE  /\ Registered' = Registered \ {d}
         /\ \A e \in Registered' : tracked'[e] = tracked[e]
         /\ \A x : Named(x)' = Named(x) \ {d}
         /\ OpenKeys' \subseteq OpenKeys /\ OpenKeys' = {tracked[e].key : e \in Registered \ {d}}
<1>1. /\ Registered' = Registered \ {d}
      /\ \A e \in Registered' : tracked'[e] = tracked[e]
  BY DEF CloseDoc, Registered, Without
<1>2. \A x : Named(x)' = Named(x) \ {d}
  BY <1>1 DEF Named
<1>3. OpenKeys' \subseteq OpenKeys /\ OpenKeys' = {tracked[e].key : e \in Registered \ {d}}
  BY <1>1 DEF OpenKeys
<1> QED
  BY <1>1, <1>2, <1>3

LEMMA OpenFacts ==
  ASSUME DocInv, NEW d \in Docs, NEW k \in Keys, OpenDoc(d, k)
  PROVE  /\ Registered' = Registered \cup {d}
         /\ \A e \in Registered \ {d} : tracked'[e] = tracked[e] /\ tracked[e].key # k
         /\ \A x \in Keys \ {k} : Named(x)' = Named(x) \ {d}
         /\ Named(k)' = {d}
         /\ OpenKeys' = {tracked[e].key : e \in Registered \ {d}} \cup {k}
         /\ versions \in [Keys -> Nat] /\ versions'[k] \in Nat /\ versions[k] <= versions'[k]
         /\ \A x \in Keys \ {k} : versions'[x] = versions[x]
         /\ LET v == IF OpensAndCloses THEN NextVersion(k) ELSE NoVersion IN
            /\ tracked'[d] = [key |-> k, synced |-> rev[d], version |-> v]
            /\ v <= versions'[k]
            /\ OpensAndCloses => versions[k] < v
<1> DEFINE v == IF OpensAndCloses THEN NextVersion(k) ELSE NoVersion
           entry == [key |-> k, synced |-> rev[d], version |-> v]
<1>1. /\ Registered' = Registered \cup {d}
      /\ \A e \in Registered \ {d} : tracked'[e] = tracked[e]
      /\ tracked'[d] = entry
  BY DEF OpenDoc, Registered, With
<1>2. \A e \in Registered \ {d} : tracked[e].key # k
  BY DEF OpenDoc, Named
<1>3. /\ \A x \in Keys \ {k} : Named(x)' = Named(x) \ {d}
      /\ Named(k)' = {d}
  BY <1>1, <1>2 DEF Named
<1>4. OpenKeys' = {tracked[e].key : e \in Registered \ {d}} \cup {k}
  BY <1>1 DEF OpenKeys
<1>5. /\ versions \in [Keys -> Nat] /\ versions'[k] \in Nat
      /\ \A x \in Keys \ {k} : versions'[x] = versions[x]
      /\ versions[k] <= versions'[k] /\ v <= versions'[k]
      /\ OpensAndCloses => versions[k] < v
  BY DEF OpenDoc, DocInv, DocTypes, NextVersion, NoVersion
<1> QED
  BY <1>1, <1>2, <1>3, <1>4, <1>5

LEMMA SyncFacts ==
  ASSUME DocInv, NEW d \in Docs, SyncDoc(d)
  PROVE  LET k == tracked[d].key
             told == OpensAndCloses /\ server.change # "None"
         IN
         /\ Registered' = Registered /\ d \in Registered
         /\ \A e \in Registered \ {d} : tracked'[e] = tracked[e] /\ tracked[e].key # k
         /\ \A e \in Registered : tracked'[e].key = tracked[e].key
         /\ OpenKeys' = OpenKeys
         /\ \A x : Named(x)' = Named(x)
         /\ tracked'[d].synced > tracked[d].synced
         /\ told => /\ tracked'[d].version = versions[k] + 1 /\ versions'[k] = versions[k] + 1
                    /\ \A x \in Keys \ {k} : versions'[x] = versions[x]
                    /\ \/ has' = DidChange(has, k, versions[k] + 1, <<d, tracked[d].synced>>, <<d, tracked'[d].synced>>)
                       \/ has' = DidChange(has, k, versions[k] + 1, Garbled, <<d, tracked'[d].synced>>)
         /\ ~told => /\ tracked'[d].version = tracked[d].version
                     /\ UNCHANGED <<versions, has>>
<1> DEFINE k == tracked[d].key
           v == versions[k] + 1
<1>0. d \in Registered
  BY DEF SyncDoc
<1>1. PICK snapshot \in tracked[d].synced + 1 .. rev[d], from \in 0..rev[d], to \in 0..rev[d] :
        LET told == OpensAndCloses /\ tracked[d].version # NoVersion /\ server.change # "None"
            ranges == server.change = "Incremental" /\ Leads(d, snapshot, from, to)
        IN
        IF told
        THEN /\ tracked' = [tracked EXCEPT ![d].synced = snapshot, ![d].version = v]
             /\ versions' = [versions EXCEPT ![k] = v]
             /\ has' = IF ranges THEN DidChange(has, k, v, <<d, from>>, <<d, to>>)
                                 ELSE DidChange(has, k, v, Garbled, <<d, snapshot>>)
        ELSE /\ tracked' = [tracked EXCEPT ![d].synced = snapshot]
             /\ UNCHANGED <<versions, has>>
  BY DEF SyncDoc, NextVersion
<1>2. /\ k \in Keys /\ versions \in [Keys -> Nat] /\ versions[k] \in Nat
      /\ tracked \in [Registered -> Entries] /\ tracked[d].version \in Nat
      /\ tracked[d].synced \in Nat /\ rev[d] \in Nat
  BY <1>0, SessionBounds, TrackedFacts DEF DocInv, DocTypes
<1>3. /\ Registered' = Registered
      /\ \A e \in Registered \ {d} : tracked'[e] = tracked[e]
      /\ tracked'[d].key = k /\ tracked'[d].synced = snapshot
      /\ \A e \in Registered : tracked'[e].key = tracked[e].key
  BY <1>0, <1>1, <1>2 DEF Registered, Entries
<1>4. /\ OpenKeys' = OpenKeys
      /\ \A x : Named(x)' = Named(x)
  BY <1>3 DEF OpenKeys, Named
<1>5. \A e \in Registered \ {d} : tracked[e].key # k
  BY <1>0 DEF DocInv, KeysApart
<1>6. ASSUME OpensAndCloses, server.change # "None"
      PROVE  /\ tracked'[d].version = v /\ versions'[k] = v
             /\ \A x \in Keys \ {k} : versions'[x] = versions[x]
             /\ \/ has' = DidChange(has, k, v, <<d, tracked[d].synced>>, <<d, tracked'[d].synced>>)
                \/ has' = DidChange(has, k, v, Garbled, <<d, tracked'[d].synced>>)
  <2>1. tracked[d].version # NoVersion
    BY <1>0, <1>6 DEF DocInv, VersionsAreMarks
  <2>2. /\ tracked' = [tracked EXCEPT ![d].synced = snapshot, ![d].version = v]
        /\ versions' = [versions EXCEPT ![k] = v]
        /\ \/ has' = DidChange(has, k, v, <<d, tracked[d].synced>>, <<d, snapshot>>)
           \/ has' = DidChange(has, k, v, Garbled, <<d, snapshot>>)
    BY <1>1, <1>6, <2>1 DEF Leads
  <2>3. tracked'[d].version = v
    BY <1>0, <1>2, <2>2 DEF Entries
  <2>4. versions'[k] = v /\ \A x \in Keys \ {k} : versions'[x] = versions[x]
    BY <1>2, <2>2
  <2> QED
    BY <1>3, <2>2, <2>3, <2>4
<1>7. ASSUME ~(OpensAndCloses /\ server.change # "None")
      PROVE  tracked'[d].version = tracked[d].version /\ UNCHANGED <<versions, has>>
  <2>1. tracked' = [tracked EXCEPT ![d].synced = snapshot] /\ UNCHANGED <<versions, has>>
    BY <1>1, <1>7
  <2> QED
    BY <1>0, <1>2, <2>1 DEF Entries
<1>8. tracked'[d].synced > tracked[d].synced
  BY <1>2, <1>3
<1> QED
  BY <1>0, <1>3, <1>4, <1>5, <1>6, <1>7, <1>8

\* An old copy stays told from the present one by its version.
LEMMA OldKept ==
  ASSUME DocInv, Follows, NEW d \in Docs,
         Edit(d) \/ SyncDoc(d) \/ CloseDoc(d) \/ (\E k \in Keys : OpenDoc(d, k)),
         NEW x \in Keys, NEW v \in Nat, NEW text, OldCopy(x, v, text)
  PROVE  /\ v <= versions'[x]
         /\ \A e \in Named(x)' : v = tracked'[e].version => text = <<e, tracked'[e].synced>>
<1>1. /\ v <= versions[x] /\ versions[x] \in Nat
      /\ \A e \in Named(x) : v = tracked[e].version => text = <<e, tracked[e].synced>>
  BY DEF OldCopy, DocInv, DocTypes
<1>2. OpensAndCloses /\ server.change # "None"
  BY DEF Follows, OpensAndCloses
<1>3. CASE Edit(d)
  BY <1>1, <1>3 DEF Edit, Named, Registered
<1>4. CASE CloseDoc(d)
  <2>1. versions' = versions
    BY <1>4 DEF CloseDoc
  <2> QED
    BY <1>1, <1>4, <2>1, CloseFacts DEF Named
<1>5. CASE SyncDoc(d)
  <2>1. /\ \A e \in Registered \ {d} : tracked'[e] = tracked[e] /\ tracked[e].key # tracked[d].key
        /\ Named(x)' = Named(x)
        /\ tracked'[d].version = versions[tracked[d].key] + 1
        /\ versions'[tracked[d].key] = versions[tracked[d].key] + 1
        /\ x # tracked[d].key => versions'[x] = versions[x]
    BY <1>2, <1>5, SyncFacts
  <2>2. CASE x = tracked[d].key
    <3>1. \A e \in Named(x) : tracked'[e].version = versions[x] + 1
      BY <2>1, <2>2 DEF Named
    <3> QED
      BY <1>1, <2>1, <2>2, <3>1
  <2>3. CASE x # tracked[d].key
    <3>1. \A e \in Named(x) : tracked'[e] = tracked[e]
      BY <2>1, <2>3 DEF Named
    <3> QED
      BY <1>1, <2>1, <2>3, <3>1
  <2> QED
    BY <2>2, <2>3
<1>6. ASSUME NEW k \in Keys, OpenDoc(d, k)
      PROVE  /\ v <= versions'[x]
             /\ \A e \in Named(x)' : v = tracked'[e].version => text = <<e, tracked'[e].synced>>
  <2>1. /\ \A e \in Registered \ {d} : tracked'[e] = tracked[e]
        /\ tracked'[d].version > versions[k] /\ versions'[k] >= versions[k] /\ versions'[k] \in Nat
        /\ x # k => versions'[x] = versions[x] /\ Named(x)' = Named(x) \ {d}
        /\ Named(k)' = {d}
    <3> DEFINE w == NextVersion(k)
               entry == [key |-> k, synced |-> rev[d], version |-> w]
    <3>1. tracked'[d] = entry /\ versions[k] < w
      BY <1>2, <1>6, OpenFacts
    <3>2. tracked'[d].version = w
      BY <3>1
    <3> HIDE DEF w, entry
    <3>3. versions[k] \in Nat
      BY DEF DocInv, DocTypes
    <3>4. w > versions[k]
      BY <3>1, <3>3
    <3>5. versions'[k] >= versions[k] /\ versions'[k] \in Nat
      BY <1>6, <3>3, OpenFacts
    <3>6. (\A e \in Registered \ {d} : tracked'[e] = tracked[e]) /\ Named(k)' = {d}
      BY <1>6, OpenFacts
    <3>7. \A y \in Keys \ {k} : versions'[y] = versions[y] /\ Named(y)' = Named(y) \ {d}
      BY <1>6, OpenFacts
    <3> QED
      BY <3>2, <3>4, <3>5, <3>6, <3>7
  <2>2. CASE x = k
    BY <1>1, <2>1, <2>2
  <2>3. CASE x # k
    <3>1. \A e \in Named(x) \ {d} : tracked'[e] = tracked[e]
      BY <2>1, <2>3 DEF Named
    <3> QED
      BY <1>1, <2>1, <2>3, <3>1
  <2> QED
    BY <2>2, <2>3
<1> QED
  BY <1>3, <1>4, <1>5, <1>6

\* So the publishes under way stay old ones.
LEMMA PublishesKept ==
  ASSUME DocInv, UNCHANGED <<state, server, inbox>>, NEW d \in Docs,
         Edit(d) \/ SyncDoc(d) \/ CloseDoc(d) \/ (\E k \in Keys : OpenDoc(d, k))
  PROVE  PublishesAreOld'
<1> SUFFICES ASSUME Follows, NEW i \in 1..Len(inbox), inbox[i].version # NoVersion
             PROVE  /\ inbox[i].version <= versions'[inbox[i].key]
                    /\ \A e \in Named(inbox[i].key)' :
                         inbox[i].version = tracked'[e].version => inbox[i].text = <<e, tracked'[e].synced>>
  BY DEF PublishesAreOld, Follows, OldCopy, Named
<1>1. OldCopy(inbox[i].key, inbox[i].version, inbox[i].text)
  BY DEF DocInv, PublishesAreOld
<1>2. inbox[i].key \in Keys /\ inbox[i].version \in Nat
  <2>1. inbox \in Seq(Publications)
    BY DEF DocInv, DocTypes
  <2>2. inbox[i] \in Publications
    BY <2>1
  <2> QED
    BY <2>2 DEF Publications
<1> QED
  BY <1>1, <1>2, OldKept DEF Named

LEMMA CopiesOfClosed ==
  ASSUME DocInv, OpensAndCloses, NEW d \in Docs
  PROVE  /\ DOMAIN Closed(d) = {tracked[e].key : e \in Registered \ {d}}
         /\ \A e \in Registered \ {d} : Closed(d)[tracked[e].key] = has[tracked[e].key]
<1>1. DOMAIN has = OpenKeys
  BY DEF DocInv, ServerHasSynced, OpensAndCloses
<1>2. CASE d \notin Registered
  BY <1>1, <1>2 DEF Closed, OpenKeys
<1>3. CASE d \in Registered
  <2>1. Closed(d) = Without(has, tracked[d].key)
    BY <1>3 DEF Closed, DidClose, DocInv, VersionsAreMarks
  <2>2. \A e \in Registered \ {d} : tracked[e].key # tracked[d].key
    BY <1>3 DEF DocInv, KeysApart
  <2> QED
    BY <1>1, <1>3, <2>1, <2>2 DEF Without, OpenKeys
<1> QED
  BY <1>2, <1>3

LEMMA CloseInv ==
  ASSUME DocInv, NEW d \in Docs, CloseDoc(d)
  PROVE  DocInv'
<1>1. DocTypes'
  BY CloseTypes DEF DocInv
<1>2. UNCHANGED <<state, server, link, connection, versions, cached, inbox>>
  BY DEF CloseDoc
<1>3. /\ Registered' = Registered \ {d}
      /\ \A e \in Registered' : tracked'[e] = tracked[e]
  BY CloseFacts
<1>5. KeysApart' /\ VersionsAreMarks' /\ UpWhileInUse'
  BY <1>2, <1>3 DEF DocInv, KeysApart, VersionsAreMarks, UpWhileInUse, OpensAndCloses
<1>6. OpenKeys' \subseteq OpenKeys /\ OpenKeys' = {tracked[e].key : e \in Registered \ {d}}
  BY CloseFacts
<1>7. NothingOutlives' /\ CacheIsCurrent' /\ DiagnosticsFit'
  BY <1>2, <1>6 DEF CloseDoc, Without, DocInv, NothingOutlives, CacheIsCurrent, DiagnosticsFit, Follows
<1>8. PublishesAreOld'
  BY <1>2, PublishesKept
<1>9. ServerHasSynced'
  <2>1. CASE OpensAndCloses
    <3>1. has' = Closed(d)
      BY DEF CloseDoc
    <3>2. DOMAIN has' = OpenKeys'
      BY <1>6, <2>1, <3>1, CopiesOfClosed
    <3>3. \A e \in Registered \ {d} :
            /\ has'[tracked[e].key] = has[tracked[e].key]
            /\ has[tracked[e].key].version = tracked[e].version
            /\ server.change # "None" => has[tracked[e].key].text = <<e, tracked[e].synced>>
      BY <2>1, <3>1, CopiesOfClosed DEF DocInv, ServerHasSynced, OpensAndCloses
    <3> QED
      BY <1>2, <1>3, <3>2, <3>3 DEF ServerHasSynced
  <2>2. CASE ~OpensAndCloses
    BY <1>2, <2>2 DEF ServerHasSynced, OpensAndCloses
  <2> QED
    BY <2>1, <2>2
<1> QED
  BY <1>1, <1>5, <1>7, <1>8, <1>9 DEF DocInv

LEMMA OpenInv ==
  ASSUME DocInv, NEW d \in Docs, NEW k \in Keys, OpenDoc(d, k)
  PROVE  DocInv'
<1> DEFINE v == IF OpensAndCloses THEN NextVersion(k) ELSE NoVersion
           entry == [key |-> k, synced |-> rev[d], version |-> v]
<1>1. DocTypes'
  BY OpenTypes DEF DocInv
<1>2. UNCHANGED <<state, server, link, connection, inbox>>
  BY DEF OpenDoc
<1>3. /\ Registered' = Registered \cup {d}
      /\ \A e \in Registered \ {d} : tracked'[e] = tracked[e]
      /\ tracked'[d] = entry
  BY OpenFacts
<1>4. \A e \in Registered \ {d} : tracked[e].key # k
  BY DEF OpenDoc, Named
<1>6. OpenKeys' = {tracked[e].key : e \in Registered \ {d}} \cup {k}
  BY OpenFacts
<1>7. /\ versions \in [Keys -> Nat] /\ versions'[k] \in Nat
      /\ \A x \in Keys \ {k} : versions'[x] = versions[x]
      /\ versions[k] <= versions'[k] /\ v <= versions'[k]
      /\ OpensAndCloses => versions[k] < v
  BY OpenFacts
<1>8. KeysApart' /\ UpWhileInUse'
  BY <1>2, <1>3, <1>4 DEF DocInv, KeysApart, UpWhileInUse
<1>9. VersionsAreMarks'
  <2>1. \A e \in Registered \ {d} : /\ tracked'[e].version <= versions'[tracked'[e].key]
                                    /\ OpensAndCloses => tracked'[e].version # NoVersion
    <3> SUFFICES ASSUME NEW e \in Registered \ {d}
                 PROVE  /\ tracked[e].version <= versions'[tracked[e].key]
                        /\ OpensAndCloses => tracked[e].version # NoVersion
      BY <1>3
    <3> QED
      BY <1>4, <1>7, TrackedFacts DEF DocInv, VersionsAreMarks
  <2>2. /\ tracked'[d].version <= versions'[tracked'[d].key]
        /\ OpensAndCloses => tracked'[d].version # NoVersion
    BY <1>3, <1>7 DEF NoVersion
  <2> QED
    BY <1>2, <1>3, <2>1, <2>2 DEF VersionsAreMarks, OpensAndCloses
<1>10. NothingOutlives' /\ DiagnosticsFit'
  BY <1>2 DEF OpenDoc, Without, DocInv, NothingOutlives, DiagnosticsFit, Follows
<1>11. CacheIsCurrent'
  <2>1. OpenKeys' \subseteq OpenKeys \cup {k}
    BY <1>6 DEF OpenKeys
  <2> QED
    BY <1>2, <2>1 DEF OpenDoc, Without, DocInv, CacheIsCurrent
<1>12. PublishesAreOld'
  BY <1>2, PublishesKept
<1>13. ServerHasSynced'
  <2>1. CASE OpensAndCloses
    <3>1. has' = With(Closed(d), k, [version |-> v,
                        text |-> IF k \in DOMAIN Closed(d) THEN Garbled ELSE <<d, rev[d]>>])
      BY <2>1 DEF OpenDoc, DidOpen
    <3>2. k \notin DOMAIN Closed(d)
      <4>1. DOMAIN Closed(d) = {tracked[e].key : e \in Registered \ {d}}
        BY <2>1, CopiesOfClosed
      <4> QED
        BY <1>4, <4>1
    <3>3. DOMAIN has' = OpenKeys'
      BY <1>6, <2>1, <3>1, CopiesOfClosed DEF With
    <3>4. has'[k].version = v /\ has'[k].text = <<d, rev[d]>>
      BY <3>1, <3>2 DEF With
    <3>5. \A e \in Registered \ {d} : has'[tracked[e].key] = has[tracked[e].key]
      BY <1>4, <2>1, <3>1, CopiesOfClosed DEF With
    <3>6. \A e \in Registered \ {d} :
            /\ has[tracked[e].key].version = tracked[e].version
            /\ server.change # "None" => has[tracked[e].key].text = <<e, tracked[e].synced>>
      BY <2>1 DEF DocInv, ServerHasSynced, OpensAndCloses
    <3>7. \A e \in Registered' :
            /\ has'[tracked'[e].key].version = tracked'[e].version
            /\ server.change # "None" => has'[tracked'[e].key].text = <<e, tracked'[e].synced>>
      <4>1. tracked'[d].key = k /\ tracked'[d].version = v /\ tracked'[d].synced = rev[d]
        BY <1>3
      <4> HIDE DEF v, entry
      <4> QED
        BY <1>3, <3>4, <3>5, <3>6, <4>1
    <3> QED
      BY <1>2, <3>3, <3>7 DEF ServerHasSynced
  <2>2. CASE ~OpensAndCloses
    BY <1>2, <2>2 DEF ServerHasSynced, OpensAndCloses
  <2> QED
    BY <2>1, <2>2
<1> QED
  BY <1>1, <1>8, <1>9, <1>10, <1>11, <1>12, <1>13 DEF DocInv

LEMMA InitializedInv ==
  ASSUME DocInv, NEW s \in Servers, InitializedDocs(s)
  PROVE  DocInv'
<1>1. DocTypes'
  BY InitializedTypes DEF DocInv
<1>2. /\ UNCHANGED <<link, connection, cached, inbox, shown>>
      /\ state' = "Running" /\ server' = s /\ link = "Up"
      /\ inbox = <<>> /\ DOMAIN cached = {} /\ DOMAIN shown = {}
  BY DEF InitializedDocs, DocInv, NothingOutlives
<1>3. /\ Registered' = Registered
      /\ \A d \in Registered : tracked'[d].key = tracked[d].key /\ tracked'[d].synced = tracked[d].synced
  <2>1. tracked' = tracked \/ tracked' = [d \in Registered |->
                           [tracked[d] EXCEPT !.version = NextVersion(tracked[d].key)]]
    BY DEF InitializedDocs
  <2> QED
    BY <2>1, TrackedFacts DEF Registered, DocInv, DocTypes, Entries
<1>4. KeysApart' /\ UpWhileInUse' /\ NothingOutlives' /\ CacheIsCurrent' /\ PublishesAreOld' /\ DiagnosticsFit'
  BY <1>2, <1>3 DEF DocInv, KeysApart, UpWhileInUse, NothingOutlives, CacheIsCurrent, PublishesAreOld,
    DiagnosticsFit
<1>5. CASE ~s.openClose
  <2>1. ~OpensAndCloses' /\ UNCHANGED <<tracked, versions>>
    BY <1>2, <1>5 DEF InitializedDocs, OpensAndCloses
  <2>2. VersionsAreMarks' /\ ServerHasSynced'
    BY <1>2, <1>5, <2>1 DEF DocInv, VersionsAreMarks, ServerHasSynced, Registered
  <2> QED
    BY <1>1, <1>4, <2>2 DEF DocInv
<1>6. CASE s.openClose
  <2>1. \A d \in Registered : /\ tracked[d].key \in OpenKeys /\ tracked[d].key \in Keys
                              /\ versions[tracked[d].key] \in Nat
                              /\ tracked'[d].version = versions[tracked[d].key] + 1
    BY <1>6, TrackedFacts DEF InitializedDocs, NextVersion, DocInv, DocTypes, Entries
  <2>2. \A d \in Registered : versions'[tracked[d].key] = versions[tracked[d].key] + 1
    BY <1>6, <2>1 DEF InitializedDocs, NextVersion
  <2>3. VersionsAreMarks'
    BY <1>3, <2>1, <2>2 DEF VersionsAreMarks, NoVersion
  <2>4. \A d \in Registered : (CHOOSE x \in Named(tracked[d].key) : TRUE) = d
    <3> SUFFICES ASSUME NEW d \in Registered PROVE (CHOOSE x \in Named(tracked[d].key) : TRUE) = d
      OBVIOUS
    <3>1. Named(tracked[d].key) = {d}
      BY DEF Named, DocInv, KeysApart
    <3> QED
      BY <3>1
  <2>5. DOMAIN has' = OpenKeys
    BY <1>6 DEF InitializedDocs
  <2>6. \A d \in Registered : has'[tracked[d].key] = [version |-> versions[tracked[d].key] + 1,
                                                      text |-> <<d, tracked[d].synced>>]
    BY <1>6, <2>1, <2>4 DEF InitializedDocs, NextVersion
  <2>7. ServerHasSynced'
    <3>1. \A d \in Registered : /\ has'[tracked'[d].key].version = tracked'[d].version
                                /\ has'[tracked'[d].key].text = <<d, tracked'[d].synced>>
      <4> SUFFICES ASSUME NEW d \in Registered
                   PROVE  /\ has'[tracked'[d].key].version = tracked'[d].version
                          /\ has'[tracked'[d].key].text = <<d, tracked'[d].synced>>
        OBVIOUS
      <4>1. tracked'[d].key = tracked[d].key /\ tracked'[d].synced = tracked[d].synced
        BY <1>3
      <4>2. tracked'[d].version = versions[tracked[d].key] + 1
        BY <2>1
      <4>3. has'[tracked[d].key] = [version |-> versions[tracked[d].key] + 1,
                                    text |-> <<d, tracked[d].synced>>]
        BY <2>6
      <4> QED
        BY <4>1, <4>2, <4>3
    <3>2. DOMAIN has' = OpenKeys'
      BY <1>3, <2>5 DEF OpenKeys
    <3> QED
      BY <1>3, <3>1, <3>2 DEF ServerHasSynced
  <2> QED
    BY <1>1, <1>4, <2>3, <2>7 DEF DocInv
<1> QED
  BY <1>5, <1>6

LEMMA SyncInv ==
  ASSUME DocInv, NEW d \in Docs, SyncDoc(d)
  PROVE  DocInv'
<1> DEFINE k == tracked[d].key
           v == versions[k] + 1
<1>0. d \in Registered
  BY DEF SyncDoc
<1>1. DocTypes'
  BY SyncTypes DEF DocInv
<1>2. UNCHANGED <<state, server, link, connection, cached, inbox, shown>>
  BY DEF SyncDoc
<1>4. k \in Keys /\ versions \in [Keys -> Nat] /\ versions[k] \in Nat
  BY <1>0, TrackedFacts DEF DocInv, DocTypes
<1>5. /\ Registered' = Registered
      /\ \A e \in Registered \ {d} : tracked'[e] = tracked[e]
      /\ tracked'[d].key = k
      /\ \A e \in Registered : tracked'[e].key = tracked[e].key
  BY <1>0, SyncFacts
<1>6. /\ OpenKeys' = OpenKeys
      /\ \A x : Named(x)' = Named(x)
  BY SyncFacts
<1>7. \A e \in Registered \ {d} : tracked[e].key # k
  BY SyncFacts
<1>8. KeysApart' /\ UpWhileInUse' /\ NothingOutlives' /\ CacheIsCurrent' /\ DiagnosticsFit'
  BY <1>2, <1>5, <1>6 DEF DocInv, KeysApart, UpWhileInUse, NothingOutlives, CacheIsCurrent,
    DiagnosticsFit, Follows
<1>9. CASE OpensAndCloses /\ server.change # "None"
  <2>2. \/ has' = DidChange(has, k, v, <<d, tracked[d].synced>>, <<d, tracked'[d].synced>>)
        \/ has' = DidChange(has, k, v, Garbled, <<d, tracked'[d].synced>>)
    BY <1>9, SyncFacts
  <2>3. tracked'[d].version = v
    BY <1>9, SyncFacts
  <2>4. versions'[k] = v /\ \A x \in Keys \ {k} : versions'[x] = versions[x]
    BY <1>9, SyncFacts
  <2>5. VersionsAreMarks'
    <3>1. \A e \in Registered \ {d} : /\ tracked'[e].version <= versions'[tracked'[e].key]
                                      /\ OpensAndCloses => tracked'[e].version # NoVersion
      <4> SUFFICES ASSUME NEW e \in Registered \ {d}
                   PROVE  /\ tracked[e].version <= versions'[tracked[e].key]
                          /\ OpensAndCloses => tracked[e].version # NoVersion
        BY <1>5
      <4>1. tracked[e].key \in Keys \ {k}
        BY <1>7, TrackedFacts DEF DocInv
      <4> QED
        BY <2>4, <4>1 DEF DocInv, VersionsAreMarks
    <3>2. tracked'[d].version <= versions'[tracked'[d].key] /\ tracked'[d].version # NoVersion
      BY <1>4, <1>5, <2>3, <2>4 DEF NoVersion
    <3> QED
      BY <1>2, <1>5, <3>1, <3>2 DEF VersionsAreMarks, OpensAndCloses
  <2>6. ServerHasSynced'
    <3>1. /\ DOMAIN has = OpenKeys /\ has[k].text = <<d, tracked[d].synced>>
          /\ k \in OpenKeys
      BY <1>0, <1>9 DEF DocInv, ServerHasSynced, OpensAndCloses, OpenKeys
    <3>2. has' = With(has, k, [version |-> v, text |-> <<d, tracked'[d].synced>>])
      BY <2>2, <3>1 DEF DidChange
    <3>3. /\ DOMAIN has' = OpenKeys
          /\ has'[k].version = v /\ has'[k].text = <<d, tracked'[d].synced>>
          /\ \A x \in OpenKeys \ {k} : has'[x] = has[x]
      BY <3>1, <3>2 DEF With
    <3>4. \A e \in Registered \ {d} :
            /\ has'[tracked[e].key] = has[tracked[e].key]
            /\ has[tracked[e].key].version = tracked[e].version
            /\ has[tracked[e].key].text = <<e, tracked[e].synced>>
      BY <1>7, <1>9, <3>3 DEF DocInv, ServerHasSynced, OpensAndCloses, OpenKeys
    <3>5. \A e \in Registered : /\ has'[tracked'[e].key].version = tracked'[e].version
                                /\ has'[tracked'[e].key].text = <<e, tracked'[e].synced>>
      BY <1>5, <2>3, <3>3, <3>4
    <3> QED
      BY <1>2, <1>5, <1>6, <3>3, <3>5 DEF ServerHasSynced
  <2>7. PublishesAreOld'
    BY <1>2, PublishesKept
  <2> QED
    BY <1>1, <1>8, <2>5, <2>6, <2>7 DEF DocInv
<1>10. CASE ~(OpensAndCloses /\ server.change # "None")
  <2>1. UNCHANGED <<versions, has>>
    BY <1>10, SyncFacts
  <2>2. \A e \in Registered : tracked'[e].version = tracked[e].version
    BY <1>5, <1>10, SyncFacts
  <2>3. VersionsAreMarks' /\ ServerHasSynced' /\ PublishesAreOld'
    <3>1. VersionsAreMarks'
      BY <1>2, <1>5, <2>1, <2>2 DEF DocInv, VersionsAreMarks, OpensAndCloses
    <3>2. PublishesAreOld'
      BY <1>2, <1>10 DEF PublishesAreOld, Follows, OpensAndCloses
    <3>3. ServerHasSynced'
      BY <1>2, <1>5, <1>6, <1>10, <2>1, <2>2 DEF DocInv, ServerHasSynced, OpensAndCloses
    <3> QED
      BY <3>1, <3>2, <3>3
  <2> QED
    BY <1>1, <1>8, <2>3 DEF DocInv
<1> QED
  BY <1>9, <1>10
----------------------------------------------------------------------------
\* Every step keeps what is known of the documents; the requests' steps leave them alone.
LEMMA DocStep ==
  ASSUME DocInv, [Next]_vars
  PROVE  DocInv'
<1>1. ASSUME NEW d \in Docs, NEW k \in Keys, Open(d, k) PROVE DocInv'
  BY <1>1, OpenInv DEF Open
<1>2. ASSUME NEW d \in Docs, Close(d) PROVE DocInv'
  BY <1>2, CloseInv DEF Close
<1>3. CASE Shutdown
  BY <1>3, ShutdownInv DEF Shutdown
<1>4. CASE Disconnected
  BY <1>4, DisconnectedInv DEF Disconnected
<1>5. CASE Reinitialize
  BY <1>5, ReinitializeInv DEF Reinitialize
<1>6. CASE DocumentStep
  BY <1>6, EditInv, SyncInv, InitializedInv, RefusedInv, PublishInv, ReceiveInv DEF DocumentStep
<1>7. CASE RequestStep \/ UNCHANGED vars
  <2>1. UNCHANGED docVars
    BY <1>7 DEF RequestStep, vars
  <2>2. DocTypes'
    BY <2>1 DEF docVars, DocInv, DocTypes, Registered
  <2>3. UpWhileInUse' /\ NothingOutlives' /\ CacheIsCurrent' /\ PublishesAreOld' /\ DiagnosticsFit'
    BY <2>1 DEF docVars, DocInv, UpWhileInUse, NothingOutlives, CacheIsCurrent, PublishesAreOld,
      DiagnosticsFit, Follows, OldCopy, Named, OpenKeys, Registered
  <2>4. KeysApart' /\ VersionsAreMarks' /\ ServerHasSynced'
    BY <2>1, SameTable DEF docVars
  <2> QED
    BY <2>2, <2>3, <2>4 DEF DocInv
<1> QED
  BY <1>1, <1>2, <1>3, <1>4, <1>5, <1>6, <1>7 DEF Next

LEMMA DocInvariance == Spec => []DocInv
<1>1. Init => DocInv
  BY InitDocInv DEF Init
<1> QED
  BY <1>1, DocStep, PTL DEF Spec

\* What the server has open is what is registered, with the synced texts, whatever the change logs
\* held and however often documents are closed and reopened and the server is lost.
THEOREM TheServerFollows == Spec => []ServerHasSynced
<1>1. DocInv => ServerHasSynced
  BY DEF DocInv
<1> QED
  BY <1>1, DocInvariance, PTL

\* A versioned publish an editor was shown was computed on the very text it is stamped with.
THEOREM DiagnosticsAreTrue == Spec => []DiagnosticsFit
<1>1. DocInv => DiagnosticsFit
  BY DEF DocInv
<1> QED
  BY <1>1, DocInvariance, PTL

\* What is kept for unopened files is of this connection, and of no open file.
THEOREM TheCacheIsCurrent == Spec => []CacheIsCurrent
<1>1. DocInv => CacheIsCurrent
  BY DEF DocInv
<1> QED
  BY <1>1, DocInvariance, PTL

----------------------------------------------------------------------------
(* The requests. *)

\* Counting the requests that may still cost something.
LEMMA CountSubset ==
  ASSUME NEW S, IsFiniteSet(S), NEW T \in SUBSET S
  PROVE  /\ IsFiniteSet(T) /\ Cardinality(T) \in Nat /\ Cardinality(S) \in Nat
         /\ Cardinality(T) <= Cardinality(S)
<1>1. IsFiniteSet(T) /\ Cardinality(T) <= Cardinality(S)
  BY FS_Subset
<1> QED
  BY <1>1, FS_CardinalityType

LEMMA CountOneMore ==
  ASSUME NEW S, IsFiniteSet(S), NEW x, NEW T \in SUBSET (S \cup {x})
  PROVE  /\ IsFiniteSet(T) /\ Cardinality(T) \in Nat /\ Cardinality(S) \in Nat
         /\ Cardinality(T) <= Cardinality(S) + 1
<1>1. IsFiniteSet(S \cup {x}) /\ Cardinality(S) \in Nat
  BY FS_AddElement, FS_CardinalityType
<1>2. Cardinality(S \cup {x}) <= Cardinality(S) + 1
  BY <1>1, FS_AddElement
<1>3. /\ IsFiniteSet(T) /\ Cardinality(T) \in Nat /\ Cardinality(S \cup {x}) \in Nat
      /\ Cardinality(T) <= Cardinality(S \cup {x})
  BY <1>1, CountSubset
<1> QED
  BY <1>1, <1>2, <1>3

LEMMA CountOneLess ==
  ASSUME NEW S, IsFiniteSet(S), NEW x \in S, NEW T \in SUBSET (S \ {x})
  PROVE  /\ IsFiniteSet(T) /\ Cardinality(T) \in Nat /\ Cardinality(S) \in Nat
         /\ Cardinality(T) <= Cardinality(S) - 1
<1>1. IsFiniteSet(S \ {x}) /\ Cardinality(S \ {x}) = Cardinality(S) - 1 /\ Cardinality(S) \in Nat
  BY FS_RemoveElement, FS_CardinalityType
<1>2. IsFiniteSet(T) /\ Cardinality(T) \in Nat /\ Cardinality(T) <= Cardinality(S \ {x})
  BY <1>1, CountSubset
<1> QED
  BY <1>1, <1>2

LEMMA CountExchanged ==
  ASSUME NEW S, IsFiniteSet(S), NEW x \in S, NEW y, NEW T \in SUBSET ((S \ {x}) \cup {y})
  PROVE  /\ IsFiniteSet(T) /\ Cardinality(T) \in Nat /\ Cardinality(S) \in Nat
         /\ Cardinality(T) <= Cardinality(S)
<1>1. IsFiniteSet(S \ {x}) /\ Cardinality(S \ {x}) <= Cardinality(S) - 1 /\ Cardinality(S) \in Nat
      /\ Cardinality(S \ {x}) \in Nat
  BY CountOneLess
<1>2. IsFiniteSet(T) /\ Cardinality(T) \in Nat /\ Cardinality(T) <= Cardinality(S \ {x}) + 1
  BY <1>1, CountOneMore
<1> QED
  BY <1>1, <1>2

LEMMA CountImage ==
  ASSUME NEW S, IsFiniteSet(S), NEW f, DOMAIN f = S, f = [x \in S |-> f[x]],
         NEW T \in SUBSET {f[x] : x \in S}
  PROVE  /\ IsFiniteSet(T) /\ Cardinality(T) \in Nat /\ Cardinality(S) \in Nat
         /\ Cardinality(T) <= Cardinality(S)
<1> DEFINE I == {f[x] : x \in S}
<1>1. f \in Surjection(S, I)
  BY DEF Surjection
<1>2. IsFiniteSet(I) /\ Cardinality(I) <= Cardinality(S)
  BY <1>1, FS_Surjection
<1>3. IsFiniteSet(T) /\ Cardinality(T) \in Nat /\ Cardinality(I) \in Nat /\ Cardinality(T) <= Cardinality(I)
  BY <1>2, CountSubset
<1> QED
  BY <1>2, <1>3, FS_CardinalityType
----------------------------------------------------------------------------
\* The table of requests, kept or with one more.
LEMMA RequestTypes ==
  ASSUME DocInv, nextRequest \in Nat, NEW d \in Registered, NEW ticket \in Ticket,
         NEW query \in Queries, NEW asked \in 0..MaxCaret, NEW call \in {0, 1}, NEW reissued \in Nat
  PROVE  /\ Request(d, ticket, query, asked, call, reissued) \in PendingEntry
         /\ Revisions(query) \in UNION {[S -> 0..MaxRev] : S \in SUBSET Keys}
<1>1. Revisions(query) \in UNION {[S -> 0..MaxRev] : S \in SUBSET Keys}
  <2>1. CASE query \in {"Definition", "Rename", "Inlays"}
    <3> DEFINE r == [k \in OpenKeys |-> tracked[CHOOSE e \in Named(k) : TRUE].synced]
    <3>1. r \in [OpenKeys -> 0..MaxRev]
      <4> SUFFICES ASSUME NEW k \in OpenKeys PROVE tracked[CHOOSE e \in Named(k) : TRUE].synced \in 0..MaxRev
        OBVIOUS
      <4>1. \E e : e \in Named(k)
        BY DEF OpenKeys, Named
      <4>2. (CHOOSE e \in Named(k) : TRUE) \in Registered
        BY <4>1 DEF Named
      <4> QED
        BY <4>2, TrackedFacts DEF DocInv
    <3>2. OpenKeys \in SUBSET Keys
      BY TrackedFacts DEF OpenKeys, DocInv
    <3>3. Revisions(query) = r
      BY <2>1 DEF Revisions
    <3> HIDE DEF r
    <3> QED
      BY <3>1, <3>2, <3>3
  <2>2. CASE query \notin {"Definition", "Rename", "Inlays"}
    <3>1. Nothing \in [{} -> 0..MaxRev]
      BY DEF Nothing
    <3> QED
      BY <2>2, <3>1 DEF Revisions
  <2> QED
    BY <2>1, <2>2
<1>2. d \in Docs /\ tracked[d].synced \in Nat
  BY SessionBounds, TrackedFacts DEF DocInv
<1> QED
  BY <1>1, <1>2 DEF Request, PendingEntry

LEMMA TableKeeping ==
  ASSUME DocInv, TableInv, UNCHANGED docVars, NEW P \in SUBSET pending, Keeping(P)
  PROVE  TableInv' /\ pending' = P /\ nextRequest' = nextRequest
<1>1. pending' = P /\ nextRequest' = nextRequest /\ DOMAIN view' \subseteq {p.id : p \in P}
  BY DEF Keeping
<1> QED
  BY <1>1 DEF TableInv, OneInFlight, docVars, Registered

LEMMA SendingFacts ==
  ASSUME NEW P, NEW d, NEW ticket, NEW query, NEW asked, NEW call, NEW reissued,
         Sending(P, d, ticket, query, asked, call, reissued)
  PROVE  LET e == Request(d, ticket, query, asked, call, reissued) IN
         /\ e \in pending'
         /\ \A p \in P : ~(p.doc = d /\ KindOf(p.query) = KindOf(query)) => p \in pending'
         /\ \A p \in pending' : \/ p = e
                                \/ p \in P /\ ~(p.doc = d /\ KindOf(p.query) = KindOf(query))
<1> DEFINE e == Request(d, ticket, query, asked, call, reissued)
<1>1. pending' = {p \in P : ~(p.doc = d /\ KindOf(p.query) = KindOf(query))} \cup {e}
  BY DEF Sending
<1> HIDE DEF e
<1> QED
  BY <1>1 DEF e

LEMMA TableSending ==
  ASSUME DocInv, TableInv, UNCHANGED docVars, state = "Running", NEW P \in SUBSET pending,
         NEW d \in Registered, NEW ticket \in Ticket, NEW query \in Queries,
         NEW asked \in 0..MaxCaret, NEW call \in {0, 1}, NEW reissued \in Nat,
         Sending(P, d, ticket, query, asked, call, reissued)
  PROVE  /\ TableInv'
         /\ nextRequest' = nextRequest + 1
<1> DEFINE e == Request(d, ticket, query, asked, call, reissued)
           kept == {p \in P : ~(p.doc = d /\ KindOf(p.query) = KindOf(query))}
<1>1. /\ pending' = kept \cup {e} /\ nextRequest' = nextRequest + 1
      /\ DOMAIN view' \subseteq {p.id : p \in kept}
  BY DEF Sending
<1>2. e \in PendingEntry
  BY RequestTypes DEF TableInv
<1>3. e.id = nextRequest /\ e.doc = d /\ e.query = query
  BY DEF Request
<1>4. /\ pending' \in SUBSET PendingEntry /\ nextRequest' \in Nat
      /\ DOMAIN view' \subseteq {p.id : p \in pending'}
  BY <1>1, <1>2 DEF TableInv
<1>5. \A p \in kept : p.id < nextRequest /\ p.id \in Nat /\ p.doc \in Registered
  BY DEF TableInv, PendingEntry
<1>6. \A p \in pending' : p.id < nextRequest' /\ p.doc \in Registered'
  BY <1>1, <1>3, <1>5 DEF TableInv, docVars, Registered
<1>7. OneInFlight'
  <2> SUFFICES ASSUME NEW p \in kept \cup {e}, NEW q \in kept \cup {e},
                      p.doc = q.doc, KindOf(p.query) = KindOf(q.query)
               PROVE  p = q
    BY <1>1 DEF OneInFlight
  <2>1. CASE p \in kept /\ q \in kept
    BY <2>1 DEF TableInv, OneInFlight
  <2>2. CASE p = e \/ q = e
    <3> HIDE DEF e
    <3> QED
      BY <1>3, <2>2
  <2> QED
    BY <2>1, <2>2
<1>8. state' = "Running"
  BY DEF docVars
<1> QED
  BY <1>1, <1>4, <1>6, <1>7, <1>8 DEF TableInv

\* An entry that gets a newer ticket and caret.
LEMMA TableAdopting ==
  ASSUME DocInv, TableInv, UNCHANGED docVars, NEW p \in pending, NEW ticket \in Ticket,
         NEW caret \in 0..MaxCaret, Adopting({p}, ticket, caret)
  PROVE  LET e == [p EXCEPT !.ticket = ticket, !.caret = caret] IN
         /\ TableInv' /\ nextRequest' = nextRequest
         /\ e \in PendingEntry /\ pending' = (pending \ {p}) \cup {e}
<1> DEFINE e == [p EXCEPT !.ticket = ticket, !.caret = caret]
<1>1. /\ pending' = (pending \ {p}) \cup {e} /\ nextRequest' = nextRequest
      /\ DOMAIN view' \subseteq {q.id : q \in (pending \ {p}) \cup {e}}
  BY DEF Adopting, Keeping
<1>2. p \in PendingEntry
  BY DEF TableInv
<1>3. e \in PendingEntry /\ e.id = p.id /\ e.doc = p.doc /\ e.query = p.query
  BY <1>2 DEF PendingEntry
<1> HIDE DEF e
<1>4. OneInFlight'
  <2> SUFFICES ASSUME NEW a \in (pending \ {p}) \cup {e}, NEW b \in (pending \ {p}) \cup {e},
                      a.doc = b.doc, KindOf(a.query) = KindOf(b.query)
               PROVE  a = b
    BY <1>1 DEF OneInFlight
  <2> QED
    BY <1>3 DEF TableInv, OneInFlight
<1>5. /\ pending' \in SUBSET PendingEntry
      /\ \A q \in pending' : q.id < nextRequest' /\ q.doc \in Registered
  BY <1>1, <1>3 DEF TableInv
<1>6. state # "Running" => pending' = {}
  BY DEF TableInv
<1>7. TableInv'
  BY <1>1, <1>4, <1>5, <1>6 DEF TableInv, docVars, Registered
<1> QED
  BY <1>1, <1>3, <1>7 DEF e
----------------------------------------------------------------------------
\* What the editors wait for.

\* Only the request of a slot's own kind can be in flight for it.
LEMMA SlotsKept ==
  ASSUME SlotInv, UNCHANGED <<docVars, silenced>>,
         DOMAIN owed' \subseteq DOMAIN owed, \A x \in DOMAIN owed' : owed'[x] = owed[x],
         \A x \in DOMAIN owed' : \A p \in Of(x[1], x[2]) :
           p.ticket = owed[x] /\ Awaited(p) =>
             \E q \in pending' : q.doc = x[1] /\ KindOf(q.query) = x[2] /\ q.ticket = owed[x]
  PROVE  SlotInv'
<1>1. /\ DOMAIN owed' \subseteq Docs \X Slots
      /\ \A x \in DOMAIN owed' : owed'[x] \in Ticket
      /\ \A x \in DOMAIN owed' : x[1] \in Registered' => owed'[x].rev <= tracked'[x[1]].synced
  BY DEF SlotInv, docVars, Registered
<1>2. ASSUME NEW x \in DOMAIN owed', x[1] \in Registered, tracked[x[1]].synced = owed[x].rev,
             owed[x] \notin silenced
      PROVE  \E q \in pending' : q.doc = x[1] /\ KindOf(q.query) = x[2] /\ q.ticket = owed[x]
  <2>1. PICK p \in Of(x[1], x[2]) : p.ticket = owed[x]
    BY <1>2 DEF SlotInv, OwedIsInFlight
  <2>2. Awaited(p)
    BY <1>2, <2>1 DEF Awaited, Of
  <2> QED
    BY <2>1, <2>2
<1>3. OwedIsInFlight'
  BY <1>2 DEF OwedIsInFlight, docVars, Registered, Of
<1> QED
  BY <1>1, <1>3 DEF SlotInv

LEMMA SlotsSettled ==
  ASSUME TableInv, SlotInv, UNCHANGED <<docVars, silenced>>, NEW p \in pending, pending \ {p} \subseteq pending',
         owed' = Settled({p})
  PROVE  SlotInv'
<1>1. DOMAIN owed' \subseteq DOMAIN owed /\ \A x \in DOMAIN owed' : owed'[x] = owed[x]
  BY DEF Settled
<1>2. ASSUME NEW x \in DOMAIN owed', NEW q \in Of(x[1], x[2]), q.ticket = owed[x]
      PROVE  q \in pending' /\ q.doc = x[1] /\ KindOf(q.query) = x[2]
  <2>1. x = <<x[1], x[2]>>
    <3>1. x \in Docs \X Slots
      BY <1>1, <1>2 DEF SlotInv
    <3> QED
      BY <3>1
  <2>2. q # p
    BY <1>1, <1>2, <2>1 DEF Settled, Of
  <2> QED
    BY <2>2 DEF Of
<1> QED
  BY <1>1, <1>2, SlotsKept

LEMMA SlotsResent ==
  ASSUME SlotInv, UNCHANGED <<docVars, silenced>>, UNCHANGED owed, NEW p \in pending, pending \ {p} \subseteq pending',
         NEW e \in pending', e.doc = p.doc, KindOf(e.query) = KindOf(p.query), e.ticket = p.ticket
  PROVE  SlotInv'
<1>1. ASSUME NEW x \in DOMAIN owed', NEW q \in Of(x[1], x[2]), q.ticket = owed[x]
      PROVE  \E r \in pending' : r.doc = x[1] /\ KindOf(r.query) = x[2] /\ r.ticket = owed[x]
  <2>1. q.doc = x[1] /\ KindOf(q.query) = x[2] /\ q \in pending
    BY DEF Of
  <2>2. CASE q = p
    BY <1>1, <2>1, <2>2
  <2>3. CASE q # p
    BY <1>1, <2>1, <2>3
  <2> QED
    BY <2>2, <2>3
<1> QED
  BY <1>1, SlotsKept

LEMMA SlotsDropped ==
  ASSUME SlotInv, UNCHANGED <<docVars, silenced>>, UNCHANGED owed, NEW p \in pending, pending \ {p} \subseteq pending',
         ~Awaited(p) \/ KindOf(p.query) \notin Slots
  PROVE  SlotInv'
<1>1. ASSUME NEW x \in DOMAIN owed', NEW q \in Of(x[1], x[2]), Awaited(q)
      PROVE  q \in pending' /\ q.doc = x[1] /\ KindOf(q.query) = x[2]
  <2>1. x[2] \in Slots
    BY DEF SlotInv
  <2> QED
    BY <1>1, <2>1 DEF Of
<1> QED
  BY <1>1, SlotsKept

LEMMA SlotsPaid ==
  ASSUME SlotInv, UNCHANGED <<docVars, silenced>>, NEW d, NEW kind, Paying(d, kind), pending' = pending
  PROVE  SlotInv'
<1>1. DOMAIN owed' \subseteq DOMAIN owed /\ \A x \in DOMAIN owed' : owed'[x] = owed[x]
  BY DEF Paying, Without
<1> QED
  BY <1>1, SlotsKept DEF Of

LEMMA SlotsOwed ==
  ASSUME SlotInv, UNCHANGED <<docVars, silenced>>, NEW d \in Registered, d \in Docs, NEW kind \in Slots,
         NEW ticket \in Ticket, ticket.rev <= tracked[d].synced, Owing(d, kind, ticket),
         NEW e \in pending', e.doc = d, KindOf(e.query) = kind, e.ticket = ticket,
         \A q \in pending : ~(q.doc = d /\ KindOf(q.query) = kind) => q \in pending'
  PROVE  SlotInv'
<1>1. /\ DOMAIN owed' = DOMAIN owed \cup {<<d, kind>>}
      /\ owed'[<<d, kind>>] = ticket
      /\ \A x \in DOMAIN owed \ {<<d, kind>>} : owed'[x] = owed[x]
  BY DEF Owing, With
<1>2. /\ DOMAIN owed' \subseteq Docs \X Slots
      /\ \A x \in DOMAIN owed' : owed'[x] \in Ticket
  BY <1>1 DEF SlotInv
<1>3. \A x \in DOMAIN owed' : x[1] \in Registered => owed'[x].rev <= tracked[x[1]].synced
  BY <1>1 DEF SlotInv
<1>4. ASSUME NEW x \in DOMAIN owed', x[1] \in Registered, tracked[x[1]].synced = owed'[x].rev,
             owed'[x] \notin silenced
      PROVE  \E q \in pending' : q.doc = x[1] /\ KindOf(q.query) = x[2] /\ q.ticket = owed'[x]
  <2>1. CASE x = <<d, kind>>
    BY <1>1, <2>1
  <2>2. CASE x # <<d, kind>>
    <3>1. x \in DOMAIN owed /\ owed'[x] = owed[x] /\ x = <<x[1], x[2]>>
      BY <1>1, <1>2, <2>2
    <3>2. PICK p \in Of(x[1], x[2]) : p.ticket = owed[x]
      BY <1>4, <3>1 DEF SlotInv, OwedIsInFlight
    <3>3. p.doc = x[1] /\ KindOf(p.query) = x[2] /\ p \in pending
      BY DEF Of
    <3>4. ~(p.doc = d /\ KindOf(p.query) = kind)
      BY <2>2, <3>1, <3>3
    <3> QED
      BY <3>1, <3>2, <3>3, <3>4
  <2> QED
    BY <2>1, <2>2
<1>5. OwedIsInFlight'
  BY <1>4 DEF OwedIsInFlight, docVars, Registered, Of
<1> QED
  BY <1>2, <1>3, <1>5 DEF SlotInv, docVars, Registered

LEMMA SlotsBeside ==
  ASSUME SlotInv, UNCHANGED <<docVars, silenced>>, UNCHANGED owed,
         \A q \in pending : KindOf(q.query) \in Slots => q \in pending'
  PROVE  SlotInv'
<1>1. ASSUME NEW x \in DOMAIN owed', NEW q \in Of(x[1], x[2])
      PROVE  q \in pending' /\ q.doc = x[1] /\ KindOf(q.query) = x[2]
  BY DEF Of, SlotInv
<1> QED
  BY <1>1, SlotsKept

----------------------------------------------------------------------------
\* The completion sessions.
LEMMA CompletionsKept ==
  ASSUME CompletionInv, UNCHANGED docVars, UNCHANGED session,
         \A p \in pending' : p.query = "Completion" => p \in pending
  PROVE  CompletionInv'
BY DEF CompletionInv, SessionOfPending, docVars, Registered

LEMMA CompletionsAsked ==
  ASSUME DocInv, CompletionInv, UNCHANGED docVars, NEW P \in SUBSET pending, NEW d \in Registered,
         NEW ticket, NEW caret \in 0..MaxCaret, NEW reissued,
         RequestingCompletion(P, d, ticket, caret, reissued)
  PROVE  CompletionInv'
<1> DEFINE s == [rev |-> tracked[d].synced, caret |-> caret, filled |-> FALSE, incomplete |-> FALSE]
           e == Request(d, ticket, "Completion", caret, 0, reissued)
<1>1. /\ session' = With(session, d, s)
      /\ pending' = {p \in P : ~(p.doc = d /\ KindOf(p.query) = KindOf("Completion"))} \cup {e}
  BY DEF RequestingCompletion, Sending
<1>2. s \in CompletionSession
  BY TrackedFacts DEF DocInv, CompletionSession
<1>3. s.rev = tracked[d].synced /\ s.caret = caret /\ ~s.filled
  OBVIOUS
<1>4. e.doc = d /\ e.rev = tracked[d].synced /\ e.caret = caret /\ e.asked = caret
  BY DEF Request
<1> HIDE DEF s, e
<1>5. /\ DOMAIN session' = DOMAIN session \cup {d} /\ session'[d] = s
      /\ \A x \in DOMAIN session : x # d => session'[x] = session[x]
  BY <1>1 DEF With
<1>6. DOMAIN session' \subseteq Registered' /\ session' \in [DOMAIN session' -> CompletionSession]
  <2>1. \A x \in DOMAIN session' : session'[x] \in CompletionSession
    BY <1>2, <1>5 DEF CompletionInv
  <2>2. session' = [x \in DOMAIN session' |-> session'[x]]
    BY <1>1 DEF With
  <2> QED
    BY <1>5, <2>1, <2>2 DEF CompletionInv, docVars, Registered
<1>7. SessionOfPending'
  <2> SUFFICES ASSUME NEW p \in pending', p.query = "Completion"
               PROVE  /\ p.doc \in DOMAIN session'
                      /\ session'[p.doc].rev = p.rev /\ session'[p.doc].caret = p.asked
                      /\ ~session'[p.doc].filled /\ p.caret >= p.asked
    BY DEF SessionOfPending
  <2>1. CASE p = e
    BY <1>3, <1>4, <1>5, <2>1
  <2>2. CASE p # e
    <3>1. p \in pending /\ p.doc # d
      BY <1>1, <2>2 DEF KindOf
    <3> QED
      BY <1>5, <3>1 DEF CompletionInv, SessionOfPending
  <2> QED
    BY <2>1, <2>2
<1> QED
  BY <1>6, <1>7 DEF CompletionInv
----------------------------------------------------------------------------
\* What the steps cost.
LEMMA CountsFacts ==
  ASSUME DocInv, ReqInv, CostInv
  PROVE  /\ IsFiniteSet(pending) /\ IsFiniteSet(Reissuable) /\ IsFiniteSet(Moved) /\ IsFiniteSet(Resolving)
         /\ Cardinality(Reissuable) \in Nat /\ Cardinality(Moved) \in Nat /\ Cardinality(Resolving) \in Nat
         /\ issued \in Nat /\ nextRequest \in Nat /\ connection \in Nat
         /\ \A p \in pending : p.ticket.seq \in Nat /\ p.reissued \in Nat
<1>1. Reissuable \in SUBSET pending /\ Moved \in SUBSET pending /\ Resolving \in SUBSET pending
  BY DEF Reissuable, Moved, Resolving
<1>2. IsFiniteSet(pending)
  BY DEF CostInv
<1>3. issued \in Nat /\ nextRequest \in Nat /\ connection \in Nat
  BY SessionBounds, RequestBounds DEF ReqInv, TableInv, DocInv, DocTypes
<1>4. \A p \in pending : p.ticket.seq \in Nat /\ p.reissued \in Nat
  BY DEF ReqInv, TableInv, PendingEntry, Ticket
<1> QED
  BY <1>1, <1>2, <1>3, <1>4, CountSubset

\* A step after which the counts are bounded by given numbers.
LEMMA CostStep ==
  ASSUME DocInv, ReqInv, CostInv, IsFiniteSet(pending'),
         \A p \in pending' : p.ticket.seq <= issued' /\ p.reissued <= issued',
         NEW a \in Int, NEW b \in Int, NEW c \in Int, NEW n \in Int, NEW m \in {0, 1},
         Cardinality(Reissuable') \in Nat, Cardinality(Reissuable') <= Cardinality(Reissuable) + a,
         Cardinality(Moved') \in Nat, Cardinality(Moved') <= Cardinality(Moved) + b,
         Cardinality(Resolving') \in Nat, Cardinality(Resolving') <= Cardinality(Resolving) + c,
         nextRequest' - connection' = nextRequest - connection + n, nextRequest' \in Nat, connection' \in Nat,
         issued' = issued + m, n + a + b + c <= RequestsPerTicket * m
  PROVE  CostInv'
<1>1. RequestsPerTicket \in Nat
  BY DEF RequestsPerTicket
<1>2. RequestsPerTicket * issued' = RequestsPerTicket * issued + RequestsPerTicket * m
  BY <1>1, CountsFacts
<1>3. (nextRequest - connection - 1)
       + Cardinality(Reissuable) + Cardinality(Moved) + Cardinality(Resolving)
     <= RequestsPerTicket * issued
  BY DEF CostInv
<1>4. (nextRequest' - connection' - 1)
       + Cardinality(Reissuable') + Cardinality(Moved') + Cardinality(Resolving')
     <= RequestsPerTicket * issued'
  <2> DEFINE R == RequestsPerTicket * issued
             Rm == RequestsPerTicket * m
             Rp == RequestsPerTicket * issued'
  <2>1. R \in Int /\ Rm \in Int /\ Rp = R + Rm
    BY <1>1, <1>2, CountsFacts
  <2>2. (nextRequest - connection - 1)
       + Cardinality(Reissuable) + Cardinality(Moved) + Cardinality(Resolving) <= R
    BY <1>3
  <2>3. n + a + b + c <= Rm
    OBVIOUS
  <2> HIDE DEF R, Rm, Rp
  <2>4. (nextRequest' - connection' - 1)
       + Cardinality(Reissuable') + Cardinality(Moved') + Cardinality(Resolving') <= Rp
    BY <2>1, <2>2, <2>3, CountsFacts
  <2> QED
    BY <2>4 DEF Rp
<1> QED
  BY <1>4 DEF CostInv, RequestsPerTicket

LEMMA CostKeeping ==
  ASSUME DocInv, ReqInv, CostInv, pending' \subseteq pending, nextRequest' = nextRequest,
         connection' = connection, issued' = issued \/ issued' = issued + 1
  PROVE  CostInv'
<1>1. /\ Reissuable' \subseteq Reissuable /\ Moved' \subseteq Moved /\ Resolving' \subseteq Resolving
  BY DEF Reissuable, Moved, Resolving
<1>2. /\ IsFiniteSet(pending')
      /\ Cardinality(Reissuable') \in Nat /\ Cardinality(Reissuable') <= Cardinality(Reissuable) + 0
      /\ Cardinality(Moved') \in Nat /\ Cardinality(Moved') <= Cardinality(Moved) + 0
      /\ Cardinality(Resolving') \in Nat /\ Cardinality(Resolving') <= Cardinality(Resolving) + 0
  BY <1>1, CountsFacts, CountSubset
<1>3. \A p \in pending' : p.ticket.seq <= issued' /\ p.reissued <= issued'
  BY CountsFacts DEF CostInv
<1>4. /\ nextRequest' - connection' = nextRequest - connection + 0 /\ nextRequest' \in Nat /\ connection' \in Nat
  BY CountsFacts
<1>5. PICK m \in {0, 1} : issued' = issued + m
  BY CountsFacts
<1>6. 0 + 0 + 0 + 0 <= RequestsPerTicket * m
  BY DEF RequestsPerTicket
<1> QED
  BY <1>2, <1>3, <1>4, <1>5, <1>6, CostStep

LEMMA CostAsked ==
  ASSUME DocInv, ReqInv, CostInv, NEW e, pending' \subseteq pending \cup {e},
         nextRequest' = nextRequest + 1, connection' = connection, issued' = issued + 1,
         e.caret = e.asked, e.ticket.seq = issued + 1, e.reissued = 0,
         e.query = "Resolve" => "Tooltip" \in Kinds
  PROVE  CostInv'
<1>1. /\ Reissuable' \subseteq Reissuable \cup {e} /\ Moved' \subseteq Moved
      /\ Resolving' \subseteq Resolving \cup {e}
      /\ e.query # "Resolve" => Resolving' \subseteq Resolving
  BY DEF Reissuable, Moved, Resolving
<1>2. /\ IsFiniteSet(pending')
      /\ Cardinality(Reissuable') \in Nat /\ Cardinality(Reissuable') <= Cardinality(Reissuable) + 1
      /\ Cardinality(Moved') \in Nat /\ Cardinality(Moved') <= Cardinality(Moved) + 0
      /\ Cardinality(Resolving') \in Nat /\ Cardinality(Resolving') <= Cardinality(Resolving) + 1
      /\ e.query # "Resolve" => Cardinality(Resolving') <= Cardinality(Resolving) + 0
  <2>1. IsFiniteSet(pending')
    BY CountsFacts, CountOneMore
  <2>2. Cardinality(Reissuable') \in Nat /\ Cardinality(Reissuable') <= Cardinality(Reissuable) + 1
    BY <1>1, CountsFacts, CountOneMore
  <2>3. Cardinality(Moved') \in Nat /\ Cardinality(Moved') <= Cardinality(Moved)
    BY <1>1, CountsFacts, CountSubset
  <2>4. Cardinality(Resolving') \in Nat /\ Cardinality(Resolving') <= Cardinality(Resolving) + 1
    BY <1>1, CountsFacts, CountOneMore
  <2>5. e.query # "Resolve" => Cardinality(Resolving') <= Cardinality(Resolving)
    BY <1>1, CountsFacts, CountSubset
  <2> QED
    BY <2>1, <2>2, <2>3, <2>4, <2>5, CountsFacts
<1>3. \A p \in pending' : p.ticket.seq <= issued' /\ p.reissued <= issued'
  BY CountsFacts DEF CostInv
<1>4. /\ nextRequest' - connection' = nextRequest - connection + 1 /\ nextRequest' \in Nat /\ connection' \in Nat
  BY CountsFacts
<1>5. CASE e.query # "Resolve"
  <2>1. 1 + 1 + 0 + 0 <= RequestsPerTicket * 1
    BY DEF RequestsPerTicket
  <2> QED
    BY <1>2, <1>3, <1>4, <1>5, <2>1, CostStep
<1>6. CASE e.query = "Resolve"
  <2>1. 1 + 1 + 0 + 1 <= RequestsPerTicket * 1
    BY <1>6 DEF RequestsPerTicket
  <2> QED
    BY <1>2, <1>3, <1>4, <1>6, <2>1, CostStep
<1> QED
  BY <1>5, <1>6

LEMMA CostAdopted ==
  ASSUME DocInv, ReqInv, CostInv, NEW p \in pending, NEW e, pending' \subseteq (pending \ {p}) \cup {e},
         nextRequest' = nextRequest, connection' = connection, issued' = issued + 1,
         e.ticket.seq = issued + 1, e.reissued = p.reissued, e.query = p.query
  PROVE  CostInv'
<1>1. /\ Reissuable' \subseteq Reissuable \cup {e} /\ Moved' \subseteq Moved \cup {e}
      /\ e.query # "Resolve" => Resolving' \subseteq Resolving
      /\ e.query = "Resolve" => p \in Resolving /\ Resolving' \subseteq (Resolving \ {p}) \cup {e}
  BY DEF Reissuable, Moved, Resolving
<1>2. /\ IsFiniteSet(pending')
      /\ Cardinality(Reissuable') \in Nat /\ Cardinality(Reissuable') <= Cardinality(Reissuable) + 1
      /\ Cardinality(Moved') \in Nat /\ Cardinality(Moved') <= Cardinality(Moved) + 1
  BY <1>1, CountsFacts, CountSubset, CountOneMore
<1>3. Cardinality(Resolving') \in Nat /\ Cardinality(Resolving') <= Cardinality(Resolving) + 0
  <2>1. CASE e.query # "Resolve"
    BY <1>1, <2>1, CountsFacts, CountSubset
  <2>2. CASE e.query = "Resolve"
    <3>1. IsFiniteSet(Resolving) /\ p \in Resolving /\ Resolving' \in SUBSET ((Resolving \ {p}) \cup {e})
      BY <1>1, <2>2, CountsFacts
    <3>2. /\ Cardinality(Resolving') \in Nat /\ Cardinality(Resolving) \in Nat
          /\ Cardinality(Resolving') <= Cardinality(Resolving)
      BY <3>1, CountExchanged, Zenon
    <3> QED
      BY <3>2
  <2> QED
    BY <2>1, <2>2
<1>4. \A q \in pending' : q.ticket.seq <= issued' /\ q.reissued <= issued'
  BY CountsFacts DEF CostInv
<1>5. /\ nextRequest' - connection' = nextRequest - connection + 0 /\ nextRequest' \in Nat /\ connection' \in Nat
  BY CountsFacts
<1>6. 0 + 1 + 1 + 0 <= RequestsPerTicket * 1
  BY DEF RequestsPerTicket
<1> QED
  BY <1>2, <1>3, <1>4, <1>5, <1>6, CostStep

\* A request asked anew: after ContentModified, at a moved caret, or about a location.
LEMMA CostResent ==
  ASSUME DocInv, ReqInv, CostInv, NEW p \in pending, NEW e, pending' \subseteq (pending \ {p}) \cup {e},
         nextRequest' = nextRequest + 1, connection' = connection, issued' = issued,
         e.ticket = p.ticket, e.caret = e.asked,
         \/ /\ p.reissued # p.ticket.seq /\ e.reissued = p.ticket.seq
            /\ e.query = p.query
         \/ /\ p.caret # p.asked /\ e.reissued = p.reissued
            /\ e.query = p.query
         \/ /\ p.query = "Resolve" /\ e.reissued = p.reissued
            /\ e.query # "Resolve"
  PROVE  CostInv'
<1>1. /\ Moved' \subseteq Moved /\ (p \in Moved => Moved' \subseteq Moved \ {p})
      /\ e.reissued = p.reissued =>
           \/ p \in Reissuable /\ Reissuable' \subseteq (Reissuable \ {p}) \cup {e}
           \/ Reissuable' \subseteq Reissuable
      /\ p \in Reissuable /\ e.reissued = p.ticket.seq => Reissuable' \subseteq Reissuable \ {p}
      /\ e.query = p.query =>
           \/ p \in Resolving /\ Resolving' \subseteq (Resolving \ {p}) \cup {e}
           \/ Resolving' \subseteq Resolving
      /\ p \in Resolving /\ e.query # "Resolve" => Resolving' \subseteq Resolving \ {p}
  BY DEF Reissuable, Moved, Resolving
<1>2. /\ IsFiniteSet(pending')
      /\ Cardinality(Moved') \in Nat /\ Cardinality(Moved') <= Cardinality(Moved) + 0
  <2>1. IsFiniteSet(pending')
    BY CountsFacts, CountOneMore
  <2>2. Cardinality(Moved') \in Nat /\ Cardinality(Moved') <= Cardinality(Moved)
    BY <1>1, CountsFacts, CountSubset
  <2> QED
    BY <2>1, <2>2, CountsFacts
<1>3. ASSUME e.reissued = p.reissued
      PROVE  Cardinality(Reissuable') \in Nat /\ Cardinality(Reissuable') <= Cardinality(Reissuable) + 0
  <2>1. CASE p \in Reissuable /\ Reissuable' \subseteq (Reissuable \ {p}) \cup {e}
    <3>1. IsFiniteSet(Reissuable) /\ p \in Reissuable /\ Reissuable' \in SUBSET ((Reissuable \ {p}) \cup {e})
      BY <2>1, CountsFacts
    <3>2. /\ Cardinality(Reissuable') \in Nat /\ Cardinality(Reissuable) \in Nat
          /\ Cardinality(Reissuable') <= Cardinality(Reissuable)
      BY <3>1, CountExchanged, Zenon
    <3> QED
      BY <3>2
  <2>2. CASE Reissuable' \subseteq Reissuable
    BY <2>2, CountsFacts, CountSubset
  <2> QED
    BY <1>1, <1>3, <2>1, <2>2
<1>4. ASSUME e.query = p.query
      PROVE  Cardinality(Resolving') \in Nat /\ Cardinality(Resolving') <= Cardinality(Resolving) + 0
  <2>1. CASE p \in Resolving /\ Resolving' \subseteq (Resolving \ {p}) \cup {e}
    <3>1. IsFiniteSet(Resolving) /\ p \in Resolving /\ Resolving' \in SUBSET ((Resolving \ {p}) \cup {e})
      BY <2>1, CountsFacts
    <3>2. /\ Cardinality(Resolving') \in Nat /\ Cardinality(Resolving) \in Nat
          /\ Cardinality(Resolving') <= Cardinality(Resolving)
      BY <3>1, CountExchanged, Zenon
    <3> QED
      BY <3>2
  <2>2. CASE Resolving' \subseteq Resolving
    BY <2>2, CountsFacts, CountSubset
  <2> QED
    BY <1>1, <1>4, <2>1, <2>2
<1>5. \A q \in pending' : q.ticket.seq <= issued' /\ q.reissued <= issued'
  BY DEF CostInv
<1>6. /\ nextRequest' - connection' = nextRequest - connection + 1 /\ nextRequest' \in Nat /\ connection' \in Nat
      /\ issued' = issued + 0
  BY CountsFacts
<1>7. 1 + (-1) + 0 + 0 <= RequestsPerTicket * 0 /\ 1 + 0 + (-1) + 0 <= RequestsPerTicket * 0
      /\ 1 + 0 + 0 + (-1) <= RequestsPerTicket * 0 /\ -1 \in Int
  BY DEF RequestsPerTicket
<1>8. CASE p.reissued # p.ticket.seq /\ e.reissued = p.ticket.seq /\ e.query = p.query
  <2>1. p \in Reissuable
    BY <1>8 DEF Reissuable
  <2>2. Cardinality(Reissuable') \in Nat /\ Cardinality(Reissuable') <= Cardinality(Reissuable) + (-1)
    BY <1>1, <1>8, <2>1, CountsFacts, CountOneLess
  <2> QED
    BY <1>2, <1>4, <1>5, <1>6, <1>7, <1>8, <2>2, CostStep
<1>9. CASE p.caret # p.asked /\ e.reissued = p.reissued /\ e.query = p.query
  <2>1. p \in Moved
    BY <1>9 DEF Moved
  <2>2. Cardinality(Moved') \in Nat /\ Cardinality(Moved') <= Cardinality(Moved) + (-1)
    BY <1>1, <2>1, CountsFacts, CountOneLess
  <2> QED
    BY <1>2, <1>3, <1>4, <1>5, <1>6, <1>7, <1>9, <2>2, CostStep
<1>10. CASE p.query = "Resolve" /\ e.reissued = p.reissued /\ e.query # "Resolve"
  <2>1. p \in Resolving
    BY <1>10 DEF Resolving
  <2>2. Cardinality(Resolving') \in Nat /\ Cardinality(Resolving') <= Cardinality(Resolving) + (-1)
    BY <1>1, <1>10, <2>1, CountsFacts, CountOneLess
  <2> QED
    BY <1>2, <1>3, <1>5, <1>6, <1>7, <1>10, <2>2, CostStep
<1> QED
  BY <1>8, <1>9, <1>10
----------------------------------------------------------------------------
\* The editors' requests.
LEMMA MintFacts ==
  ASSUME DocInv, ReqInv, NEW d \in Docs, NEW kind, NEW snapshot, Minting(d, kind, snapshot)
  PROVE  /\ kind \in Kinds /\ d \in Registered /\ issued' = issued + 1 /\ issued' \in 0..MaxTickets
         /\ Minted(snapshot) \in Ticket /\ Minted(snapshot).seq = issued + 1
         /\ Minted(snapshot).rev = snapshot
<1>1. issued \in Nat /\ snapshot \in Nat
  BY RequestBounds DEF ReqInv, Minting, DocInv, DocTypes
<1> QED
  BY <1>1, RequestBounds DEF Minting, Minted, Ticket, ReqInv

LEMMA AnsweredAtOnce ==
  ASSUME DocInv, ReqInv, CostInv, UNCHANGED <<docVars, silenced>>, NEW d \in Docs, NEW kind, NEW snapshot,
         Minting(d, kind, snapshot), AnsweringAtOnce(d, kind), UNCHANGED inlays
  PROVE  ReqInv' /\ CostInv'
<1>1. TableInv' /\ pending' = pending /\ nextRequest' = nextRequest
  BY TableKeeping DEF AnsweringAtOnce, ReqInv
<1>2. SlotInv'
  BY <1>1, SlotsPaid DEF AnsweringAtOnce, ReqInv
<1>3. CompletionInv'
  BY <1>1, CompletionsKept DEF AnsweringAtOnce, ReqInv
<1>4. CostInv'
  BY <1>1, MintFacts, CostKeeping DEF docVars
<1> QED
  BY <1>1, <1>2, <1>3, <1>4, MintFacts DEF ReqInv, docVars, Registered

\* What a new request under a new ticket comes to.
LEMMA NewRequest ==
  ASSUME DocInv, ReqInv, CostInv, UNCHANGED docVars, state = "Running", NEW d \in Docs, NEW kind,
         NEW snapshot, Minting(d, kind, snapshot), NEW query \in Queries, NEW asked \in 0..MaxCaret,
         NEW call \in {0, 1}, Sending(pending, d, Minted(snapshot), query, asked, call, 0),
         query = "Resolve" => kind = "Tooltip"
  PROVE  LET e == Request(d, Minted(snapshot), query, asked, call, 0) IN
         /\ TableInv' /\ CostInv'
         /\ e \in pending' /\ e.doc = d /\ e.query = query /\ e.ticket = Minted(snapshot)
         /\ \A q \in pending : ~(q.doc = d /\ KindOf(q.query) = KindOf(query)) => q \in pending'
         /\ \A q \in pending' : q = e \/ q \in pending
<1> DEFINE e == Request(d, Minted(snapshot), query, asked, call, 0)
<1>1. /\ TableInv' /\ nextRequest' = nextRequest + 1
      /\ e \in pending'
      /\ \A p \in pending : ~(p.doc = d /\ KindOf(p.query) = KindOf(query)) => p \in pending'
      /\ \A p \in pending' : p = e \/ p \in pending
  <2>1. d \in Registered /\ Minted(snapshot) \in Ticket /\ pending \in SUBSET pending /\ 0 \in Nat /\ TableInv
    BY MintFacts DEF ReqInv
  <2>2. TableInv' /\ nextRequest' = nextRequest + 1
    BY <2>1, TableSending
  <2>3. /\ e \in pending'
        /\ \A p \in pending : ~(p.doc = d /\ KindOf(p.query) = KindOf(query)) => p \in pending'
        /\ \A p \in pending' : p = e \/ p \in pending
    BY SendingFacts
  <2> QED
    BY <2>2, <2>3
<1>2. /\ e.doc = d /\ e.query = query /\ e.ticket = Minted(snapshot)
      /\ e.caret = e.asked /\ e.reissued = 0
  BY DEF Request
<1> HIDE DEF e
<1>3. CostInv'
  BY <1>1, <1>2, MintFacts, CostAsked DEF docVars
<1> QED
  BY <1>1, <1>2, <1>3 DEF e

LEMMA AskedNew ==
  ASSUME DocInv, ReqInv, CostInv, UNCHANGED <<docVars, silenced>>, state = "Running", NEW d \in Docs, NEW kind \in Slots,
         NEW snapshot, Minting(d, kind, snapshot), NEW query \in Queries, NEW asked \in 0..MaxCaret,
         NEW call \in {0, 1}, Sending(pending, d, Minted(snapshot), query, asked, call, 0),
         KindOf(query) = kind, query # "Completion", snapshot = tracked[d].synced,
         Owing(d, kind, Minted(snapshot)), UNCHANGED <<session, inlays>>
  PROVE  ReqInv' /\ CostInv'
<1> DEFINE e == Request(d, Minted(snapshot), query, asked, call, 0)
<1>0. query = "Resolve" => kind = "Tooltip"
  BY DEF KindOf
<1>1. /\ TableInv' /\ CostInv'
      /\ e \in pending' /\ e.doc = d /\ e.query = query /\ e.ticket = Minted(snapshot)
      /\ \A q \in pending : ~(q.doc = d /\ KindOf(q.query) = KindOf(query)) => q \in pending'
      /\ \A q \in pending' : q = e \/ q \in pending
  BY <1>0, NewRequest
<1> HIDE DEF e
<1>2. Minted(snapshot) \in Ticket /\ Minted(snapshot).rev <= tracked[d].synced /\ d \in Registered
  <2>1. Minted(snapshot) \in Ticket /\ Minted(snapshot).rev = snapshot /\ d \in Registered
    BY MintFacts
  <2>2. snapshot \in Int
    BY <2>1, SessionBounds, TrackedFacts DEF DocInv
  <2> QED
    BY <2>1, <2>2
<1>3. SlotInv'
  BY <1>1, <1>2, SlotsOwed DEF ReqInv
<1>4. CompletionInv'
  BY <1>1, CompletionsKept DEF ReqInv
<1> QED
  BY <1>1, <1>3, <1>4, MintFacts DEF ReqInv, docVars, Registered

\* A request in flight takes over the newest ticket.
LEMMA AdoptedNew ==
  ASSUME DocInv, ReqInv, CostInv, UNCHANGED <<docVars, silenced>>, NEW d \in Docs, NEW kind \in {"Completion", "Signature"},
         NEW snapshot, Minting(d, kind, snapshot), NEW p \in Of(d, kind), NEW caret \in 0..MaxCaret,
         Adopting({p}, Minted(snapshot), caret), snapshot = tracked[d].synced,
         kind = "Completion" => caret >= p.asked,
         Owing(d, kind, Minted(snapshot)), UNCHANGED <<session, inlays>>
  PROVE  ReqInv' /\ CostInv'
<1> DEFINE e == [p EXCEPT !.ticket = Minted(snapshot), !.caret = caret]
<1>1. /\ TableInv' /\ nextRequest' = nextRequest
      /\ e \in PendingEntry /\ pending' = (pending \ {p}) \cup {e}
  BY MintFacts, TableAdopting DEF ReqInv, Of
<1>2. p \in pending /\ p.doc = d /\ KindOf(p.query) = kind /\ p \in PendingEntry
  BY DEF Of, ReqInv, TableInv
<1>3. /\ e.doc = d /\ e.query = p.query /\ e.ticket = Minted(snapshot) /\ e.caret = caret
      /\ e.rev = p.rev /\ e.asked = p.asked /\ e.reissued = p.reissued
  BY <1>2 DEF PendingEntry
<1> HIDE DEF e
<1>4. CostInv'
  BY <1>1, <1>2, <1>3, MintFacts, CostAdopted DEF docVars
<1>5. Minted(snapshot) \in Ticket /\ Minted(snapshot).rev <= tracked[d].synced /\ d \in Registered
  <2>1. Minted(snapshot) \in Ticket /\ Minted(snapshot).rev = snapshot /\ d \in Registered
    BY MintFacts
  <2>2. snapshot \in Int
    BY <2>1, SessionBounds, TrackedFacts DEF DocInv
  <2> QED
    BY <2>1, <2>2
<1>6. SlotInv'
  <2>1. kind \in Slots /\ KindOf(e.query) = kind
    BY <1>2, <1>3 DEF Slots
  <2>2. \A q \in pending : ~(q.doc = d /\ KindOf(q.query) = kind) => q \in pending'
    BY <1>1, <1>2
  <2> QED
    BY <1>1, <1>3, <1>5, <2>1, <2>2, SlotsOwed DEF ReqInv
<1>7. CompletionInv'
  <2>1. SessionOfPending'
    <3> SUFFICES ASSUME NEW q \in pending', q.query = "Completion"
                 PROVE  /\ q.doc \in DOMAIN session
                        /\ session[q.doc].rev = q.rev /\ session[q.doc].caret = q.asked
                        /\ ~session[q.doc].filled /\ q.caret >= q.asked
      BY DEF SessionOfPending
    <3>1. CASE q = e
      <4>1. p.query = "Completion" /\ kind = "Completion"
        BY <1>2, <1>3, <3>1 DEF KindOf
      <4> QED
        BY <1>2, <1>3, <3>1, <4>1 DEF ReqInv, CompletionInv, SessionOfPending
    <3>2. CASE q # e
      BY <1>1, <3>2 DEF ReqInv, CompletionInv, SessionOfPending
    <3> QED
      BY <3>1, <3>2
  <2> QED
    BY <2>1 DEF ReqInv, CompletionInv, docVars, Registered
<1> QED
  BY <1>1, <1>4, <1>6, <1>7, MintFacts DEF ReqInv, docVars, Registered

LEMMA CompleteStep ==
  ASSUME DocInv, ReqInv, CostInv, UNCHANGED <<docVars, silenced>>, NEW d \in Docs, Complete(d)
  PROVE  ReqInv' /\ CostInv'
<1>1. PICK snapshot \in 0..rev[d], caret \in 0..MaxCaret, typed \in BOOLEAN, unmatched \in BOOLEAN :
        /\ Minting(d, "Completion", snapshot) /\ Answerable(d, snapshot)
        /\ \/ AnsweringAtOnce(d, "Completion")
           \/ /\ Running("Completion") /\ Owing(d, "Completion", Minted(snapshot))
              /\ \/ /\ Continues(d, snapshot, caret) /\ Of(d, "Completion") # {}
                    /\ Adopting(Of(d, "Completion"), Minted(snapshot), caret) /\ UNCHANGED session
                 \/ RequestingCompletion(pending, d, Minted(snapshot), caret, 0)
        /\ UNCHANGED <<inlays, landed>>
  BY DEF Complete
<1>2. CASE AnsweringAtOnce(d, "Completion")
  BY <1>1, <1>2, AnsweredAtOnce
<1>3. CASE /\ Running("Completion") /\ Owing(d, "Completion", Minted(snapshot))
           /\ Continues(d, snapshot, caret) /\ Of(d, "Completion") # {}
           /\ Adopting(Of(d, "Completion"), Minted(snapshot), caret) /\ UNCHANGED session
  <2>1. PICK p : p \in Of(d, "Completion")
    BY <1>3
  <2>2. Of(d, "Completion") = {p}
    BY <2>1 DEF Of, ReqInv, TableInv, OneInFlight
  <2>3. snapshot = tracked[d].synced
    BY <1>1, <1>3 DEF Answerable, Running
  <2>4. caret >= p.asked
    <3>1. p \in pending /\ p.doc = d /\ p.query = "Completion"
      BY <2>1 DEF Of, KindOf
    <3> QED
      BY <1>3, <3>1 DEF Continues, ReqInv, CompletionInv, SessionOfPending
  <2> QED
    BY <1>1, <1>3, <2>1, <2>2, <2>3, <2>4, AdoptedNew
<1>4. CASE /\ Running("Completion") /\ Owing(d, "Completion", Minted(snapshot))
           /\ RequestingCompletion(pending, d, Minted(snapshot), caret, 0)
  <2> DEFINE e == Request(d, Minted(snapshot), "Completion", caret, 0, 0)
  <2>1. state = "Running" /\ snapshot = tracked[d].synced /\ d \in Registered
        /\ Sending(pending, d, Minted(snapshot), "Completion", caret, 0, 0)
    BY <1>1, <1>4, MintFacts DEF Answerable, Running, RequestingCompletion
  <2>2. "Completion" \in Queries /\ "Completion" \in Slots /\ KindOf("Completion") = "Completion"
    BY DEF Queries, Slots, KindOf
  <2>3. /\ TableInv' /\ CostInv'
        /\ e \in pending' /\ e.doc = d /\ e.query = "Completion" /\ e.ticket = Minted(snapshot)
        /\ \A q \in pending : ~(q.doc = d /\ KindOf(q.query) = KindOf("Completion")) => q \in pending'
    BY <1>1, <2>1, <2>2, NewRequest
  <2> HIDE DEF e
  <2>4. Minted(snapshot) \in Ticket /\ Minted(snapshot).rev <= tracked[d].synced
    <3>1. Minted(snapshot) \in Ticket /\ Minted(snapshot).rev = snapshot
      BY <1>1, MintFacts
    <3> QED
      BY <2>1, <3>1 DEF Ticket
  <2>5. SlotInv'
    BY <1>4, <2>1, <2>2, <2>3, <2>4, SlotsOwed DEF ReqInv
  <2>6. CompletionInv'
    BY <1>4, <2>1, CompletionsAsked DEF ReqInv
  <2> QED
    BY <1>1, <2>3, <2>5, <2>6, MintFacts DEF ReqInv, docVars, Registered
<1> QED
  BY <1>1, <1>2, <1>3, <1>4

LEMMA SignatureStep ==
  ASSUME DocInv, ReqInv, CostInv, UNCHANGED <<docVars, silenced>>, NEW d \in Docs, SignatureHelp(d)
  PROVE  ReqInv' /\ CostInv'
<1>1. PICK snapshot \in 0..rev[d], caret \in 0..MaxCaret, call \in {0, 1} :
        LET sameCall == {p \in Of(d, "Signature") : p.call = call} IN
        /\ Minting(d, "Signature", snapshot) /\ Answerable(d, snapshot)
        /\ \/ AnsweringAtOnce(d, "Signature")
           \/ /\ Running("Signature") /\ Owing(d, "Signature", Minted(snapshot))
              /\ \/ sameCall # {} /\ Adopting(sameCall, Minted(snapshot), caret)
                 \/ Sending(pending, d, Minted(snapshot), "Signature", caret, call, 0)
              /\ UNCHANGED session
        /\ UNCHANGED <<inlays, landed>>
  BY DEF SignatureHelp
<1> DEFINE sameCall == {p \in Of(d, "Signature") : p.call = call}
<1>2. CASE AnsweringAtOnce(d, "Signature")
  BY <1>1, <1>2, AnsweredAtOnce
<1>3. CASE /\ Running("Signature") /\ Owing(d, "Signature", Minted(snapshot)) /\ UNCHANGED session
           /\ sameCall # {} /\ Adopting(sameCall, Minted(snapshot), caret)
  <2>1. PICK p : p \in sameCall
    BY <1>3
  <2>2. sameCall = {p} /\ p \in Of(d, "Signature")
    BY <2>1 DEF Of, ReqInv, TableInv, OneInFlight
  <2>3. snapshot = tracked[d].synced
    BY <1>1, <1>3 DEF Answerable, Running
  <2> HIDE DEF sameCall
  <2> QED
    BY <1>1, <1>3, <2>2, <2>3, AdoptedNew
<1>4. CASE /\ Running("Signature") /\ Owing(d, "Signature", Minted(snapshot)) /\ UNCHANGED session
           /\ Sending(pending, d, Minted(snapshot), "Signature", caret, call, 0)
  <2>1. state = "Running" /\ snapshot = tracked[d].synced
    BY <1>1, <1>4 DEF Answerable, Running
  <2>2. "Signature" \in Queries /\ "Signature" \in Slots /\ KindOf("Signature") = "Signature"
    BY DEF Queries, Slots, KindOf
  <2> QED
    BY <1>1, <1>4, <2>1, <2>2, AskedNew
<1> QED
  BY <1>1, <1>2, <1>3, <1>4

LEMMA AskStep ==
  ASSUME DocInv, ReqInv, CostInv, UNCHANGED <<docVars, silenced>>, NEW d \in Docs, NEW kind, Ask(d, kind)
  PROVE  ReqInv' /\ CostInv'
<1>1. PICK snapshot \in 0..rev[d] :
        /\ kind \in {"Hover", "Inlays"}
        /\ Minting(d, kind, snapshot) /\ Answerable(d, snapshot)
        /\ \/ /\ Running(kind) /\ Sending(pending, d, Minted(snapshot), kind, 0, 0, 0)
              /\ Owing(d, kind, Minted(snapshot)) /\ UNCHANGED session
           \/ AnsweringAtOnce(d, kind)
        /\ UNCHANGED <<inlays, landed>>
  BY DEF Ask
<1>2. CASE AnsweringAtOnce(d, kind)
  BY <1>1, <1>2, AnsweredAtOnce
<1>3. CASE /\ Running(kind) /\ Sending(pending, d, Minted(snapshot), kind, 0, 0, 0)
           /\ Owing(d, kind, Minted(snapshot)) /\ UNCHANGED session
  <2>1. state = "Running" /\ snapshot = tracked[d].synced
    BY <1>1, <1>3 DEF Answerable, Running
  <2>2. kind \in Queries /\ kind \in Slots /\ KindOf(kind) = kind /\ kind # "Completion" /\ 0 \in 0..MaxCaret
    BY <1>1, RequestBounds DEF Queries, Slots, KindOf
  <2> QED
    BY <1>1, <1>3, <2>1, <2>2, AskedNew
<1> QED
  BY <1>1, <1>2, <1>3

LEMMA CommandStep ==
  ASSUME DocInv, ReqInv, CostInv, UNCHANGED <<docVars, silenced>>, NEW d \in Docs, NEW kind, Command(d, kind)
  PROVE  ReqInv' /\ CostInv'
<1> DEFINE e == Request(d, Minted(rev[d]), kind, 0, 0, 0)
<1>1. /\ Minting(d, kind, rev[d]) /\ state = "Running" /\ kind \in Queries /\ 0 \in 0..MaxCaret
      /\ Sending(pending, d, Minted(rev[d]), kind, 0, 0, 0)
      /\ KindOf(kind) = kind /\ kind \notin Slots /\ kind # "Resolve" /\ kind # "Completion"
      /\ UNCHANGED <<session, inlays, owed>>
  BY RequestBounds DEF Command, Running, Commands, Queries, Slots, KindOf
<1>2. /\ TableInv' /\ CostInv' /\ e.query = kind
      /\ \A q \in pending : ~(q.doc = d /\ KindOf(q.query) = KindOf(kind)) => q \in pending'
      /\ \A q \in pending' : q = e \/ q \in pending
  BY <1>1, NewRequest
<1> HIDE DEF e
<1>3. SlotInv'
  BY <1>1, <1>2, SlotsBeside DEF ReqInv
<1>4. CompletionInv'
  BY <1>1, <1>2, CompletionsKept DEF ReqInv
<1> QED
  BY <1>1, <1>2, <1>3, <1>4, MintFacts DEF ReqInv, docVars, Registered

LEMMA InteractStep ==
  ASSUME DocInv, ReqInv, CostInv, UNCHANGED <<docVars, silenced>>, NEW d \in Docs, Interact(d)
  PROVE  ReqInv' /\ CostInv'
<1>1. PICK snapshot \in 0..rev[d] :
        /\ Minting(d, "Tooltip", snapshot)
        /\ \/ Keeping(pending) /\ Paying(d, "Tooltip")
           \/ /\ state = "Running" /\ snapshot = tracked[d].synced
              /\ \E query \in {"Resolve", "LocationHover"} :
                   Sending(pending, d, Minted(snapshot), query, 0, 0, 0)
              /\ Owing(d, "Tooltip", Minted(snapshot))
        /\ UNCHANGED <<session, inlays>>
  BY DEF Interact, HoverLocation
<1>2. CASE Keeping(pending) /\ Paying(d, "Tooltip")
  BY <1>1, <1>2, AnsweredAtOnce DEF AnsweringAtOnce
<1>3. ASSUME state = "Running", snapshot = tracked[d].synced, NEW query \in {"Resolve", "LocationHover"},
             Sending(pending, d, Minted(snapshot), query, 0, 0, 0), Owing(d, "Tooltip", Minted(snapshot))
      PROVE  ReqInv' /\ CostInv'
  <2>1. query \in Queries /\ "Tooltip" \in Slots /\ KindOf(query) = "Tooltip" /\ query # "Completion"
        /\ 0 \in 0..MaxCaret
    BY RequestBounds DEF Queries, Slots, KindOf
  <2> QED
    BY <1>1, <1>3, <2>1, AskedNew
<1> QED
  BY <1>1, <1>2, <1>3
----------------------------------------------------------------------------
\* The replies.

\* A reply that sends nothing more.
LEMMA ReplyTaken ==
  ASSUME DocInv, ReqInv, CostInv, UNCHANGED <<docVars, silenced>>, UNCHANGED issued, NEW p \in pending,
         Keeping(pending \ {p}),
         \/ owed' = Settled({p})
         \/ UNCHANGED owed /\ (~Awaited(p) \/ KindOf(p.query) \notin Slots)
  PROVE  TableInv' /\ SlotInv' /\ CostInv' /\ pending' = pending \ {p}
<1>1. TableInv' /\ pending' = pending \ {p} /\ nextRequest' = nextRequest
  BY TableKeeping DEF ReqInv
<1>2. SlotInv'
  BY <1>1, SlotsSettled, SlotsDropped DEF ReqInv
<1>3. CostInv'
  BY <1>1, CostKeeping DEF docVars
<1> QED
  BY <1>1, <1>2, <1>3

\* A reply that asks again under the same ticket.
LEMMA ReplyResent ==
  ASSUME DocInv, ReqInv, CostInv, UNCHANGED <<docVars, silenced>>, UNCHANGED issued, NEW p \in pending,
         NEW query \in Queries, KindOf(query) = KindOf(p.query), NEW caret \in 0..MaxCaret, NEW call \in {0, 1},
         NEW reissued \in Nat, Sending(pending \ {p}, p.doc, p.ticket, query, caret, call, reissued),
         \/ p.reissued # p.ticket.seq /\ reissued = p.ticket.seq /\ query = p.query
         \/ p.caret # p.asked /\ reissued = p.reissued /\ query = p.query
         \/ p.query = "Resolve" /\ reissued = p.reissued /\ query # "Resolve",
         owed' = Settled({p}) \/ UNCHANGED owed
  PROVE  /\ TableInv' /\ SlotInv' /\ CostInv'
         /\ \A q \in pending' : q.query = query \/ q \in pending
<1> DEFINE e == Request(p.doc, p.ticket, query, caret, call, reissued)
<1>1. /\ p.doc \in Registered /\ p.ticket \in Ticket /\ pending \ {p} \in SUBSET pending /\ state = "Running"
      /\ TableInv
  BY DEF ReqInv, TableInv, PendingEntry
<1>2. /\ TableInv' /\ nextRequest' = nextRequest + 1
      /\ e \in pending'
      /\ \A q \in pending \ {p} : ~(q.doc = p.doc /\ KindOf(q.query) = KindOf(query)) => q \in pending'
      /\ \A q \in pending' : q = e \/ q \in pending \ {p}
  <2>1. TableInv' /\ nextRequest' = nextRequest + 1
    BY <1>1, TableSending
  <2>2. /\ e \in pending'
        /\ \A q \in pending \ {p} : ~(q.doc = p.doc /\ KindOf(q.query) = KindOf(query)) => q \in pending'
        /\ \A q \in pending' : q = e \/ q \in pending \ {p}
    BY SendingFacts
  <2> QED
    BY <2>1, <2>2
<1>3. pending' = (pending \ {p}) \cup {e}
  <2>1. \A q \in pending \ {p} : ~(q.doc = p.doc /\ KindOf(q.query) = KindOf(query))
    BY <1>1 DEF TableInv, OneInFlight
  <2> QED
    BY <1>2, <2>1
<1>4. /\ e.doc = p.doc /\ e.query = query /\ e.ticket = p.ticket
      /\ e.caret = e.asked /\ e.reissued = reissued
  BY DEF Request
<1> HIDE DEF e
<1>5. SlotInv'
  <2>1. e \in pending' /\ pending \ {p} \subseteq pending' /\ KindOf(e.query) = KindOf(p.query) /\ SlotInv
    BY <1>3, <1>4 DEF ReqInv
  <2>2. CASE owed' = Settled({p})
    BY <1>1, <2>1, <2>2, SlotsSettled
  <2>3. CASE UNCHANGED owed
    BY <1>4, <2>1, <2>3, SlotsResent
  <2> QED
    BY <2>2, <2>3
<1>6. CostInv'
  BY <1>2, <1>3, <1>4, CostResent DEF docVars
<1> QED
  BY <1>2, <1>3, <1>4, <1>5, <1>6

LEMMA PlainReplyStep ==
  ASSUME DocInv, ReqInv, CostInv, UNCHANGED <<docVars, silenced>>, NEW p \in pending,
         \/ ReplyDropped(p) \/ ReplyEmpty(p) \/ Hovered(p) \/ Inlaid(p)
         \/ Renamed(p) \/ Formatted(p) \/ Defined(p)
  PROVE  ReqInv' /\ CostInv'
<1>1. /\ Keeping(pending \ {p}) /\ UNCHANGED <<issued, session>>
      /\ \/ owed' = Settled({p})
         \/ UNCHANGED owed /\ (~Awaited(p) \/ KindOf(p.query) \notin Slots)
  BY DEF ReplyDropped, ReplyEmpty, Hovered, Inlaid, Renamed, Formatted, Defined, KindOf, Slots
<1>2. TableInv' /\ SlotInv' /\ CostInv' /\ pending' = pending \ {p}
  BY <1>1, ReplyTaken
<1>3. CompletionInv'
  BY <1>1, <1>2, CompletionsKept DEF ReqInv
<1>4. DOMAIN inlays' \subseteq Registered
  <2>1. p.doc \in Registered
    BY DEF ReqInv, TableInv
  <2>2. inlays' = inlays \/ inlays' = With(inlays, p.doc, [rev |-> p.rev, revisions |-> p.revisions])
    BY DEF ReplyDropped, ReplyEmpty, Hovered, Inlaid, Renamed, Formatted, Defined
  <2> QED
    BY <2>1, <2>2 DEF With, ReqInv
<1> QED
  BY <1>1, <1>2, <1>3, <1>4 DEF ReqInv, docVars, Registered

LEMMA ModifiedStep ==
  ASSUME DocInv, ReqInv, CostInv, UNCHANGED <<docVars, silenced>>, NEW p \in pending, ReplyModified(p)
  PROVE  ReqInv' /\ CostInv'
<1>0. /\ p.query \in Queries /\ p.caret \in 0..MaxCaret /\ p.call \in {0, 1} /\ p.ticket.seq \in Nat
      /\ p.doc \in Registered
  BY DEF ReqInv, TableInv, PendingEntry, Ticket
<1>1. p.reissued # p.ticket.seq
  BY DEF ReplyModified
<1>2. CASE p.query = "Completion"
  <2>1. /\ RequestingCompletion(pending \ {p}, p.doc, p.ticket, p.caret, p.ticket.seq)
        /\ UNCHANGED <<inlays, issued, owed>>
    BY <1>2 DEF ReplyModified
  <2>2. /\ Sending(pending \ {p}, p.doc, p.ticket, "Completion", p.caret, 0, p.ticket.seq)
        /\ KindOf("Completion") = KindOf(p.query)
    BY <1>2, <2>1 DEF RequestingCompletion
  <2>3. TableInv' /\ SlotInv' /\ CostInv'
    BY <1>0, <1>1, <1>2, <2>1, <2>2, ReplyResent
  <2>4. CompletionInv'
    <3>1. pending \ {p} \in SUBSET pending /\ CompletionInv
      BY DEF ReqInv
    <3> QED
      BY <1>0, <2>1, <3>1, CompletionsAsked
  <2> QED
    BY <2>1, <2>3, <2>4 DEF ReqInv, docVars, Registered
<1>3. CASE p.query # "Completion"
  <2>1. /\ Sending(pending \ {p}, p.doc, p.ticket, p.query, p.caret, p.call, p.ticket.seq)
        /\ UNCHANGED <<inlays, issued, owed, session>>
    BY <1>3 DEF ReplyModified
  <2>2. TableInv' /\ SlotInv' /\ CostInv' /\ \A q \in pending' : q.query = p.query \/ q \in pending
    BY <1>0, <1>1, <1>3, <2>1, ReplyResent
  <2>3. CompletionInv'
    BY <1>3, <2>1, <2>2, CompletionsKept DEF ReqInv
  <2> QED
    BY <2>1, <2>2, <2>3 DEF ReqInv, docVars, Registered
<1> QED
  BY <1>2, <1>3

\* A request that ends in silence: only its own ticket is no longer in flight.
LEMMA SilentStep ==
  ASSUME DocInv, ReqInv, CostInv, UNCHANGED docVars, NEW p \in pending, ReplySilent(p)
  PROVE  ReqInv' /\ CostInv'
<1>1. /\ Keeping(pending \ {p}) /\ UNCHANGED <<issued, session, inlays, owed>>
      /\ silenced' = silenced \cup ({p.ticket} \cap {owed[x] : x \in DOMAIN owed})
  BY DEF ReplySilent
<1>2. TableInv' /\ pending' = pending \ {p} /\ nextRequest' = nextRequest
  BY <1>1, TableKeeping DEF ReqInv
<1>3. ASSUME NEW x \in DOMAIN owed, x[1] \in Registered, tracked[x[1]].synced = owed[x].rev,
             owed[x] \notin silenced'
      PROVE  \E q \in pending' : q.doc = x[1] /\ KindOf(q.query) = x[2] /\ q.ticket = owed[x]
  <2>1. PICK q \in Of(x[1], x[2]) : q.ticket = owed[x]
    BY <1>1, <1>3 DEF ReqInv, SlotInv, OwedIsInFlight
  <2>2. q # p
    BY <1>1, <1>3, <2>1
  <2> QED
    BY <1>2, <2>1, <2>2 DEF Of
<1>4. OwedIsInFlight'
  BY <1>1, <1>3 DEF OwedIsInFlight, docVars, Registered, Of
<1>5. SlotInv'
  BY <1>1, <1>4 DEF ReqInv, SlotInv, docVars, Registered
<1>6. CompletionInv'
  BY <1>1, <1>2, CompletionsKept DEF ReqInv
<1>7. CostInv'
  BY <1>1, <1>2, CostKeeping DEF docVars
<1> QED
  BY <1>1, <1>2, <1>5, <1>6, <1>7 DEF ReqInv, docVars, Registered

LEMMA CompletedStep ==
  ASSUME DocInv, ReqInv, CostInv, UNCHANGED <<docVars, silenced>>, NEW p \in pending, Completed(p)
  PROVE  ReqInv' /\ CostInv'
<1>0. /\ p.query = "Completion" /\ p.caret \in 0..MaxCaret /\ p.reissued \in Nat
      /\ p.doc \in Registered /\ p.doc \in DOMAIN session /\ "Completion" \in Queries
  BY DEF Completed, ReqInv, TableInv, PendingEntry, CompletionInv, SessionOfPending, Queries, Slots
<1>1. PICK incomplete \in BOOLEAN :
        /\ \/ /\ p.caret # p.asked
              /\ RequestingCompletion(pending \ {p}, p.doc, p.ticket, p.caret, p.reissued)
           \/ /\ session' = [session EXCEPT ![p.doc].filled = TRUE, ![p.doc].incomplete = incomplete]
              /\ Keeping(pending \ {p})
        /\ owed' = Settled({p})
        /\ UNCHANGED <<inlays, issued>>
  BY <1>0 DEF Completed
<1>2. CASE /\ p.caret # p.asked
           /\ RequestingCompletion(pending \ {p}, p.doc, p.ticket, p.caret, p.reissued)
  <2>1. Sending(pending \ {p}, p.doc, p.ticket, "Completion", p.caret, 0, p.reissued)
    BY <1>2 DEF RequestingCompletion
  <2>2. TableInv' /\ SlotInv' /\ CostInv'
    BY <1>0, <1>1, <1>2, <2>1, ReplyResent
  <2>3. CompletionInv'
    <3>1. pending \ {p} \in SUBSET pending /\ CompletionInv
      BY DEF ReqInv
    <3> QED
      BY <1>0, <1>2, <3>1, CompletionsAsked
  <2> QED
    BY <1>1, <2>2, <2>3 DEF ReqInv, docVars, Registered
<1>3. CASE /\ session' = [session EXCEPT ![p.doc].filled = TRUE, ![p.doc].incomplete = incomplete]
           /\ Keeping(pending \ {p})
  <2>1. TableInv' /\ SlotInv' /\ CostInv' /\ pending' = pending \ {p}
    BY <1>1, <1>3, ReplyTaken
  <2>2. /\ session \in [DOMAIN session -> CompletionSession] /\ DOMAIN session \subseteq Registered
        /\ session[p.doc] \in CompletionSession
    BY <1>0 DEF ReqInv, CompletionInv
  <2>3. /\ DOMAIN session' = DOMAIN session /\ session' \in [DOMAIN session -> CompletionSession]
        /\ \A x \in DOMAIN session : x # p.doc => session'[x] = session[x]
    <3>1. [session[p.doc] EXCEPT !.filled = TRUE, !.incomplete = incomplete] \in CompletionSession
      BY <2>2 DEF CompletionSession
    <3>2. session' = [session EXCEPT ![p.doc] = [session[p.doc] EXCEPT !.filled = TRUE, !.incomplete = incomplete]]
      BY <1>0, <1>3, <2>2
    <3> QED
      BY <2>2, <3>1, <3>2
  <2>4. SessionOfPending'
    <3> SUFFICES ASSUME NEW q \in pending', q.query = "Completion"
                 PROVE  /\ q.doc \in DOMAIN session'
                        /\ session'[q.doc].rev = q.rev /\ session'[q.doc].caret = q.asked
                        /\ ~session'[q.doc].filled /\ q.caret >= q.asked
      BY DEF SessionOfPending
    <3>1. q \in pending /\ q.doc # p.doc
      BY <1>0, <2>1 DEF ReqInv, TableInv, OneInFlight
    <3>2. /\ q.doc \in DOMAIN session
          /\ session[q.doc].rev = q.rev /\ session[q.doc].caret = q.asked
          /\ ~session[q.doc].filled /\ q.caret >= q.asked
      BY <3>1 DEF ReqInv, CompletionInv, SessionOfPending
    <3> QED
      BY <2>3, <3>1, <3>2
  <2>5. CompletionInv'
    BY <2>2, <2>3, <2>4 DEF CompletionInv, docVars, Registered
  <2> QED
    BY <1>1, <2>1, <2>5 DEF ReqInv, docVars, Registered
<1> QED
  BY <1>1, <1>2, <1>3

LEMMA SignedStep ==
  ASSUME DocInv, ReqInv, CostInv, UNCHANGED <<docVars, silenced>>, NEW p \in pending, Signed(p)
  PROVE  ReqInv' /\ CostInv'
<1>0. /\ p.query = "Signature" /\ p.caret \in 0..MaxCaret /\ p.call \in {0, 1} /\ p.reissued \in Nat
      /\ "Signature" \in Queries
  BY DEF Signed, ReqInv, TableInv, PendingEntry, Queries, Slots
<1>1. owed' = Settled({p}) /\ UNCHANGED <<inlays, issued, session>>
  BY DEF Signed
<1>2. CASE p.caret # p.asked
  <2>1. Sending(pending \ {p}, p.doc, p.ticket, "Signature", p.caret, p.call, p.reissued)
    BY <1>2 DEF Signed
  <2>2. TableInv' /\ SlotInv' /\ CostInv' /\ \A q \in pending' : q.query = "Signature" \/ q \in pending
    BY <1>0, <1>1, <1>2, <2>1, ReplyResent
  <2>3. CompletionInv'
    BY <1>1, <2>2, CompletionsKept DEF ReqInv
  <2> QED
    BY <1>1, <2>2, <2>3 DEF ReqInv, docVars, Registered
<1>3. CASE p.caret = p.asked
  <2>1. Keeping(pending \ {p})
    BY <1>3 DEF Signed
  <2>2. TableInv' /\ SlotInv' /\ CostInv' /\ pending' = pending \ {p}
    BY <1>1, <2>1, ReplyTaken
  <2>3. CompletionInv'
    BY <1>1, <2>2, CompletionsKept DEF ReqInv
  <2> QED
    BY <1>1, <2>2, <2>3 DEF ReqInv, docVars, Registered
<1> QED
  BY <1>2, <1>3

LEMMA ResolvedStep ==
  ASSUME DocInv, ReqInv, CostInv, UNCHANGED <<docVars, silenced>>, NEW p \in pending, TooltipResolved(p)
  PROVE  ReqInv' /\ CostInv'
<1>0. /\ p.query = "Resolve" /\ p.reissued \in Nat /\ 0 \in 0..MaxCaret /\ "LocationHover" \in Queries
      /\ KindOf("LocationHover") = KindOf(p.query)
      /\ UNCHANGED <<inlays, issued, session>>
  BY RequestBounds DEF TooltipResolved, ReqInv, TableInv, PendingEntry, Queries, KindOf
<1>1. CASE Keeping(pending \ {p}) /\ owed' = Settled({p})
  <2>1. TableInv' /\ SlotInv' /\ CostInv' /\ pending' = pending \ {p}
    BY <1>0, <1>1, ReplyTaken
  <2>2. CompletionInv'
    BY <1>0, <2>1, CompletionsKept DEF ReqInv
  <2> QED
    BY <1>0, <2>1, <2>2 DEF ReqInv, docVars, Registered
<1>2. CASE Sending(pending \ {p}, p.doc, p.ticket, "LocationHover", 0, 0, p.reissued) /\ UNCHANGED owed
  <2>1. TableInv' /\ SlotInv' /\ CostInv' /\ \A q \in pending' : q.query = "LocationHover" \/ q \in pending
    BY <1>0, <1>2, ReplyResent
  <2>2. CompletionInv'
    BY <1>0, <2>1, CompletionsKept DEF ReqInv
  <2> QED
    BY <1>0, <2>1, <2>2 DEF ReqInv, docVars, Registered
<1> QED
  BY <1>1, <1>2 DEF TooltipResolved, HoverLocation

\* The server's look at the texts changes no request.
LEMMA ReadStep ==
  ASSUME DocInv, ReqInv, CostInv, UNCHANGED <<docVars, silenced>>, NEW p \in pending, ServerReads(p)
  PROVE  ReqInv' /\ CostInv'
<1>1. UNCHANGED <<pending, nextRequest, issued, session, inlays, owed>> /\ DOMAIN view' = DOMAIN view \cup {p.id}
  BY DEF ServerReads, With
<1>2. TableInv'
  BY <1>1 DEF ReqInv, TableInv, OneInFlight, docVars, Registered
<1>3. SlotInv'
  BY <1>1, SlotsBeside DEF ReqInv
<1>4. CompletionInv'
  BY <1>1, CompletionsKept DEF ReqInv
<1>5. CostInv'
  BY <1>1, CostKeeping DEF docVars
<1> QED
  BY <1>1, <1>2, <1>3, <1>4, <1>5 DEF ReqInv, docVars, Registered

----------------------------------------------------------------------------
\* Opening and closing: a document's requests are cancelled, the others note the files.
LEMMA ForgettingFacts ==
  ASSUME ReqInv, NEW d, NEW files \in SUBSET Keys, Forgetting(d, files)
  PROVE  /\ \A r \in pending' : \E p \in pending :
              /\ p.doc # d /\ r = [p EXCEPT !.disturbed = @ \cup files]
              /\ r \in PendingEntry /\ r.id = p.id /\ r.doc = p.doc /\ r.query = p.query /\ r.rev = p.rev
              /\ r.ticket = p.ticket /\ r.caret = p.caret /\ r.asked = p.asked
              /\ r.reissued = p.reissued /\ r.revisions = p.revisions
              /\ r.disturbed = p.disturbed \cup files
         /\ \A p \in pending : p.doc # d =>
              \E r \in pending' : r.doc = p.doc /\ r.query = p.query /\ r.ticket = p.ticket
<1>1. pending' = {[p EXCEPT !.disturbed = @ \cup files] : p \in {q \in pending : q.doc # d}}
  BY DEF Forgetting, Keeping
<1>2. \A p \in pending : LET r == [p EXCEPT !.disturbed = @ \cup files] IN
        /\ r \in PendingEntry /\ r.id = p.id /\ r.doc = p.doc /\ r.query = p.query /\ r.rev = p.rev
        /\ r.ticket = p.ticket /\ r.caret = p.caret /\ r.asked = p.asked
        /\ r.reissued = p.reissued /\ r.revisions = p.revisions
        /\ r.disturbed = p.disturbed \cup files
  <2> SUFFICES ASSUME NEW p \in PendingEntry
               PROVE  LET r == [p EXCEPT !.disturbed = @ \cup files] IN
                      /\ r \in PendingEntry /\ r.id = p.id /\ r.doc = p.doc /\ r.query = p.query /\ r.rev = p.rev
                      /\ r.ticket = p.ticket /\ r.caret = p.caret /\ r.asked = p.asked
                      /\ r.reissued = p.reissued /\ r.revisions = p.revisions
                      /\ r.disturbed = p.disturbed \cup files
    BY DEF ReqInv, TableInv
  <2> QED
    BY DEF PendingEntry
<1>3. ASSUME NEW r \in pending'
      PROVE  \E p \in pending :
              /\ p.doc # d /\ r = [p EXCEPT !.disturbed = @ \cup files]
              /\ r \in PendingEntry /\ r.id = p.id /\ r.doc = p.doc /\ r.query = p.query /\ r.rev = p.rev
              /\ r.ticket = p.ticket /\ r.caret = p.caret /\ r.asked = p.asked
              /\ r.reissued = p.reissued /\ r.revisions = p.revisions
              /\ r.disturbed = p.disturbed \cup files
  <2>1. PICK p \in pending : p.doc # d /\ r = [p EXCEPT !.disturbed = @ \cup files]
    BY <1>1
  <2> QED
    BY <1>2, <2>1
<1>4. ASSUME NEW p \in pending, p.doc # d
      PROVE  \E r \in pending' : r.doc = p.doc /\ r.query = p.query /\ r.ticket = p.ticket
  <2>1. [p EXCEPT !.disturbed = @ \cup files] \in pending'
    BY <1>1, <1>4
  <2> QED
    BY <1>2, <2>1
<1> QED
  BY <1>3, <1>4

LEMMA ForgettingCosts ==
  ASSUME DocInv, ReqInv, CostInv, NEW d, NEW files \in SUBSET Keys, Forgetting(d, files),
         connection' = connection
  PROVE  CostInv'
<1> DEFINE noted(p) == [p EXCEPT !.disturbed = @ \cup files]
<1>1. /\ pending' \subseteq {noted(p) : p \in pending}
      /\ Reissuable' \subseteq {noted(p) : p \in Reissuable}
      /\ Moved' \subseteq {noted(p) : p \in Moved}
      /\ Resolving' \subseteq {noted(p) : p \in Resolving}
  BY ForgettingFacts DEF Reissuable, Moved, Resolving
<1>2. ASSUME NEW S, IsFiniteSet(S), NEW T, T \subseteq {noted(p) : p \in S}
      PROVE  IsFiniteSet(T) /\ Cardinality(T) \in Nat /\ Cardinality(T) <= Cardinality(S) + 0
  <2> DEFINE f == [p \in S |-> noted(p)]
  <2>1. DOMAIN f = S /\ f = [p \in S |-> f[p]] /\ T \in SUBSET {f[p] : p \in S}
    BY <1>2
  <2> HIDE DEF f
  <2> QED
    BY <1>2, <2>1, CountImage
<1> HIDE DEF noted
<1>3. /\ IsFiniteSet(pending')
      /\ Cardinality(Reissuable') \in Nat /\ Cardinality(Reissuable') <= Cardinality(Reissuable) + 0
      /\ Cardinality(Moved') \in Nat /\ Cardinality(Moved') <= Cardinality(Moved) + 0
      /\ Cardinality(Resolving') \in Nat /\ Cardinality(Resolving') <= Cardinality(Resolving) + 0
  BY <1>1, <1>2, CountsFacts
<1>4. issued' = issued + 0 /\ nextRequest' = nextRequest
      /\ nextRequest' - connection' = nextRequest - connection + 0 /\ nextRequest' \in Nat /\ connection' \in Nat
  BY CountsFacts DEF Forgetting, Keeping
<1>5. \A p \in pending' : p.ticket.seq <= issued' /\ p.reissued <= issued'
  BY <1>4, ForgettingFacts, CountsFacts DEF CostInv
<1>6. 0 + 0 + 0 + 0 <= RequestsPerTicket * 0 /\ 0 \in Int /\ 0 \in {0, 1}
  BY DEF RequestsPerTicket
<1> QED
  BY ONLY DocInv, ReqInv, CostInv, <1>3, <1>4, <1>5, <1>6, CostStep

LEMMA ForgettingStep ==
  ASSUME DocInv, ReqInv, CostInv, NEW d, NEW files \in SUBSET Keys, Forgetting(d, files),
         UNCHANGED <<state, connection>>,
         Registered' \ {d} = Registered \ {d}, \A e \in Registered \ {d} : tracked'[e] = tracked[e]
  PROVE  ReqInv' /\ CostInv'
<1>1. TableInv'
  <2>1. /\ pending' \in SUBSET PendingEntry
        /\ \A p \in pending' : p.id < nextRequest' /\ p.doc \in Registered'
    <3>1. ASSUME NEW r \in pending'
          PROVE  r \in PendingEntry /\ r.id < nextRequest /\ r.doc \in Registered'
      <4>1. PICK p \in pending : p.doc # d /\ r \in PendingEntry /\ r.id = p.id /\ r.doc = p.doc
        BY ForgettingFacts
      <4>2. p.id < nextRequest /\ p.doc \in Registered
        BY DEF ReqInv, TableInv
      <4> QED
        BY <4>1, <4>2
    <3>2. nextRequest' = nextRequest
      BY DEF Forgetting, Keeping
    <3> QED
      BY <3>1, <3>2
  <2>2. OneInFlight'
    <3> SUFFICES ASSUME NEW p \in pending', NEW q \in pending', p.doc = q.doc,
                        KindOf(p.query) = KindOf(q.query)
                 PROVE  p = q
      BY DEF OneInFlight
    <3>1. PICK a \in pending : a.doc = p.doc /\ a.query = p.query /\ p = [a EXCEPT !.disturbed = @ \cup files]
      BY ForgettingFacts
    <3>2. PICK b \in pending : b.doc = q.doc /\ b.query = q.query /\ q = [b EXCEPT !.disturbed = @ \cup files]
      BY ForgettingFacts
    <3>3. a = b
      BY <3>1, <3>2 DEF ReqInv, TableInv, OneInFlight
    <3> QED
      BY <3>1, <3>2, <3>3
  <2>3. /\ nextRequest' \in Nat /\ DOMAIN view' \subseteq {p.id : p \in pending'}
        /\ state' # "Running" => pending' = {}
    BY DEF Forgetting, Keeping, ReqInv, TableInv
  <2> QED
    BY <2>1, <2>2, <2>3 DEF TableInv
<1>2. SlotInv'
  <2>1. \A x \in DOMAIN owed' : x \in DOMAIN owed /\ x[1] # d /\ owed'[x] = owed[x]
    BY DEF Forgetting
  <2>2. \A x \in DOMAIN owed' : x[1] \in Registered' => x[1] \in Registered /\ tracked'[x[1]] = tracked[x[1]]
    BY <2>1
  <2>3. ASSUME NEW x \in DOMAIN owed', x[1] \in Registered', tracked'[x[1]].synced = owed'[x].rev,
               owed'[x] \notin silenced'
        PROVE  \E q \in pending' : q.doc = x[1] /\ KindOf(q.query) = x[2] /\ q.ticket = owed'[x]
    <3>1. PICK p \in Of(x[1], x[2]) : p.ticket = owed[x]
      BY <2>1, <2>2, <2>3 DEF ReqInv, SlotInv, OwedIsInFlight, Forgetting
    <3>2. p \in pending /\ p.doc = x[1] /\ KindOf(p.query) = x[2]
      BY <3>1 DEF Of
    <3> QED
      BY <2>1, <3>1, <3>2, ForgettingFacts
  <2>4. OwedIsInFlight'
    BY <2>3 DEF OwedIsInFlight, Of
  <2> QED
    BY <2>1, <2>2, <2>4 DEF ReqInv, SlotInv
<1>3. CompletionInv'
  <2>1. session' = Without(session, d)
    BY DEF Forgetting
  <2>2. DOMAIN session' \subseteq Registered' /\ session' \in [DOMAIN session' -> CompletionSession]
    BY <2>1 DEF Without, ReqInv, CompletionInv
  <2>3. SessionOfPending'
    <3> SUFFICES ASSUME NEW q \in pending', q.query = "Completion"
                 PROVE  /\ q.doc \in DOMAIN session'
                        /\ session'[q.doc].rev = q.rev /\ session'[q.doc].caret = q.asked
                        /\ ~session'[q.doc].filled /\ q.caret >= q.asked
      BY DEF SessionOfPending
    <3>1. PICK p \in pending : /\ p.doc # d /\ q.doc = p.doc /\ q.query = p.query /\ q.rev = p.rev
                               /\ q.caret = p.caret /\ q.asked = p.asked
      BY ForgettingFacts
    <3>2. /\ p.doc \in DOMAIN session
          /\ session[p.doc].rev = p.rev /\ session[p.doc].caret = p.asked
          /\ ~session[p.doc].filled /\ p.caret >= p.asked
      BY <3>1 DEF ReqInv, CompletionInv, SessionOfPending
    <3> QED
      BY <2>1, <3>1, <3>2 DEF Without
  <2> QED
    BY <2>2, <2>3 DEF CompletionInv
<1>4. issued' \in 0..MaxTickets /\ DOMAIN inlays' \subseteq Registered'
  BY DEF Forgetting, Without, ReqInv
<1>5. CostInv'
  BY ForgettingCosts
<1> QED
  BY <1>1, <1>2, <1>3, <1>4, <1>5 DEF ReqInv

----------------------------------------------------------------------------
\* The end of a connection, and the documents' own steps.
LEMMA SettledStep ==
  ASSUME DocInv, ReqInv, CostInv, SettlingPending, UNCHANGED <<connection, issued>>,
         Registered' = Registered, \A d \in Registered : tracked'[d].synced = tracked[d].synced,
         session' \in {session, Nothing}, inlays' \in {inlays, Nothing}
  PROVE  ReqInv' /\ CostInv'
<1>1. pending' = {} /\ DOMAIN view' = {} /\ nextRequest' = nextRequest
  BY DEF SettlingPending, Keeping
<1>2. TableInv'
  BY <1>1 DEF ReqInv, TableInv, OneInFlight
<1>3. SlotInv'
  <2>1. \A x \in DOMAIN owed' : /\ x \in DOMAIN owed /\ owed'[x] = owed[x]
                                /\ ~\E p \in pending : /\ Awaited(p) /\ x = <<p.doc, KindOf(p.query)>>
                                                       /\ owed[x] = p.ticket
    BY DEF SettlingPending, Settled
  <2>2. ASSUME NEW x \in DOMAIN owed', x[1] \in Registered', tracked'[x[1]].synced = owed'[x].rev,
               owed'[x] \notin silenced'
        PROVE  FALSE
    <3>1. x = <<x[1], x[2]>>
      BY <2>1 DEF ReqInv, SlotInv
    <3>2. PICK p \in Of(x[1], x[2]) : p.ticket = owed[x]
      BY <2>1, <2>2 DEF ReqInv, SlotInv, OwedIsInFlight, SettlingPending
    <3>3. p \in pending /\ p.doc = x[1] /\ KindOf(p.query) = x[2]
      BY <3>2 DEF Of
    <3>4. Awaited(p)
      BY <2>1, <2>2, <3>2, <3>3 DEF Awaited
    <3> QED
      BY <2>1, <3>1, <3>2, <3>3, <3>4
  <2>3. OwedIsInFlight'
    BY <2>2 DEF OwedIsInFlight
  <2> QED
    BY <2>1, <2>3 DEF ReqInv, SlotInv
<1>4. CompletionInv'
  <2>1. DOMAIN session' \subseteq Registered' /\ session' \in [DOMAIN session' -> CompletionSession]
    BY NothingFacts DEF ReqInv, CompletionInv, Nothing
  <2> QED
    BY <1>1, <2>1 DEF CompletionInv, SessionOfPending
<1>5. CostInv'
  BY <1>1, CostKeeping
<1>6. DOMAIN inlays' \subseteq Registered' /\ issued' \in 0..MaxTickets
  BY NothingFacts DEF ReqInv
<1> QED
  BY <1>2, <1>3, <1>4, <1>5, <1>6 DEF ReqInv

LEMMA ReinitializeStep ==
  ASSUME DocInv, ReqInv, CostInv, Reinitialize
  PROVE  ReqInv' /\ CostInv'
<1>1. /\ pending = {} /\ nextRequest' = nextRequest + 1 /\ connection' = connection + 1
      /\ UNCHANGED <<tracked, pending, issued, session, inlays, owed, silenced, view>>
  BY DEF Reinitialize, ReinitializeDocs, DocInv, UpWhileInUse, ReqInv, TableInv
<1>2. TableInv'
  BY <1>1 DEF ReqInv, TableInv, OneInFlight
<1>3. SlotInv'
  BY <1>1 DEF ReqInv, SlotInv, OwedIsInFlight, Of, Registered
<1>4. CompletionInv' /\ issued' \in 0..MaxTickets /\ DOMAIN inlays' \subseteq Registered'
  BY <1>1 DEF ReqInv, CompletionInv, SessionOfPending, Registered
<1>5. CostInv'
  <2>1. Reissuable' = Reissuable /\ Moved' = Moved /\ Resolving' = Resolving
    BY <1>1 DEF Reissuable, Moved, Resolving
  <2>2. nextRequest' - connection' = nextRequest - connection
    BY <1>1, CountsFacts
  <2>3. nextRequest' - connection' - 1 = nextRequest - connection - 1
    BY <1>1, <2>2, CountsFacts
  <2> QED
    BY <1>1, <2>1, <2>3 DEF CostInv, RequestsPerTicket
<1> QED
  BY <1>2, <1>3, <1>4, <1>5 DEF ReqInv

\* A step of the documents alone that takes no synced text back, and stops no server under requests.
LEMMA BesideRequests ==
  ASSUME DocInv, ReqInv, CostInv, UNCHANGED reqVars, connection' = connection, Registered' = Registered,
         \A d \in Registered : tracked'[d].synced \in Nat /\ tracked'[d].synced >= tracked[d].synced,
         state' # "Running" => pending = {}
  PROVE  ReqInv' /\ CostInv'
<1>1. TableInv'
  BY DEF ReqInv, TableInv, OneInFlight, reqVars
<1>2. SlotInv'
  <2>1. \A x \in DOMAIN owed : x[1] \in Registered =>
          /\ owed[x].rev \in Nat /\ owed[x].rev <= tracked[x[1]].synced /\ tracked[x[1]].synced \in Nat
    BY SessionBounds, TrackedFacts DEF ReqInv, SlotInv, Ticket, DocInv
  <2>2. \A x \in DOMAIN owed : x[1] \in Registered =>
          /\ owed[x].rev <= tracked'[x[1]].synced
          /\ tracked'[x[1]].synced = owed[x].rev => tracked[x[1]].synced = owed[x].rev
    BY <2>1
  <2> QED
    BY <2>2 DEF ReqInv, SlotInv, OwedIsInFlight, Of, reqVars
<1>3. CompletionInv' /\ issued' \in 0..MaxTickets /\ DOMAIN inlays' \subseteq Registered'
  BY DEF ReqInv, CompletionInv, SessionOfPending, reqVars
<1>4. CostInv'
  BY CostKeeping DEF reqVars
<1> QED
  BY <1>1, <1>2, <1>3, <1>4 DEF ReqInv

LEMMA DocumentsBeside ==
  ASSUME DocInv, ReqInv, CostInv, DocumentStep
  PROVE  ReqInv' /\ CostInv'
<1>0. /\ \A d \in Registered : tracked[d].synced \in Nat
      /\ UNCHANGED reqVars /\ (state # "Running" => pending = {})
  BY SessionBounds, TrackedFacts DEF DocInv, DocumentStep, ReqInv, TableInv
<1>1. ASSUME NEW d \in Docs, Edit(d) PROVE ReqInv' /\ CostInv'
  BY <1>0, <1>1, BesideRequests DEF Edit, Registered
<1>2. ASSUME NEW d \in Docs, SyncDoc(d) PROVE ReqInv' /\ CostInv'
  <2>1. /\ Registered' = Registered /\ state' = state /\ connection' = connection
        /\ \A e \in Registered \ {d} : tracked'[e] = tracked[e]
        /\ tracked'[d].synced > tracked[d].synced
    BY <1>2, SyncFacts DEF SyncDoc
  <2>2. DocTypes'
    BY <1>2, SyncTypes DEF DocInv
  <2>3. \A e \in Registered : tracked'[e].synced \in Nat
    BY <2>1, <2>2, SessionBounds DEF DocTypes, Entries
  <2>4. \A e \in Registered : tracked'[e].synced >= tracked[e].synced
    BY <1>0, <2>1, <2>3
  <2> QED
    BY <1>0, <2>1, <2>3, <2>4, BesideRequests
<1>3. ASSUME NEW s \in Servers, InitializedDocs(s) PROVE ReqInv' /\ CostInv'
  <2>1. /\ Registered' = Registered /\ state' = "Running" /\ connection' = connection
        /\ \A e \in Registered : tracked'[e].synced = tracked[e].synced
    BY <1>3, TrackedFacts DEF InitializedDocs, Registered, DocInv, DocTypes, Entries
  <2> QED
    BY <1>0, <2>1, BesideRequests
<1>4. CASE RefusedDocs
  BY <1>0, <1>4, BesideRequests DEF RefusedDocs, Registered
<1>5. ASSUME NEW k \in Keys, Publish(k) PROVE ReqInv' /\ CostInv'
  BY <1>0, <1>5, BesideRequests DEF Publish, Registered
<1>6. CASE ReceivePublish
  BY <1>0, <1>6, BesideRequests DEF ReceivePublish, Registered
<1> QED
  BY <1>1, <1>2, <1>3, <1>4, <1>5, <1>6 DEF DocumentStep
----------------------------------------------------------------------------
\* Every step keeps what is known of the requests.
LEMMA InitReqInv == Init => ReqInv /\ CostInv
<1> SUFFICES ASSUME Init PROVE ReqInv /\ CostInv
  OBVIOUS
<1>1. /\ pending = {} /\ nextRequest = 2 /\ issued = 0 /\ connection = 1
      /\ DOMAIN session = {} /\ DOMAIN inlays = {} /\ DOMAIN owed = {} /\ DOMAIN view = {}
      /\ session \in [{} -> CompletionSession]
  BY DEF Init, DocInit, ReqInit, Nothing
<1>2. ReqInv
  BY <1>1, RequestBounds DEF ReqInv, TableInv, OneInFlight, SlotInv, OwedIsInFlight, CompletionInv,
    SessionOfPending
<1>3. Reissuable = {} /\ Moved = {} /\ Resolving = {}
  BY <1>1 DEF Reissuable, Moved, Resolving
<1>4. CostInv
  BY <1>1, <1>3, FS_EmptySet DEF CostInv, RequestsPerTicket
<1> QED
  BY <1>2, <1>4

LEMMA ReqStep ==
  ASSUME DocInv, ReqInv, CostInv, [Next]_vars
  PROVE  ReqInv' /\ CostInv'
<1>1. ASSUME NEW d \in Docs, NEW k \in Keys, Open(d, k) PROVE ReqInv' /\ CostInv'
  <2>1. {k} \cup KeyOf(d) \in SUBSET Keys
    BY TrackedFacts DEF KeyOf, DocInv
  <2>2. Registered' \ {d} = Registered \ {d} /\ \A e \in Registered \ {d} : tracked'[e] = tracked[e]
    BY <1>1, OpenFacts DEF Open
  <2> QED
    BY <1>1, <2>1, <2>2, ForgettingStep DEF Open, OpenDoc
<1>2. ASSUME NEW d \in Docs, Close(d) PROVE ReqInv' /\ CostInv'
  <2>1. KeyOf(d) \in SUBSET Keys
    BY TrackedFacts DEF KeyOf, DocInv
  <2>2. Registered' \ {d} = Registered \ {d} /\ \A e \in Registered \ {d} : tracked'[e] = tracked[e]
    BY <1>2, CloseFacts DEF Close
  <2> QED
    BY <1>2, <2>1, <2>2, ForgettingStep DEF Close, CloseDoc
<1>3. CASE Shutdown
  BY <1>3, SettledStep DEF Shutdown, ShutdownDocs, Registered
<1>4. CASE Disconnected
  <2>1. /\ Registered' = Registered /\ UNCHANGED connection
        /\ \A d \in Registered : tracked'[d].synced = tracked[d].synced
    BY <1>4, TrackedFacts DEF Disconnected, DisconnectedDocs, Registered, DocInv, DocTypes, Entries
  <2> QED
    BY <1>4, <2>1, SettledStep DEF Disconnected
<1>5. CASE Reinitialize
  BY <1>5, ReinitializeStep
<1>6. CASE DocumentStep
  BY <1>6, DocumentsBeside
<1>7. CASE RequestStep
  <2>0. UNCHANGED docVars
    BY <1>7 DEF RequestStep
  <2>1. ASSUME NEW d \in Docs, Complete(d) \/ SignatureHelp(d) \/ Interact(d), UNCHANGED silenced
        PROVE  ReqInv' /\ CostInv'
    BY <2>0, <2>1, CompleteStep, SignatureStep, InteractStep
  <2>2. ASSUME NEW d \in Docs, NEW kind \in Kinds, Ask(d, kind) \/ Command(d, kind), UNCHANGED silenced
        PROVE  ReqInv' /\ CostInv'
    BY <2>0, <2>2, AskStep, CommandStep
  <2>3. ASSUME NEW p \in pending, ServerReads(p), UNCHANGED silenced PROVE ReqInv' /\ CostInv'
    BY <2>0, <2>3, ReadStep
  <2>4. ASSUME NEW p \in pending, Reply(p) PROVE ReqInv' /\ CostInv'
    <3>1. CASE /\ \/ ReplyDropped(p) \/ ReplyEmpty(p) \/ Hovered(p) \/ Inlaid(p)
                  \/ Renamed(p) \/ Formatted(p) \/ Defined(p)
               /\ UNCHANGED silenced
      BY <2>0, <3>1, PlainReplyStep
    <3>2. CASE /\ ReplyModified(p) \/ Completed(p) \/ Signed(p) \/ TooltipResolved(p)
               /\ UNCHANGED silenced
      BY <2>0, <3>2, ModifiedStep, CompletedStep, SignedStep, ResolvedStep
    <3>3. CASE ReplySilent(p)
      BY <2>0, <3>3, SilentStep
    <3> QED
      BY <2>4, <3>1, <3>2, <3>3 DEF Reply, Answer
  <2> QED
    BY <1>7, <2>1, <2>2, <2>3, <2>4 DEF RequestStep
<1>8. CASE UNCHANGED vars
  <2>1. UNCHANGED docVars /\ UNCHANGED reqVars
    BY <1>8 DEF vars
  <2>2. \A d \in Registered : tracked[d].synced \in Nat
    BY SessionBounds, TrackedFacts DEF DocInv
  <2> QED
    BY <2>1, <2>2, BesideRequests DEF docVars, Registered, ReqInv, TableInv
<1> QED
  BY <1>1, <1>2, <1>3, <1>4, <1>5, <1>6, <1>7, <1>8 DEF Next

LEMMA ReqInvariance == Spec => [](ReqInv /\ CostInv)
<1>1. Init => ReqInv /\ CostInv
  BY InitReqInv
<1>2. DocInv /\ (ReqInv /\ CostInv) /\ [Next]_vars => (ReqInv /\ CostInv)'
  BY ReqStep
<1> QED
  BY <1>1, <1>2, DocInvariance, PTL DEF Spec

\* An editor that waits under a ticket of the synced text has it in flight, unless the server
\* cancelled that very request or called it modified twice (session.rs:902-904, 944-946); and a
\* completion in flight answers the session it belongs to, at a caret that only moved forward.
THEOREM EditorsDoNotHang == Spec => []InFlightIsOwed
<1>1. ReqInv => InFlightIsOwed
  BY DEF ReqInv, SlotInv, CompletionInv, InFlightIsOwed
<1> QED
  BY <1>1, ReqInvariance, PTL

\* Whatever the server answers, a ticket costs two requests, or three with tooltips.
THEOREM TicketsCostABounded == Spec => []BoundedReissue
<1>1. DocInv /\ ReqInv /\ CostInv => BoundedReissue
  <2> SUFFICES ASSUME DocInv, ReqInv, CostInv PROVE BoundedReissue
    OBVIOUS
  <2> DEFINE R == RequestsPerTicket * issued
  <2>1. (nextRequest - connection - 1)
          + Cardinality(Reissuable) + Cardinality(Moved) + Cardinality(Resolving) <= R /\ R \in Int
    BY CountsFacts DEF CostInv, RequestsPerTicket
  <2> HIDE DEF R
  <2>2. nextRequest - connection - 1 <= R
    BY <2>1, CountsFacts
  <2> QED
    BY <2>2 DEF R, BoundedReissue
<1> QED
  BY <1>1, DocInvariance, ReqInvariance, PTL
----------------------------------------------------------------------------
\* What requests recorded, and what the server saw of them, stay old states of the documents.

LEMMA RevisionsFacts ==
  ASSUME DocInv, NEW query \in {"Definition", "Rename"}
  PROVE  /\ DOMAIN Revisions(query) = OpenKeys
         /\ \A k \in Keys : \A d \in Named(k) : Revisions(query)[k] = tracked[d].synced
<1>1. Revisions(query) = [k \in OpenKeys |-> tracked[CHOOSE d \in Named(k) : TRUE].synced]
  BY DEF Revisions
<1>2. ASSUME NEW k \in Keys, NEW d \in Named(k)
      PROVE  k \in OpenKeys /\ (CHOOSE e \in Named(k) : TRUE) = d
  <2>1. Named(k) = {d}
    BY DEF Named, DocInv, KeysApart
  <2>2. k \in OpenKeys
    BY DEF Named, OpenKeys
  <2> QED
    BY <2>1, <2>2
<1> QED
  BY <1>1, <1>2

LEMMA SeenFresh ==
  ASSUME DocInv, UNCHANGED docVars, NEW e, e.id \notin DOMAIN view',
         e.revisions = Revisions(e.query)
  PROVE  SeenIsOld(e)'
<1>1. ASSUME NEW k \in Keys PROVE UndisturbedKept(e, k)'
  <2>1. ASSUME Recorded(e)
        PROVE  /\ k \in DOMAIN e.revisions <=> k \in OpenKeys
               /\ \A d \in Named(k) : e.revisions[k] <= tracked[d].synced
    <3>1. /\ DOMAIN e.revisions = OpenKeys
          /\ \A d \in Named(k) : e.revisions[k] = tracked[d].synced
      BY <2>1, RevisionsFacts DEF Recorded
    <3>2. \A d \in Named(k) : tracked[d].synced \in Nat
      BY SessionBounds, TrackedFacts DEF Named, DocInv
    <3> QED
      BY <3>1, <3>2
  <2> QED
    BY <2>1 DEF UndisturbedKept, Recorded, docVars, Named, OpenKeys, Registered
<1> QED
  BY <1>1 DEF SeenIsOld

LEMMA SeenSame ==
  ASSUME UNCHANGED <<tracked, versions>>, NEW p, NEW e, SeenIsOld(p),
         e.id = p.id, e.doc = p.doc, e.query = p.query, e.rev = p.rev, e.revisions = p.revisions,
         e.disturbed = p.disturbed,
         e.id \in DOMAIN view' => e.id \in DOMAIN view /\ view'[e.id] = view[e.id]
  PROVE  SeenIsOld(e)'
BY DEF SeenIsOld, UndisturbedKept, Recorded, OldCopy, Named, OpenKeys, Registered

LEMMA SeenRead ==
  ASSUME DocInv, Follows, UNCHANGED docVars, NEW p, SeenIsOld(p), p.rev <= tracked[p.doc].synced,
         p.id \in DOMAIN view', view'[p.id] = has
  PROVE  SeenIsOld(p)'
<1>1. /\ DOMAIN has = OpenKeys
      /\ \A d \in Registered : /\ has[tracked[d].key].version = tracked[d].version
                               /\ has[tracked[d].key].text = <<d, tracked[d].synced>>
  BY DEF DocInv, ServerHasSynced, Follows
<1>2. ASSUME NEW k \in Keys \ p.disturbed PROVE UndisturbedKept(p, k)'
  <2>1. Recorded(p) => /\ k \in DOMAIN p.revisions <=> k \in OpenKeys
                       /\ \A d \in Named(k) : p.revisions[k] <= tracked[d].synced
    BY DEF SeenIsOld, UndisturbedKept
  <2>2. ASSUME NEW d \in Named(k)
        PROVE  \E r \in 0..tracked[d].synced :
                 /\ has[k].text = <<d, r>>
                 /\ Recorded(p) => p.revisions[k] <= r
                 /\ d = p.doc => p.rev <= r
    <3>1. d \in Registered /\ tracked[d].key = k /\ tracked[d].synced \in Nat
      BY SessionBounds, TrackedFacts DEF Named, DocInv
    <3>2. tracked[d].synced \in 0..tracked[d].synced
      BY <3>1
    <3> QED
      BY <1>1, <2>1, <3>1, <3>2
  <2> QED
    BY <1>1, <2>1, <2>2 DEF UndisturbedKept, Recorded, docVars, Named, OpenKeys, Registered
<1>3. ASSUME NEW k \in OpenKeys PROVE OldCopy(k, has[k].version, has[k].text)
  <2>1. PICK d \in Registered : k = tracked[d].key
    BY DEF OpenKeys
  <2>2. Named(k) = {d}
    BY <2>1 DEF Named, DocInv, KeysApart
  <2> QED
    BY <1>1, <2>1, <2>2 DEF OldCopy, DocInv, VersionsAreMarks
<1> QED
  BY <1>1, <1>2, <1>3 DEF SeenIsOld, OldCopy, docVars, Named, OpenKeys, Registered

\* A step of the documents that leaves the undisturbed files to the same documents.
LEMMA SeenMoved ==
  ASSUME DocInv, Follows, ViewTypes, NEW d \in Docs,
         Edit(d) \/ SyncDoc(d) \/ CloseDoc(d) \/ (\E k \in Keys : OpenDoc(d, k)),
         NEW p, NEW e, SeenIsOld(p),
         e.id = p.id, e.doc = p.doc, e.query = p.query, e.rev = p.rev, e.revisions = p.revisions,
         p.disturbed \subseteq e.disturbed,
         \A k \in Keys \ e.disturbed :
           /\ Named(k)' = Named(k) /\ (k \in OpenKeys' <=> k \in OpenKeys)
           /\ \A x \in Named(k) : tracked'[x].synced \in Nat /\ tracked'[x].synced >= tracked[x].synced,
         e.id \in DOMAIN view' => e.id \in DOMAIN view /\ view'[e.id] = view[e.id],
         Recorded(p) => \A k \in DOMAIN p.revisions : p.revisions[k] \in Nat
  PROVE  SeenIsOld(e)'
<1>1. ASSUME NEW k \in Keys \ e.disturbed PROVE UndisturbedKept(e, k)'
  <2>1. UndisturbedKept(p, k) /\ Named(k)' = Named(k) /\ (k \in OpenKeys' <=> k \in OpenKeys)
    BY DEF SeenIsOld
  <2>2. \A x \in Named(k) : /\ tracked[x].synced \in Nat /\ tracked'[x].synced \in Nat
                            /\ tracked[x].synced <= tracked'[x].synced
    BY SessionBounds, TrackedFacts DEF Named, DocInv
  <2>3. ASSUME Recorded(e), NEW x \in Named(k) PROVE e.revisions[k] <= tracked'[x].synced
    <3>1. k \in OpenKeys
      BY DEF Named, OpenKeys
    <3>2. e.revisions[k] \in Nat /\ e.revisions[k] <= tracked[x].synced
      BY <2>1, <2>3, <3>1 DEF UndisturbedKept, Recorded
    <3> QED
      BY <2>2, <3>2
  <2>4. ASSUME e.id \in DOMAIN view', NEW x \in Named(k)
        PROVE  \E r \in 0..tracked'[x].synced :
                 /\ view'[e.id][k].text = <<x, r>>
                 /\ Recorded(e) => e.revisions[k] <= r
                 /\ x = e.doc => e.rev <= r
    <3>1. PICK r \in 0..tracked[x].synced :
            /\ view[p.id][k].text = <<x, r>>
            /\ Recorded(p) => p.revisions[k] <= r
            /\ x = p.doc => p.rev <= r
      BY <2>1, <2>4 DEF UndisturbedKept
    <3>2. r \in 0..tracked'[x].synced
      BY <2>2
    <3> QED
      BY <2>4, <3>1, <3>2 DEF Recorded
  <2>5. Recorded(e) => (k \in DOMAIN e.revisions <=> k \in OpenKeys)
    BY <2>1 DEF UndisturbedKept, Recorded
  <2>6. e.id \in DOMAIN view' => (k \in DOMAIN view'[e.id] <=> k \in OpenKeys)
    BY <2>1 DEF UndisturbedKept
  <2> QED
    BY <2>1, <2>3, <2>4, <2>5, <2>6 DEF UndisturbedKept, Recorded
<1>2. ASSUME e.id \in DOMAIN view', NEW k \in DOMAIN view'[e.id]
      PROVE  OldCopy(k, view[e.id][k].version, view[e.id][k].text)'
  <2>1. /\ k \in Keys /\ view[p.id][k].version \in Nat
        /\ OldCopy(k, view[p.id][k].version, view[p.id][k].text)
    BY <1>2 DEF SeenIsOld, ViewTypes, Copies
  <2>2. /\ view[p.id][k].version <= versions'[k]
        /\ \A x \in Named(k)' : view[p.id][k].version = tracked'[x].version =>
                                   view[p.id][k].text = <<x, tracked'[x].synced>>
    BY <2>1, OldKept
  <2> QED
    BY <1>2, <2>2 DEF OldCopy, Named
<1> QED
  BY <1>1, <1>2 DEF SeenIsOld

\* So with the table kept, with one more request, or with one that changed its ticket.
LEMMA ViewKept ==
  ASSUME NEW P, view' = [i \in DOMAIN view \cap {p.id : p \in P} |-> view[i]], ViewTypes
  PROVE  /\ ViewTypes'
         /\ \A i \in DOMAIN view' : /\ i \in DOMAIN view /\ view'[i] = view[i]
                                    /\ \E p \in P : i = p.id
BY DEF ViewTypes

LEMMA SeenKeeping ==
  ASSUME SeenInv, UNCHANGED docVars, NEW P \in SUBSET pending, Keeping(P)
  PROVE  SeenInv'
<1>1. /\ pending' = P /\ ViewTypes'
      /\ \A i \in DOMAIN view' : i \in DOMAIN view /\ view'[i] = view[i]
  BY ViewKept DEF Keeping, SeenInv
<1>2. UNCHANGED <<state, server, tracked, versions>>
  BY DEF docVars
<1>3. ViewsAreOld'
  <2> SUFFICES ASSUME Follows, NEW p \in P PROVE SeenIsOld(p)'
    BY <1>1, <1>2 DEF ViewsAreOld, Follows
  <2>1. SeenIsOld(p)
    BY DEF SeenInv, ViewsAreOld
  <2> QED
    BY <1>1, <1>2, <2>1, SeenSame
<1>4. CommandsAreCurrent'
  BY <1>1, <1>2 DEF SeenInv, CommandsAreCurrent
<1> QED
  BY <1>1, <1>3, <1>4 DEF SeenInv

LEMMA SeenSending ==
  ASSUME DocInv, ReqInv, SeenInv, UNCHANGED docVars, NEW P \in SUBSET pending, NEW d \in Registered,
         NEW ticket, NEW query, NEW asked, NEW call, NEW reissued,
         query \in Commands => ticket.rev = tracked[d].synced,
         Sending(P, d, ticket, query, asked, call, reissued)
  PROVE  SeenInv'
<1> DEFINE e == Request(d, ticket, query, asked, call, reissued)
           kept == {p \in P : ~(p.doc = d /\ KindOf(p.query) = KindOf(query))}
<1>1. /\ pending' = kept \cup {e}
      /\ view' = [i \in DOMAIN view \cap {p.id : p \in kept} |-> view[i]]
  BY DEF Sending
<1>2. /\ e.id = nextRequest /\ e.doc = d /\ e.query = query /\ e.rev = tracked[d].synced
      /\ e.ticket = ticket /\ e.revisions = Revisions(query)
  BY DEF Request
<1>3. \A p \in kept : p \in pending /\ p.id < nextRequest /\ p.id \in Nat
  BY DEF ReqInv, TableInv, PendingEntry
<1>4. nextRequest \in Nat /\ tracked[d].synced \in Nat
  BY SessionBounds, TrackedFacts DEF ReqInv, TableInv, DocInv
<1> HIDE DEF e, kept
<1>5. /\ ViewTypes'
      /\ \A i \in DOMAIN view' : /\ i \in DOMAIN view /\ view'[i] = view[i]
                                 /\ \E p \in kept : i = p.id
  BY <1>1, ViewKept DEF SeenInv
<1>6. e.id \notin DOMAIN view'
  BY <1>2, <1>3, <1>4, <1>5
<1>7. UNCHANGED <<state, server, tracked, versions>>
  BY DEF docVars
<1>8. ViewsAreOld'
  <2> SUFFICES ASSUME Follows, NEW p \in pending' PROVE SeenIsOld(p)'
    BY <1>7 DEF ViewsAreOld, Follows
  <2>1. CASE p = e
    BY <1>2, <1>6, <2>1, SeenFresh
  <2>2. CASE p \in kept
    <3>1. SeenIsOld(p)
      BY <1>3, <2>2 DEF SeenInv, ViewsAreOld
    <3> QED
      BY <1>5, <1>7, <3>1, SeenSame
  <2> QED
    BY <1>1, <2>1, <2>2
<1>9. CommandsAreCurrent'
  BY <1>1, <1>2, <1>3, <1>4, <1>7 DEF SeenInv, CommandsAreCurrent
<1> QED
  BY <1>5, <1>8, <1>9 DEF SeenInv

LEMMA SeenAdopting ==
  ASSUME ReqInv, SeenInv, UNCHANGED docVars, NEW ps \in SUBSET pending, NEW ticket, NEW caret,
         \A p \in ps : p.query \notin Commands, Adopting(ps, ticket, caret)
  PROVE  SeenInv'
<1> DEFINE adopted(p) == [p EXCEPT !.ticket = ticket, !.caret = caret]
           P == (pending \ ps) \cup {adopted(p) : p \in ps}
<1>0. ASSUME NEW p \in pending
      PROVE  /\ adopted(p).id = p.id /\ adopted(p).doc = p.doc /\ adopted(p).query = p.query
             /\ adopted(p).rev = p.rev /\ adopted(p).revisions = p.revisions
             /\ adopted(p).disturbed = p.disturbed
  <2>1. p \in PendingEntry
    BY DEF ReqInv, TableInv
  <2> QED
    BY <2>1 DEF PendingEntry
<1>1. pending' = P /\ view' = [i \in DOMAIN view \cap {p.id : p \in P} |-> view[i]]
  <2>1. Keeping(P)
    BY Zenon DEF Adopting
  <2> HIDE DEF P
  <2> QED
    BY <2>1 DEF Keeping
<1>2. UNCHANGED <<state, server, tracked, versions>>
  BY DEF docVars
<1> HIDE DEF adopted
<1>3. \A e \in pending' : \E p \in pending :
        /\ e.id = p.id /\ e.doc = p.doc /\ e.query = p.query /\ e.rev = p.rev
        /\ e.revisions = p.revisions /\ e.disturbed = p.disturbed
        /\ e.query \in Commands => e.ticket = p.ticket
  <2>1. ASSUME NEW e \in {adopted(p) : p \in ps}
        PROVE  \E p \in pending :
                 /\ e.id = p.id /\ e.doc = p.doc /\ e.query = p.query /\ e.rev = p.rev
                 /\ e.revisions = p.revisions /\ e.disturbed = p.disturbed
                 /\ e.query \in Commands => e.ticket = p.ticket
    <3>1. PICK p \in ps : e = adopted(p)
      BY <2>1
    <3> QED
      BY <1>0, <3>1
  <2> QED
    BY <1>1, <2>1
<1> HIDE DEF P
<1>6. ViewTypes' /\ \A i \in DOMAIN view' : i \in DOMAIN view /\ view'[i] = view[i]
  BY <1>1, ViewKept DEF SeenInv
<1>4. ViewsAreOld'
  <2> SUFFICES ASSUME Follows, NEW e \in pending' PROVE SeenIsOld(e)'
    BY <1>2 DEF ViewsAreOld, Follows
  <2>1. PICK p \in pending :
          /\ e.id = p.id /\ e.doc = p.doc /\ e.query = p.query /\ e.rev = p.rev
          /\ e.revisions = p.revisions /\ e.disturbed = p.disturbed
    BY <1>3
  <2>2. SeenIsOld(p)
    BY DEF SeenInv, ViewsAreOld
  <2> QED
    BY <1>2, <1>6, <2>1, <2>2, SeenSame
<1>5. CommandsAreCurrent'
  <2> SUFFICES ASSUME NEW e \in pending'
               PROVE  /\ e.query \in Commands => e.rev = e.ticket.rev
                      /\ e.rev <= tracked[e.doc].synced
    BY <1>2 DEF CommandsAreCurrent
  <2>1. PICK p \in pending :
          /\ e.doc = p.doc /\ e.query = p.query /\ e.rev = p.rev
          /\ e.query \in Commands => e.ticket = p.ticket
    BY <1>3
  <2> QED
    BY <2>1 DEF SeenInv, CommandsAreCurrent
<1> QED
  BY <1>4, <1>5, <1>6 DEF SeenInv

LEMMA SeenNone ==
  ASSUME TableInv', pending' = {}
  PROVE  SeenInv'
<1>1. DOMAIN view' = {}
  BY DEF TableInv
<1> QED
  BY <1>1 DEF SeenInv, ViewTypes, ViewsAreOld, CommandsAreCurrent

\* Opening and closing.
LEMMA SeenForgetting ==
  ASSUME DocInv, ReqInv, SeenInv, NEW d \in Docs, CloseDoc(d) \/ (\E k \in Keys : OpenDoc(d, k)),
         NEW files \in SUBSET Keys, Forgetting(d, files), UNCHANGED <<state, server>>,
         \A x \in Registered \ {d} : tracked'[x] = tracked[x],
         \A k \in Keys \ files : Named(k)' = Named(k) /\ d \notin Named(k) /\ (k \in OpenKeys' <=> k \in OpenKeys)
  PROVE  SeenInv'
<1>1. /\ ViewTypes'
      /\ \A i \in DOMAIN view' : i \in DOMAIN view /\ view'[i] = view[i]
  <2> DEFINE P == pending'
  <2>1. view' = [i \in DOMAIN view \cap {p.id : p \in P} |-> view[i]]
    BY DEF Forgetting, Keeping
  <2> HIDE DEF P
  <2> QED
    BY <2>1, ViewKept DEF SeenInv
<1>2. ViewsAreOld'
  <2> SUFFICES ASSUME Follows, NEW e \in pending' PROVE SeenIsOld(e)'
    BY DEF ViewsAreOld, Follows
  <2>1. PICK p \in pending :
          /\ e.id = p.id /\ e.doc = p.doc /\ e.query = p.query /\ e.rev = p.rev
          /\ e.revisions = p.revisions /\ e.disturbed = p.disturbed \cup files
    BY ForgettingFacts
  <2>2. SeenIsOld(p) /\ ViewTypes
    BY DEF SeenInv, ViewsAreOld
  <2>3. \A k \in DOMAIN p.revisions : p.revisions[k] \in Nat
    <3>1. p.revisions \in UNION {[S -> 0..MaxRev] : S \in SUBSET Keys}
      BY DEF ReqInv, TableInv, PendingEntry
    <3> QED
      BY <3>1, SessionBounds
  <2>4. ASSUME NEW k \in Keys \ e.disturbed, NEW x \in Named(k)
        PROVE  tracked'[x].synced \in Nat /\ tracked'[x].synced >= tracked[x].synced
    <3>1. x \in Registered \ {d}
      BY <2>1 DEF Named
    <3>2. tracked[x].synced \in Nat /\ tracked'[x] = tracked[x]
      BY <3>1, SessionBounds, TrackedFacts DEF DocInv
    <3> QED
      BY <3>2
  <2>5. \A k \in Keys \ e.disturbed : Named(k)' = Named(k) /\ (k \in OpenKeys' <=> k \in OpenKeys)
    BY <2>1
  <2>6. /\ p.disturbed \subseteq e.disturbed
        /\ e.id \in DOMAIN view' => e.id \in DOMAIN view /\ view'[e.id] = view[e.id]
    BY <1>1, <2>1
  <2> QED
    BY <2>1, <2>2, <2>3, <2>4, <2>5, <2>6, SeenMoved
<1>3. CommandsAreCurrent'
  <2> SUFFICES ASSUME NEW e \in pending'
               PROVE  /\ e.query \in Commands => e.rev = e.ticket.rev
                      /\ e.rev <= tracked'[e.doc].synced
    BY DEF CommandsAreCurrent
  <2>1. PICK p \in pending :
          p.doc # d /\ e.doc = p.doc /\ e.query = p.query /\ e.rev = p.rev /\ e.ticket = p.ticket
    BY ForgettingFacts
  <2>2. p.doc \in Registered \ {d}
    BY <2>1 DEF ReqInv, TableInv
  <2> QED
    BY <2>1, <2>2 DEF SeenInv, CommandsAreCurrent
<1> QED
  BY <1>1, <1>2, <1>3 DEF SeenInv

LEMMA SeenOpen ==
  ASSUME DocInv, ReqInv, SeenInv, NEW d \in Docs, NEW k \in Keys, Open(d, k)
  PROVE  SeenInv'
<1> DEFINE files == {k} \cup KeyOf(d)
<1>1. OpenDoc(d, k) /\ Forgetting(d, files) /\ UNCHANGED <<state, server>>
  BY DEF Open, OpenDoc
<1>2. files \in SUBSET Keys
  BY TrackedFacts DEF KeyOf, DocInv
<1>3. /\ \A x \in Registered \ {d} : tracked'[x] = tracked[x]
      /\ \A x \in Keys \ {k} : Named(x)' = Named(x) \ {d}
      /\ OpenKeys' = {tracked[e].key : e \in Registered \ {d}} \cup {k}
  BY <1>1, OpenFacts
<1>4. ASSUME NEW x \in Keys \ files
      PROVE  Named(x)' = Named(x) /\ d \notin Named(x) /\ (x \in OpenKeys' <=> x \in OpenKeys)
  <2>1. d \notin Named(x)
    BY DEF Named, KeyOf
  <2>2. Named(x)' = Named(x)
    BY <1>3, <2>1
  <2>3. x \in OpenKeys' <=> x \in OpenKeys
    BY <1>3, <2>1 DEF OpenKeys, Named
  <2> QED
    BY <2>1, <2>2, <2>3
<1> HIDE DEF files
<1> QED
  BY <1>1, <1>2, <1>3, <1>4, SeenForgetting

LEMMA SeenClose ==
  ASSUME DocInv, ReqInv, SeenInv, NEW d \in Docs, Close(d)
  PROVE  SeenInv'
<1> DEFINE files == KeyOf(d)
<1>1. CloseDoc(d) /\ Forgetting(d, files) /\ UNCHANGED <<state, server>>
  BY DEF Close, CloseDoc
<1>2. files \in SUBSET Keys
  BY TrackedFacts DEF KeyOf, DocInv
<1>3. /\ \A x \in Registered \ {d} : tracked'[x] = tracked[x]
      /\ \A x : Named(x)' = Named(x) \ {d}
      /\ OpenKeys' = {tracked[e].key : e \in Registered \ {d}}
  BY <1>1, CloseFacts
<1>4. ASSUME NEW x \in Keys \ files
      PROVE  Named(x)' = Named(x) /\ d \notin Named(x) /\ (x \in OpenKeys' <=> x \in OpenKeys)
  <2>1. d \notin Named(x)
    BY DEF Named, KeyOf
  <2>2. Named(x)' = Named(x)
    BY <1>3, <2>1
  <2>3. x \in OpenKeys' <=> x \in OpenKeys
    BY <1>3, <2>1 DEF OpenKeys, Named
  <2> QED
    BY <2>1, <2>2, <2>3
<1> HIDE DEF files
<1> QED
  BY <1>1, <1>2, <1>3, <1>4, SeenForgetting

\* The documents' own steps.
LEMMA SeenBeside ==
  ASSUME DocInv, ReqInv, SeenInv, DocumentStep
  PROVE  SeenInv'
<1>0. /\ UNCHANGED reqVars /\ ViewTypes
      /\ state # "Running" => pending = {}
      /\ DOMAIN view \subseteq {p.id : p \in pending}
  BY DEF DocumentStep, ReqInv, TableInv, SeenInv
<1>1. ASSUME NEW d \in Docs, Edit(d) \/ SyncDoc(d) PROVE SeenInv'
  <2>1. /\ UNCHANGED <<state, server>> /\ Registered' = Registered /\ OpenKeys' = OpenKeys
        /\ \A x : Named(x)' = Named(x)
    <3>1. CASE Edit(d)
      BY <3>1 DEF Edit, OpenKeys, Named, Registered
    <3>2. CASE SyncDoc(d)
      <4>1. UNCHANGED <<state, server>>
        BY <3>2 DEF SyncDoc
      <4> QED
        BY <3>2, <4>1, SyncFacts
    <3> QED
      BY <1>1, <3>1, <3>2
  <2>2. \A x \in Registered : /\ tracked[x].synced \in Nat /\ tracked'[x].synced \in Nat
                              /\ tracked'[x].synced >= tracked[x].synced
    <3>1. \A x \in Registered : tracked[x].synced \in Nat
      BY SessionBounds, TrackedFacts DEF DocInv
    <3>2. CASE Edit(d)
      BY <3>1, <3>2 DEF Edit
    <3>3. CASE SyncDoc(d)
      <4>1. /\ \A x \in Registered \ {d} : tracked'[x] = tracked[x]
            /\ tracked'[d].synced > tracked[d].synced
        BY <3>3, SyncFacts
      <4>2. DocTypes'
        BY <3>3, SyncTypes DEF DocInv
      <4>3. \A x \in Registered : tracked'[x].synced \in Nat
        BY <2>1, <4>2, SessionBounds DEF DocTypes, Entries
      <4> QED
        BY <3>1, <4>1, <4>3
    <3> QED
      BY <1>1, <3>2, <3>3
  <2>3. ViewsAreOld'
    <3> SUFFICES ASSUME Follows, NEW p \in pending PROVE SeenIsOld(p)'
      BY <1>0, <2>1 DEF ViewsAreOld, Follows, reqVars
    <3>1. SeenIsOld(p)
      BY DEF SeenInv, ViewsAreOld
    <3>2. \A k \in DOMAIN p.revisions : p.revisions[k] \in Nat
      <4>1. p.revisions \in UNION {[S -> 0..MaxRev] : S \in SUBSET Keys}
        BY DEF ReqInv, TableInv, PendingEntry
      <4> QED
        BY <4>1, SessionBounds
    <3>3. view' = view
      BY <1>0 DEF reqVars
    <3>4. \A k \in Keys : \A x \in Named(k) : tracked'[x].synced \in Nat /\ tracked'[x].synced >= tracked[x].synced
      BY <2>2 DEF Named
    <3> QED
      BY <1>0, <1>1, <2>1, <3>1, <3>2, <3>3, <3>4, SeenMoved
  <2>4. CommandsAreCurrent'
    <3> SUFFICES ASSUME NEW p \in pending
                 PROVE  /\ p.query \in Commands => p.rev = p.ticket.rev
                        /\ p.rev <= tracked'[p.doc].synced
      BY <1>0 DEF CommandsAreCurrent, reqVars
    <3>1. p.doc \in Registered /\ p.rev \in Nat /\ p.rev <= tracked[p.doc].synced
          /\ (p.query \in Commands => p.rev = p.ticket.rev)
      BY DEF ReqInv, TableInv, PendingEntry, SeenInv, CommandsAreCurrent
    <3>2. /\ tracked[p.doc].synced \in Nat /\ tracked'[p.doc].synced \in Nat
          /\ tracked'[p.doc].synced >= tracked[p.doc].synced
      BY <2>2, <3>1
    <3> QED
      BY <3>1, <3>2
  <2> QED
    BY <1>0, <2>3, <2>4 DEF SeenInv, ViewTypes, reqVars
<1>2. ASSUME state # "Running" PROVE SeenInv'
  <2>1. pending' = {} /\ DOMAIN view' = {}
    BY <1>0, <1>2 DEF reqVars
  <2> QED
    BY <2>1 DEF SeenInv, ViewTypes, ViewsAreOld, CommandsAreCurrent
<1>3. ASSUME UNCHANGED <<state, server, tracked, versions>> PROVE SeenInv'
  <2>1. ViewsAreOld'
    <3> SUFFICES ASSUME Follows, NEW p \in pending PROVE SeenIsOld(p)'
      BY <1>0, <1>3 DEF ViewsAreOld, Follows, reqVars
    <3>1. SeenIsOld(p) /\ view' = view
      BY <1>0 DEF SeenInv, ViewsAreOld, reqVars
    <3> QED
      BY <1>3, <3>1, SeenSame
  <2> QED
    BY <1>0, <1>3, <2>1 DEF SeenInv, ViewTypes, CommandsAreCurrent, reqVars
<1>4. ASSUME NEW s \in Servers, InitializedDocs(s) PROVE SeenInv'
  BY <1>2, <1>4 DEF InitializedDocs
<1>5. CASE RefusedDocs
  BY <1>2, <1>5 DEF RefusedDocs
<1>6. ASSUME NEW k \in Keys, Publish(k) PROVE SeenInv'
  BY <1>3, <1>6 DEF Publish
<1>7. CASE ReceivePublish
  BY <1>3, <1>7 DEF ReceivePublish
<1> QED
  BY <1>1, <1>4, <1>5, <1>6, <1>7 DEF DocumentStep

\* What the requests' steps make of it.
LEMMA SeenRequests ==
  ASSUME DocInv, ReqInv, SeenInv, RequestStep
  PROVE  SeenInv'
<1>0. UNCHANGED docVars
  BY DEF RequestStep
<1>a. ASSUME NEW P \in SUBSET pending, Keeping(P) PROVE SeenInv'
  BY <1>0, <1>a, SeenKeeping
<1>b. \A p \in pending : p.doc \in Registered
  BY DEF ReqInv, TableInv
<1>1. ASSUME NEW d \in Docs, Complete(d) PROVE SeenInv'
  <2>1. PICK snapshot \in 0..rev[d], caret \in 0..MaxCaret :
          /\ d \in Registered
          /\ \/ Keeping(pending)
             \/ Adopting(Of(d, "Completion"), Minted(snapshot), caret)
             \/ Sending(pending, d, Minted(snapshot), "Completion", caret, 0, 0)
    BY <1>1 DEF Complete, Minting, AnsweringAtOnce, RequestingCompletion
  <2>2. CASE Adopting(Of(d, "Completion"), Minted(snapshot), caret)
    <3>1. Of(d, "Completion") \in SUBSET pending /\ \A p \in Of(d, "Completion") : p.query \notin Commands
      BY DEF Of, KindOf, Commands
    <3> QED
      BY <1>0, <2>2, <3>1, SeenAdopting
  <2>3. CASE Sending(pending, d, Minted(snapshot), "Completion", caret, 0, 0)
    BY <1>0, <2>1, <2>3, SeenSending DEF Commands
  <2> QED
    BY <1>a, <2>1, <2>2, <2>3
<1>2. ASSUME NEW d \in Docs, SignatureHelp(d) PROVE SeenInv'
  <2>1. PICK snapshot \in 0..rev[d], caret \in 0..MaxCaret, call \in {0, 1} :
          /\ d \in Registered
          /\ \/ Keeping(pending)
             \/ Adopting({p \in Of(d, "Signature") : p.call = call}, Minted(snapshot), caret)
             \/ Sending(pending, d, Minted(snapshot), "Signature", caret, call, 0)
    BY <1>2 DEF SignatureHelp, Minting, AnsweringAtOnce
  <2>2. CASE Adopting({p \in Of(d, "Signature") : p.call = call}, Minted(snapshot), caret)
    <3> DEFINE ps == {p \in Of(d, "Signature") : p.call = call}
    <3>1. ps \in SUBSET pending /\ \A p \in ps : p.query \notin Commands
      BY DEF Of, KindOf, Commands
    <3> HIDE DEF ps
    <3> QED
      BY <1>0, <2>2, <3>1, SeenAdopting DEF ps
  <2>3. CASE Sending(pending, d, Minted(snapshot), "Signature", caret, call, 0)
    BY <1>0, <2>1, <2>3, SeenSending DEF Commands
  <2> QED
    BY <1>a, <2>1, <2>2, <2>3
<1>3. ASSUME NEW d \in Docs, NEW kind, Ask(d, kind) PROVE SeenInv'
  <2>1. PICK snapshot \in 0..rev[d] :
          /\ d \in Registered /\ kind \notin Commands
          /\ Keeping(pending) \/ Sending(pending, d, Minted(snapshot), kind, 0, 0, 0)
    BY <1>3 DEF Ask, Minting, AnsweringAtOnce, Commands
  <2> QED
    BY <1>0, <1>a, <2>1, SeenSending
<1>4. ASSUME NEW d \in Docs, NEW kind, Command(d, kind) PROVE SeenInv'
  <2>1. /\ d \in Registered /\ Minted(rev[d]).rev = tracked[d].synced
        /\ Sending(pending, d, Minted(rev[d]), kind, 0, 0, 0)
    BY <1>4 DEF Command, Minting, Minted, Answerable, Running
  <2> QED
    BY <1>0, <2>1, SeenSending
<1>5. ASSUME NEW d \in Docs, Interact(d) PROVE SeenInv'
  <2>1. PICK snapshot \in 0..rev[d] :
          /\ d \in Registered
          /\ \/ Keeping(pending)
             \/ Sending(pending, d, Minted(snapshot), "Resolve", 0, 0, 0)
             \/ Sending(pending, d, Minted(snapshot), "LocationHover", 0, 0, 0)
    BY <1>5 DEF Interact, Minting, HoverLocation
  <2> QED
    BY <1>0, <1>a, <2>1, SeenSending DEF Commands
<1>6. ASSUME NEW p \in pending, ServerReads(p) PROVE SeenInv'
  <2>1. /\ UNCHANGED pending /\ DOMAIN view' = DOMAIN view \cup {p.id} /\ view'[p.id] = has
        /\ \A i \in DOMAIN view \ {p.id} : view'[i] = view[i]
    BY <1>6 DEF ServerReads, With
  <2>2. ViewTypes'
    BY <2>1 DEF SeenInv, ViewTypes, DocInv, DocTypes
  <2>3. UNCHANGED <<state, server, tracked, versions>>
    BY <1>0 DEF docVars
  <2>4. ViewsAreOld'
    <3> SUFFICES ASSUME Follows, NEW q \in pending PROVE SeenIsOld(q)'
      BY <2>1, <2>3 DEF ViewsAreOld, Follows
    <3>1. SeenIsOld(q) /\ q.rev <= tracked[q.doc].synced
      BY DEF SeenInv, ViewsAreOld, CommandsAreCurrent
    <3>2. CASE q.id = p.id
      BY <1>0, <2>1, <3>1, <3>2, SeenRead
    <3>3. CASE q.id # p.id
      BY <2>1, <2>3, <3>1, <3>3, SeenSame
    <3> QED
      BY <3>2, <3>3
  <2>5. CommandsAreCurrent'
    BY <2>1, <2>3 DEF SeenInv, CommandsAreCurrent
  <2> QED
    BY <2>2, <2>4, <2>5 DEF SeenInv
<1>7. ASSUME NEW p \in pending, Reply(p) PROVE SeenInv'
  <2>0. pending \ {p} \in SUBSET pending /\ p.doc \in Registered
    BY <1>b
  <2>1. ASSUME NEW query \in {"Completion", "Signature", "LocationHover"}, NEW caret, NEW call, NEW reissued,
               Sending(pending \ {p}, p.doc, p.ticket, query, caret, call, reissued)
        PROVE  SeenInv'
    BY <1>0, <2>0, <2>1, SeenSending DEF Commands
  <2>2. CASE ReplyModified(p)
    <3>1. \/ Sending(pending \ {p}, p.doc, p.ticket, "Completion", p.caret, 0, p.ticket.seq)
          \/ Sending(pending \ {p}, p.doc, p.ticket, p.query, p.caret, p.call, p.ticket.seq)
      BY <2>2 DEF ReplyModified, RequestingCompletion
    <3>2. p.ticket.rev = tracked[p.doc].synced
      BY <2>2 DEF ReplyModified, Awaited
    <3> QED
      BY <1>0, <1>a, <2>0, <2>1, <3>1, <3>2, SeenSending
  <2>3. CASE Completed(p) \/ Signed(p) \/ TooltipResolved(p)
    <3>1. \/ Keeping(pending \ {p})
          \/ Sending(pending \ {p}, p.doc, p.ticket, "Completion", p.caret, 0, p.reissued)
          \/ Sending(pending \ {p}, p.doc, p.ticket, "Signature", p.caret, p.call, p.reissued)
          \/ Sending(pending \ {p}, p.doc, p.ticket, "LocationHover", 0, 0, p.reissued)
      BY <2>3 DEF Completed, Signed, TooltipResolved, RequestingCompletion, HoverLocation
    <3> QED
      BY <1>a, <2>0, <2>1, <3>1
  <2>4. CASE \/ ReplyDropped(p) \/ ReplySilent(p) \/ ReplyEmpty(p) \/ Hovered(p) \/ Inlaid(p)
             \/ Renamed(p) \/ Formatted(p) \/ Defined(p)
    <3>1. Keeping(pending \ {p})
      BY <2>4 DEF ReplyDropped, ReplySilent, ReplyEmpty, Hovered, Inlaid, Renamed, Formatted, Defined
    <3> QED
      BY <1>a, <2>0, <3>1
  <2> QED
    BY <1>7, <2>2, <2>3, <2>4 DEF Reply, Answer
<1> QED
  BY <1>1, <1>2, <1>3, <1>4, <1>5, <1>6, <1>7 DEF RequestStep
----------------------------------------------------------------------------
\* Spans handed out.

\* What the server looked at, in a file no one disturbed or under the version it named, is the text
\* that was recorded or asked for, when that is the present one.
LEMMA ViewedIsCurrent ==
  ASSUME DocInv, ReqInv, SeenInv, Follows, NEW p \in pending, p.id \in DOMAIN view, NEW k \in Keys,
         NEW versioned \in BOOLEAN,
         \/ k \notin p.disturbed
         \/ versioned /\ Named(k) # {} /\ k \in DOMAIN view[p.id],
         \A d \in Named(k) :
           /\ \/ Recorded(p) /\ k \in DOMAIN p.revisions /\ p.revisions[k] = tracked[d].synced
              \/ d = p.doc /\ p.rev = tracked[d].synced
           /\ versioned /\ k \in DOMAIN view[p.id] => view[p.id][k].version = tracked[d].version
  PROVE  Current(k) = {Viewed(p, k)}
<1>1. SeenIsOld(p)
  BY DEF SeenInv, ViewsAreOld
<1>2. CASE Named(k) = {}
  <2>1. k \notin OpenKeys /\ Current(k) = {Disk} /\ k \notin p.disturbed
    BY <1>2 DEF OpenKeys, Named, Current
  <2>2. k \notin DOMAIN view[p.id]
    BY <1>1, <2>1 DEF SeenIsOld, UndisturbedKept
  <2> QED
    BY <2>1, <2>2 DEF Viewed
<1>3. ASSUME NEW d \in Named(k) PROVE Current(k) = {Viewed(p, k)}
  <2>1. Named(k) = {d} /\ k \in OpenKeys /\ tracked[d].synced \in Nat
    BY SessionBounds, TrackedFacts DEF Named, OpenKeys, DocInv, KeysApart
  <2>2. Current(k) = {<<d, tracked[d].synced>>}
    BY <2>1 DEF Current
  <2>3. k \in DOMAIN view[p.id] /\ view[p.id][k].text = <<d, tracked[d].synced>>
    <3>1. CASE k \notin p.disturbed
      <4>1. UndisturbedKept(p, k)
        BY <1>1, <3>1 DEF SeenIsOld
      <4>2. k \in DOMAIN view[p.id]
        BY <2>1, <4>1 DEF UndisturbedKept
      <4>3. PICK r \in 0..tracked[d].synced :
              /\ view[p.id][k].text = <<d, r>>
              /\ Recorded(p) => p.revisions[k] <= r
              /\ d = p.doc => p.rev <= r
        BY <4>1 DEF UndisturbedKept
      <4>4. r = tracked[d].synced
        BY <2>1, <4>3
      <4> QED
        BY <4>2, <4>3, <4>4
    <3>2. CASE versioned /\ k \in DOMAIN view[p.id]
      <4>1. OldCopy(k, view[p.id][k].version, view[p.id][k].text)
        BY <1>1, <3>2 DEF SeenIsOld
      <4>2. view[p.id][k].version = tracked[d].version
        BY <3>2
      <4> QED
        BY <3>2, <4>1, <4>2 DEF OldCopy
    <3> QED
      BY <3>1, <3>2
  <2> QED
    BY <2>2, <2>3 DEF Viewed
<1> QED
  BY <1>2, <1>3

LEMMA OneText ==
  ASSUME NEW x
  PROVE  Cardinality({x}) = 1
BY FS_Singleton

\* The spans of a rename in a file that is not stale.
LEMMA RenameFits ==
  ASSUME DocInv, ReqInv, SeenInv, Follows, NEW p \in pending, p.query = "Rename", p.id \in DOMAIN view,
         NEW k \in Keys, NEW versioned \in BOOLEAN, ~Stale(p, k, versioned),
         Landing(p, k, Current(k), versioned).sure
  PROVE  Cardinality(Landing(p, k, Current(k), versioned).texts) = 1
<1>1. \/ k \notin p.disturbed
      \/ versioned /\ Named(k) # {} /\ k \in DOMAIN view[p.id]
  BY DEF Landing
<1>2. \A d \in Named(k) :
        /\ k \in DOMAIN p.revisions /\ p.revisions[k] = tracked[d].synced
        /\ versioned /\ k \in DOMAIN view[p.id] => view[p.id][k].version = tracked[d].version
  BY DEF Stale
<1>3. Current(k) = {Viewed(p, k)}
  BY <1>1, <1>2, ViewedIsCurrent DEF Recorded
<1>4. Landing(p, k, Current(k), versioned).texts = {Viewed(p, k)}
  BY <1>3 DEF Landing
<1> QED
  BY <1>4, OneText

\* The spans of a format or a definition in the document's own file.
LEMMA OwnFits ==
  ASSUME DocInv, ReqInv, SeenInv, Follows, NEW p \in pending, Awaited(p), p.query \in Commands,
         p.id \in DOMAIN view, NEW others \in SUBSET {<<p.doc, p.rev>>, <<p.doc, p.ticket.rev>>},
         Landing(p, tracked[p.doc].key, others, FALSE).sure
  PROVE  Cardinality(Landing(p, tracked[p.doc].key, others, FALSE).texts) = 1
<1> DEFINE k == tracked[p.doc].key
<1>1. p.doc \in Registered /\ p.rev = p.ticket.rev /\ p.rev = tracked[p.doc].synced
  BY DEF Awaited, SeenInv, CommandsAreCurrent
<1>2. k \in Keys /\ Named(k) = {p.doc} /\ k \notin p.disturbed
  BY <1>1, TrackedFacts DEF Named, DocInv, KeysApart, Landing
<1>3. Current(k) = {Viewed(p, k)} /\ Current(k) = {<<p.doc, p.rev>>}
  <2>1. Current(k) = {Viewed(p, k)}
    BY <1>1, <1>2, ViewedIsCurrent
  <2>2. Current(k) = {<<p.doc, p.rev>>}
    BY <1>1, <1>2 DEF Current
  <2> QED
    BY <2>1, <2>2
<1>4. Landing(p, k, others, FALSE).texts = {Viewed(p, k)}
  BY <1>1, <1>3 DEF Landing
<1> QED
  BY <1>4, OneText

\* The spans of a definition in another open document.
LEMMA TargetFits ==
  ASSUME DocInv, ReqInv, SeenInv, Follows, NEW p \in pending, p.query = "Definition", p.id \in DOMAIN view,
         NEW k \in Keys, NEW d \in Named(k), k \in DOMAIN p.revisions, p.revisions[k] = tracked[d].synced,
         Landing(p, k, Current(k), FALSE).sure
  PROVE  Cardinality(Landing(p, k, Current(k), FALSE).texts) = 1
<1>1. k \notin p.disturbed
  BY DEF Landing
<1>2. Named(k) = {d}
  BY DEF Named, DocInv, KeysApart
<1>3. Current(k) = {Viewed(p, k)}
  BY <1>1, <1>2, ViewedIsCurrent DEF Recorded
<1>4. Landing(p, k, Current(k), FALSE).texts = {Viewed(p, k)}
  BY <1>3 DEF Landing
<1> QED
  BY <1>4, OneText

LEMMA FitsKept ==
  ASSUME LandedFits, UNCHANGED <<landed, state, server>>
  PROVE  LandedFits'
BY DEF LandedFits, Follows

LEMMA FitsReply ==
  ASSUME DocInv, ReqInv, SeenInv, LandedFits, UNCHANGED docVars, NEW p \in pending,
         Renamed(p) \/ Formatted(p) \/ Defined(p)
  PROVE  LandedFits'
<1>0. UNCHANGED <<state, server>>
  BY DEF docVars
<1> SUFFICES ASSUME Follows PROVE LandedFits'
  BY <1>0 DEF LandedFits, Follows
<1>1. CASE UNCHANGED landed
  BY <1>0, <1>1, FitsKept
<1>2. CASE Renamed(p)
  <2>1. PICK touched \in SUBSET Keys, versioned \in BOOLEAN :
          landed' = IF \E k \in touched : Stale(p, k, versioned) THEN landed
                    ELSE [k \in touched |-> Landing(p, k, Current(k), versioned)]
    BY <1>2 DEF Renamed
  <2>2. CASE \A k \in touched : ~Stale(p, k, versioned)
    <3>1. landed' = [k \in touched |-> Landing(p, k, Current(k), versioned)]
      BY <2>1, <2>2
    <3>2. p.query = "Rename" /\ p.id \in DOMAIN view
      BY <1>2 DEF Renamed
    <3>3. \A k \in touched : Landing(p, k, Current(k), versioned).sure =>
            Cardinality(Landing(p, k, Current(k), versioned).texts) = 1
      BY <2>2, <3>2, RenameFits
    <3> QED
      BY <3>1, <3>3 DEF LandedFits
  <2> QED
    BY <1>1, <2>1, <2>2
<1>3. CASE Formatted(p)
  <2> DEFINE k == tracked[p.doc].key
             others == {<<p.doc, p.rev>>, <<p.doc, p.ticket.rev>>}
  <2>1. landed' = [x \in {k} |-> Landing(p, k, others, FALSE)]
    BY <1>3 DEF Formatted
  <2>2. Awaited(p) /\ p.query \in Commands /\ p.id \in DOMAIN view
    BY <1>3 DEF Formatted, Commands
  <2>3. Landing(p, k, others, FALSE).sure => Cardinality(Landing(p, k, others, FALSE).texts) = 1
    BY <2>2, OwnFits
  <2> HIDE DEF k, others
  <2> QED
    BY <2>1, <2>3 DEF LandedFits
<1>4. CASE Defined(p)
  <2>1. PICK k \in Keys :
          landed' =
            IF k = tracked[p.doc].key THEN [x \in {k} |-> Landing(p, k, {<<p.doc, p.rev>>}, FALSE)]
            ELSE IF \E d \in Named(k) : k \in DOMAIN p.revisions /\ p.revisions[k] = tracked[d].synced
            THEN [x \in {k} |-> Landing(p, k, Current(k), FALSE)]
            ELSE landed
    BY <1>4 DEF Defined
  <2>2. Awaited(p) /\ p.query = "Definition" /\ p.query \in Commands /\ p.id \in DOMAIN view
    BY <1>4 DEF Defined, Commands
  <2>3. CASE k = tracked[p.doc].key
    <3> DEFINE others == {<<p.doc, p.rev>>}
    <3>1. landed' = [x \in {k} |-> Landing(p, k, others, FALSE)]
      BY <2>1, <2>3
    <3>2. Landing(p, k, others, FALSE).sure => Cardinality(Landing(p, k, others, FALSE).texts) = 1
      BY <2>2, <2>3, OwnFits
    <3> HIDE DEF others
    <3> QED
      BY <3>1, <3>2 DEF LandedFits
  <2>4. ASSUME k # tracked[p.doc].key, NEW d \in Named(k), k \in DOMAIN p.revisions,
               p.revisions[k] = tracked[d].synced
        PROVE  LandedFits'
    <3>1. landed' = [x \in {k} |-> Landing(p, k, Current(k), FALSE)]
      BY <2>1, <2>4
    <3>2. Landing(p, k, Current(k), FALSE).sure =>
            Cardinality(Landing(p, k, Current(k), FALSE).texts) = 1
      BY <2>2, <2>4, TargetFits
    <3> QED
      BY <3>1, <3>2 DEF LandedFits
  <2> QED
    BY <1>1, <2>1, <2>3, <2>4
<1> QED
  BY <1>2, <1>3, <1>4

\* Every step keeps all of it.
LEMMA LandedStep ==
  ASSUME DocInv, ReqInv, CostInv, LandedInv, [Next]_vars
  PROVE  LandedInv'
<1>0. SeenInv /\ NothingLanded /\ LandedFits
  BY DEF LandedInv
<1>1. ASSUME NEW d \in Docs, NEW k \in Keys, Open(d, k) PROVE LandedInv'
  <2>1. UNCHANGED <<state, server, link, landed>>
    BY <1>1 DEF Open, OpenDoc, Forgetting
  <2> QED
    BY <1>0, <1>1, <2>1, SeenOpen, FitsKept DEF LandedInv, NothingLanded
<1>2. ASSUME NEW d \in Docs, Close(d) PROVE LandedInv'
  <2>1. UNCHANGED <<state, server, link, landed>>
    BY <1>2 DEF Close, CloseDoc, Forgetting
  <2> QED
    BY <1>0, <1>2, <2>1, SeenClose, FitsKept DEF LandedInv, NothingLanded
<1>3. ASSUME state' # "Running", pending' = {}, NothingLanded' PROVE LandedInv'
  <2>1. TableInv'
    BY ReqStep DEF ReqInv
  <2>2. SeenInv' /\ LandedFits'
    BY <1>3, <2>1, SeenNone DEF LandedFits, Follows
  <2> QED
    BY <1>3, <2>2 DEF LandedInv
<1>4. CASE Shutdown
  <2>1. state' = "Disconnected" /\ pending' = {} /\ landed' = landed
        /\ (link' = "Shut" \/ (link = "Down" /\ link' = "Over"))
    BY <1>4 DEF Shutdown, ShutdownDocs, SettlingPending, Keeping
  <2>2. NothingLanded'
    BY <1>0, <2>1 DEF NothingLanded
  <2> QED
    BY <1>3, <2>1, <2>2
<1>5. CASE Disconnected
  <2>1. state' = "Disconnected" /\ pending' = {} /\ landed' = Nothing
    BY <1>5 DEF Disconnected, DisconnectedDocs, SettlingPending, Keeping
  <2> QED
    BY <1>3, <2>1, NothingFacts DEF NothingLanded
<1>6. CASE Reinitialize
  <2>1. /\ state' = "Initializing" /\ link = "Down" /\ state # "Running" /\ UNCHANGED <<pending, landed>>
    BY <1>6 DEF Reinitialize, ReinitializeDocs, DocInv, UpWhileInUse
  <2>2. pending' = {} /\ NothingLanded'
    BY <1>0, <2>1 DEF ReqInv, TableInv, NothingLanded
  <2> QED
    BY <1>3, <2>1, <2>2
<1>7. CASE DocumentStep
  <2>0. UNCHANGED landed /\ SeenInv'
    BY <1>0, <1>7, SeenBeside DEF DocumentStep, reqVars
  <2>1. CASE UNCHANGED <<state, server, link>>
    BY <1>0, <2>0, <2>1, FitsKept DEF LandedInv, NothingLanded
  <2>2. CASE \E s \in Servers : InitializedDocs(s)
    <3>1. DOMAIN landed = {}
      BY <1>0, <2>2 DEF InitializedDocs, NothingLanded
    <3> QED
      BY <2>0, <3>1 DEF LandedInv, NothingLanded, LandedFits
  <2>3. CASE RefusedDocs
    <3>1. DOMAIN landed = {}
      BY <1>0, <2>3 DEF RefusedDocs, NothingLanded
    <3> QED
      BY <2>0, <3>1 DEF LandedInv, NothingLanded, LandedFits
  <2> QED
    BY <1>7, <2>1, <2>2, <2>3 DEF DocumentStep, Edit, SyncDoc, Publish, ReceivePublish
<1>8. CASE RequestStep
  <2>0. UNCHANGED docVars /\ UNCHANGED <<state, server, link>> /\ SeenInv'
    BY <1>0, <1>8, SeenRequests DEF RequestStep, docVars
  <2>1. CASE UNCHANGED landed
    BY <1>0, <2>0, <2>1, FitsKept DEF LandedInv, NothingLanded
  <2>2. ASSUME NEW p \in pending, Renamed(p) \/ Formatted(p) \/ Defined(p) PROVE LandedInv'
    <3>1. LandedFits'
      BY <1>0, <2>0, <2>2, FitsReply
    <3>2. state = "Running" /\ link = "Up"
      BY DEF ReqInv, TableInv, DocInv, UpWhileInUse
    <3> QED
      BY <2>0, <3>1, <3>2 DEF LandedInv, NothingLanded
  <2>3. ASSUME NEW p \in pending, Reply(p)
        PROVE  UNCHANGED landed \/ Renamed(p) \/ Formatted(p) \/ Defined(p)
    BY <2>3 DEF Reply, Answer, ReplySilent, ReplyDropped, ReplyEmpty, ReplyModified, Completed, Signed, Hovered, Inlaid, TooltipResolved
  <2>4. ASSUME NEW d \in Docs, Complete(d) \/ SignatureHelp(d) \/ Interact(d) PROVE UNCHANGED landed
    BY <2>4 DEF Complete, SignatureHelp, Interact
  <2>5. ASSUME NEW d \in Docs, NEW kind, Ask(d, kind) \/ Command(d, kind) PROVE UNCHANGED landed
    BY <2>5 DEF Ask, Command
  <2>6. ASSUME NEW p \in pending, ServerReads(p) PROVE UNCHANGED landed
    BY <2>6 DEF ServerReads
  <2> QED
    BY <1>8, <2>1, <2>2, <2>3, <2>4, <2>5, <2>6 DEF RequestStep
<1>9. CASE UNCHANGED vars
  <2>1. UNCHANGED docVars /\ UNCHANGED reqVars /\ UNCHANGED <<state, server, link, landed>>
    BY <1>9 DEF vars, docVars, reqVars
  <2>2. SeenInv'
    BY <1>0, <2>1 DEF SeenInv, ViewTypes, ViewsAreOld, CommandsAreCurrent, SeenIsOld, UndisturbedKept,
      Recorded, OldCopy, Follows, Named, OpenKeys, Registered, docVars, reqVars
  <2> QED
    BY <1>0, <2>1, <2>2, FitsKept DEF LandedInv, NothingLanded
<1> QED
  BY <1>1, <1>2, <1>4, <1>5, <1>6, <1>7, <1>8, <1>9 DEF Next

LEMMA LandedInvariance == Spec => []LandedInv
<1>1. Init => LandedInv
  <2> SUFFICES ASSUME Init PROVE LandedInv
    OBVIOUS
  <2>1. pending = {} /\ DOMAIN view = {} /\ DOMAIN landed = {}
    BY NothingFacts DEF Init, ReqInit
  <2> QED
    BY <2>1 DEF LandedInv, SeenInv, ViewTypes, ViewsAreOld, CommandsAreCurrent, NothingLanded, LandedFits
<1>2. DocInv /\ (ReqInv /\ CostInv) /\ LandedInv /\ [Next]_vars => LandedInv'
  BY LandedStep
<1> QED
  BY <1>1, <1>2, DocInvariance, ReqInvariance, PTL DEF Spec

\* The spans of a rename, a format or a definition were computed on, converted against and are
\* meant for one and the same text, however the documents were edited, closed and reopened and the
\* server was lost meanwhile, when the file was neither opened nor closed since the request, or is
\* open and the server named the version it edited.
THEOREM SpansFit == Spec => []LandedFits
<1>1. LandedInv => LandedFits
  BY DEF LandedInv
<1> QED
  BY <1>1, LandedInvariance, PTL
=============================================================================
