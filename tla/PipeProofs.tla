----------------------------- MODULE PipeProofs -----------------------------
(***************************************************************************)
(* For any number of messages, bodies and frames: the in-process inbox     *)
(* loses no wakeup, and a connection's queue counts exactly what is not    *)
(* written yet; its guard trips whenever the count is past the limit, and  *)
(* tells of it once.  The count is a sum: the lemmas about sums rest on    *)
(* the least counterexample of a set of numbers, which WFMin provides.     *)
(***************************************************************************)
EXTENDS MemoryInbox, WritePump, FiniteSetTheorems, SequenceTheorems, TLAPS

----------------------------------------------------------------------------
\* The flags of the inbox apart from its other variables: each needs a prover of its own.
InboxFlags ==
  /\ far \in BOOLEAN /\ stopped \in BOOLEAN /\ woken \in BOOLEAN
  /\ control \in BOOLEAN /\ stored \in BOOLEAN /\ armed \in BOOLEAN

LEMMA InboxFlagsKept ==
  ASSUME InboxFlags, InboxNext
  PROVE  InboxFlags'
<1> USE DEF InboxFlags
<1>1. CASE Poll
  BY <1>1 DEF Poll, TryNext
<1>2. CASE Arms
  BY <1>2 DEF Arms, Spawn, Store, Swap, SendToken, Look, TryNext
<1>3. CASE DropInbox \/ ServerTalks \/ ServerLeaves
  BY <1>3 DEF DropInbox, ServerTalks, ServerLeaves
<1>4. CASE Watches
  BY <1>4 DEF Watches, Receive, Ready, Wakes, Disarm, TakeWaker
<1> QED
  BY <1>1, <1>2, <1>3, <1>4 DEF InboxNext

LEMMA InboxInitInv == InboxInit => InboxInv
<1> SUFFICES ASSUME InboxInit PROVE InboxInv
  OBVIOUS
<1>1. InboxFlags
  BY DEF InboxInit, InboxFlags
<1>2. InboxTypeOK
  BY <1>1 DEF InboxInit, InboxFlags, InboxTypeOK
<1>3. ArmedOnce /\ WhoIsThere /\ WakerIsSeen /\ NoLostWakeup
  BY DEF InboxInit, ArmedOnce, WhoIsThere, WakerIsSeen, NoLostWakeup, Underway
<1> QED
  BY <1>2, <1>3 DEF InboxInv

LEMMA InboxStepKeeps ==
  ASSUME InboxInv, InboxNext
  PROVE  InboxInv'
<1>1. InboxFlags'
  BY InboxFlagsKept DEF InboxInv, InboxTypeOK, InboxFlags
<1> DEFINE Plain == /\ sent \in Nat /\ got \in Nat /\ tokens \in Nat
                    /\ poll \in {"Idle", "Storing", "Swapping", "Signalling", "Looking"}
                    /\ watch \in {"Idle", "Receiving", "Ready", "Disarming", "Taking", "Over"}
           Rest == Plain /\ ArmedOnce /\ WhoIsThere /\ WakerIsSeen /\ NoLostWakeup
<1>2. Rest'
  <2> USE DEF InboxInv, InboxTypeOK, ArmedOnce, WhoIsThere, WakerIsSeen, NoLostWakeup, Underway
  <2>1. CASE Poll
    BY <2>1 DEF Poll, TryNext, Waiting, Answering
  <2>2. CASE Spawn
    BY <2>2 DEF Spawn
  <2>3. CASE Store
    BY <2>3 DEF Store
  <2>4. CASE Swap
    BY <2>4 DEF Swap
  <2>5. CASE SendToken
    BY <2>5 DEF SendToken
  <2>6. CASE Look
    BY <2>6 DEF Look, TryNext, Waiting, Answering
  <2>7. CASE DropInbox
    BY <2>7 DEF DropInbox
  <2>8. CASE Receive
    BY <2>8 DEF Receive
  <2>9. CASE Ready
    BY <2>9 DEF Ready
  <2>10. CASE Disarm("Disarming", "Taking")
    BY <2>10 DEF Disarm
  <2>11. CASE TakeWaker("Taking", "Receiving")
    BY <2>11 DEF TakeWaker
  <2>12. CASE ServerTalks
    BY <2>12 DEF ServerTalks
  <2>13. CASE ServerLeaves
    BY <2>13 DEF ServerLeaves
  <2> QED
    BY <2>1, <2>2, <2>3, <2>4, <2>5, <2>6, <2>7, <2>8, <2>9, <2>10, <2>11, <2>12, <2>13
    DEF InboxNext, Arms, Watches, Wakes
<1> QED
  BY <1>1, <1>2 DEF InboxInv, InboxTypeOK, InboxFlags

LEMMA InboxNextInv == InboxInv /\ [InboxNext]_inboxVars => InboxInv'
<1> SUFFICES ASSUME InboxInv, [InboxNext]_inboxVars PROVE InboxInv'
  OBVIOUS
<1>1. CASE UNCHANGED inboxVars
  BY <1>1 DEF inboxVars, InboxInv, InboxTypeOK, ArmedOnce, WhoIsThere, WakerIsSeen, NoLostWakeup,
              Underway
<1> QED
  BY <1>1, InboxStepKeeps

\* The inductive invariant of the inbox and its watcher.
THEOREM InboxInvariance == InboxSpec => []InboxInv
BY InboxInitInv, InboxNextInv, PTL DEF InboxSpec

\* A poller that sleeps has left its waker where the thread finds it, and the thread is on its way,
\* with one token at most: Inbox::wait and watcher::watch lose no wakeup between them.
THEOREM NoWakeupIsLost == InboxSpec => []NoLostWakeup
<1>1. InboxInv => NoLostWakeup
  BY DEF InboxInv
<1> QED
  BY <1>1, InboxInvariance, PTL

----------------------------------------------------------------------------
LEMMA LeastNat ==
  ASSUME NEW S \in SUBSET Nat, S # {}
  PROVE  \E n \in S : \A m \in S : n <= m
<1>1. OpToRel(<, Nat) = {p \in Nat \X Nat : p[1] < p[2]}
  BY SMT DEF OpToRel
<1>2. PICK n \in S : \A m \in S : <<m, n>> \notin OpToRel(<, Nat)
  BY NatLessThanWellFounded, WFMin, Zenon
<1>3. \A m \in S : m < n => <<m, n>> \in {p \in Nat \X Nat : p[1] < p[2]}
  BY SMT
<1>4. \A m \in S : ~(m < n)
  BY <1>1, <1>2, <1>3, Zenon
<1> QED
  BY <1>4

LEMMA LeastSubset ==
  ASSUME NEW S, IsFiniteSet(S), NEW Bad \in SUBSET SUBSET S, Bad # {}
  PROVE  \E T \in Bad : \A x \in T : T \ {x} \notin Bad
<1>1. \A T \in SUBSET S : IsFiniteSet(T) /\ Cardinality(T) \in Nat
  BY FS_Subset, FS_CardinalityType, Zenon
<1> DEFINE Sizes == {Cardinality(T) : T \in Bad}
<1>2. Sizes \in SUBSET Nat /\ Sizes # {}
  BY <1>1, Zenon
<1>3. PICK n \in Sizes : \A m \in Sizes : n <= m
  <2> HIDE DEF Sizes
  <2> QED
    BY <1>2, LeastNat
<1>4. PICK T \in Bad : Cardinality(T) = n
  BY <1>3, Zenon
<1>5. ASSUME NEW x \in T
      PROVE  T \ {x} \notin Bad
  <2>1. Cardinality(T \ {x}) = Cardinality(T) - 1
    BY <1>1, <1>4, <1>5, FS_RemoveElement, Zenon
  <2>2. T \ {x} \in Bad => Cardinality(T) <= Cardinality(T \ {x})
    BY <1>3, <1>4, Zenon
  <2> QED
    BY <1>1, <1>4, <2>1, <2>2
<1> QED
  BY <1>5, <1>4, Zenon

Pick(s) == CHOOSE x \in s : TRUE

SumMap(f, S, iter) ==
  [s \in SUBSET S |-> IF s = {} THEN 0 ELSE f[Pick(s)] + iter[s \ {Pick(s)}]]

LEMMA SumForm ==
  ASSUME NEW f, NEW S
  PROVE  SumFunctionOnSet(f, S) = (CHOOSE iter : iter = SumMap(f, S, iter))[S]
BY DEF SumFunctionOnSet, FoldFunctionOnSet, MapThenFoldSet, SumMap, Pick

LEMMA PickIn == ASSUME NEW s, s # {} PROVE Pick(s) \in s
BY DEF Pick

Upto(S, n) == {s \in SUBSET S : Cardinality(s) <= n}

LEMMA SumExists ==
  ASSUME NEW S, IsFiniteSet(S), NEW f, \A x \in S : f[x] \in Int
  PROVE  \E iter \in [SUBSET S -> Int] : iter = SumMap(f, S, iter)
<1>1. \A s \in SUBSET S : IsFiniteSet(s) /\ Cardinality(s) \in Nat /\ Cardinality(s) <= Cardinality(S)
  BY FS_Subset, FS_CardinalityType, Zenon
<1>2. \A s \in SUBSET S : s # {} =>
        /\ Pick(s) \in S /\ s \ {Pick(s)} \in SUBSET S
        /\ Cardinality(s \ {Pick(s)}) = Cardinality(s) - 1
  BY <1>1, PickIn, FS_RemoveElement, Zenon
<1>3. Cardinality({}) = 0 /\ \A s \in SUBSET S : Cardinality(s) = 0 => s = {}
  BY <1>1, FS_EmptySet, Zenon
<1> DEFINE Sums(n, g) ==
             /\ g \in [Upto(S, n) -> Int]
             /\ \A s \in Upto(S, n) : g[s] = IF s = {} THEN 0 ELSE f[Pick(s)] + g[s \ {Pick(s)}]
           Bad == {n \in Nat : ~\E g : Sums(n, g)}
<1>4. 0 \notin Bad
  <2> DEFINE g == [s \in Upto(S, 0) |-> 0]
  <2>1. \A s \in Upto(S, 0) : s = {}
    BY <1>1, <1>3 DEF Upto
  <2>2. Sums(0, g)
    BY <2>1
  <2> HIDE DEF Sums, g
  <2> QED
    BY <2>2
<1>5. ASSUME NEW n \in Nat, n \notin Bad
      PROVE  n + 1 \notin Bad
  <2>1. PICK g : Sums(n, g)
    BY <1>5
  <2> DEFINE h == [s \in Upto(S, n + 1) |->
                     IF s = {} THEN 0 ELSE f[Pick(s)] + g[s \ {Pick(s)}]]
  <2>2. \A s \in Upto(S, n + 1) : s # {} => Pick(s) \in S /\ s \ {Pick(s)} \in Upto(S, n)
    BY <1>1, <1>2 DEF Upto
  <2>3. \A s \in Upto(S, n) : s \in Upto(S, n + 1)
    BY <1>1 DEF Upto
  <2>4. \A s \in Upto(S, n) : h[s] = g[s]
    BY <2>1, <2>3
  <2>5. h \in [Upto(S, n + 1) -> Int]
    BY <2>1, <2>2
  <2>6. Sums(n + 1, h)
    BY <2>2, <2>4, <2>5
  <2> HIDE DEF Sums, h
  <2> QED
    BY <2>6
<1>6. Bad = {}
  <2> SUFFICES ASSUME Bad # {} PROVE FALSE
    OBVIOUS
  <2>1. PICK n \in Bad : \A m \in Bad : n <= m
    BY LeastNat
  <2>2. n \in Nat /\ n # 0
    BY <2>1, <1>4
  <2> HIDE DEF Bad
  <2>3. n - 1 \in Nat /\ n - 1 \notin Bad
    BY <2>1, <2>2
  <2> QED
    BY <1>5, <2>1, <2>2, <2>3
<1>7. PICK g : Sums(Cardinality(S), g)
  BY <1>1, <1>6
<1>8. Upto(S, Cardinality(S)) = SUBSET S
  BY <1>1 DEF Upto
<1>9. g = SumMap(f, S, g)
  BY <1>7, <1>8 DEF SumMap
<1> QED
  BY <1>7, <1>8, <1>9

LEMMA SumsAgree ==
  ASSUME NEW T, IsFiniteSet(T),
         NEW S1, T \subseteq S1, NEW f1, NEW i1, i1 = SumMap(f1, S1, i1),
         NEW S2, T \subseteq S2, NEW f2, NEW i2, i2 = SumMap(f2, S2, i2),
         \A x \in T : f1[x] = f2[x]
  PROVE  i1[T] = i2[T]
<1> DEFINE Bad == {s \in SUBSET T : i1[s] # i2[s]}
<1>1. \A s \in SUBSET T : s \in SUBSET S1 /\ s \in SUBSET S2
  OBVIOUS
<1>2. \A s \in SUBSET T :
        /\ i1[s] = (IF s = {} THEN 0 ELSE f1[Pick(s)] + i1[s \ {Pick(s)}])
        /\ i2[s] = (IF s = {} THEN 0 ELSE f2[Pick(s)] + i2[s \ {Pick(s)}])
  <2>1. ASSUME NEW s \in SUBSET T
        PROVE  i1[s] = (IF s = {} THEN 0 ELSE f1[Pick(s)] + i1[s \ {Pick(s)}])
    BY <1>1 DEF SumMap
  <2>2. ASSUME NEW s \in SUBSET T
        PROVE  i2[s] = (IF s = {} THEN 0 ELSE f2[Pick(s)] + i2[s \ {Pick(s)}])
    BY <1>1 DEF SumMap
  <2> QED
    BY <2>1, <2>2
<1>3. SUFFICES Bad = {}
  OBVIOUS
<1>4. SUFFICES ASSUME Bad # {} PROVE FALSE
  OBVIOUS
<1>5. PICK s \in Bad : \A x \in s : s \ {x} \notin Bad
  BY <1>4, LeastSubset
<1>6. s # {} /\ s \in SUBSET T
  BY <1>2, <1>5
<1>7. Pick(s) \in T /\ Pick(s) \in s
  BY <1>6, PickIn
<1>8. i1[s \ {Pick(s)}] = i2[s \ {Pick(s)}]
  BY <1>5, <1>6, <1>7
<1> QED
  BY <1>2, <1>5, <1>6, <1>7, <1>8

LEMMA SumIs ==
  ASSUME NEW S, IsFiniteSet(S), NEW f, \A x \in S : f[x] \in Int,
         NEW iter, iter = SumMap(f, S, iter), NEW T \in SUBSET S
  PROVE  SumFunctionOnSet(f, T) = iter[T]
<1>1. IsFiniteSet(T)
  BY FS_Subset
<1>2. \E i : i = SumMap(f, T, i)
  BY <1>1, SumExists
<1> DEFINE i == CHOOSE i : i = SumMap(f, T, i)
<1>3. i = SumMap(f, T, i)
  BY <1>2
<1> HIDE DEF i
<1>4. i[T] = iter[T]
  BY <1>1, <1>3, SumsAgree
<1> QED
  BY <1>4, SumForm DEF i

LEMMA SumAgree ==
  ASSUME NEW S, IsFiniteSet(S), NEW f, NEW g, \A x \in S : f[x] \in Int /\ g[x] = f[x]
  PROVE  SumFunctionOnSet(f, S) = SumFunctionOnSet(g, S)
<1>1. PICK i : i = SumMap(f, S, i)
  BY SumExists
<1>2. PICK j : j = SumMap(g, S, j)
  BY SumExists
<1>3. i[S] = j[S]
  BY <1>1, <1>2, SumsAgree
<1> QED
  BY <1>1, <1>2, <1>3, SumIs

\* Whatever the order: a sum is one of its terms and the sum of the others.
LEMMA SumSplits ==
  ASSUME NEW S, IsFiniteSet(S), NEW f, \A x \in S : f[x] \in Int
  PROVE  /\ SumFunctionOnSet(f, S) \in Int
         /\ S = {} => SumFunctionOnSet(f, S) = 0
         /\ \A x \in S : SumFunctionOnSet(f, S) = f[x] + SumFunctionOnSet(f, S \ {x})
<1>1. PICK iter \in [SUBSET S -> Int] : iter = SumMap(f, S, iter)
  BY SumExists
<1>2. \A T \in SUBSET S : SumFunctionOnSet(f, T) = iter[T]
  BY <1>1, SumIs
<1>3. \A T \in SUBSET S :
        iter[T] = IF T = {} THEN 0 ELSE f[Pick(T)] + iter[T \ {Pick(T)}]
  BY <1>1 DEF SumMap
<1> DEFINE Bad == {T \in SUBSET S : \E x \in T : iter[T] # f[x] + iter[T \ {x}]}
<1>4. Bad = {}
  <2> SUFFICES ASSUME Bad # {} PROVE FALSE
    OBVIOUS
  <2>1. PICK T \in Bad : \A x \in T : T \ {x} \notin Bad
    BY LeastSubset
  <2>2. PICK x \in T : iter[T] # f[x] + iter[T \ {x}]
    BY <2>1
  <2> DEFINE c == Pick(T)
  <2>3. c \in T
    BY <2>2, PickIn
  <2> HIDE DEF c
  <2>4. iter[T] = f[c] + iter[T \ {c}]
    BY <1>3, <2>1, <2>2 DEF c
  <2>5. x # c
    BY <2>2, <2>4, Zenon
  <2>6. T \ {c} \in SUBSET S /\ T \ {x} \in SUBSET S /\ x \in T \ {c} /\ c \in T \ {x}
    BY <2>1, <2>2, <2>3, <2>5
  <2>7. iter[T \ {c}] = f[x] + iter[(T \ {c}) \ {x}]
    BY <2>1, <2>3, <2>6
  <2>8. iter[T \ {x}] = f[c] + iter[(T \ {x}) \ {c}]
    BY <2>1, <2>2, <2>6
  <2>9. (T \ {x}) \ {c} = (T \ {c}) \ {x}
    OBVIOUS
  <2>10. f[x] \in Int /\ f[c] \in Int /\ iter[(T \ {c}) \ {x}] \in Int
    BY <1>1, <2>6
  <2> DEFINE rest == iter[(T \ {c}) \ {x}]
             less == iter[T \ {c}]
             others == iter[T \ {x}]
  <2>11. /\ rest \in Int /\ less = f[x] + rest /\ others = f[c] + rest
         /\ iter[T] = f[c] + less /\ iter[T] # f[x] + others
    BY <2>2, <2>4, <2>7, <2>8, <2>9, <2>10, Zenon
  <2> HIDE DEF rest, less, others
  <2> QED
    BY <2>10, <2>11
<1>5. S \in SUBSET S /\ \A x \in S : S \ {x} \in SUBSET S
  OBVIOUS
<1>6. iter[S] \in Int
  BY <1>1, <1>5
<1>7. S = {} => iter[S] = 0
  BY <1>3, <1>5, Zenon
<1>8. \A x \in S : iter[S] = f[x] + iter[S \ {x}]
  BY <1>4, <1>5, Zenon
<1> QED
  BY <1>2, <1>5, <1>6, <1>7, <1>8, Zenon

LEMMA NoneInEmpty == 1..0 = {}
OBVIOUS

LEMMA SumUpTo ==
  ASSUME NEW n \in Nat, NEW f, \A i \in 1..(n + 1) : f[i] \in Int
  PROVE  /\ SumFunctionOnSet(f, 1..n) \in Int
         /\ SumFunctionOnSet(f, 1..0) = 0
         /\ SumFunctionOnSet(f, 1..(n + 1)) = f[n + 1] + SumFunctionOnSet(f, 1..n)
<1> DEFINE S == 1..(n + 1)
<1>1. IsFiniteSet(S) /\ S \ {n + 1} = 1..n /\ n + 1 \in S /\ 1..n \subseteq S
  BY FS_Interval
<1>2. 1..0 = {} /\ IsFiniteSet({}) /\ IsFiniteSet(1..n)
  BY FS_EmptySet, FS_Interval
<1>3. SumFunctionOnSet(f, {}) = 0
  BY <1>2, SumSplits, Zenon
<1>4. SumFunctionOnSet(f, 1..n) \in Int
  BY <1>1, <1>2, SumSplits, Zenon
<1>5. SumFunctionOnSet(f, S) = f[n + 1] + SumFunctionOnSet(f, S \ {n + 1})
  <2> HIDE DEF S
  <2>1. \A i \in S : f[i] \in Int
    BY DEF S
  <2> QED
    BY <1>1, <2>1, SumSplits, Zenon
<1>6. SumFunctionOnSet(f, S) = f[n + 1] + SumFunctionOnSet(f, 1..n)
  BY <1>1, <1>5, Zenon
<1> QED
  BY <1>2, <1>3, <1>4, <1>6, Zenon

\* A queue's sum grows by what is appended, and falls by what is taken.
LEMMA SumAppended ==
  ASSUME NEW q \in Seq(Int), NEW e \in Int
  PROVE  SumFunction(Append(q, e)) = SumFunction(q) + e
<1> DEFINE a == Append(q, e)
           n == Len(q)
<1>1. /\ a \in Seq(Int) /\ Len(a) = n + 1 /\ n \in Nat
      /\ \A i \in 1..n : a[i] = q[i]
      /\ a[n + 1] = e
  BY AppendProperties, LenProperties
<1>2. DOMAIN a = 1..(n + 1) /\ DOMAIN q = 1..n
  BY <1>1, LenProperties
<1>3. \A i \in 1..(n + 1) : a[i] \in Int
  BY <1>1
<1>4. \A i \in 1..n : q[i] \in Int /\ a[i] = q[i]
  BY <1>1
<1>5. IsFiniteSet(1..(n + 1)) /\ IsFiniteSet(1..n)
  BY <1>1, FS_Interval
<1> HIDE DEF a
<1>7. SumFunctionOnSet(a, 1..(n + 1)) = a[n + 1] + SumFunctionOnSet(a, 1..n)
  <2> HIDE DEF n
  <2> QED
    BY <1>1, <1>3, SumUpTo, Zenon
<1>8. SumFunctionOnSet(q, 1..n) = SumFunctionOnSet(a, 1..n) /\ SumFunctionOnSet(q, 1..n) \in Int
  BY <1>4, <1>5, SumAgree, SumSplits
<1>9. SumFunction(a) = SumFunctionOnSet(a, 1..(n + 1)) /\ SumFunction(q) = SumFunctionOnSet(q, 1..n)
  BY <1>2 DEF SumFunction
<1> QED
  BY <1>1, <1>7, <1>8, <1>9 DEF a

LEMMA SumTaken ==
  ASSUME NEW q \in Seq(Int), q # <<>>
  PROVE  SumFunction(q) = Head(q) + SumFunction(Tail(q))
<1> DEFINE t == Tail(q)
           n == Len(t)
<1>1. /\ t \in Seq(Int) /\ n \in Nat /\ Len(q) = n + 1
      /\ \A i \in 1..n : t[i] = q[i + 1]
      /\ Head(q) = q[1]
  BY HeadTailProperties, LenProperties, EmptySeq
<1>2. DOMAIN t = 1..n /\ DOMAIN q = 1..(n + 1)
  BY <1>1, LenProperties
<1>3. \A i \in 1..(n + 1) : q[i] \in Int
  BY <1>1
<1>4. \A i \in 1..n : t[i] \in Int /\ t[i] = q[i + 1]
  BY <1>1
<1> HIDE DEF t, n
<1> DEFINE Bad == {k \in Nat : k <= n /\ SumFunctionOnSet(q, 1..(k + 1)) # q[1] + SumFunctionOnSet(t, 1..k)}
<1>5. 0 \notin Bad
  <2>1. SumFunctionOnSet(q, 1..(0 + 1)) = q[0 + 1] + SumFunctionOnSet(q, 1..0) /\ SumFunctionOnSet(q, 1..0) = 0
    <3>1. 0 \in Nat /\ \A i \in 1..(0 + 1) : q[i] \in Int
      BY <1>1, <1>3
    <3> QED
      BY <3>1, SumUpTo, Zenon
  <2>2. SumFunctionOnSet(t, 1..0) = 0
    BY FS_EmptySet, SumSplits, NoneInEmpty, Zenon
  <2>3. 0 + 1 = 1 /\ q[1] \in Int
    BY <1>1, <1>3
  <2> QED
    BY <2>1, <2>2, <2>3
<1>6. ASSUME NEW k \in Nat, k \notin Bad
      PROVE  k + 1 \notin Bad
  <2> SUFFICES ASSUME k + 1 <= n PROVE SumFunctionOnSet(q, 1..(k + 2)) = q[1] + SumFunctionOnSet(t, 1..(k + 1))
    OBVIOUS
  <2>1. SumFunctionOnSet(q, 1..(k + 1)) = q[1] + SumFunctionOnSet(t, 1..k)
    BY <1>1, <1>6
  <2>6. SumFunctionOnSet(q, 1..(k + 1 + 1)) = q[k + 1 + 1] + SumFunctionOnSet(q, 1..(k + 1))
    <3>1. k + 1 \in Nat /\ \A i \in 1..(k + 1 + 1) : q[i] \in Int
      BY <1>1, <1>3
    <3> QED
      BY <3>1, SumUpTo, Zenon
  <2>7. SumFunctionOnSet(t, 1..(k + 1)) = t[k + 1] + SumFunctionOnSet(t, 1..k) /\ SumFunctionOnSet(t, 1..k) \in Int
    <3>1. \A i \in 1..(k + 1) : t[i] \in Int
      BY <1>1, <1>4
    <3> QED
      BY <3>1, SumUpTo, Zenon
  <2>8. k + 1 + 1 = k + 2
    OBVIOUS
  <2>9. t[k + 1] = q[k + 2] /\ q[k + 2] \in Int /\ q[1] \in Int
    BY <1>1, <1>3, <1>4
  <2> QED
    BY <2>1, <2>6, <2>7, <2>8, <2>9
<1>7. Bad = {}
  <2> SUFFICES ASSUME Bad # {} PROVE FALSE
    OBVIOUS
  <2>1. PICK k \in Bad : \A m \in Bad : k <= m
    BY LeastNat
  <2>2. k \in Nat /\ k # 0
    BY <1>5, <2>1
  <2> HIDE DEF Bad
  <2> QED
    BY <1>6, <2>1, <2>2
<1>8. SumFunctionOnSet(q, 1..(n + 1)) = q[1] + SumFunctionOnSet(t, 1..n)
  <2>1. n \in Nat /\ n <= n
    BY <1>1
  <2> QED
    BY <1>7, <2>1, Zenon
<1> QED
  BY <1>1, <1>2, <1>8 DEF SumFunction, t

----------------------------------------------------------------------------
LEMMA GuardInitInv == PumpInit => GuardInv
<1> SUFFICES ASSUME PumpInit PROVE GuardInv
  OBVIOUS
<1>1. Idle \in [at : {"Idle", "Count", "Queue", "Check"}, length : Nat, seen : Int]
  BY DEF Idle
<1>2. GuardTypes
  <2>1. tripped \in BOOLEAN
    BY DEF PumpInit
  <2> QED
    BY <1>1, <2>1 DEF PumpInit, GuardTypes
<1>3. GuardTrips
  BY PumpAssumption DEF PumpInit, GuardTrips
<1> QED
  BY <1>2, <1>3 DEF GuardInv

\* Whatever takes bodies out of the queue only lowers the count, and reports no backlog.
LEMMA DrainKeeps ==
  ASSUME GuardInv, UNCHANGED <<sender, tripped>>,
         io' \in {"Pump", "Stream", "Ended"}, io = "Ended" => io' = "Ended",
         queue' \in Seq(Nat), held' \in Nat, unwritten' \in Int, unwritten' <= unwritten,
         \/ notices' = notices
         \/ \E n \in {"WriteFailed", "Ended"} : notices' = Append(notices, n)
  PROVE  GuardInv'
<1> DEFINE Told == {"Backlog", "WriteFailed", "Ended"}
           NoneAdded ==
             /\ notices' \in Seq(Told)
             /\ \A k \in 1..Len(notices) : k \in 1..Len(notices') /\ notices'[k] = notices[k]
             /\ \A k \in 1..Len(notices') :
                  notices'[k] = "Backlog" => k \in 1..Len(notices) /\ notices[k] = "Backlog"
<1>0. notices \in Seq(Told)
  BY DEF GuardInv, GuardTypes
<1>1. NoneAdded
  <2>1. CASE notices' = notices
    BY <1>0, <2>1
  <2>2. ASSUME NEW n \in {"WriteFailed", "Ended"}, notices' = Append(notices, n)
        PROVE  NoneAdded
    <3>1. n \in Told /\ n # "Backlog"
      OBVIOUS
    <3>2. /\ notices' \in Seq(Told)
          /\ Len(notices') = Len(notices) + 1 /\ Len(notices) \in Nat
          /\ \A k \in 1..Len(notices) : notices'[k] = notices[k]
          /\ notices'[Len(notices) + 1] = n
      BY <1>0, <2>2, <3>1, AppendProperties
    <3> QED
      BY <3>1, <3>2
  <2> QED
    BY <2>1, <2>2
<1>2. GuardTypes'
  BY <1>1 DEF GuardInv, GuardTypes
<1>3. DOMAIN notices = 1..Len(notices) /\ DOMAIN notices' = 1..Len(notices')
  BY <1>0, <1>1
<1>4. /\ \A k \in DOMAIN notices : k \in DOMAIN notices' /\ notices'[k] = notices[k]
      /\ \A k \in DOMAIN notices' :
           notices'[k] = "Backlog" => k \in DOMAIN notices /\ notices[k] = "Backlog"
  BY <1>1, <1>3
<1>5. unwritten' > Limit /\ io' # "Ended" => unwritten > Limit /\ io # "Ended"
  BY PumpAssumption DEF GuardInv, GuardTypes
<1>6. GuardTrips'
  <2>1. unwritten' > Limit /\ io' # "Ended" =>
          tripped' \/ \E s \in Senders : sender'[s].at \in {"Queue", "Check"} /\ sender'[s].seen > Limit
    BY <1>5 DEF GuardInv, GuardTrips
  <2>2. tripped' <=> \E k \in DOMAIN notices' : notices'[k] = "Backlog"
    BY <1>4 DEF GuardInv, GuardTrips
  <2>3. \A j, k \in DOMAIN notices' : notices'[j] = "Backlog" /\ notices'[k] = "Backlog" => j = k
    BY <1>4 DEF GuardInv, GuardTrips
  <2> QED
    BY <2>1, <2>2, <2>3 DEF GuardTrips
<1> QED
  BY <1>2, <1>6 DEF GuardInv

\* What drains the queue: the writer thread or the loop.
LEMMA DrainStepKeeps ==
  ASSUME GuardInv, Streams \/ Loops
  PROVE  GuardInv'
<1> USE DEF GuardInv, GuardTypes
<1>1. ASSUME queue # <<>>
      PROVE  Head(queue) \in Nat /\ Tail(queue) \in Seq(Nat)
  BY <1>1, HeadTailProperties
<1>2. CASE TakeItem /\ Streams
  BY <1>1, <1>2, DrainKeeps DEF TakeItem, Streams, sendVars
<1>3. CASE WriteAll /\ Streams
  BY <1>3, DrainKeeps DEF WriteAll, Streams, sendVars
<1>4. CASE Writes /\ Loops
  <2>1. UNCHANGED <<sender, tripped, notices, held>> /\ io = "Pump"
    BY <1>4 DEF Writes, Loops, sendVars
  <2>2. io' \in {"Pump", "Ended"}
    BY <1>4 DEF Writes, WriteBlocked, WriteOver, WriteClose, WriteBody, Command
  <2>3. CASE WriteBlocked \/ WriteOver
    <3>1. UNCHANGED <<queue, unwritten>>
      BY <2>3 DEF WriteBlocked, WriteOver
    <3> QED
      BY <2>1, <2>2, <3>1, DrainKeeps
  <2>4. CASE WriteClose
    <3>1. queue # <<>> /\ queue' = Tail(queue) /\ unwritten' = unwritten
      BY <2>4 DEF WriteClose
    <3> QED
      BY <1>1, <2>1, <2>2, <3>1, DrainKeeps
  <2>5. CASE WriteBody
    <3>1. queue # <<>> /\ queue' = Tail(queue) /\ unwritten' = unwritten - Head(queue)
      BY <2>5 DEF WriteBody
    <3> QED
      BY <1>1, <2>1, <2>2, <3>1, DrainKeeps
  <2> QED
    BY <1>4, <2>3, <2>4, <2>5 DEF Writes
<1>5. CASE Reads /\ Loops
  <2>1. UNCHANGED <<sender, tripped, held, queue, unwritten>> /\ io = "Pump"
    BY <1>5 DEF Reads, Loops, sendVars
  <2>2. io' \in {"Pump", "Ended"} /\ (notices' = notices \/ notices' = Append(notices, "Ended"))
    BY <1>5, <2>1 DEF Reads, Settle, ReadFrame, ReadGone
  <2> QED
    BY <2>1, <2>2, DrainKeeps
<1>6. CASE PollReturns /\ Loops
  BY <1>6, DrainKeeps DEF PollReturns, Loops, sendVars, guardVars
<1> QED
  BY <1>2, <1>3, <1>4, <1>5, <1>6 DEF Streams, Loops

\* A sender's step leaves what the other one saw.
LEMMA SenderKeeps ==
  ASSUME GuardInv, NEW s \in Senders, Finishes(s)
  PROVE  GuardInv'
<1> USE DEF GuardInv, GuardTypes
<1> DEFINE Sees(t) == sender[t].at \in {"Queue", "Check"} /\ sender[t].seen > Limit
<1>0. /\ UNCHANGED <<io, held>>
      /\ DOMAIN sender = Senders
      /\ sender[s] \in [at : {"Idle", "Count", "Queue", "Check"}, length : Nat, seen : Int]
      /\ Limit \in Nat
  BY PumpAssumption DEF Finishes, OnlySends
<1>1. CASE CountBody(s, "Count", "Queue")
  <2>1. /\ UNCHANGED <<queue, tripped, notices>>
        /\ unwritten' = unwritten + sender[s].length
        /\ sender' = [sender EXCEPT ![s].at = "Queue", ![s].seen = unwritten']
    BY <1>1 DEF CountBody
  <2>2. unwritten' \in Int
    BY <1>0, <2>1
  <2>3. /\ sender' \in [Senders -> [at : {"Idle", "Count", "Queue", "Check"}, length : Nat, seen : Int]]
        /\ sender'[s].at = "Queue" /\ sender'[s].seen = unwritten'
    BY <1>0, <2>1, <2>2
  <2>4. GuardTypes'
    BY <1>0, <2>1, <2>2, <2>3
  <2>5. GuardTrips'
    BY <2>1, <2>3 DEF GuardTrips
  <2> QED
    BY <2>4, <2>5
<1>2. CASE QueueBody(s, "Queue", "Check")
  <2>1. UNCHANGED <<tripped, notices>> /\ sender[s].at = "Queue"
    BY <1>2 DEF QueueBody
  <2>2. CASE io = "Ended"
    <3>1. /\ unwritten' = unwritten - sender[s].length /\ queue' = queue
          /\ sender' = [sender EXCEPT ![s] = Idle]
      BY <1>2, <2>2 DEF QueueBody
    <3>2. GuardTypes'
      BY <1>0, <2>1, <3>1 DEF Idle
    <3>3. GuardTrips'
      BY <1>0, <2>1, <2>2 DEF GuardTrips
    <3> QED
      BY <3>2, <3>3
  <2>3. CASE io # "Ended"
    <3>1. /\ unwritten' = unwritten /\ queue' = Append(queue, sender[s].length)
          /\ sender' = [sender EXCEPT ![s].at = "Check"]
      BY <1>2, <2>3 DEF QueueBody
    <3>2. queue' \in Seq(Nat)
      BY <1>0, <3>1, AppendProperties
    <3>3. /\ sender' \in [Senders -> [at : {"Idle", "Count", "Queue", "Check"}, length : Nat, seen : Int]]
          /\ sender'[s].at = "Check" /\ sender'[s].seen = sender[s].seen
          /\ \A t \in Senders : t # s => sender'[t] = sender[t]
      BY <1>0, <3>1
    <3>4. GuardTypes'
      BY <1>0, <2>1, <3>1, <3>2, <3>3
    <3>5. \A t \in Senders : Sees(t) => Sees(t)'
      BY <3>3
    <3>6. GuardTrips'
      BY <1>0, <2>1, <3>1, <3>5 DEF GuardTrips
    <3> QED
      BY <3>4, <3>6
  <2> QED
    BY <2>2, <2>3
<1>3. CASE CheckBacklog(s)
  <2> DEFINE past == sender[s].seen > Limit
  <2>1. /\ UNCHANGED <<queue, unwritten>>
        /\ tripped' = (tripped \/ past)
        /\ notices' = IF past /\ ~tripped THEN Append(notices, "Backlog") ELSE notices
        /\ sender' = [sender EXCEPT ![s] = Idle]
    BY <1>3 DEF CheckBacklog
  <2>2. /\ sender' \in [Senders -> [at : {"Idle", "Count", "Queue", "Check"}, length : Nat, seen : Int]]
        /\ \A t \in Senders : t # s => sender'[t] = sender[t]
    BY <1>0, <2>1 DEF Idle
  <2>3. tripped' \in BOOLEAN
    BY <2>1
  <2>4. unwritten' > Limit /\ io' # "Ended" => tripped' \/ \E t \in Senders : Sees(t)'
    BY <1>0, <2>1, <2>2 DEF GuardTrips
  <2>5. CASE ~(past /\ ~tripped)
    <3>1. notices' = notices
      BY <2>1, <2>5
    <3>2. tripped' <=> tripped
      BY <2>1, <2>5
    <3>3. GuardTypes'
      BY <1>0, <2>1, <2>2, <2>3, <3>1
    <3>4. /\ tripped' <=> \E k \in DOMAIN notices' : notices'[k] = "Backlog"
          /\ \A j, k \in DOMAIN notices' : notices'[j] = "Backlog" /\ notices'[k] = "Backlog" => j = k
      BY <3>1, <3>2 DEF GuardTrips
    <3> QED
      BY <2>4, <3>3, <3>4 DEF GuardTrips
  <2>6. CASE past /\ ~tripped
    <3>1. notices' = Append(notices, "Backlog") /\ tripped'
      BY <2>1, <2>6
    <3>2. /\ notices' \in Seq({"Backlog", "WriteFailed", "Ended"})
          /\ Len(notices') = Len(notices) + 1 /\ Len(notices) \in Nat
          /\ \A k \in 1..Len(notices) : notices'[k] = notices[k]
          /\ notices'[Len(notices) + 1] = "Backlog"
      BY <3>1, AppendProperties
    <3>3. \A k \in 1..Len(notices) : notices[k] # "Backlog"
      BY <2>6, <3>2 DEF GuardTrips
    <3>4. \A k \in 1..Len(notices') : notices'[k] = "Backlog" <=> k = Len(notices) + 1
      <4> SUFFICES ASSUME NEW k \in 1..Len(notices')
                   PROVE  notices'[k] = "Backlog" <=> k = Len(notices) + 1
        OBVIOUS
      <4>1. CASE k = Len(notices) + 1
        BY <3>2, <4>1
      <4>2. CASE k \in 1..Len(notices)
        BY <3>2, <3>3, <4>2
      <4> QED
        BY <3>2, <4>1, <4>2
    <3>5. DOMAIN notices' = 1..Len(notices') /\ Len(notices) + 1 \in 1..Len(notices')
      BY <3>2
    <3>6. GuardTypes'
      BY <1>0, <2>1, <2>2, <2>3, <3>2
    <3>7. /\ tripped' <=> \E k \in DOMAIN notices' : notices'[k] = "Backlog"
          /\ \A j, k \in DOMAIN notices' : notices'[j] = "Backlog" /\ notices'[k] = "Backlog" => j = k
      BY <3>1, <3>4, <3>5
    <3> QED
      BY <2>4, <3>6, <3>7 DEF GuardTrips
  <2> QED
    BY <2>5, <2>6
<1> QED
  BY <1>1, <1>2, <1>3 DEF Finishes, CountAndQueue

\* A sender begins with nothing seen; a close is queued like a body.
LEMMA BeginsKeep ==
  ASSUME GuardInv, Begins, OnlySends
  PROVE  GuardInv'
<1> USE DEF GuardInv, GuardTypes
<1>0. UNCHANGED <<io, held>> /\ Lengths \subseteq Nat /\ DOMAIN sender = Senders
  BY PumpAssumption DEF OnlySends
<1> DEFINE Records == [at : {"Idle", "Count", "Queue", "Check"}, length : Nat, seen : Int]
           Begun(s) == /\ sender[s].at = "Idle" /\ sender' \in [Senders -> Records]
                       /\ \A t \in Senders : t # s => sender'[t] = sender[t]
<1>1. /\ UNCHANGED <<unwritten, tripped, notices>> /\ queue' \in Seq(Nat)
      /\ sender' = sender \/ \E s \in Senders : Begun(s)
  <2>1. CASE CloseInput
    <3>1. queue' \in Seq(Nat)
      BY <2>1, AppendProperties DEF CloseInput
    <3>2. /\ sender["worker"].at = "Idle" /\ "worker" \in Senders
          /\ sender' = [sender EXCEPT !["worker"].at = "Check"]
      BY <2>1 DEF CloseInput, Senders, Idle
    <3>3. Begun("worker")
      BY <1>0, <3>2
    <3> QED
      BY <2>1, <3>1, <3>2, <3>3 DEF CloseInput
  <2>2. ASSUME NEW s \in Senders, NEW l \in Lengths, Send(s, l)
        PROVE  /\ UNCHANGED <<unwritten, tripped, notices, queue>>
               /\ sender' = sender \/ Begun(s)
    <3>1. /\ sender[s].at = "Idle"
          /\ sender' = sender \/ sender' = [sender EXCEPT ![s] = [at |-> "Count", length |-> l, seen |-> 0]]
      BY <2>2 DEF Send
    <3>2. [at |-> "Count", length |-> l, seen |-> 0] \in Records
      BY <1>0
    <3>3. sender' = sender \/ Begun(s)
      BY <1>0, <3>1, <3>2
    <3> QED
      BY <2>2, <3>3 DEF Send, guardVars
  <2> QED
    BY <2>1, <2>2 DEF Begins
<1>2. CASE sender' = sender
  BY <1>0, <1>1, <1>2 DEF GuardTrips
<1>3. ASSUME NEW s \in Senders, Begun(s)
      PROVE  GuardInv'
  <2>1. GuardTypes'
    BY <1>0, <1>1, <1>3
  <2>2. GuardTrips'
    BY <1>0, <1>1, <1>3 DEF GuardTrips
  <2> QED
    BY <2>1, <2>2
<1> QED
  BY <1>1, <1>2, <1>3

LEMMA GuardNextInv == GuardInv /\ [PumpNext]_pumpVars => GuardInv'
<1> SUFFICES ASSUME GuardInv, [PumpNext]_pumpVars PROVE GuardInv'
  OBVIOUS
<1>1. CASE UNCHANGED <<io, sender, queue, held, unwritten, notices, tripped>>
  BY <1>1 DEF GuardInv, GuardTypes, GuardTrips
<1>2. CASE Sends
  BY <1>2, SenderKeeps, BeginsKeep DEF Sends
<1>3. CASE Streams \/ Loops
  BY <1>3, DrainStepKeeps
<1>4. CASE Abort \/ Servers
  BY <1>1, <1>4 DEF Abort, Servers, ServerReads, ServerSends, sendVars, guardVars
<1>5. CASE UNCHANGED pumpVars
  BY <1>1, <1>5 DEF pumpVars, sendVars, guardVars
<1> QED
  BY <1>2, <1>3, <1>4, <1>5 DEF PumpNext

\* Writer::send's guard, however its senders and the thread that drains the queue interleave: past
\* the limit it has tripped or is about to, and it tells of it once.
THEOREM GuardAlwaysTrips == PumpSpec => []GuardTrips
<1>1. GuardInv => GuardTrips
  BY DEF GuardInv
<1> QED
  BY <1>1, GuardInitInv, GuardNextInv, PTL DEF PumpSpec

----------------------------------------------------------------------------
\* What the senders are about to queue, as a sum.
Lengthy == [s \in Senders |-> sender[s].length]

SenderStates == [at : {"Idle", "Count", "Queue", "Check"}, length : Nat, seen : Int]

LEMMA SendersAreFinite == IsFiniteSet(Senders)
<1>1. Senders = {"host"} \cup {"worker"}
  BY DEF Senders
<1> QED
  BY <1>1, FS_Singleton, FS_Union

\* A sender's step adds its body to what is about to be queued, takes it away, or does neither.
LEMMA PendingMoves ==
  ASSUME NEW s \in Senders, sender \in [Senders -> SenderStates], sender' \in [Senders -> SenderStates],
         \A t \in Senders : t # s => sender'[t] = sender[t]
  PROVE  LET before == SumFunctionOnSet(Lengthy, Pending)
             after  == SumFunctionOnSet(Lengthy', Pending')
         IN /\ before \in Int /\ after \in Int
            /\ sender[s].at # "Queue" /\ sender'[s].at # "Queue" => after = before
            /\ sender[s].at # "Queue" /\ sender'[s].at = "Queue" => after = before + sender'[s].length
            /\ sender[s].at = "Queue" /\ sender'[s].at # "Queue" => after = before - sender[s].length
<1> DEFINE Rest == {t \in Senders : t # s /\ sender[t].at = "Queue"}
           w == Lengthy
           v == Lengthy'
<1>1. /\ IsFiniteSet(Senders)
      /\ Rest \subseteq Senders /\ Pending \subseteq Senders /\ Pending' \subseteq Senders
  BY SendersAreFinite DEF Pending
<1>2. IsFiniteSet(Rest) /\ IsFiniteSet(Pending) /\ IsFiniteSet(Pending')
  <2> HIDE DEF Rest
  <2> QED
    BY <1>1, FS_Subset, Zenon
<1>3. /\ \A t \in Senders : w[t] \in Int /\ v[t] \in Int
      /\ \A t \in Rest : v[t] = w[t]
      /\ w[s] = sender[s].length /\ v[s] = sender'[s].length
  BY DEF Lengthy, SenderStates
<1>4. /\ sender[s].at # "Queue" => Pending = Rest
      /\ sender[s].at = "Queue" => s \in Pending /\ Pending \ {s} = Rest
      /\ sender'[s].at # "Queue" => Pending' = Rest
      /\ sender'[s].at = "Queue" => s \in Pending' /\ Pending' \ {s} = Rest
  BY DEF Pending
<1> HIDE DEF Rest, w, v
<1>5. SumFunctionOnSet(w, Rest) = SumFunctionOnSet(v, Rest) /\ SumFunctionOnSet(w, Rest) \in Int
  BY <1>1, <1>2, <1>3, SumAgree, SumSplits
<1>6. sender[s].at = "Queue" => SumFunctionOnSet(w, Pending) = w[s] + SumFunctionOnSet(w, Rest)
  <2> SUFFICES ASSUME sender[s].at = "Queue"
               PROVE  SumFunctionOnSet(w, Pending) = w[s] + SumFunctionOnSet(w, Rest)
    OBVIOUS
  <2>1. \A t \in Pending : w[t] \in Int
    BY <1>1, <1>3
  <2>2. s \in Pending /\ Pending \ {s} = Rest
    BY <1>4
  <2> QED
    BY <1>2, <2>1, <2>2, SumSplits
<1>7. sender'[s].at = "Queue" => SumFunctionOnSet(v, Pending') = v[s] + SumFunctionOnSet(v, Rest)
  <2> SUFFICES ASSUME sender'[s].at = "Queue"
               PROVE  SumFunctionOnSet(v, Pending') = v[s] + SumFunctionOnSet(v, Rest)
    OBVIOUS
  <2>1. \A t \in Pending' : v[t] \in Int
    BY <1>1, <1>3
  <2>2. s \in Pending' /\ Pending' \ {s} = Rest
    BY <1>4
  <2> QED
    BY <1>2, <2>1, <2>2, SumSplits
<1>8. sender[s].at # "Queue" => SumFunctionOnSet(w, Pending) = SumFunctionOnSet(w, Rest)
  BY <1>4, Zenon
<1>9. sender'[s].at # "Queue" => SumFunctionOnSet(v, Pending') = SumFunctionOnSet(w, Rest)
  BY <1>4, <1>5, Zenon
<1>10. w[s] \in Int /\ v[s] \in Int /\ w[s] = sender[s].length /\ v[s] = sender'[s].length
  BY <1>3
<1>11. w = Lengthy /\ v = Lengthy'
  BY DEF w, v
<1>12. /\ SumFunctionOnSet(w, Pending) \in Int /\ SumFunctionOnSet(v, Pending') \in Int
       /\ sender[s].at # "Queue" /\ sender'[s].at # "Queue" =>
            SumFunctionOnSet(v, Pending') = SumFunctionOnSet(w, Pending)
       /\ sender[s].at # "Queue" /\ sender'[s].at = "Queue" =>
            SumFunctionOnSet(v, Pending') = SumFunctionOnSet(w, Pending) + sender'[s].length
       /\ sender[s].at = "Queue" /\ sender'[s].at # "Queue" =>
            SumFunctionOnSet(v, Pending') = SumFunctionOnSet(w, Pending) - sender[s].length
  BY <1>5, <1>6, <1>7, <1>8, <1>9, <1>10
<1> QED
  BY <1>11, <1>12, Zenon

\* The count with the sums it is equal to, in one shape for the proofs.
LEMMA ExactForm ==
  GuardIsExact <=>
    (io # "Ended" => unwritten = SumFunction(queue) + held + SumFunctionOnSet(Lengthy, Pending))
BY DEF GuardIsExact, Lengthy

LEMMA QueueIsOfIntegers == ASSUME NEW q \in Seq(Nat) PROVE q \in Seq(Int)
OBVIOUS

LEMMA SumIsInteger == ASSUME NEW q \in Seq(Nat) PROVE SumFunction(q) \in Int
<1>1. /\ DOMAIN q = 1..Len(q) /\ Len(q) \in Nat
      /\ \A i \in 1..Len(q) : q[i] \in Int
  OBVIOUS
<1>2. IsFiniteSet(DOMAIN q)
  BY <1>1, FS_Interval
<1> QED
  BY <1>1, <1>2, SumSplits, Zenon DEF SumFunction

\* What drains the queue gives back what it wrote.
LEMMA DrainIsExact ==
  ASSUME GuardTypes, GuardIsExact, Streams \/ Loops
  PROVE  GuardIsExact'
<1> DEFINE Sum == SumFunction(queue)
           Pend == SumFunctionOnSet(Lengthy, Pending)
           taken == IF queue # <<>> THEN Head(queue) ELSE 0
<1>1. sender' = sender
  BY DEF Streams, Loops, sendVars
<1>2. Pend' = Pend
  BY <1>1 DEF Lengthy, Pending
<1>3. queue \in Seq(Nat) /\ held \in Nat /\ unwritten \in Int
  BY DEF GuardTypes
<1>4. queue # <<>> => Head(queue) \in Nat /\ Sum = Head(queue) + SumFunction(Tail(queue))
  BY <1>3, QueueIsOfIntegers, SumTaken, HeadTailProperties
<1>5. io' # "Ended" => io # "Ended"
  BY DEF Streams, TakeItem, WriteAll, Loops, Writes, Reads, PollReturns
<1>6. /\ Sum \in Int /\ Pend \in Int
  <2>1. Sum \in Int
    BY <1>3, SumIsInteger
  <2>2. Pend \in Int
    <3>1. IsFiniteSet(Pending)
      BY SendersAreFinite, FS_Subset DEF Pending
    <3>2. \A t \in Pending : Lengthy[t] \in Int
      BY DEF GuardTypes, Lengthy, Pending
    <3> QED
      BY <3>1, <3>2, SumSplits, Zenon
  <2> QED
    BY <2>1, <2>2
<1>7. \/ io' = "Ended"
      \/ UNCHANGED <<queue, held, unwritten>>
      \/ queue # <<>> /\ queue' = Tail(queue) /\ held = 0 /\ held' = Head(queue) /\ unwritten' = unwritten
      \/ queue' = queue /\ held' = 0 /\ unwritten' = unwritten - held
      \/ /\ queue # <<>> /\ queue' = Tail(queue) /\ held' = held
         /\ unwritten' = unwritten - Head(queue)
  <2>1. CASE Streams
    BY <2>1 DEF Streams, TakeItem, WriteAll
  <2>2. CASE Loops /\ Writes
    <3>1. held' = held
      BY <2>2 DEF Loops
    <3>2. CASE WriteBlocked \/ WriteOver
      BY <3>1, <3>2 DEF WriteBlocked, WriteOver
    <3>3. CASE WriteClose
      BY <1>3, <3>1, <3>3 DEF WriteClose
    <3>4. CASE WriteBody
      BY <3>1, <3>4 DEF WriteBody
    <3> QED
      BY <2>2, <3>2, <3>3, <3>4 DEF Writes
  <2>3. CASE Loops /\ (Reads \/ PollReturns)
    BY <2>3 DEF Loops, Reads, PollReturns, guardVars
  <2> QED
    BY <2>1, <2>2, <2>3 DEF Loops
<1>8. io # "Ended" => unwritten = Sum + held + Pend
  BY ExactForm
<1> SUFFICES ASSUME io' # "Ended" PROVE unwritten' = Sum' + held' + Pend'
  BY DEF GuardIsExact, Lengthy
<1>9. CASE UNCHANGED <<queue, held, unwritten>>
  BY <1>2, <1>5, <1>8, <1>9
<1>10. CASE queue' = queue /\ held' = 0 /\ unwritten' = unwritten - held
  <2>1. Sum' = Sum
    BY <1>10
  <2> HIDE DEF Sum, Pend
  <2> QED
    BY <1>2, <1>3, <1>5, <1>6, <1>8, <1>10, <2>1
<1>11. ASSUME queue # <<>>, queue' = Tail(queue),
              \/ held = 0 /\ held' = Head(queue) /\ unwritten' = unwritten
              \/ held' = held /\ unwritten' = unwritten - Head(queue)
       PROVE  unwritten' = Sum' + held' + Pend'
  <2>1. Sum' = SumFunction(Tail(queue))
    BY <1>11
  <2>2. Sum = Head(queue) + Sum' /\ Head(queue) \in Nat
    BY <1>4, <1>11, <2>1
  <2>3. Sum' \in Int
    <3>1. Tail(queue) \in Seq(Nat)
      BY <1>3, <1>11, HeadTailProperties
    <3> QED
      BY <2>1, <3>1, SumIsInteger
  <2> DEFINE head == Head(queue)
  <2>4. /\ unwritten = Sum + held + Pend /\ Sum = head + Sum' /\ Pend' = Pend
        /\ head \in Int /\ Sum' \in Int /\ Pend \in Int /\ held \in Int
    BY <1>2, <1>3, <1>5, <1>6, <1>8, <2>2, <2>3
  <2> HIDE DEF Sum, Pend, head
  <2>5. CASE held = 0 /\ held' = head /\ unwritten' = unwritten
    BY <2>4, <2>5
  <2>6. CASE held' = held /\ unwritten' = unwritten - head
    BY <2>4, <2>6
  <2> QED
    BY <1>11, <2>5, <2>6 DEF head
<1> HIDE DEF Sum, Pend
<1> QED
  BY <1>7, <1>9, <1>10, <1>11

\* A sender counts its body before it queues it, and the worker's close weighs nothing.
LEMMA SenderIsExact ==
  ASSUME GuardTypes, GuardTypes', GuardIsExact, NEW s \in Senders, Finishes(s)
  PROVE  GuardIsExact'
<1> DEFINE Sum == SumFunction(queue)
           Pend == SumFunctionOnSet(Lengthy, Pending)
<1>1. /\ io' = io /\ held' = held
      /\ sender \in [Senders -> SenderStates] /\ sender' \in [Senders -> SenderStates]
      /\ queue \in Seq(Nat) /\ held \in Nat /\ unwritten \in Int
      /\ Sum \in Int
  BY SumIsInteger DEF Finishes, OnlySends, GuardTypes, SenderStates
<1> SUFFICES ASSUME io # "Ended" PROVE unwritten' = Sum' + held' + Pend'
  BY <1>1 DEF GuardIsExact, Lengthy
<1>2. unwritten = Sum + held + Pend
  BY ExactForm
<1>3. \A t \in Senders : t # s => sender'[t] = sender[t]
  BY <1>1 DEF Finishes, CountAndQueue, CountBody, QueueBody, CheckBacklog
<1>4. /\ Pend \in Int /\ Pend' \in Int
      /\ sender[s].at # "Queue" /\ sender'[s].at # "Queue" => Pend' = Pend
      /\ sender[s].at # "Queue" /\ sender'[s].at = "Queue" => Pend' = Pend + sender'[s].length
      /\ sender[s].at = "Queue" /\ sender'[s].at # "Queue" => Pend' = Pend - sender[s].length
  BY <1>1, <1>3, PendingMoves, Zenon
<1> HIDE DEF Pend
<1>5. CASE CountBody(s, "Count", "Queue")
  <2>1. /\ unwritten' = unwritten + sender[s].length /\ Sum' = Sum
        /\ sender[s].at = "Count" /\ sender'[s].at = "Queue" /\ sender'[s].length = sender[s].length
    BY <1>1, <1>5 DEF CountBody, SenderStates
  <2>2. sender[s].length \in Nat
    BY <1>1 DEF SenderStates
  <2>3. Pend' = Pend + sender[s].length
    BY <1>4, <2>1
  <2> DEFINE l == sender[s].length
  <2>4. /\ unwritten' = unwritten + l /\ Sum' = Sum /\ Pend' = Pend + l /\ held' = held
        /\ l \in Int /\ Sum \in Int /\ Pend \in Int /\ held \in Int
    BY <1>1, <1>4, <2>1, <2>2, <2>3
  <2> HIDE DEF Sum, l
  <2> QED
    BY <1>2, <2>4
<1>6. CASE QueueBody(s, "Queue", "Check")
  <2>1. /\ unwritten' = unwritten /\ queue' = Append(queue, sender[s].length)
        /\ sender[s].at = "Queue" /\ sender'[s].at = "Check"
    BY <1>1, <1>6 DEF QueueBody, SenderStates
  <2>2. sender[s].length \in Nat
    BY <1>1 DEF SenderStates
  <2>3. Sum' = Sum + sender[s].length
    BY <1>1, <2>1, <2>2, QueueIsOfIntegers, SumAppended
  <2>4. Pend' = Pend - sender[s].length
    BY <1>4, <2>1
  <2> DEFINE l == sender[s].length
  <2>5. /\ unwritten' = unwritten /\ Sum' = Sum + l /\ Pend' = Pend - l /\ held' = held
        /\ l \in Int /\ Sum \in Int /\ Pend \in Int /\ held \in Int
    BY <1>1, <1>4, <2>1, <2>2, <2>3, <2>4
  <2> HIDE DEF Sum, l
  <2> QED
    BY <1>2, <2>5
<1>7. CASE CheckBacklog(s)
  <2>1. /\ unwritten' = unwritten /\ Sum' = Sum
        /\ sender[s].at = "Check" /\ sender'[s].at = "Idle"
    BY <1>1, <1>7 DEF CheckBacklog, Idle
  <2>2. Pend' = Pend /\ held' = held
    BY <1>1, <1>4, <2>1
  <2> HIDE DEF Sum
  <2> QED
    BY <1>2, <2>1, <2>2
<1> QED
  BY <1>5, <1>6, <1>7 DEF Finishes, CountAndQueue

LEMMA BeginIsExact ==
  ASSUME GuardTypes, GuardTypes', GuardIsExact, Begins, OnlySends
  PROVE  GuardIsExact'
<1> DEFINE Sum == SumFunction(queue)
           Pend == SumFunctionOnSet(Lengthy, Pending)
<1>1. /\ io' = io /\ held' = held
      /\ sender \in [Senders -> SenderStates] /\ sender' \in [Senders -> SenderStates]
      /\ queue \in Seq(Nat) /\ held \in Nat /\ unwritten \in Int
      /\ Sum \in Int
  BY SumIsInteger DEF OnlySends, GuardTypes, SenderStates
<1> SUFFICES ASSUME io # "Ended" PROVE unwritten' = Sum' + held' + Pend'
  BY <1>1 DEF GuardIsExact, Lengthy
<1>2. unwritten = Sum + held + Pend
  BY ExactForm
<1>3. ASSUME NEW s \in Senders, sender[s].at # "Queue", sender'[s].at # "Queue",
             \A t \in Senders : t # s => sender'[t] = sender[t]
      PROVE  Pend \in Int /\ Pend' = Pend
  BY <1>1, <1>3, PendingMoves, Zenon
<1>4. CASE CloseInput
  <2>1. /\ "worker" \in Senders /\ sender["worker"].at = "Idle" /\ sender'["worker"].at = "Check"
        /\ \A t \in Senders : t # "worker" => sender'[t] = sender[t]
        /\ unwritten' = unwritten /\ queue' = Append(queue, 0)
    BY <1>1, <1>4 DEF CloseInput, Senders, SenderStates, Idle
  <2>2. Pend \in Int /\ Pend' = Pend
    BY <1>3, <2>1
  <2>3. Sum' = Sum + 0
    BY <1>1, <2>1, QueueIsOfIntegers, SumAppended
  <2>4. held' = held /\ unwritten' = unwritten /\ Sum \in Int
    BY <1>1, <2>1
  <2> HIDE DEF Sum, Pend
  <2> QED
    BY <1>2, <2>2, <2>3, <2>4
<1>5. ASSUME NEW s \in Senders, NEW l \in Lengths, Send(s, l)
      PROVE  unwritten' = Sum' + held' + Pend'
  <2>1. unwritten' = unwritten /\ Sum' = Sum
    BY <1>5 DEF Send, guardVars
  <2>2. /\ sender[s].at = "Idle"
        /\ sender'[s].at \in {"Idle", "Count"}
        /\ \A t \in Senders : t # s => sender'[t] = sender[t]
    BY <1>1, <1>5 DEF Send
  <2>3. Pend' = Pend
    BY <1>3, <2>2
  <2>4. held' = held
    BY <1>1
  <2> HIDE DEF Sum, Pend
  <2> QED
    BY <1>2, <2>1, <2>3, <2>4
<1> QED
  BY <1>4, <1>5 DEF Begins

\* Writer's count, however its senders and the thread that drains the queue interleave: what is
\* queued, about to be, or taken and not yet written is what unwritten says, never less.
THEOREM TheCountIsExact == PumpSpec => []GuardIsExact
<1>1. PumpInit => GuardIsExact
  <2> SUFFICES ASSUME PumpInit PROVE GuardIsExact
    OBVIOUS
  <2>1. Pending = {} /\ DOMAIN queue = {} /\ unwritten = 0 /\ held = 0
    BY DEF PumpInit, Pending, Idle
  <2>2. SumFunction(queue) = 0 /\ SumFunctionOnSet(Lengthy, Pending) = 0
    BY <2>1, FS_EmptySet, SumSplits, Zenon DEF SumFunction
  <2> QED
    BY <2>1, <2>2 DEF GuardIsExact, Lengthy
<1>2. GuardInv /\ GuardInv' /\ GuardIsExact /\ [PumpNext]_pumpVars => GuardIsExact'
  <2> SUFFICES ASSUME GuardInv, GuardInv', GuardIsExact, [PumpNext]_pumpVars PROVE GuardIsExact'
    OBVIOUS
  <2>1. GuardTypes /\ GuardTypes'
    BY DEF GuardInv
  <2>2. CASE UNCHANGED <<io, sender, queue, held, unwritten>>
    BY <2>2 DEF GuardIsExact, Pending
  <2>3. CASE Sends
    BY <2>1, <2>3, SenderIsExact, BeginIsExact DEF Sends
  <2>4. CASE Streams \/ Loops
    BY <2>1, <2>4, DrainIsExact
  <2>5. CASE Abort \/ Servers
    BY <2>2, <2>5 DEF Abort, Servers, ServerReads, ServerSends, sendVars, guardVars
  <2>6. CASE UNCHANGED pumpVars
    BY <2>2, <2>6 DEF pumpVars, sendVars, guardVars
  <2> QED
    BY <2>3, <2>4, <2>5, <2>6 DEF PumpNext
<1> QED
  BY <1>1, <1>2, GuardInitInv, GuardNextInv, PTL DEF PumpSpec
=============================================================================
