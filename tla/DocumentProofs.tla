--------------------------- MODULE DocumentProofs ---------------------------
(***************************************************************************)
(* For any file, batches, limits and numbers of edits: the undo tree and   *)
(* the change log of a document keep what they promise.                    *)
(***************************************************************************)
EXTENDS DocumentEdits, FiniteSetTheorems, SequenceTheorems, TLAPS

----------------------------------------------------------------------------
\* Induction: what holds of 0, and of n + 1 whenever of n, fails of no least number.
LEMMA LeastNat ==
  ASSUME NEW S \in SUBSET Nat, S # {}
  PROVE  \E n \in S : \A m \in S : n <= m
<1>1. OpToRel(<, Nat) = {p \in Nat \X Nat : p[1] < p[2]}
  BY SMT DEF OpToRel
<1>2. PICK n \in S : \A m \in S : <<m, n>> \notin OpToRel(<, Nat)
  BY NatLessThanWellFounded, WFMin, Zenon
<1>3. \A m \in S : m < n => <<m, n>> \in {p \in Nat \X Nat : p[1] < p[2]}
  BY SMT
<1>4. \A m \in S : ~(m < n)
  BY <1>1, <1>2, <1>3, Zenon
<1> QED
  BY <1>4

\* A set of numbers that holds 0, and n + 1 with every n up to a bound, holds them all.
LEMMA UpInduction ==
  ASSUME NEW Good, NEW k \in Nat, 0 \in Good,
         \A n \in 0..(k - 1) : n \in Good => n + 1 \in Good
  PROVE  \A n \in 0..k : n \in Good
<1> DEFINE Bad == {n \in 0..k : n \notin Good}
<1>1. SUFFICES ASSUME Bad # {} PROVE FALSE
  OBVIOUS
<1>2. Bad \in SUBSET Nat
  OBVIOUS
<1>3. PICK n \in Bad : \A m \in Bad : n <= m
  BY <1>1, <1>2, LeastNat
<1>4. n \in 0..k /\ n \notin Good /\ n # 0
  BY <1>3
<1>5. n - 1 \in 0..(k - 1) /\ n - 1 \notin Bad /\ n - 1 + 1 = n
  BY <1>3, <1>4
<1> QED
  BY <1>4, <1>5

----------------------------------------------------------------------------
\* What is folded over a sequence, each by its name.
Apply(kind, x, e) ==
  IF kind = "splice" THEN Spliced(x, e)
  ELSE IF kind = "commit" THEN Commit(x, e)
  ELSE IF kind = "replay" THEN Replayed(x, e)
  ELSE IF kind = "join" THEN x \o e
  ELSE IF kind = "ahead" THEN e \o x
  ELSE x + Growth(e)

\* What a fold over a sequence is by its definition: the values it goes through.
FoldMap(kind, base, seq, iter) ==
  [s \in SUBSET DOMAIN seq |->
     IF s = {} THEN base ELSE Apply(kind, iter[s \ {Max(s)}], seq[Max(s)])]

Folded(kind, base, seq) == (CHOOSE iter : iter = FoldMap(kind, base, seq, iter))[DOMAIN seq]

\* The values a fold goes through.
Trace(kind, base, seq, h) ==
  h[0] = base /\ \A i \in 1..Len(seq) : h[i] = Apply(kind, h[i - 1], seq[i])

\* The module's three folds are folds of a kind each.
LEMMA FoldForms ==
  ASSUME NEW base, NEW seq
  PROVE  /\ FoldLeft(Spliced, base, seq) = Folded("splice", base, seq)
         /\ FoldLeft(Commit, base, seq) = Folded("commit", base, seq)
         /\ FoldLeft(Replayed, base, seq) = Folded("replay", base, seq)
<1>1. FoldLeft(Spliced, base, seq) = Folded("splice", base, seq)
  BY DEF FoldLeft, MapThenFoldSet, Folded, FoldMap, Apply
<1>2. FoldLeft(Commit, base, seq) = Folded("commit", base, seq)
  BY DEF FoldLeft, MapThenFoldSet, Folded, FoldMap, Apply
<1>3. FoldLeft(Replayed, base, seq) = Folded("replay", base, seq)
  BY DEF FoldLeft, MapThenFoldSet, Folded, FoldMap, Apply
<1> QED
  BY <1>1, <1>2, <1>3

\* Where an edit lands, as a fold of the growth of the edits before it.
LEMMA NewStartForm ==
  ASSUME NEW ops, NEW n
  PROVE  NewStart(ops, n) = Folded("grow", ops[n].start, SubSeq(ops, 1, n - 1))
BY DEF NewStart, FoldLeft, MapThenFoldSet, Folded, FoldMap, Apply

\* The greatest of some first numbers.
LEMMA MaxIn ==
  ASSUME NEW n \in Nat, NEW s \in SUBSET (1..n), s # {}
  PROVE  Max(s) \in s /\ \A y \in s : Max(s) >= y
<1> DEFINE Above == {m \in Nat : \A y \in s : m >= y}
<1>1. n \in Above
  OBVIOUS
<1>2. PICK m \in Above : \A k \in Above : m <= k
  <2>1. Above \in SUBSET Nat
    OBVIOUS
  <2> HIDE DEF Above
  <2> QED
    BY <1>1, <2>1, LeastNat
<1>3. m \in s
  <2> SUFFICES ASSUME m \notin s PROVE FALSE
    OBVIOUS
  <2>1. \A y \in s : y \in 1..n /\ m >= y /\ m # y
    BY <1>2
  <2>2. m # 0
    <3>1. PICK y : y \in s
      OBVIOUS
    <3>2. y \in 1..n /\ m >= y
      BY <2>1, <3>1
    <3> QED
      BY <3>2
  <2>3. m - 1 \in Above
    BY <1>2, <2>1, <2>2
  <2> QED
    BY <1>2, <2>3
<1>4. \E x \in s : \A y \in s : x >= y
  BY <1>2, <1>3
<1> QED
  BY <1>4 DEF Max

\* Sets of at most m of the first n numbers.
FewOf(n, m) == {s \in SUBSET (1..n) : Cardinality(s) <= m}

\* The function a fold chooses is there for a sequence of any length: by least counterexample.
LEMMA FoldExists ==
  ASSUME NEW kind, NEW base, NEW X, NEW seq \in Seq(X)
  PROVE  \E iter : iter = FoldMap(kind, base, seq, iter)
<1> DEFINE n == Len(seq)
<1>0. n \in Nat /\ DOMAIN seq = 1..n
  BY LenProperties
<1> HIDE DEF n
<1>1. IsFiniteSet(1..n) /\ Cardinality(1..n) = n
  BY <1>0, FS_Interval
<1>2. \A s \in SUBSET (1..n) : IsFiniteSet(s) /\ Cardinality(s) \in Nat /\ Cardinality(s) <= n
  BY <1>0, <1>1, FS_Subset, FS_CardinalityType, Zenon
<1>3. \A s \in SUBSET (1..n) : s # {} =>
        /\ Max(s) \in s /\ s \ {Max(s)} \in SUBSET (1..n)
        /\ Cardinality(s \ {Max(s)}) = Cardinality(s) - 1
  BY <1>0, <1>2, MaxIn, FS_RemoveElement, Zenon
<1>4. \A s \in SUBSET (1..n) : Cardinality(s) = 0 => s = {}
  BY <1>2, FS_EmptySet, Zenon
<1> DEFINE Goes(m, g) ==
             \A s \in FewOf(n, m) :
               g[s] = IF s = {} THEN base ELSE Apply(kind, g[s \ {Max(s)}], seq[Max(s)])
           Good == {m \in Nat : \E g : Goes(m, g)}
<1>5. 0 \in Good
  <2> DEFINE g == [s \in FewOf(n, 0) |-> base]
  <2>1. \A s \in FewOf(n, 0) : s = {}
    BY <1>2, <1>4 DEF FewOf
  <2>2. Goes(0, g)
    BY <2>1
  <2> HIDE DEF Goes, g
  <2> QED
    BY <2>2
<1>6. \A m \in 0..(n - 1) : m \in Good => m + 1 \in Good
  <2> SUFFICES ASSUME NEW m \in 0..(n - 1), m \in Good PROVE m + 1 \in Good
    OBVIOUS
  <2>1. PICK g : Goes(m, g)
    OBVIOUS
  <2> DEFINE h == [s \in FewOf(n, m + 1) |->
                     IF s = {} THEN base ELSE Apply(kind, g[s \ {Max(s)}], seq[Max(s)])]
  <2>2. \A s \in FewOf(n, m + 1) : s # {} => s \ {Max(s)} \in FewOf(n, m)
    <3> SUFFICES ASSUME NEW s \in SUBSET (1..n), Cardinality(s) <= m + 1, s # {}
                 PROVE  s \ {Max(s)} \in FewOf(n, m)
      BY DEF FewOf
    <3>1. Cardinality(s) \in Nat /\ Cardinality(s \ {Max(s)}) = Cardinality(s) - 1
      BY <1>2, <1>3
    <3>2. Cardinality(s \ {Max(s)}) <= m
      BY <1>0, <3>1
    <3> QED
      BY <1>3, <3>2 DEF FewOf
  <2>3. \A s \in FewOf(n, m) : s \in FewOf(n, m + 1)
    BY <1>0, <1>2 DEF FewOf
  <2>4. \A s \in FewOf(n, m) : h[s] = g[s]
    BY <2>1, <2>3, Zenon
  <2>5. \A s \in FewOf(n, m + 1) : s # {} => h[s \ {Max(s)}] = g[s \ {Max(s)}]
    BY <2>2, <2>4, Zenon
  <2>6. Goes(m + 1, h)
    BY <2>5, Zenon
  <2>7. m + 1 \in Nat
    BY <1>0
  <2> HIDE DEF Goes, h
  <2> QED
    BY <2>6, <2>7
<1>7. n \in Good
  <2> HIDE DEF Good
  <2>1. n \in 0..n
    BY <1>0
  <2> QED
    BY <1>0, <1>5, <1>6, <2>1, UpInduction
<1>8. PICK g : Goes(n, g)
  BY <1>7
<1>9. FewOf(n, n) = SUBSET (1..n)
  BY <1>2 DEF FewOf
<1> DEFINE h == [s \in SUBSET (1..n) |-> g[s]]
<1>10. h = FoldMap(kind, base, seq, h)
  <2>1. \A s \in SUBSET (1..n) : s # {} => s \ {Max(s)} \in SUBSET (1..n)
    BY <1>3
  <2>2. \A s \in SUBSET (1..n) :
          h[s] = IF s = {} THEN base ELSE Apply(kind, h[s \ {Max(s)}], seq[Max(s)])
    BY <1>8, <1>9, <2>1, Zenon
  <2> QED
    BY <1>0, <2>2 DEF FoldMap
<1> HIDE DEF h
<1> QED
  BY <1>10

\* A fold goes through the values of a trace, and ends at its last one.
LEMMA FoldHasTrace ==
  ASSUME NEW kind, NEW base, NEW X, NEW seq \in Seq(X)
  PROVE  \E h : Trace(kind, base, seq, h) /\ Folded(kind, base, seq) = h[Len(seq)]
<1> DEFINE n == Len(seq)
           iter == CHOOSE iter : iter = FoldMap(kind, base, seq, iter)
           h == [i \in 0..n |-> iter[1..i]]
<1>0. n \in Nat /\ DOMAIN seq = 1..n
  BY LenProperties
<1>1. iter = FoldMap(kind, base, seq, iter)
  BY FoldExists
<1> HIDE DEF n, iter
<1>2. \A s \in SUBSET (1..n) :
        iter[s] = IF s = {} THEN base ELSE Apply(kind, iter[s \ {Max(s)}], seq[Max(s)])
  BY <1>0, <1>1 DEF FoldMap
<1>3. \A i \in 1..n :
        /\ 1..i \in SUBSET (1..n) /\ 1..i # {} /\ Max(1..i) = i /\ (1..i) \ {i} = 1..(i - 1)
        /\ i \in 0..n /\ i - 1 \in 0..n
  <2> SUFFICES ASSUME NEW i \in 1..n
               PROVE  /\ 1..i \in SUBSET (1..n) /\ 1..i # {} /\ Max(1..i) = i
                      /\ (1..i) \ {i} = 1..(i - 1) /\ i \in 0..n /\ i - 1 \in 0..n
    OBVIOUS
  <2>1. 1..i \in SUBSET (1..n) /\ i \in 1..i /\ (1..i) \ {i} = 1..(i - 1)
        /\ i \in 0..n /\ i - 1 \in 0..n
    BY <1>0
  <2>2. Max(1..i) \in 1..i /\ \A y \in 1..i : Max(1..i) >= y
    BY <1>0, <2>1, MaxIn
  <2>3. Max(1..i) = i
    BY <1>0, <2>1, <2>2
  <2> QED
    BY <2>1, <2>3
<1>4. \A i \in 1..n : h[i] = Apply(kind, h[i - 1], seq[i])
  BY <1>2, <1>3, Zenon
<1>5. {} \in SUBSET (1..n) /\ 1..0 = {} /\ 0 \in 0..n /\ n \in 0..n
  BY <1>0
<1>6. h[0] = base /\ h[n] = iter[1..n]
  BY <1>2, <1>5, Zenon
<1> HIDE DEF h
<1>7. Trace(kind, base, seq, h)
  BY <1>4, <1>6 DEF Trace, n
<1>8. Folded(kind, base, seq) = h[n]
  BY <1>0, <1>6 DEF Folded, iter
<1> QED
  BY <1>7, <1>8 DEF n

\* Two runs of a fold over sequences that begin alike go through the same values there.
LEMMA TracesAgree ==
  ASSUME NEW kind, NEW base, NEW seq, NEW h, Trace(kind, base, seq, h),
         NEW other, NEW g, Trace(kind, base, other, g),
         NEW k \in Nat, Len(seq) \in Nat, Len(other) \in Nat, k <= Len(seq), k <= Len(other),
         \A i \in 1..k : seq[i] = other[i]
  PROVE  \A i \in 0..k : h[i] = g[i]
<1> DEFINE Good == {i \in 0..k : h[i] = g[i]}
<1>1. 0 \in Good
  BY DEF Trace
<1>2. \A i \in 0..(k - 1) : i \in Good => i + 1 \in Good
  <2> SUFFICES ASSUME NEW i \in 0..(k - 1), i \in Good PROVE i + 1 \in Good
    OBVIOUS
  <2>1. i + 1 \in 1..k /\ i + 1 \in 1..Len(seq) /\ i + 1 \in 1..Len(other) /\ (i + 1) - 1 = i
    OBVIOUS
  <2>2. h[i + 1] = Apply(kind, h[i], seq[i + 1]) /\ g[i + 1] = Apply(kind, g[i], other[i + 1])
    BY <2>1, Zenon DEF Trace
  <2>3. h[i + 1] = g[i + 1]
    BY <2>1, <2>2, Zenon
  <2> QED
    BY <2>1, <2>3
<1> HIDE DEF Good
<1>3. \A i \in 0..k : i \in Good
  BY <1>1, <1>2, UpInduction
<1> QED
  BY <1>3 DEF Good

\* Whatever satisfies the equations of a fold over a prefix is the fold over it.
LEMMA FoldOfPrefix ==
  ASSUME NEW kind, NEW base, NEW X, NEW seq \in Seq(X), NEW h, Trace(kind, base, seq, h),
         NEW Y, NEW part \in Seq(Y), Len(part) <= Len(seq),
         \A i \in 1..Len(part) : part[i] = seq[i]
  PROVE  Folded(kind, base, part) = h[Len(part)]
<1>0. Len(part) \in Nat /\ Len(part) \in 0..Len(part)
  BY LenProperties
<1>1. PICK g : Trace(kind, base, part, g) /\ Folded(kind, base, part) = g[Len(part)]
  BY FoldHasTrace
<1>2. \A i \in 0..Len(part) : g[i] = h[i]
  <2> DEFINE k == Len(part)
  <2>1. k \in Nat /\ Len(part) \in Nat /\ Len(seq) \in Nat /\ k <= Len(part) /\ k <= Len(seq) /\ \A i \in 1..k : part[i] = seq[i]
    BY <1>0, LenProperties
  <2> HIDE DEF k
  <2>2. \A i \in 0..k : g[i] = h[i]
    BY <1>1, <2>1, TracesAgree
  <2> QED
    BY <2>2 DEF k
<1> QED
  BY <1>0, <1>1, <1>2

\* A fold gives the last value of its run.
LEMMA FoldIs ==
  ASSUME NEW kind, NEW base, NEW X, NEW seq \in Seq(X), NEW h, Trace(kind, base, seq, h)
  PROVE  Folded(kind, base, seq) = h[Len(seq)]
BY FoldOfPrefix, LenProperties

\* Over nothing, a fold gives what it started from.
LEMMA FoldNone ==
  ASSUME NEW kind, NEW base
  PROVE  Folded(kind, base, <<>>) = base
<1>1. <<>> \in Seq({}) /\ Len(<<>>) = 0
  BY EmptySeq
<1>2. PICK h : Trace(kind, base, <<>>, h) /\ Folded(kind, base, <<>>) = h[Len(<<>>)]
  BY <1>1, FoldHasTrace
<1> QED
  BY <1>1, <1>2 DEF Trace

\* One element more is one application more.
LEMMA FoldOneMore ==
  ASSUME NEW kind, NEW base, NEW X, NEW seq \in Seq(X), NEW e \in X
  PROVE  Folded(kind, base, Append(seq, e)) = Apply(kind, Folded(kind, base, seq), e)
<1> DEFINE more == Append(seq, e)
           n == Len(seq)
<1>1. /\ more \in Seq(X) /\ Len(more) = n + 1 /\ n \in Nat
      /\ \A i \in 1..n : more[i] = seq[i]
      /\ more[n + 1] = e
  BY AppendProperties, LenProperties
<1> HIDE DEF more
<1>2. PICK h : Trace(kind, base, more, h) /\ Folded(kind, base, more) = h[Len(more)]
  BY <1>1, FoldHasTrace
<1>3. Len(seq) <= Len(more)
  BY <1>1
<1>4. Folded(kind, base, seq) = h[n]
  BY <1>1, <1>2, <1>3, FoldOfPrefix
<1>5. n + 1 \in 1..Len(more) /\ (n + 1) - 1 = n
  BY <1>1
<1>6. h[n + 1] = Apply(kind, h[n], more[n + 1])
  BY <1>2, <1>5, Zenon DEF Trace
<1> QED
  BY <1>1, <1>2, <1>4, <1>6 DEF more

----------------------------------------------------------------------------
\* The undo tree: every node but the root hangs off an older one.
Tree(h) ==
  /\ h.altSeq \in Nat /\ DOMAIN h.nodes \subseteq 0..h.altSeq
  /\ h.root \in DOMAIN h.nodes /\ h.current \in DOMAIN h.nodes
  /\ \A m \in DOMAIN h.nodes :
       m # h.root => h.nodes[m].parent \in DOMAIN h.nodes /\ h.nodes[m].parent < m

\* Every node of the tree but the root has an older parent in it.
LEMMA TreeFacts ==
  ASSUME NEW h, Tree(h), NEW m \in DOMAIN h.nodes
  PROVE  /\ m \in Nat
         /\ m # h.root => /\ h.nodes[m].parent \in DOMAIN h.nodes
                          /\ h.nodes[m].parent \in Nat /\ h.nodes[m].parent < m
<1> DEFINE D == DOMAIN h.nodes
           P == h.nodes[m].parent
<1>1. D \subseteq 0..h.altSeq /\ m \in D /\ (m # h.root => P \in D /\ P < m)
  BY DEF Tree
<1>2. h.altSeq \in Nat /\ m \in 0..h.altSeq /\ (m # h.root => P \in 0..h.altSeq)
  BY <1>1 DEF Tree
<1> HIDE DEF D, P
<1>3. m \in Nat /\ (m # h.root => P \in Nat)
  BY <1>1, <1>2
<1> QED
  BY <1>1, <1>3 DEF D, P

\* p leads from the root to n.
IsLine(h, p, n) ==
  /\ p \in Seq(DOMAIN h.nodes) /\ p # <<>> /\ p[1] = h.root /\ p[Len(p)] = n
  /\ \A i \in 1..(Len(p) - 1) : p[i + 1] # h.root /\ h.nodes[p[i + 1]].parent = p[i]

\* What LineTo is by its definition.
LineMap(h, line) ==
  [m \in DOMAIN h.nodes |->
     IF m = h.root THEN <<m>> ELSE Append(line[h.nodes[m].parent], m)]

\* The recursive function LineTo, as the function it chooses.
LEMMA LineForm ==
  ASSUME NEW h, NEW n
  PROVE  LineTo(h, n) = (CHOOSE line : line = LineMap(h, line))[n]
BY DEF LineTo, LineMap

\* That function exists: a node's parent is older.
LEMMA LineExists ==
  ASSUME NEW h, Tree(h)
  PROVE  \E line : line = LineMap(h, line)
<1> DEFINE D == DOMAIN h.nodes
           P(m) == h.nodes[m].parent
           Goes(k, g) == \A m \in D : m <= k => g[m] = IF m = h.root THEN <<m>> ELSE Append(g[P(m)], m)
           Good == {k \in Nat : \E g : Goes(k, g)}
<1>0. /\ h.altSeq \in Nat /\ D \subseteq 0..h.altSeq /\ h.root \in D
      /\ \A m \in D : m \in Nat /\ (m # h.root => P(m) \in D /\ P(m) \in Nat /\ P(m) < m)
  BY TreeFacts DEF Tree
<1> HIDE DEF D, P
<1>1. 0 \in Good
  <2> DEFINE g == [m \in D |-> <<m>>]
  <2>1. \A m \in D : m <= 0 => m = h.root
    BY <1>0
  <2>2. Goes(0, g)
    BY <2>1
  <2> HIDE DEF Goes, g
  <2> QED
    BY <2>2
<1>2. \A k \in 0..(h.altSeq - 1) : k \in Good => k + 1 \in Good
  <2> SUFFICES ASSUME NEW k \in 0..(h.altSeq - 1), k \in Good PROVE k + 1 \in Good
    OBVIOUS
  <2>1. PICK g : Goes(k, g)
    OBVIOUS
  <2> DEFINE f == [m \in D |-> IF m = h.root THEN <<m>> ELSE Append(g[P(m)], m)]
  <2>2. \A m \in D : m <= k => f[m] = g[m]
    BY <2>1, Zenon
  <2>3. \A m \in D : m <= k + 1 /\ m # h.root => P(m) \in D /\ P(m) <= k
    BY <1>0
  <2>4. \A m \in D : m <= k + 1 /\ m # h.root => f[P(m)] = g[P(m)]
    BY <2>2, <2>3, Zenon
  <2>5. Goes(k + 1, f)
    BY <2>4, Zenon
  <2> HIDE DEF Goes, f
  <2> QED
    BY <2>5
<1>3. h.altSeq \in Good
  <2> HIDE DEF Good
  <2>1. h.altSeq \in 0..h.altSeq
    BY <1>0
  <2> QED
    BY <1>0, <1>1, <1>2, <2>1, UpInduction
<1>4. PICK g : Goes(h.altSeq, g)
  BY <1>3
<1> DEFINE line == [m \in D |-> g[m]]
<1>5. \A m \in D : m <= h.altSeq /\ (m # h.root => P(m) \in D)
  BY <1>0
<1>6. \A m \in D : line[m] = IF m = h.root THEN <<m>> ELSE Append(line[P(m)], m)
  BY <1>4, <1>5, Zenon
<1>7. line = LineMap(h, line)
  BY <1>6 DEF LineMap, D, P
<1> HIDE DEF line
<1> QED
  BY <1>7

\* The line to a node is the line to its parent, and it.
LEMMA LineSteps ==
  ASSUME NEW h, Tree(h), NEW n \in DOMAIN h.nodes
  PROVE  LineTo(h, n) = IF n = h.root THEN <<n>> ELSE Append(LineTo(h, h.nodes[n].parent), n)
<1> DEFINE line == CHOOSE line : line = LineMap(h, line)
<1>1. line = LineMap(h, line)
  BY LineExists
<1>2. \A m : LineTo(h, m) = line[m]
  BY LineForm
<1> HIDE DEF line
<1>3. line[n] = IF n = h.root THEN <<n>> ELSE Append(line[h.nodes[n].parent], n)
  BY <1>1 DEF LineMap
<1> QED
  BY <1>2, <1>3

\* The line to a node is the line to its parent and the node.
LEMMA LineLonger ==
  ASSUME NEW h, NEW n \in DOMAIN h.nodes, n # h.root, NEW p, IsLine(h, p, h.nodes[n].parent)
  PROVE  IsLine(h, Append(p, n), n)
<1> DEFINE D == DOMAIN h.nodes
           q == Append(p, n)
<1>1. p \in Seq(D) /\ p # <<>> /\ p[1] = h.root /\ p[Len(p)] = h.nodes[n].parent
  BY DEF IsLine
<1>2. /\ q \in Seq(D) /\ q # <<>> /\ Len(q) = Len(p) + 1 /\ Len(p) \in Nat \ {0}
      /\ \A i \in 1..Len(p) : q[i] = p[i]
      /\ q[Len(p) + 1] = n
  BY <1>1, AppendProperties, EmptySeq
<1> HIDE DEF q
<1>3. q[1] = h.root /\ q[Len(q)] = n
  BY <1>1, <1>2
<1>4. ASSUME NEW i \in 1..(Len(q) - 1)
      PROVE  q[i + 1] # h.root /\ h.nodes[q[i + 1]].parent = q[i]
  <2>1. CASE i = Len(p)
    BY <1>1, <1>2, <2>1
  <2>2. CASE i # Len(p)
    <3>1. i \in 1..(Len(p) - 1) /\ i \in 1..Len(p) /\ i + 1 \in 1..Len(p)
      BY <1>2, <2>2
    <3> QED
      BY <1>2, <3>1 DEF IsLine
  <2> QED
    BY <2>1, <2>2
<1>5. IsLine(h, q, n)
  BY <1>2, <1>3, <1>4 DEF IsLine
<1> QED
  BY <1>5 DEF q

\* LineTo gives a line from the root to the node.
LEMMA LineIsLine ==
  ASSUME NEW h, Tree(h), NEW n \in DOMAIN h.nodes
  PROVE  IsLine(h, LineTo(h, n), n)
<1> DEFINE D == DOMAIN h.nodes
           Good == {k \in Nat : \A m \in D : m <= k => IsLine(h, LineTo(h, m), m)}
           P(m) == h.nodes[m].parent
<1>0. /\ h.altSeq \in Nat /\ D \subseteq 0..h.altSeq /\ h.root \in D
      /\ \A m \in D : m \in Nat /\ (m # h.root => P(m) \in D /\ P(m) \in Nat /\ P(m) < m)
  BY TreeFacts DEF Tree
<1> HIDE DEF D, P
<1>1. IsLine(h, LineTo(h, h.root), h.root)
  <2>1. LineTo(h, h.root) = <<h.root>>
    BY <1>0, LineSteps DEF D
  <2>2. <<h.root>> \in Seq(D) /\ Len(<<h.root>>) = 1 /\ <<h.root>>[1] = h.root
    BY <1>0
  <2> QED
    BY <2>1, <2>2 DEF IsLine, D
<1>2. 0 \in Good
  <2>1. \A m \in D : m <= 0 => m = h.root
    BY <1>0
  <2> QED
    BY <1>1, <2>1
<1>3. \A k \in 0..(h.altSeq - 1) : k \in Good => k + 1 \in Good
  <2> SUFFICES ASSUME NEW k \in 0..(h.altSeq - 1), k \in Good,
                      NEW m \in D, m <= k + 1
               PROVE  IsLine(h, LineTo(h, m), m)
    OBVIOUS
  <2>1. CASE m = h.root
    BY <1>1, <2>1
  <2>2. CASE m # h.root
    <3>1. P(m) \in D /\ P(m) <= k
      BY <1>0, <2>2
    <3>2. IsLine(h, LineTo(h, P(m)), P(m))
      BY <3>1
    <3>3. LineTo(h, m) = Append(LineTo(h, P(m)), m)
      BY <2>2, LineSteps DEF D, P
    <3>4. IsLine(h, Append(LineTo(h, P(m)), m), m)
      BY <2>2, <3>2, LineLonger DEF D, P
    <3> QED
      BY <3>3, <3>4
  <2> QED
    BY <2>1, <2>2
<1>4. h.altSeq \in Good
  <2> HIDE DEF Good
  <2>1. h.altSeq \in 0..h.altSeq
    BY <1>0
  <2> QED
    BY <1>0, <1>2, <1>3, <2>1, UpInduction
<1>5. n \in D /\ n <= h.altSeq
  BY <1>0 DEF D
<1> QED
  BY <1>4, <1>5

\* A line's prefixes are the lines to the nodes on it.
LEMMA LinePrefix ==
  ASSUME NEW h, NEW p, NEW n, IsLine(h, p, n), NEW k \in 1..Len(p)
  PROVE  IsLine(h, SubSeq(p, 1, k), p[k])
<1> DEFINE D == DOMAIN h.nodes
           q == SubSeq(p, 1, k)
<1>1. p \in Seq(D) /\ Len(p) \in Nat /\ k \in Nat /\ k >= 1 /\ k <= Len(p) /\ p[1] = h.root
  BY LenProperties DEF IsLine
<1>2. \A i \in 1..k : p[i] \in D
  BY <1>1, ElementOfSeq
<1> HIDE DEF D
<1>3. q \in Seq(D) /\ Len(q) = k /\ \A i \in 1..k : q[i] = p[i]
  <2>1. \A i \in 1..k : SubSeq(p, 1, k)[i] = p[1 + i - 1]
    BY <1>1, <1>2, SubSeqProperties
  <2>2. q \in Seq(D) /\ Len(q) = k
    BY <1>1, <1>2, SubSeqProperties
  <2> QED
    BY <1>1, <2>1, <2>2
<1> HIDE DEF q
<1>4. q # <<>> /\ q[1] = h.root /\ q[Len(q)] = p[k]
  BY <1>1, <1>3, EmptySeq
<1>5. \A i \in 1..(Len(q) - 1) : q[i + 1] # h.root /\ h.nodes[q[i + 1]].parent = q[i]
  <2> SUFFICES ASSUME NEW i \in 1..(Len(q) - 1)
               PROVE  q[i + 1] # h.root /\ h.nodes[q[i + 1]].parent = q[i]
    OBVIOUS
  <2>1. i \in 1..k /\ i + 1 \in 1..k /\ i \in 1..(Len(p) - 1)
    BY <1>1, <1>3
  <2> QED
    BY <1>3, <2>1 DEF IsLine
<1>6. IsLine(h, q, p[k])
  BY <1>3, <1>4, <1>5 DEF IsLine, D
<1> QED
  BY <1>6 DEF q

\* There is no other line.
LEMMA LineUnique ==
  ASSUME NEW h, Tree(h), NEW n, NEW p, IsLine(h, p, n)
  PROVE  n \in DOMAIN h.nodes /\ p = LineTo(h, n)
<1> DEFINE D == DOMAIN h.nodes
           P(m) == h.nodes[m].parent
           Good == {k \in Nat : \A m \in D : m <= k =>
                                  \A q : IsLine(h, q, m) => q = LineTo(h, m)}
<1>0. /\ h.altSeq \in Nat /\ D \subseteq 0..h.altSeq /\ h.root \in D
      /\ \A m \in D : m \in Nat /\ (m # h.root => P(m) \in D /\ P(m) \in Nat /\ P(m) < m)
  BY TreeFacts DEF Tree
<1>l. \A q, m : IsLine(h, q, m) =>
        /\ q \in Seq(D) /\ Len(q) \in Nat \ {0} /\ q[1] = h.root /\ q[Len(q)] = m
        /\ \A i \in 1..(Len(q) - 1) : q[i + 1] # h.root /\ P(q[i + 1]) = q[i]
  BY EmptySeq DEF IsLine
<1>n. n \in D
  BY <1>l, ElementOfSeq
<1> HIDE DEF D, P
<1>r. \A q : IsLine(h, q, h.root) => q = LineTo(h, h.root)
  <2> SUFFICES ASSUME NEW q, IsLine(h, q, h.root) PROVE q = LineTo(h, h.root)
    OBVIOUS
  <2>1. LineTo(h, h.root) = <<h.root>>
    BY <1>0, LineSteps DEF D
  <2>2. Len(q) = 1
    <3> SUFFICES ASSUME Len(q) # 1 PROVE FALSE
      OBVIOUS
    <3> DEFINE l == Len(q)
    <3>1. l \in Nat \ {0} /\ l # 1 /\ q[l] = h.root
      BY <1>l, Zenon
    <3>2. \A i \in 1..(l - 1) : q[i + 1] # h.root
      BY <1>l, Zenon
    <3> HIDE DEF l
    <3>3. l - 1 \in 1..(l - 1) /\ l - 1 + 1 = l
      BY <3>1
    <3> QED
      BY <3>1, <3>2, <3>3
  <2>3. q \in Seq(D) /\ q[1] = h.root
    BY <1>l
  <2>4. q = <<h.root>>
    BY <2>2, <2>3
  <2> QED
    BY <2>1, <2>4
<1>1. 0 \in Good
  <2>1. \A m \in D : m <= 0 => m = h.root
    BY <1>0
  <2> QED
    BY <1>r, <2>1
<1>2. \A k \in 0..(h.altSeq - 1) : k \in Good => k + 1 \in Good
  <2> SUFFICES ASSUME NEW k \in 0..(h.altSeq - 1), k \in Good,
                      NEW m \in D, m <= k + 1, NEW q, IsLine(h, q, m)
               PROVE  q = LineTo(h, m)
    OBVIOUS
  <2>1. CASE m = h.root
    BY <1>r, <2>1
  <2>2. CASE m # h.root
    <3> DEFINE c == Len(q)
               l == c - 1
               r == SubSeq(q, 1, l)
    <3>1. q \in Seq(D) /\ c \in Nat \ {0} /\ q[1] = h.root /\ q[c] = m
      BY <1>l, Zenon
    <3>2. c # 1
      BY <2>2, <3>1
    <3>3. l \in 1..c /\ l \in 1..(c - 1) /\ l + 1 = c /\ l \in Nat
      <4> HIDE DEF c
      <4> QED
        BY <3>1, <3>2
    <3>4. q[l] = P(m)
      <4>1. \A i \in 1..(c - 1) : P(q[i + 1]) = q[i]
        BY <1>l, Zenon
      <4> HIDE DEF c, l
      <4> QED
        BY <3>1, <3>3, <4>1
    <3>5. IsLine(h, r, P(m))
      <4> HIDE DEF l
      <4>1. IsLine(h, SubSeq(q, 1, l), q[l])
        BY <3>3, LinePrefix
      <4> QED
        BY <3>4, <4>1
    <3>6. P(m) \in D /\ P(m) <= k
      BY <1>0, <2>2
    <3>7. r = LineTo(h, P(m))
      BY <3>5, <3>6
    <3>8. LineTo(h, m) = Append(r, m)
      BY <2>2, <3>7, LineSteps DEF D, P
    <3>9. q = Append(r, m)
      <4>1. \A i \in 1..l : q[i] \in D
        BY <3>1, <3>3, ElementOfSeq
      <4>2. r \in Seq(D) /\ Len(r) = l /\ \A i \in 1..l : r[i] = q[1 + i - 1]
        <5> HIDE DEF l
        <5>1. l - 1 + 1 = l /\ 1 <= l
          BY <3>3
        <5>2. /\ SubSeq(q, 1, l) \in Seq(D)
              /\ Len(SubSeq(q, 1, l)) = IF 1 <= l THEN l - 1 + 1 ELSE 0
              /\ \A i \in 1..(l - 1 + 1) : SubSeq(q, 1, l)[i] = q[1 + i - 1]
          BY <3>3, <4>1, SubSeqProperties
        <5> QED
          BY <5>1, <5>2
      <4> HIDE DEF r
      <4>3. /\ Append(r, m) \in Seq(D) /\ Len(Append(r, m)) = l + 1
            /\ \A i \in 1..l : Append(r, m)[i] = r[i]
            /\ Append(r, m)[l + 1] = m
        BY <4>2, AppendProperties
      <4> DEFINE a == Append(r, m)
      <4> HIDE DEF a, l
      <4>4. \A i \in 1..Len(q) : q[i] = a[i]
        BY <3>1, <3>3, <4>2, <4>3 DEF a
      <4>5. a \in Seq(D) /\ Len(a) = Len(q)
        BY <3>3, <4>3 DEF a
      <4>6. q = a
        BY <3>1, <4>4, <4>5, SeqEqual
      <4> QED
        BY <4>6 DEF a
    <3> QED
      BY <3>8, <3>9
  <2> QED
    BY <2>1, <2>2
<1>4. h.altSeq \in Good
  <2> HIDE DEF Good
  <2>1. h.altSeq \in 0..h.altSeq
    BY <1>0
  <2> QED
    BY <1>0, <1>1, <1>2, <2>1, UpInduction
<1>5. n \in D /\ n <= h.altSeq
  BY <1>0, <1>n
<1> QED
  BY <1>4, <1>5 DEF D

\* The nodes of a line get newer, so that none is on it twice.
LEMMA LineGrows ==
  ASSUME NEW h, Tree(h), NEW n, NEW p, IsLine(h, p, n),
         NEW i \in 1..Len(p), NEW j \in 1..Len(p), i < j
  PROVE  p[i] < p[j]
<1> DEFINE D == DOMAIN h.nodes
           Good == {k \in Nat : i + 1 + k <= Len(p) => p[i] < p[i + 1 + k]}
<1>1. p \in Seq(D) /\ Len(p) \in Nat
  BY LenProperties DEF IsLine
<1>2. \A k \in 1..Len(p) : p[k] \in D /\ p[k] \in Nat
  BY <1>1, ElementOfSeq, TreeFacts
<1>3. \A k \in 1..(Len(p) - 1) : p[k] < p[k + 1]
  <2> SUFFICES ASSUME NEW k \in 1..(Len(p) - 1) PROVE p[k] < p[k + 1]
    OBVIOUS
  <2>1. p[k + 1] # h.root /\ h.nodes[p[k + 1]].parent = p[k]
    BY DEF IsLine
  <2>2. p[k + 1] \in D
    BY <1>1, <1>2
  <2> QED
    BY <2>1, <2>2, TreeFacts
<1> HIDE DEF D
<1>4. 0 \in Good
  BY <1>1, <1>3
<1>5. \A k \in 0..(j - i - 2) : k \in Good => k + 1 \in Good
  <2> SUFFICES ASSUME NEW k \in 0..(j - i - 2), k \in Good, i + 1 + (k + 1) <= Len(p)
               PROVE  p[i] < p[i + 1 + (k + 1)]
    OBVIOUS
  <2> DEFINE m == i + 1 + k
  <2>1. m \in 1..(Len(p) - 1) /\ m \in 1..Len(p) /\ m + 1 \in 1..Len(p) /\ i + 1 + (k + 1) = m + 1
    BY <1>1
  <2>2. p[i] < p[m]
    BY <1>1, <2>1
  <2> HIDE DEF m
  <2>3. p[m] < p[m + 1]
    BY <1>3, <2>1
  <2>4. p[i] \in Nat /\ p[m] \in Nat /\ p[m + 1] \in Nat
    BY <1>2, <2>1
  <2> QED
    <3> DEFINE x == p[i]
               y == p[m]
               z == p[m + 1]
    <3>1. x < y /\ y < z /\ x \in Nat /\ y \in Nat /\ z \in Nat
      BY <2>2, <2>3, <2>4
    <3> HIDE DEF x, y, z
    <3>2. x < z
      BY <3>1
    <3> QED
      BY <2>1, <3>2 DEF x, z
<1>6. j - i - 1 \in Nat /\ (j - i - 1) - 1 = j - i - 2 /\ j - i - 1 \in 0..(j - i - 1)
  OBVIOUS
<1>7. \A k \in 0..(j - i - 1) : k \in Good
  <2> DEFINE l == j - i - 1
  <2> HIDE DEF Good
  <2>1. l \in Nat /\ l - 1 = j - i - 2
    BY <1>6
  <2>2. \A k \in 0..(l - 1) : k \in Good => k + 1 \in Good
    BY <1>5, <2>1
  <2> HIDE DEF l
  <2>3. \A k \in 0..l : k \in Good
    BY <1>4, <2>1, <2>2, UpInduction
  <2> QED
    BY <2>3 DEF l
<1>8. j - i - 1 \in Good
  <2> HIDE DEF Good
  <2> QED
    BY <1>6, <1>7
<1>9. i + 1 + (j - i - 1) = j /\ j <= Len(p)
  BY <1>1
<1> QED
  BY <1>8, <1>9

----------------------------------------------------------------------------
\* The types of a history.
Texts == Seq(Nat)

\* The types of edits, of steps, and of the history's nodes.
OpSet == [start : Nat, stop : Nat, text : Texts]
StepSet == [forward : Seq(OpSet), inverse : Seq(OpSet)]
NodeSet ==
  [parent : Int, preferred : Int, steps : Seq(StepSet), op : Classes \cup {"Root"},
   altBefore : Nat, altAfter : Nat]

\* A history of these.
Typed(h) ==
  /\ h \in [nodes : {h.nodes}, root : Nat, current : Nat, open : BOOLEAN, alt : Nat,
            altSeq : Nat, savedAlt : Nat, maxUndo : Nat \cup {NoLimit}]
  /\ h.nodes \in [DOMAIN h.nodes -> NodeSet]

\* A node made the root, field by field.
LEMMA RootForm ==
  ASSUME NEW node
  PROVE  RootOf(node) = [parent |-> -1, preferred |-> node.preferred, steps |-> <<>>, op |-> "Root",
                         altBefore |-> 0, altAfter |-> 0]
BY DEF RootOf, Node, NoNode

\* The line to the current node, and how deep it is.
LEMMA CurrentLine ==
  ASSUME NEW h, Tree(h)
  PROVE  /\ IsLine(h, ToCurrent(h), h.current)
         /\ ToCurrent(h) \in Seq(DOMAIN h.nodes) /\ ToCurrent(h) # <<>>
         /\ Len(ToCurrent(h)) \in Nat \ {0} /\ UndoDepth(h) = Len(ToCurrent(h)) - 1
         /\ UndoDepth(h) \in Nat
<1>1. IsLine(h, ToCurrent(h), h.current)
  BY LineIsLine DEF Tree, ToCurrent
<1>2. ToCurrent(h) \in Seq(DOMAIN h.nodes) /\ ToCurrent(h) # <<>>
  BY <1>1 DEF IsLine
<1>3. Len(ToCurrent(h)) \in Nat \ {0}
  BY <1>2, EmptySeq
<1>4. UndoDepth(h) = Len(ToCurrent(h)) - 1
  BY DEF UndoDepth
<1> QED
  BY <1>1, <1>2, <1>3, <1>4

\* What stays under a node on the line: the rest of the line, and with every node its parent.
LEMMA KeptFacts ==
  ASSUME NEW h, Tree(h), NEW b \in 1..Len(ToCurrent(h)),
         NEW base, base = ToCurrent(h)[b]
  PROVE  /\ base \in KeptUnder(h, base) /\ KeptUnder(h, base) \subseteq DOMAIN h.nodes
         /\ \A n \in KeptUnder(h, base) :
              n # base => n # h.root /\ h.nodes[n].parent \in KeptUnder(h, base)
         /\ \A i \in b..Len(ToCurrent(h)) : ToCurrent(h)[i] \in KeptUnder(h, base)
<1> DEFINE L == ToCurrent(h)
           D == DOMAIN h.nodes
<1>1. IsLine(h, L, h.current) /\ L \in Seq(D) /\ Len(L) \in Nat
  BY CurrentLine
<1>2. \A i \in b..Len(L) : L[i] \in KeptUnder(h, base)
  <2> SUFFICES ASSUME NEW i \in b..Len(L) PROVE L[i] \in KeptUnder(h, base)
    OBVIOUS
  <2> HIDE DEF L
  <2>1. i \in 1..Len(L) /\ b \in 1..i /\ i \in Nat /\ 1 <= i
    BY <1>1 DEF L
  <2>2. IsLine(h, SubSeq(L, 1, i), L[i])
    BY <1>1, <2>1, LinePrefix
  <2>3. L[i] \in D /\ SubSeq(L, 1, i) = LineTo(h, L[i])
    BY <2>2, LineUnique
  <2>4. \A j \in 1..i : L[j] \in D
    BY <1>1, <2>1, ElementOfSeq
  <2>5. /\ Len(SubSeq(L, 1, i)) = IF 1 <= i THEN i - 1 + 1 ELSE 0
        /\ \A j \in 1..(i - 1 + 1) : SubSeq(L, 1, i)[j] = L[1 + j - 1]
    BY <2>1, <2>4, SubSeqProperties
  <2>6. Len(SubSeq(L, 1, i)) = i /\ SubSeq(L, 1, i)[b] = L[b]
    BY <2>1, <2>5
  <2>7. Contains(LineTo(h, L[i]), base)
    BY <2>1, <2>3, <2>6 DEF Contains, L
  <2> QED
    BY <2>3, <2>7 DEF KeptUnder
<1>3. base \in KeptUnder(h, base)
  <2>1. b \in b..Len(L)
    BY <1>1
  <2> QED
    BY <1>2, <2>1
<1>4. ASSUME NEW n \in KeptUnder(h, base), n # base
      PROVE  n # h.root /\ h.nodes[n].parent \in KeptUnder(h, base)
  <2>1. n \in D /\ Contains(LineTo(h, n), base)
    BY DEF KeptUnder
  <2>2. n # h.root
    <3> SUFFICES ASSUME n = h.root PROVE FALSE
      OBVIOUS
    <3>1. LineTo(h, n) = <<n>>
      BY <2>1, LineSteps
    <3> QED
      BY <1>4, <2>1, <3>1 DEF Contains
  <2> DEFINE up == h.nodes[n].parent
  <2>3. up \in D
    BY <2>1, <2>2, TreeFacts
  <2>4. LineTo(h, n) = Append(LineTo(h, up), n)
    BY <2>1, <2>2, LineSteps
  <2>5. LineTo(h, up) \in Seq(D)
    BY <2>3, LineIsLine DEF IsLine
  <2> HIDE DEF up
  <2> DEFINE q == LineTo(h, up)
  <2>6. /\ Len(Append(q, n)) = Len(q) + 1 /\ Len(q) \in Nat
        /\ \A i \in 1..Len(q) : Append(q, n)[i] = q[i]
        /\ Append(q, n)[Len(q) + 1] = n
    BY <2>1, <2>5, AppendProperties, LenProperties
  <2>7. PICK i \in 1..Len(Append(q, n)) : Append(q, n)[i] = base
    BY <2>1, <2>4 DEF Contains
  <2> HIDE DEF q
  <2>8. i \in 1..Len(q) /\ q[i] = base
    BY <1>4, <2>6, <2>7
  <2>9. Contains(LineTo(h, up), base)
    BY <2>8 DEF Contains, q
  <2> QED
    BY <2>2, <2>3, <2>9 DEF KeptUnder, up
<1> QED
  BY <1>2, <1>3, <1>4 DEF KeptUnder

\* What is left of a history on a base of its line: the tree under it, and the line from it on.
LEMMA RebuiltFacts ==
  ASSUME NEW h, Tree(h), Typed(h), NEW b \in 1..Len(ToCurrent(h)),
         NEW g, g = RebuiltFrom(h, ToCurrent(h)[b])
  PROVE  /\ Tree(g) /\ Typed(g)
         /\ g.root = ToCurrent(h)[b] /\ DOMAIN g.nodes \subseteq DOMAIN h.nodes
         /\ \A n \in DOMAIN g.nodes : g.nodes[n] = IF n = g.root THEN RootOf(h.nodes[n]) ELSE h.nodes[n]
         /\ \A n \in DOMAIN g.nodes : n # g.root => n # h.root
         /\ g.current = h.current /\ g.open = h.open /\ g.alt = h.alt /\ g.altSeq = h.altSeq
         /\ g.savedAlt = h.savedAlt /\ g.maxUndo = h.maxUndo
         /\ ToCurrent(g) = SubSeq(ToCurrent(h), b, Len(ToCurrent(h)))
<1> DEFINE L == ToCurrent(h)
           D == DOMAIN h.nodes
           base == L[b]
           K == KeptUnder(h, base)
<1>1. IsLine(h, L, h.current) /\ L \in Seq(D) /\ Len(L) \in Nat
  BY CurrentLine
<1>2. /\ base \in K /\ K \subseteq D
      /\ \A n \in K : n # base => n # h.root /\ h.nodes[n].parent \in K
      /\ \A i \in b..Len(L) : L[i] \in K
  BY KeptFacts
<1> HIDE DEF K, L
<1>3. g = [h EXCEPT !.root = base,
             !.nodes = [n \in K |-> IF n = base THEN RootOf(h.nodes[n]) ELSE h.nodes[n]]]
  BY DEF RebuiltFrom, K, L
<1> DEFINE N == [n \in K |-> IF n = base THEN RootOf(h.nodes[n]) ELSE h.nodes[n]]
<1>4. /\ g.nodes = N /\ g.root = base
      /\ g.current = h.current /\ g.open = h.open /\ g.alt = h.alt /\ g.altSeq = h.altSeq
      /\ g.savedAlt = h.savedAlt /\ g.maxUndo = h.maxUndo
      /\ DOMAIN g = DOMAIN h
  <2> HIDE DEF N
  <2> QED
    BY <1>3 DEF Typed, N
<1>5. DOMAIN g.nodes = K
  BY <1>4
<1>6. \A n \in K : g.nodes[n] = IF n = base THEN RootOf(h.nodes[n]) ELSE h.nodes[n]
  BY <1>4
<1>7. Tree(g)
  <2>1. g.altSeq \in Nat /\ DOMAIN g.nodes \subseteq 0..g.altSeq
    BY <1>2, <1>4, <1>5 DEF Tree
  <2>2. g.root \in DOMAIN g.nodes
    BY <1>2, <1>4, <1>5
  <2>3. g.current \in DOMAIN g.nodes
    <3>1. Len(L) \in b..Len(L) /\ L[Len(L)] = h.current
      BY <1>1 DEF IsLine, L
    <3> QED
      BY <1>2, <1>4, <1>5, <3>1
  <2>4. ASSUME NEW m \in DOMAIN g.nodes, m # g.root
        PROVE  g.nodes[m].parent \in DOMAIN g.nodes /\ g.nodes[m].parent < m
    <3>1. m \in K /\ m # base /\ m \in D /\ m # h.root /\ g.nodes[m] = h.nodes[m]
      BY <1>2, <1>4, <1>5, <1>6, <2>4
    <3> QED
      BY <1>2, <1>5, <3>1, TreeFacts
  <2> QED
    BY <2>1, <2>2, <2>3, <2>4 DEF Tree
<1>8. Typed(g)
  <2>1. \A n \in D : h.nodes[n] \in NodeSet
    BY DEF Typed
  <2>2. \A n \in D : RootOf(h.nodes[n]) \in NodeSet
    <3> SUFFICES ASSUME NEW n \in D PROVE RootOf(h.nodes[n]) \in NodeSet
      OBVIOUS
    <3>1. h.nodes[n].preferred \in Int
      BY <2>1 DEF NodeSet
    <3>2. <<>> \in Seq(StepSet)
      BY EmptySeq
    <3> QED
      <4> DEFINE kept == h.nodes[n].preferred
      <4>1. RootOf(h.nodes[n]) = [parent |-> -1, preferred |-> kept, steps |-> <<>>, op |-> "Root",
                                  altBefore |-> 0, altAfter |-> 0]
        BY RootForm
      <4> HIDE DEF kept
      <4> QED
        BY <3>1, <3>2, <4>1 DEF NodeSet, kept
  <2>3. g.nodes \in [DOMAIN g.nodes -> NodeSet]
    BY <1>2, <1>4, <2>1, <2>2
  <2>4. base \in Nat
    BY <1>2, TreeFacts
  <2>5. g \in [nodes : {g.nodes}, root : Nat, current : Nat, open : BOOLEAN, alt : Nat,
               altSeq : Nat, savedAlt : Nat, maxUndo : Nat \cup {NoLimit}]
    <3> HIDE DEF N
    <3> QED
      BY <1>3, <1>4, <2>4 DEF Typed, N
  <2> QED
    BY <2>3, <2>5 DEF Typed
<1> DEFINE q == SubSeq(L, b, Len(L))
           l == Len(L)
<1>9. IsLine(g, q, g.current)
  <2>1. b \in Nat /\ l \in Nat /\ b >= 1 /\ b <= l
    BY <1>1 DEF L
  <2>2. \A i \in b..l : L[i] \in K
    BY <1>2
  <2> HIDE DEF l
  <2> DEFINE p == SubSeq(L, b, l)
  <2>3. /\ p \in Seq(K)
        /\ Len(p) = IF b <= l THEN l - b + 1 ELSE 0
        /\ \A i \in 1..(l - b + 1) : p[i] = L[b + i - 1]
    BY <2>1, <2>2, SubSeqProperties
  <2> HIDE DEF p
  <2>4. Len(p) = l - b + 1
    BY <2>1, <2>3
  <2>5. p # <<>> /\ p[1] = base /\ p[Len(p)] = L[l]
    <3>1. p # <<>>
      BY <2>1, <2>3, <2>4, EmptySeq
    <3>2. 1 \in 1..(l - b + 1) /\ l - b + 1 \in 1..(l - b + 1) /\ b + 1 - 1 = b
          /\ b + (l - b + 1) - 1 = l
      BY <2>1
    <3>3. p[1] = L[b + 1 - 1] /\ p[l - b + 1] = L[b + (l - b + 1) - 1]
      BY <2>3, <3>2
    <3> QED
      BY <2>4, <3>1, <3>2, <3>3
  <2>6. ASSUME NEW i \in 1..(Len(p) - 1)
        PROVE  p[i + 1] # g.root /\ g.nodes[p[i + 1]].parent = p[i]
    <3> DEFINE j == b + i - 1
    <3>1. j \in 1..(l - 1) /\ j \in 1..l /\ j + 1 \in 1..l /\ j + 1 \in b..l /\ b < j + 1 /\ b \in 1..l
          /\ b + (i + 1) - 1 = j + 1 /\ i \in 1..(l - b + 1) /\ i + 1 \in 1..(l - b + 1)
      BY <2>1, <2>4
    <3> HIDE DEF j
    <3>2. p[i] = L[j] /\ p[i + 1] = L[j + 1]
      BY <2>3, <3>1 DEF j
    <3>3. L[j + 1] # h.root /\ h.nodes[L[j + 1]].parent = L[j]
      BY <1>1, <3>1 DEF IsLine, l
    <3>4. L[b] < L[j + 1]
      BY <1>1, <3>1, LineGrows DEF l
    <3>5. L[j + 1] # base /\ L[j + 1] \in K
      <4>1. L[b] \in Nat
        BY <1>2, TreeFacts
      <4> QED
        BY <1>2, <3>1, <3>4, <4>1 DEF l
    <3>6. g.nodes[L[j + 1]] = h.nodes[L[j + 1]]
      BY <1>6, <3>5
    <3> QED
      BY <1>4, <3>2, <3>3, <3>5, <3>6
  <2>7. L[l] = h.current
    BY <1>1 DEF IsLine, l
  <2>8. IsLine(g, p, g.current)
    BY <1>4, <1>5, <2>3, <2>5, <2>6, <2>7 DEF IsLine
  <2> QED
    BY <2>8 DEF p, l
<1>10. ToCurrent(g) = q
  BY <1>7, <1>9, LineUnique DEF ToCurrent
<1>11. \A n \in DOMAIN g.nodes : n # g.root => n # h.root
  BY <1>2, <1>4, <1>5
<1> QED
  BY <1>2, <1>4, <1>5, <1>6, <1>7, <1>8, <1>10, <1>11 DEF L

\* What stays is not older than its base, and keeps what hangs off it.
LEMMA KeptBelow ==
  ASSUME NEW h, Tree(h), NEW base, NEW n \in KeptUnder(h, base)
  PROVE  /\ base \in DOMAIN h.nodes /\ base <= n
         /\ \A m \in DOMAIN h.nodes :
              m # h.root /\ h.nodes[m].parent = n => m \in KeptUnder(h, base)
<1> DEFINE D == DOMAIN h.nodes
           L == LineTo(h, n)
<1>1. n \in D /\ Contains(L, base)
  BY DEF KeptUnder
<1>2. IsLine(h, L, n) /\ L \in Seq(D) /\ Len(L) \in Nat /\ L # <<>> /\ L[Len(L)] = n
  BY <1>1, LineIsLine, LenProperties DEF IsLine
<1>3. PICK i \in 1..Len(L) : L[i] = base
  BY <1>1 DEF Contains
<1> HIDE DEF L
<1>4. base \in D
  BY <1>2, <1>3, ElementOfSeq
<1>5. base <= n
  <2>1. base \in Nat /\ n \in Nat
    BY <1>1, <1>4, TreeFacts
  <2>2. CASE i = Len(L)
    BY <1>2, <1>3, <2>1, <2>2
  <2>3. CASE i # Len(L)
    <3>1. Len(L) \in 1..Len(L) /\ i < Len(L)
      BY <1>2, <2>3
    <3>2. L[i] < L[Len(L)]
      BY <1>2, <3>1, LineGrows
    <3> QED
      BY <1>2, <1>3, <2>1, <3>2
  <2> QED
    BY <2>2, <2>3
<1>6. ASSUME NEW m \in D, m # h.root, h.nodes[m].parent = n
      PROVE  m \in KeptUnder(h, base)
  <2>1. LineTo(h, m) = Append(L, m)
    BY <1>6, LineSteps DEF L
  <2>2. Len(Append(L, m)) = Len(L) + 1 /\ \A j \in 1..Len(L) : Append(L, m)[j] = L[j]
    BY <1>2, <1>6, AppendProperties
  <2>3. i \in 1..(Len(L) + 1)
    BY <1>2
  <2>4. Contains(LineTo(h, m), base)
    BY <1>3, <2>1, <2>2, <2>3 DEF Contains
  <2> QED
    BY <1>6, <2>4 DEF KeptUnder
<1> QED
  BY <1>4, <1>5, <1>6

\* A node prefers one of its children, or none.
Prefers(h) ==
  \A n \in DOMAIN h.nodes : h.nodes[n].preferred \in Children(h, n) \cup {NoNode}

\* Every node of the line prefers the next one.
Retraces(h) ==
  \A n \in 1..UndoDepth(h) : h.nodes[ToCurrent(h)[n]].preferred = ToCurrent(h)[n + 1]

\* A root has no unit and hangs off nothing.
RootIsBare(h) == h.nodes[h.root].parent = NoNode /\ h.nodes[h.root].op = "Root"

\* Pruning keeps preferences on the line, a bare root, and the way forward again; the depth falls
\* by the units dropped.
LEMMA RebuiltKeeps ==
  ASSUME NEW h, Tree(h), Typed(h), NEW b \in 1..Len(ToCurrent(h)),
         NEW g, g = RebuiltFrom(h, ToCurrent(h)[b])
  PROVE  /\ Prefers(h) /\ RootIsBare(h) => Prefers(g)
         /\ RootIsBare(g)
         /\ UndoDepth(g) = UndoDepth(h) - b + 1
         /\ Retraces(h) => Retraces(g)
<1> DEFINE L == ToCurrent(h)
           base == L[b]
           K == KeptUnder(h, base)
           q == SubSeq(L, b, Len(L))
           l == Len(L)
<1>1. /\ Tree(g) /\ Typed(g) /\ g.root = base /\ DOMAIN g.nodes \subseteq DOMAIN h.nodes
      /\ \A n \in DOMAIN g.nodes : g.nodes[n] = IF n = g.root THEN RootOf(h.nodes[n]) ELSE h.nodes[n]
      /\ ToCurrent(g) = q
  <2>1. Tree(g) /\ Typed(g)
    BY RebuiltFacts
  <2>2. g.root = base /\ DOMAIN g.nodes \subseteq DOMAIN h.nodes
    BY RebuiltFacts
  <2>3. \A n \in DOMAIN g.nodes : g.nodes[n] = IF n = g.root THEN RootOf(h.nodes[n]) ELSE h.nodes[n]
    BY RebuiltFacts
  <2>5. ToCurrent(g) = q
    BY RebuiltFacts
  <2> QED
    BY <2>1, <2>2, <2>3, <2>5
<1>2. DOMAIN g.nodes = K
  <2>1. g = [h EXCEPT !.root = base,
               !.nodes = [n \in K |-> IF n = base THEN RootOf(h.nodes[n]) ELSE h.nodes[n]]]
    BY DEF RebuiltFrom
  <2> HIDE DEF K, L
  <2> QED
    BY <2>1 DEF Typed
<1>3. \A node : RootOf(node).preferred = node.preferred /\ RootOf(node).op = "Root"
                /\ RootOf(node).parent = -1
  BY RootForm
<1>4. \A n \in DOMAIN g.nodes : g.nodes[n].preferred = h.nodes[n].preferred
  BY <1>1, <1>3
<1>5. RootIsBare(g)
  BY <1>1, <1>3 DEF RootIsBare, Tree, NoNode
<1>6. ASSUME Prefers(h), RootIsBare(h)
      PROVE  Prefers(g)
  <2> SUFFICES ASSUME NEW n \in DOMAIN g.nodes, h.nodes[n].preferred # NoNode
               PROVE  h.nodes[n].preferred \in Children(g, n)
    BY <1>4 DEF Prefers
  <2> DEFINE m == h.nodes[n].preferred
  <2>1. m \in DOMAIN h.nodes /\ h.nodes[m].parent = n /\ n \in K /\ n \in DOMAIN h.nodes
    BY <1>1, <1>2, <1>6 DEF Prefers, Children
  <2> HIDE DEF m, K, L
  <2>2. n \in Nat /\ m \in Nat
    BY <2>1, TreeFacts
  <2>3. m # h.root
    BY <1>6, <2>1, <2>2 DEF RootIsBare, NoNode
  <2>4. m \in K /\ base <= n /\ base \in DOMAIN h.nodes
    BY <2>1, <2>3, KeptBelow DEF K, L
  <2>5. n < m /\ base \in Nat
    BY <2>1, <2>3, <2>4, TreeFacts
  <2>6. m # base
    BY <2>2, <2>4, <2>5
  <2>7. g.nodes[m] = h.nodes[m]
    BY <1>1, <1>2, <2>4, <2>6 DEF L
  <2> QED
    BY <1>2, <2>1, <2>4, <2>7 DEF Children, m
<1>7. /\ l \in Nat \ {0} /\ UndoDepth(h) = l - 1 /\ L \in Seq(DOMAIN h.nodes)
      /\ UndoDepth(g) = Len(q) - 1
  <2> HIDE DEF q
  <2> QED
    BY <1>1, CurrentLine
<1>8. b \in Nat /\ b >= 1 /\ b <= l
  BY <1>7
<1>9. Len(q) = l - b + 1 /\ \A i \in 1..(l - b + 1) : q[i] = L[b + i - 1]
  <2>1. \A i \in b..l : L[i] \in DOMAIN h.nodes
    BY <1>7, <1>8, ElementOfSeq
  <2> HIDE DEF l, L
  <2> DEFINE p == SubSeq(L, b, l)
  <2>2. /\ Len(p) = IF b <= l THEN l - b + 1 ELSE 0
        /\ \A i \in 1..(l - b + 1) : p[i] = L[b + i - 1]
    BY <1>7, <1>8, <2>1, SubSeqProperties
  <2> HIDE DEF p
  <2>3. Len(p) = l - b + 1
    BY <1>8, <2>2
  <2> QED
    BY <2>2, <2>3 DEF p, l
<1> HIDE DEF q, l
<1>10. UndoDepth(g) = UndoDepth(h) - b + 1
  BY <1>7, <1>8, <1>9
<1>11. ASSUME Retraces(h)
       PROVE  Retraces(g)
  <2> SUFFICES ASSUME NEW i \in 1..UndoDepth(g) PROVE g.nodes[q[i]].preferred = q[i + 1]
    BY <1>1 DEF Retraces
  <2> DEFINE j == b + i - 1
  <2>1. j \in 1..UndoDepth(h) /\ i \in 1..(l - b + 1) /\ i + 1 \in 1..(l - b + 1)
        /\ b + (i + 1) - 1 = j + 1 /\ i \in 1..Len(q)
    BY <1>7, <1>8, <1>9, <1>10
  <2> HIDE DEF j
  <2>2. q[i] = L[j] /\ q[i + 1] = L[j + 1]
    BY <1>9, <2>1 DEF j
  <2>3. h.nodes[L[j]].preferred = L[j + 1]
    BY <1>11, <2>1 DEF Retraces
  <2>4. q[i] \in DOMAIN g.nodes
    <3>1. q \in Seq(DOMAIN g.nodes)
      BY <1>1, CurrentLine
    <3> QED
      BY <2>1, <3>1, ElementOfSeq
  <2> QED
    BY <1>4, <2>2, <2>3, <2>4
<1> QED
  BY <1>5, <1>6, <1>10, <1>11

----------------------------------------------------------------------------
\* All that is known of a history whatever its texts.
Shape(h) == Tree(h) /\ Typed(h) /\ Prefers(h) /\ RootIsBare(h) /\ Retraces(h)

\* The fields of h but its tree.
Aside(g, h) ==
  /\ g.current = h.current /\ g.open = h.open /\ g.alt = h.alt /\ g.altSeq = h.altSeq
  /\ g.savedAlt = h.savedAlt /\ g.maxUndo = h.maxUndo

\* Of h's nodes, g has some; one that is not g's root is as it was.
PartOf(g, h) ==
  /\ DOMAIN g.nodes \subseteq DOMAIN h.nodes
  /\ \A n \in DOMAIN g.nodes : n # g.root => n # h.root /\ g.nodes[n] = h.nodes[n]

\* Pruning keeps a limit, and drops no more than it must.
LEMMA PrunedFacts ==
  ASSUME NEW h, Shape(h), NEW g, g = Pruned(h)
  PROVE  /\ Shape(g) /\ Aside(g, h) /\ PartOf(g, h)
         /\ h.maxUndo # NoLimit =>
              /\ UndoDepth(g) <= h.maxUndo
              /\ g.root # h.root => UndoDepth(g) = h.maxUndo
<1>1. CASE h.maxUndo = NoLimit \/ UndoDepth(h) <= h.maxUndo
  <2>1. g = h
    BY <1>1 DEF Pruned
  <2> QED
    BY <1>1, <2>1 DEF Aside, PartOf
<1>2. CASE h.maxUndo # NoLimit /\ ~(UndoDepth(h) <= h.maxUndo)
  <2> DEFINE b == UndoDepth(h) - h.maxUndo + 1
  <2>1. h.maxUndo \in Nat /\ UndoDepth(h) \in Nat /\ UndoDepth(h) = Len(ToCurrent(h)) - 1
        /\ Len(ToCurrent(h)) \in Nat
    BY <1>2, CurrentLine DEF Shape, Typed
  <2>2. b \in 1..Len(ToCurrent(h)) /\ UndoDepth(h) - b + 1 = h.maxUndo
    BY <1>2, <2>1
  <2>3. g = RebuiltFrom(h, ToCurrent(h)[b])
    BY <1>2 DEF Pruned
  <2> HIDE DEF b
  <2>4. Tree(h) /\ Typed(h) /\ Prefers(h) /\ RootIsBare(h) /\ Retraces(h)
    BY DEF Shape
  <2>5. /\ Tree(g) /\ Typed(g) /\ DOMAIN g.nodes \subseteq DOMAIN h.nodes
        /\ \A n \in DOMAIN g.nodes : g.nodes[n] = IF n = g.root THEN RootOf(h.nodes[n]) ELSE h.nodes[n]
    BY <2>2, <2>3, <2>4, RebuiltFacts
  <2>6. \A n \in DOMAIN g.nodes : n # g.root => n # h.root
    BY <2>2, <2>3, <2>4, RebuiltFacts, Zenon
  <2>7. Aside(g, h)
    BY <2>2, <2>3, <2>4, RebuiltFacts DEF Aside
  <2>8. Prefers(g) /\ RootIsBare(g) /\ Retraces(g) /\ UndoDepth(g) = UndoDepth(h) - b + 1
    BY <2>2, <2>3, <2>4, RebuiltKeeps
  <2>9. UndoDepth(g) = h.maxUndo /\ UndoDepth(g) <= h.maxUndo
    BY <2>1, <2>2, <2>8
  <2> QED
    BY <2>5, <2>6, <2>7, <2>8, <2>9 DEF Shape, PartOf
<1> QED
  BY <1>1, <1>2

\* A line stays one as long as its nodes hang where they did.
LEMMA SameLine ==
  ASSUME NEW h, NEW g, NEW p, NEW n, IsLine(h, p, n), g.root = h.root,
         DOMAIN h.nodes \subseteq DOMAIN g.nodes,
         \A m \in DOMAIN h.nodes : g.nodes[m].parent = h.nodes[m].parent
  PROVE  IsLine(g, p, n)
<1>1. p \in Seq(DOMAIN h.nodes) /\ Len(p) \in Nat
  BY LenProperties DEF IsLine
<1>2. p \in Seq(DOMAIN g.nodes)
  BY <1>1, SeqMonotonic
<1>3. \A i \in 1..(Len(p) - 1) : p[i + 1] \in DOMAIN h.nodes
  BY <1>1, ElementOfSeq
<1> QED
  BY <1>2, <1>3 DEF IsLine

\* What is recorded, before any pruning.
Placed(h, step, hint) ==
  LET alt == h.altSeq + 1
  IN [(IF Merges(h, hint) THEN [h EXCEPT !.nodes = Merged(h, step, alt)]
       ELSE [h EXCEPT !.nodes = Grown(h, step, hint.op, alt), !.current = alt])
        EXCEPT !.open = ~hint.sealAfter, !.alt = alt, !.altSeq = alt]

\* Recording is placing a step, then pruning.
LEMMA RecordedForm ==
  ASSUME NEW h, NEW step, NEW hint
  PROVE  Recorded(h, step, hint) = Pruned(Placed(h, step, hint))
BY DEF Recorded, Placed

\* A node that takes in a step is a node with the same parent.
LEMMA NodeWith ==
  ASSUME NEW node \in NodeSet, NEW steps \in Seq(StepSet), NEW alt \in Nat
  PROVE  /\ [node EXCEPT !.steps = steps, !.altAfter = alt] \in NodeSet
         /\ [node EXCEPT !.steps = steps, !.altAfter = alt].parent = node.parent
<1> DEFINE other == [node EXCEPT !.steps = steps]
           new == [other EXCEPT !.altAfter = alt]
<1>0. [node EXCEPT !.steps = steps, !.altAfter = alt] = new
  OBVIOUS
<1>o. other = [parent |-> node.parent, preferred |-> node.preferred, steps |-> steps, op |-> node.op,
               altBefore |-> node.altBefore, altAfter |-> node.altAfter]
  BY DEF NodeSet
<1> HIDE DEF other
<1>1. new = [parent |-> node.parent, preferred |-> node.preferred, steps |-> steps, op |-> node.op,
             altBefore |-> node.altBefore, altAfter |-> alt]
  BY <1>o
<1> HIDE DEF new
<1>2. /\ node.parent \in Int /\ node.preferred \in Int /\ node.op \in Classes \cup {"Root"}
      /\ node.altBefore \in Nat
  BY DEF NodeSet
<1>3. new \in NodeSet /\ new.parent = node.parent
  BY <1>1, <1>2 DEF NodeSet
<1> QED
  BY <1>0, <1>3

\* So is one that prefers another child.
LEMMA NodePreferring ==
  ASSUME NEW node \in NodeSet, NEW m \in Int
  PROVE  /\ [node EXCEPT !.preferred = m] \in NodeSet
         /\ [node EXCEPT !.preferred = m].parent = node.parent
<1>1. [node EXCEPT !.preferred = m] =
        [parent |-> node.parent, preferred |-> m, steps |-> node.steps, op |-> node.op,
         altBefore |-> node.altBefore, altAfter |-> node.altAfter]
  BY DEF NodeSet
<1>2. /\ node.parent \in Int /\ node.steps \in Seq(StepSet) /\ node.op \in Classes \cup {"Root"}
      /\ node.altBefore \in Nat /\ node.altAfter \in Nat
  BY DEF NodeSet
<1> QED
  BY <1>1, <1>2 DEF NodeSet

\* What a merge changes.
MergedTo(g, h, step, hint) ==
  /\ Tree(g) /\ Typed(g) /\ DOMAIN g.nodes = DOMAIN h.nodes
  /\ g.root = h.root /\ g.current = h.current /\ g.open = ~hint.sealAfter
  /\ g.alt = h.altSeq + 1 /\ g.altSeq = h.altSeq + 1 /\ g.savedAlt = h.savedAlt
  /\ g.maxUndo = h.maxUndo
  /\ \A n \in DOMAIN h.nodes : n # h.current => g.nodes[n] = h.nodes[n]
  /\ g.nodes[h.current] = [h.nodes[h.current] EXCEPT !.steps = Append(@, step),
                                                     !.altAfter = h.altSeq + 1]
  /\ h.current # h.root

\* What a merge leaves, field by field.
LEMMA MergedFacts ==
  ASSUME NEW h, Shape(h), NEW step \in StepSet, NEW hint \in Hints, Merges(h, hint),
         NEW g, g = Placed(h, step, hint)
  PROVE  MergedTo(g, h, step, hint)
<1> DEFINE D == DOMAIN h.nodes
           alt == h.altSeq + 1
           N == Merged(h, step, alt)
           c == h.current
           node == h.nodes[c]
           new == [node EXCEPT !.steps = Append(@, step), !.altAfter = alt]
<1>0. Tree(h) /\ Typed(h) /\ RootIsBare(h) /\ c \in D /\ h.altSeq \in Nat
  BY DEF Shape, Tree
<1>1. N = [h.nodes EXCEPT ![c] = new]
  BY <1>0 DEF Merged, Typed
<1>2. node \in NodeSet /\ h.nodes \in [D -> NodeSet]
  BY <1>0 DEF Typed
<1>3. Append(node.steps, step) \in Seq(StepSet)
  BY <1>2, AppendProperties DEF NodeSet
<1>4. new \in NodeSet /\ new.parent = node.parent
  <2> DEFINE steps == Append(node.steps, step)
  <2>1. steps \in Seq(StepSet) /\ alt \in Nat /\ node \in NodeSet
    BY <1>0, <1>2, <1>3
  <2>2. new = [node EXCEPT !.steps = steps, !.altAfter = alt]
    OBVIOUS
  <2> HIDE DEF steps, alt, node, new
  <2>3. /\ [node EXCEPT !.steps = steps, !.altAfter = alt] \in NodeSet
        /\ [node EXCEPT !.steps = steps, !.altAfter = alt].parent = node.parent
    BY <2>1, NodeWith, Zenon
  <2> QED
    BY <2>2, <2>3, Zenon
<1> HIDE DEF new
<1>5. N \in [D -> NodeSet] /\ DOMAIN N = D /\ N[c] = new /\ \A n \in D : n # c => N[n] = h.nodes[n]
  BY <1>0, <1>1, <1>2, <1>4
<1> HIDE DEF N
<1>6. g = [h EXCEPT !.nodes = N, !.open = ~hint.sealAfter, !.alt = alt, !.altSeq = alt]
  BY <1>0 DEF Placed, N, Typed
<1>7. /\ g.nodes = N /\ g.root = h.root /\ g.current = c /\ g.open = ~hint.sealAfter
      /\ g.alt = alt /\ g.altSeq = alt /\ g.savedAlt = h.savedAlt /\ g.maxUndo = h.maxUndo
  BY <1>0, <1>6 DEF Typed
<1>8. Typed(g)
  <2>1. g \in [nodes : {N}, root : Nat, current : Nat, open : BOOLEAN, alt : Nat,
               altSeq : Nat, savedAlt : Nat, maxUndo : Nat \cup {NoLimit}]
    <3> DEFINE open == ~hint.sealAfter
    <3>1. open \in BOOLEAN /\ alt \in Nat
      BY <1>0
    <3> HIDE DEF open, alt
    <3> QED
      BY <1>0, <1>6, <3>1 DEF Typed, open
  <2> QED
    BY <1>5, <1>7, <2>1 DEF Typed
<1>9. Tree(g)
  <2>1. \A m \in D : g.nodes[m].parent = h.nodes[m].parent
    BY <1>4, <1>5, <1>7
  <2>2. DOMAIN g.nodes = D /\ g.root = h.root /\ D \subseteq 0..alt /\ alt \in Nat
    BY <1>0, <1>5, <1>7 DEF Tree
  <2> HIDE DEF D
  <2>3. h.root \in D /\ c \in D /\ \A m \in D :
          m # h.root => h.nodes[m].parent \in D /\ h.nodes[m].parent < m
    BY <1>0 DEF Tree, D
  <2> QED
    BY <1>7, <2>1, <2>2, <2>3 DEF Tree
<1>10. c # h.root
  BY <1>0 DEF Merges, RootIsBare, Hints, Classes
<1> QED
  BY <1>5, <1>7, <1>8, <1>9, <1>10 DEF new, MergedTo

\* What a new unit changes.
GrownTo(g, h, step, hint) ==
  LET alt == h.altSeq + 1 IN
  /\ Tree(g) /\ Typed(g) /\ DOMAIN g.nodes = DOMAIN h.nodes \cup {alt}
  /\ alt \notin DOMAIN h.nodes
  /\ g.root = h.root /\ g.current = alt /\ g.open = ~hint.sealAfter
  /\ g.alt = alt /\ g.altSeq = alt /\ g.savedAlt = h.savedAlt
  /\ g.maxUndo = h.maxUndo
  /\ \A n \in DOMAIN h.nodes : n # h.current => g.nodes[n] = h.nodes[n]
  /\ g.nodes[h.current] = [h.nodes[h.current] EXCEPT !.preferred = alt]
  /\ g.nodes[alt] = Node(h.current, <<step>>, hint.op, h.alt, alt)

\* What a new unit leaves, field by field.
LEMMA GrownFacts ==
  ASSUME NEW h, Shape(h), NEW step \in StepSet, NEW hint \in Hints, ~Merges(h, hint),
         NEW g, g = Placed(h, step, hint)
  PROVE  GrownTo(g, h, step, hint)
<1> DEFINE alt == h.altSeq + 1
<1> DEFINE D == DOMAIN h.nodes
           N == Grown(h, step, hint.op, alt)
           c == h.current
           old == [h.nodes[c] EXCEPT !.preferred = alt]
           new == Node(c, <<step>>, hint.op, h.alt, alt)
<1>0. Tree(h) /\ Typed(h) /\ c \in D /\ h.altSeq \in Nat /\ alt \in Nat /\ c \in Nat
      /\ D \subseteq 0..h.altSeq /\ h.alt \in Nat
  BY TreeFacts DEF Shape, Tree, Typed
<1>1. alt \notin D /\ c # alt /\ c < alt
  BY <1>0
<1>a. D \cup {alt} \subseteq 0..alt
  BY <1>0
<1>f. g = [(IF Merges(h, hint) THEN [h EXCEPT !.nodes = Merged(h, step, alt)]
            ELSE [h EXCEPT !.nodes = N, !.current = alt])
             EXCEPT !.open = ~hint.sealAfter, !.alt = alt, !.altSeq = alt]
  BY DEF Placed
<1>2. h.nodes[c] \in NodeSet /\ h.nodes \in [D -> NodeSet]
  BY <1>0 DEF Typed
<1>3. old \in NodeSet /\ old.parent = h.nodes[c].parent
  <2> DEFINE node == h.nodes[c]
  <2>1. alt \in Int /\ node \in NodeSet /\ old = [node EXCEPT !.preferred = alt]
    BY <1>0, <1>2
  <2> HIDE DEF node, old
  <2>2. old \in NodeSet /\ old.parent = node.parent
    BY <2>1, NodePreferring
  <2> QED
    BY <2>2 DEF node
<1>4. new \in NodeSet /\ new.parent = c
  <2>1. <<step>> \in Seq(StepSet)
    OBVIOUS
  <2>2. hint.op \in Classes \cup {"Root"}
    BY DEF Hints
  <2> QED
    BY <1>0, <2>1, <2>2 DEF Node, NodeSet, NoNode
<1>5. N = [n \in D \cup {alt} |-> IF n = alt THEN new ELSE IF n = c THEN old ELSE h.nodes[n]]
  BY DEF Grown
<1> HIDE DEF old, new, alt
<1>6. /\ N \in [D \cup {alt} -> NodeSet] /\ DOMAIN N = D \cup {alt} /\ N[alt] = new /\ N[c] = old
      /\ \A n \in D : n # c => N[n] = h.nodes[n]
  <2> HIDE DEF N, D
  <2>1. DOMAIN N = D \cup {alt} /\ N[alt] = new /\ N[c] = old /\ \A n \in D : n # c => N[n] = h.nodes[n]
    BY <1>0, <1>1, <1>5
  <2>2. \A n \in D : h.nodes[n] \in NodeSet
    BY <1>2
  <2>3. \A n \in D \cup {alt} : N[n] \in NodeSet
    BY <1>3, <1>4, <2>1, <2>2
  <2>4. N \in [D \cup {alt} -> NodeSet]
    BY <1>5, <2>3
  <2> QED
    BY <2>1, <2>4
<1> HIDE DEF N
<1>7. g = [h EXCEPT !.nodes = N, !.current = alt, !.open = ~hint.sealAfter, !.alt = alt, !.altSeq = alt]
  BY <1>0, <1>f DEF Typed
<1>8. /\ g.nodes = N /\ g.root = h.root /\ g.current = alt /\ g.open = ~hint.sealAfter
      /\ g.alt = alt /\ g.altSeq = alt /\ g.savedAlt = h.savedAlt /\ g.maxUndo = h.maxUndo
  BY <1>0, <1>7 DEF Typed
<1>9. Typed(g)
  <2>1. g \in [nodes : {N}, root : Nat, current : Nat, open : BOOLEAN, alt : Nat,
               altSeq : Nat, savedAlt : Nat, maxUndo : Nat \cup {NoLimit}]
    <3>1. (~hint.sealAfter) \in BOOLEAN
      OBVIOUS
    <3> QED
      BY <1>0, <1>7, <3>1 DEF Typed
  <2> QED
    BY <1>6, <1>8, <2>1 DEF Typed
<1>10. Tree(g)
  <2>1. \A m \in D : g.nodes[m].parent = h.nodes[m].parent
    BY <1>3, <1>6, <1>8
  <2>2. /\ DOMAIN g.nodes = D \cup {alt} /\ g.root = h.root /\ D \cup {alt} \subseteq 0..alt
        /\ g.nodes[alt].parent = c
    BY <1>a, <1>4, <1>6, <1>8
  <2> HIDE DEF D
  <2>3. h.root \in D /\ c \in D /\ \A m \in D :
          m # h.root => h.nodes[m].parent \in D /\ h.nodes[m].parent < m
    BY <1>0 DEF Tree, D
  <2>4. ASSUME NEW m \in D \cup {alt}, m # g.root
        PROVE  g.nodes[m].parent \in D \cup {alt} /\ g.nodes[m].parent < m
    BY <1>1, <2>1, <2>2, <2>3, <2>4
  <2> QED
    BY <1>0, <1>8, <2>2, <2>3, <2>4 DEF Tree
<1> QED
  BY <1>1, <1>6, <1>8, <1>9, <1>10 DEF old, new, alt, GrownTo

\* A node that goes on preferring what it did, or its new child.
LEMMA MergedShape ==
  ASSUME NEW h, Shape(h), NEW step \in StepSet, NEW hint \in Hints, Merges(h, hint),
         NEW g, g = Placed(h, step, hint)
  PROVE  Shape(g) /\ ToCurrent(g) = ToCurrent(h) /\ UndoDepth(g) = UndoDepth(h)
<1> DEFINE D == DOMAIN h.nodes
           L == ToCurrent(h)
<1>0. Tree(h) /\ Typed(h) /\ Prefers(h) /\ RootIsBare(h) /\ Retraces(h)
  BY DEF Shape
<1>m. MergedTo(g, h, step, hint)
  BY MergedFacts
<1>1. Tree(g) /\ Typed(g) /\ DOMAIN g.nodes = D /\ g.root = h.root /\ g.current = h.current
  BY <1>m DEF MergedTo
<1>2. \A n \in D : n # h.current => g.nodes[n] = h.nodes[n]
  BY <1>m DEF MergedTo
<1>3. h.current # h.root /\ h.root \in D /\ h.current \in D
  BY <1>0, <1>m DEF Tree, MergedTo
<1>4. \A n \in D : g.nodes[n].parent = h.nodes[n].parent
                   /\ g.nodes[n].preferred = h.nodes[n].preferred
  <2> DEFINE node == h.nodes[h.current]
             steps == Append(node.steps, step)
             alt == h.altSeq + 1
  <2>1. g.nodes[h.current] = [node EXCEPT !.steps = steps, !.altAfter = alt]
    BY <1>m DEF MergedTo
  <2>2. node \in NodeSet
    BY <1>0, <1>3 DEF Typed
  <2>3. g.nodes[h.current].parent = node.parent /\ g.nodes[h.current].preferred = node.preferred
    <3> HIDE DEF node, steps, alt
    <3> QED
      BY <2>1, <2>2 DEF NodeSet
  <2> QED
    BY <1>2, <2>3
<1>5. \A n : Children(g, n) = Children(h, n)
  BY <1>1, <1>4 DEF Children
<1>6. Prefers(g)
  BY <1>0, <1>1, <1>4, <1>5 DEF Prefers
<1>7. RootIsBare(g)
  BY <1>0, <1>1, <1>2, <1>3 DEF RootIsBare
<1>8. IsLine(g, L, g.current)
  <2>1. IsLine(h, L, h.current)
    BY <1>0, CurrentLine
  <2> HIDE DEF L
  <2> QED
    BY <1>1, <1>4, <2>1, SameLine, Zenon
<1>9. ToCurrent(g) = L
  BY <1>1, <1>8, LineUnique DEF ToCurrent
<1>10. UndoDepth(g) = UndoDepth(h)
  BY <1>9 DEF UndoDepth
<1>11. Retraces(g)
  <2>1. \A n \in 1..UndoDepth(h) : L[n] \in D
    BY <1>0, CurrentLine, ElementOfSeq
  <2> HIDE DEF L
  <2> QED
    BY <1>0, <1>4, <1>9, <1>10, <2>1 DEF Retraces, L
<1> QED
  BY <1>1, <1>6, <1>7, <1>9, <1>10, <1>11 DEF Shape

\* A new unit is one more on the line to the current node.
LEMMA GrownShape ==
  ASSUME NEW h, Shape(h), NEW step \in StepSet, NEW hint \in Hints, ~Merges(h, hint),
         NEW g, g = Placed(h, step, hint)
  PROVE  /\ Shape(g) /\ ToCurrent(g) = Append(ToCurrent(h), h.altSeq + 1)
         /\ UndoDepth(g) = UndoDepth(h) + 1
<1> DEFINE alt == h.altSeq + 1
           D == DOMAIN h.nodes
           L == ToCurrent(h)
           c == h.current
<1>0. Tree(h) /\ Typed(h) /\ Prefers(h) /\ RootIsBare(h) /\ Retraces(h)
  BY DEF Shape
<1>m. GrownTo(g, h, step, hint)
  BY GrownFacts
<1>1. /\ Tree(g) /\ Typed(g) /\ DOMAIN g.nodes = D \cup {alt} /\ alt \notin D
      /\ g.root = h.root /\ g.current = alt
  BY <1>m DEF GrownTo
<1>2. \A n \in D : n # c => g.nodes[n] = h.nodes[n]
  BY <1>m DEF GrownTo
<1>3. h.root \in D /\ c \in D
  BY <1>0 DEF Tree
<1>4. /\ g.nodes[c].parent = h.nodes[c].parent /\ g.nodes[c].op = h.nodes[c].op
      /\ g.nodes[c].preferred = alt
  <2> DEFINE node == h.nodes[c]
  <2>1. g.nodes[c] = [node EXCEPT !.preferred = alt]
    BY <1>m DEF GrownTo
  <2>2. node \in NodeSet
    BY <1>0, <1>3 DEF Typed
  <2> HIDE DEF node
  <2>3. /\ g.nodes[c].parent = node.parent /\ g.nodes[c].op = node.op
        /\ g.nodes[c].preferred = alt
    BY <2>1, <2>2 DEF NodeSet
  <2> QED
    BY <2>3 DEF node
<1>5. g.nodes[alt].parent = c /\ g.nodes[alt].preferred = NoNode
  <2>1. g.nodes[alt] = Node(c, <<step>>, hint.op, h.alt, alt)
    BY <1>m DEF GrownTo
  <2> QED
    BY <2>1 DEF Node
<1> HIDE DEF alt
<1>6. \A n \in D : g.nodes[n].parent = h.nodes[n].parent
  BY <1>2, <1>4
<1>7. Prefers(g)
  <2> SUFFICES ASSUME NEW n \in D \cup {alt}
               PROVE  g.nodes[n].preferred \in Children(g, n) \cup {NoNode}
    BY <1>1 DEF Prefers
  <2>1. CASE n = alt
    BY <1>5, <2>1
  <2>2. CASE n = c
    BY <1>1, <1>4, <1>5, <2>2 DEF Children
  <2>3. CASE n \in D /\ n # c
    BY <1>0, <1>1, <1>2, <1>6, <2>3 DEF Prefers, Children
  <2> QED
    BY <2>1, <2>2, <2>3
<1>8. RootIsBare(g)
  <2>1. g.nodes[h.root].parent = h.nodes[h.root].parent /\ g.nodes[h.root].op = h.nodes[h.root].op
    BY <1>2, <1>3, <1>4
  <2> QED
    BY <1>0, <1>1, <2>1 DEF RootIsBare
<1>9. IsLine(h, L, c) /\ L \in Seq(D) /\ Len(L) \in Nat \ {0} /\ UndoDepth(h) = Len(L) - 1
      /\ L[Len(L)] = c
  BY <1>0, CurrentLine DEF IsLine
<1> HIDE DEF L
<1>10. IsLine(g, L, c)
  BY <1>1, <1>6, <1>9, SameLine, Zenon
<1>11. alt \in DOMAIN g.nodes /\ alt # g.root
  BY <1>1, <1>3
<1>12. IsLine(g, Append(L, alt), alt)
  BY <1>5, <1>10, <1>11, LineLonger
<1>13. ToCurrent(g) = Append(L, alt)
  BY <1>1, <1>12, LineUnique DEF ToCurrent
<1>14. /\ Len(Append(L, alt)) = Len(L) + 1
       /\ \A i \in 1..Len(L) : Append(L, alt)[i] = L[i]
       /\ Append(L, alt)[Len(L) + 1] = alt
  <2>1. L \in Seq(D \cup {alt})
    BY <1>9, SeqMonotonic
  <2> QED
    BY <2>1, AppendProperties
<1>15. UndoDepth(g) = UndoDepth(h) + 1
  BY <1>9, <1>13, <1>14 DEF UndoDepth
<1>16. Retraces(g)
  <2> SUFFICES ASSUME NEW n \in 1..(UndoDepth(h) + 1)
               PROVE  g.nodes[Append(L, alt)[n]].preferred = Append(L, alt)[n + 1]
    BY <1>13, <1>15 DEF Retraces
  <2>1. CASE n = Len(L)
    <3>1. n \in 1..Len(L)
      BY <1>9
    <3>2. Append(L, alt)[n] = c /\ Append(L, alt)[n + 1] = alt
      BY <1>9, <1>14, <2>1, <3>1
    <3> QED
      BY <1>4, <3>2
  <2>2. CASE n # Len(L)
    <3>1. n \in 1..UndoDepth(h) /\ n \in 1..Len(L) /\ n + 1 \in 1..Len(L)
          /\ Len(L) \in 1..Len(L) /\ n < Len(L)
      BY <1>9, <2>2
    <3>2. Append(L, alt)[n] = L[n] /\ Append(L, alt)[n + 1] = L[n + 1]
      BY <1>14, <3>1
    <3>3. L[n] < L[Len(L)]
      BY <1>0, <1>9, <3>1, LineGrows
    <3>4. L[n] \in D
      BY <1>9, <3>1, ElementOfSeq
    <3>5. L[n] # c
      <4>1. L[n] \in Nat /\ c \in Nat
        BY <1>0, <1>3, <3>4, TreeFacts
      <4> QED
        BY <1>9, <3>3, <4>1
    <3>6. h.nodes[L[n]].preferred = L[n + 1]
      BY <1>0, <3>1 DEF Retraces, L
    <3> QED
      BY <1>2, <3>2, <3>4, <3>5, <3>6
  <2> QED
    BY <2>1, <2>2
<1> QED
  BY <1>1, <1>7, <1>8, <1>13, <1>15, <1>16 DEF Shape, L, alt

\* Recording keeps the shape, and the limit: no more is dropped than it takes.
LEMMA RecordedFacts ==
  ASSUME NEW h, Shape(h), NEW step \in StepSet, NEW hint \in Hints,
         NEW g, g = Recorded(h, step, hint)
  PROVE  /\ Shape(g)
         /\ h.maxUndo # NoLimit =>
              /\ UndoDepth(g) <= h.maxUndo
              /\ g.root # h.root => UndoDepth(g) = h.maxUndo
<1> DEFINE p == Placed(h, step, hint)
<1>1. Shape(p) /\ p.root = h.root /\ p.maxUndo = h.maxUndo
  <2>1. CASE Merges(h, hint)
    <3>1. MergedTo(p, h, step, hint) /\ Shape(p)
      BY <2>1, MergedFacts, MergedShape
    <3> QED
      BY <3>1 DEF MergedTo
  <2>2. CASE ~Merges(h, hint)
    <3>1. GrownTo(p, h, step, hint) /\ Shape(p)
      BY <2>2, GrownFacts, GrownShape
    <3> QED
      BY <3>1 DEF GrownTo
  <2> QED
    BY <2>1, <2>2
<1>2. g = Pruned(p)
  BY RecordedForm
<1> HIDE DEF p
<1>3. /\ Shape(g)
      /\ p.maxUndo # NoLimit =>
           /\ UndoDepth(g) <= p.maxUndo
           /\ g.root # p.root => UndoDepth(g) = p.maxUndo
  BY <1>1, <1>2, PrunedFacts
<1> QED
  BY <1>1, <1>3

\* What leaves the tree and the current node alone keeps the shape.
LEMMA SameTree ==
  ASSUME NEW h, Shape(h), NEW g, Typed(g), g.nodes = h.nodes, g.root = h.root,
         g.current = h.current, g.altSeq = h.altSeq
  PROVE  Shape(g) /\ ToCurrent(g) = ToCurrent(h) /\ UndoDepth(g) = UndoDepth(h)
<1>1. ToCurrent(g) = ToCurrent(h)
  BY DEF ToCurrent, LineTo
<1>2. UndoDepth(g) = UndoDepth(h)
  BY <1>1 DEF UndoDepth
<1>3. Tree(g)
  BY DEF Shape, Tree
<1>4. Prefers(g) /\ RootIsBare(g)
  BY DEF Shape, Prefers, RootIsBare, Children
<1>5. Retraces(g)
  BY <1>1, <1>2 DEF Shape, Retraces
<1> QED
  BY <1>1, <1>2, <1>3, <1>4, <1>5 DEF Shape

\* Sealing and marking saved keep the tree.
LEMMA SealedFacts ==
  ASSUME NEW h, Shape(h)
  PROVE  /\ Shape(Sealed(h)) /\ Shape(MarkedSaved(h))
         /\ ToCurrent(Sealed(h)) = ToCurrent(h) /\ ToCurrent(MarkedSaved(h)) = ToCurrent(h)
<1>1. Typed(h)
  BY DEF Shape
<1>2. Typed(Sealed(h)) /\ Sealed(h).nodes = h.nodes /\ Sealed(h).root = h.root
      /\ Sealed(h).current = h.current /\ Sealed(h).altSeq = h.altSeq
  BY <1>1 DEF Sealed, Typed
<1>3. Typed(MarkedSaved(h)) /\ MarkedSaved(h).nodes = h.nodes /\ MarkedSaved(h).root = h.root
      /\ MarkedSaved(h).current = h.current /\ MarkedSaved(h).altSeq = h.altSeq
  BY <1>1 DEF MarkedSaved, Typed
<1> QED
  BY <1>2, <1>3, SameTree

\* A new limit only takes nodes away.
LEMMA LimitedFacts ==
  ASSUME NEW h, Shape(h), NEW limit \in Nat \cup {NoLimit}, NEW g, g = Limited(h, limit)
  PROVE  /\ Shape(g) /\ g.maxUndo = limit /\ PartOf(g, h)
         /\ g.current = h.current /\ g.open = h.open /\ g.alt = h.alt /\ g.altSeq = h.altSeq
         /\ g.savedAlt = h.savedAlt
<1> DEFINE p == [h EXCEPT !.maxUndo = limit]
<1>1. Typed(h)
  BY DEF Shape
<1>2. Typed(p) /\ p.nodes = h.nodes /\ p.root = h.root /\ p.current = h.current
      /\ p.altSeq = h.altSeq /\ p.maxUndo = limit /\ p.open = h.open /\ p.alt = h.alt
      /\ p.savedAlt = h.savedAlt
  BY <1>1 DEF Typed
<1>3. g = Pruned(p)
  BY DEF Limited
<1> HIDE DEF p
<1>4. Shape(p)
  BY <1>2, SameTree
<1>5. Shape(g) /\ Aside(g, p) /\ PartOf(g, p)
  BY <1>3, <1>4, PrunedFacts
<1> QED
  BY <1>2, <1>5 DEF Aside, PartOf

\* A new history is its root.
LEMMA NewFacts ==
  /\ Shape(NewHistory) /\ DOMAIN NewHistory.nodes = {0} /\ NewHistory.current = 0
  /\ NewHistory.root = 0 /\ NewHistory.open = FALSE /\ NewHistory.alt = 0
  /\ NewHistory.altSeq = 0 /\ NewHistory.savedAlt = 0 /\ NewHistory.maxUndo = NoLimit
  /\ NewHistory.nodes[0].steps = <<>> /\ NewHistory.nodes[0].preferred = NoNode
<1> DEFINE h == NewHistory
           bare == [parent |-> -1, preferred |-> -1, steps |-> <<>>, op |-> "Root",
                    altBefore |-> 0, altAfter |-> 0]
<1>1. RootOf([preferred |-> NoNode]) = bare
  BY RootForm DEF NoNode
<1> HIDE DEF bare
<1>2. h = [nodes |-> [n \in {0} |-> bare], root |-> 0, current |-> 0, open |-> FALSE, alt |-> 0,
           altSeq |-> 0, savedAlt |-> 0, maxUndo |-> NoLimit]
  BY <1>1 DEF NewHistory
<1> HIDE DEF h
<1>3. bare \in NodeSet
  BY EmptySeq DEF bare, NodeSet
<1>4. Tree(h)
  BY <1>2 DEF Tree
<1>5. Typed(h)
  BY <1>2, <1>3 DEF Typed
<1>6. Prefers(h) /\ RootIsBare(h)
  BY <1>2 DEF Prefers, RootIsBare, bare, NoNode
<1>7. UndoDepth(h) = 0
  <2>1. LineTo(h, 0) = <<0>>
    BY <1>2, <1>4, LineSteps
  <2> QED
    BY <1>2, <2>1 DEF UndoDepth, ToCurrent
<1>8. Retraces(h)
  BY <1>7 DEF Retraces
<1>9. Shape(h)
  BY <1>4, <1>5, <1>6, <1>8 DEF Shape
<1> QED
  BY <1>2, <1>9 DEF h, bare, NoNode

\* Undoing goes one node back, and redoing one node on.
LEMMA UndoneFacts ==
  ASSUME NEW h, Shape(h), CanUndo(h), NEW g, g = Undone(h)
  PROVE  /\ Shape(g) /\ g.nodes = h.nodes /\ g.root = h.root /\ g.current \in DOMAIN h.nodes
         /\ g.current = h.nodes[h.current].parent /\ g.alt = h.nodes[h.current].altBefore
         /\ g.open = FALSE
         /\ g.altSeq = h.altSeq /\ g.savedAlt = h.savedAlt /\ g.maxUndo = h.maxUndo
<1> DEFINE L == ToCurrent(h)
           D == DOMAIN h.nodes
           c == h.current
           up == h.nodes[c].parent
           l == Len(L) - 1
<1>0. Tree(h) /\ Typed(h) /\ Prefers(h) /\ RootIsBare(h) /\ Retraces(h) /\ c \in D
  BY DEF Shape, Tree
<1>1. c # h.root /\ up \in D /\ up \in Nat
  BY <1>0, TreeFacts DEF CanUndo
<1>2. h.nodes[c].altBefore \in Nat
  <2>1. h.nodes[c] \in NodeSet
    BY <1>0 DEF Typed
  <2> QED
    BY <2>1 DEF NodeSet
<1>3. Typed(g) /\ g.nodes = h.nodes /\ g.root = h.root /\ g.current = up
      /\ g.alt = h.nodes[c].altBefore /\ g.open = FALSE
      /\ g.altSeq = h.altSeq /\ g.savedAlt = h.savedAlt /\ g.maxUndo = h.maxUndo
  <2> DEFINE before == h.nodes[c].altBefore
  <2>1. g = [h EXCEPT !.current = up, !.alt = before, !.open = FALSE]
    BY DEF Undone
  <2>2. up \in Nat /\ before \in Nat
    BY <1>1, <1>2
  <2> HIDE DEF up, before
  <2>3. Typed(g) /\ g.nodes = h.nodes /\ g.root = h.root /\ g.current = up
        /\ g.alt = before /\ g.open = FALSE
        /\ g.altSeq = h.altSeq /\ g.savedAlt = h.savedAlt /\ g.maxUndo = h.maxUndo
    BY <1>0, <2>1, <2>2 DEF Typed
  <2> QED
    BY <2>3 DEF before
<1>4. Tree(g)
  BY <1>0, <1>1, <1>3 DEF Tree
<1>5. Prefers(g) /\ RootIsBare(g)
  BY <1>0, <1>3 DEF Prefers, RootIsBare, Children
<1>6. L = Append(ToCurrent(g), c)
  <2>1. L = Append(LineTo(h, up), c)
    BY <1>0, <1>1, LineSteps DEF ToCurrent
  <2>2. LineTo(h, up) = LineTo(g, up)
    BY <1>3 DEF LineTo
  <2> QED
    BY <1>3, <2>1, <2>2 DEF ToCurrent
<1>7. Retraces(g)
  <2> DEFINE M == ToCurrent(g)
  <2>1. M \in Seq(D) /\ Len(M) \in Nat \ {0} /\ UndoDepth(g) = Len(M) - 1
    BY <1>3, <1>4, CurrentLine
  <2> HIDE DEF M
  <2>2. Len(Append(M, c)) = Len(M) + 1 /\ \A i \in 1..Len(M) : Append(M, c)[i] = M[i]
    BY <1>0, <2>1, AppendProperties
  <2>3. UndoDepth(h) = Len(M)
    BY <1>6, <2>1, <2>2 DEF UndoDepth, M
  <2> SUFFICES ASSUME NEW n \in 1..(Len(M) - 1) PROVE h.nodes[M[n]].preferred = M[n + 1]
    BY <1>3, <2>1 DEF Retraces, M
  <2>4. n \in 1..Len(M) /\ n + 1 \in 1..Len(M) /\ n \in 1..UndoDepth(h)
    BY <2>1, <2>3
  <2>5. h.nodes[L[n]].preferred = L[n + 1]
    BY <1>0, <2>4 DEF Retraces
  <2>6. L[n] = M[n] /\ L[n + 1] = M[n + 1]
    BY <1>6, <2>2, <2>4 DEF M
  <2> QED
    BY <2>5, <2>6
<1>8. Shape(g)
  BY <1>3, <1>4, <1>5, <1>7 DEF Shape
<1> QED
  BY <1>1, <1>3, <1>8

\* Redo goes to the preferred child and changes nothing else of the tree.
LEMMA RedoneFacts ==
  ASSUME NEW h, Shape(h), CanRedo(h), NEW g, g = Redone(h)
  PROVE  /\ Shape(g) /\ g.nodes = h.nodes /\ g.root = h.root /\ g.current \in DOMAIN h.nodes
         /\ g.current = h.nodes[h.current].preferred /\ g.current # h.root
         /\ h.nodes[g.current].parent = h.current
         /\ g.alt = h.nodes[g.current].altAfter /\ g.open = FALSE
         /\ g.altSeq = h.altSeq /\ g.savedAlt = h.savedAlt /\ g.maxUndo = h.maxUndo
<1> DEFINE L == ToCurrent(h)
           D == DOMAIN h.nodes
           c == h.current
           on == h.nodes[c].preferred
<1>0. Tree(h) /\ Typed(h) /\ Prefers(h) /\ RootIsBare(h) /\ Retraces(h) /\ c \in D
  BY DEF Shape, Tree
<1>1. on \in D /\ h.nodes[on].parent = c
  BY <1>0 DEF CanRedo, Prefers, Children
<1>2. on # h.root /\ on \in Nat /\ c \in Nat /\ c < on
  <2>1. c \in Nat /\ on \in Nat
    BY <1>0, <1>1, TreeFacts
  <2>2. on # h.root
    BY <1>0, <1>1, <2>1 DEF RootIsBare, NoNode
  <2> QED
    BY <1>0, <1>1, <2>1, <2>2, TreeFacts
<1>3. h.nodes[on].altAfter \in Nat
  <2>1. h.nodes[on] \in NodeSet
    BY <1>0, <1>1 DEF Typed
  <2> QED
    BY <2>1 DEF NodeSet
<1>4. Typed(g) /\ g.nodes = h.nodes /\ g.root = h.root /\ g.current = on
      /\ g.alt = h.nodes[on].altAfter /\ g.open = FALSE
      /\ g.altSeq = h.altSeq /\ g.savedAlt = h.savedAlt /\ g.maxUndo = h.maxUndo
  <2> DEFINE after == h.nodes[on].altAfter
  <2>1. g = [h EXCEPT !.current = on, !.alt = after, !.open = FALSE]
    BY DEF Redone, Redoing
  <2>2. on \in Nat /\ after \in Nat
    BY <1>2, <1>3
  <2> HIDE DEF on, after
  <2>3. Typed(g) /\ g.nodes = h.nodes /\ g.root = h.root /\ g.current = on
        /\ g.alt = after /\ g.open = FALSE
        /\ g.altSeq = h.altSeq /\ g.savedAlt = h.savedAlt /\ g.maxUndo = h.maxUndo
    BY <1>0, <2>1, <2>2 DEF Typed
  <2> QED
    BY <2>3 DEF after
<1>5. Tree(g)
  BY <1>0, <1>1, <1>4 DEF Tree
<1>6. Prefers(g) /\ RootIsBare(g)
  BY <1>0, <1>4 DEF Prefers, RootIsBare, Children
<1>7. ToCurrent(g) = Append(L, on)
  <2>1. LineTo(h, on) = Append(L, on)
    BY <1>0, <1>1, <1>2, LineSteps DEF ToCurrent
  <2>2. LineTo(h, on) = LineTo(g, on)
    BY <1>4 DEF LineTo
  <2> QED
    BY <1>4, <2>1, <2>2 DEF ToCurrent
<1>8. Retraces(g)
  <2>1. L \in Seq(D) /\ Len(L) \in Nat \ {0} /\ UndoDepth(h) = Len(L) - 1 /\ L[Len(L)] = c
    BY <1>0, CurrentLine DEF IsLine
  <2> HIDE DEF L
  <2>2. /\ Len(Append(L, on)) = Len(L) + 1 /\ \A i \in 1..Len(L) : Append(L, on)[i] = L[i]
        /\ Append(L, on)[Len(L) + 1] = on
    BY <1>1, <2>1, AppendProperties
  <2>3. UndoDepth(g) = Len(L)
    BY <1>7, <2>1, <2>2 DEF UndoDepth
  <2> SUFFICES ASSUME NEW n \in 1..Len(L)
               PROVE  h.nodes[Append(L, on)[n]].preferred = Append(L, on)[n + 1]
    BY <1>4, <1>7, <2>3 DEF Retraces
  <2>4. CASE n = Len(L)
    BY <2>1, <2>2, <2>4
  <2>5. CASE n # Len(L)
    <3>1. n \in 1..UndoDepth(h) /\ n + 1 \in 1..Len(L)
      BY <2>1, <2>5
    <3>2. h.nodes[L[n]].preferred = L[n + 1]
      BY <1>0, <3>1 DEF Retraces, L
    <3> QED
      BY <2>2, <3>1, <3>2
  <2> QED
    BY <2>4, <2>5
<1>9. Shape(g)
  BY <1>4, <1>5, <1>6, <1>8 DEF Shape
<1> QED
  BY <1>1, <1>2, <1>4, <1>9

\* Steering changes what the current node prefers, which is not on the line before it.
LEMMA SteeredFacts ==
  ASSUME NEW h, Shape(h), NEW child \in Children(h, h.current), NEW g, g = Steered(h, child)
  PROVE  /\ Shape(g) /\ DOMAIN g.nodes = DOMAIN h.nodes /\ g.root = h.root
         /\ g.current = h.current /\ g.open = h.open /\ g.alt = h.alt
         /\ g.altSeq = h.altSeq /\ g.savedAlt = h.savedAlt /\ g.maxUndo = h.maxUndo
         /\ \A n \in DOMAIN h.nodes : n # h.current => g.nodes[n] = h.nodes[n]
         /\ g.nodes[h.current] = [h.nodes[h.current] EXCEPT !.preferred = child]
<1> DEFINE D == DOMAIN h.nodes
           L == ToCurrent(h)
           c == h.current
           node == h.nodes[c]
           new == [node EXCEPT !.preferred = child]
           N == [h.nodes EXCEPT ![c] = new]
<1>0. Tree(h) /\ Typed(h) /\ Prefers(h) /\ RootIsBare(h) /\ Retraces(h) /\ c \in D
  BY DEF Shape, Tree
<1>1. child \in D /\ h.nodes[child].parent = c /\ child \in Nat
  BY <1>0, TreeFacts DEF Children
<1>2. node \in NodeSet /\ h.nodes \in [D -> NodeSet]
  BY <1>0 DEF Typed
<1>3. new \in NodeSet /\ new.parent = node.parent /\ new.op = node.op /\ new.preferred = child
  <2>1. child \in Int
    BY <1>1
  <2> HIDE DEF node
  <2>2. new \in NodeSet /\ new.parent = node.parent
    BY <1>2, <2>1, NodePreferring
  <2>3. new.op = node.op /\ new.preferred = child
    BY <1>2 DEF NodeSet
  <2> QED
    BY <2>2, <2>3
<1>4. g = [h EXCEPT !.nodes = N]
  <2>1. g = [h EXCEPT !.nodes = [h.nodes EXCEPT ![c] = new]]
    BY <1>0 DEF Steered, Typed
  <2> QED
    BY <2>1
<1> HIDE DEF new, node
<1>5. N \in [D -> NodeSet] /\ DOMAIN N = D /\ N[c] = new /\ \A n \in D : n # c => N[n] = h.nodes[n]
  BY <1>0, <1>2, <1>3
<1> HIDE DEF N
<1>6. /\ g.nodes = N /\ g.root = h.root /\ g.current = c /\ g.open = h.open
      /\ g.alt = h.alt /\ g.altSeq = h.altSeq /\ g.savedAlt = h.savedAlt /\ g.maxUndo = h.maxUndo
      /\ g \in [nodes : {N}, root : Nat, current : Nat, open : BOOLEAN, alt : Nat,
                altSeq : Nat, savedAlt : Nat, maxUndo : Nat \cup {NoLimit}]
  BY <1>0, <1>4 DEF Typed
<1>7. Typed(g)
  BY <1>5, <1>6 DEF Typed
<1>8. \A n \in D : g.nodes[n].parent = h.nodes[n].parent /\ g.nodes[n].op = h.nodes[n].op
  BY <1>3, <1>5, <1>6 DEF node
<1>9. Tree(g)
  BY <1>0, <1>5, <1>6, <1>8 DEF Tree
<1>10. \A n : Children(g, n) = Children(h, n)
  BY <1>5, <1>6, <1>8 DEF Children
<1>11. Prefers(g)
  BY <1>0, <1>3, <1>5, <1>6, <1>10 DEF Prefers
<1>12. RootIsBare(g)
  <2>1. h.root \in D
    BY <1>0 DEF Tree
  <2> QED
    BY <1>0, <1>6, <1>8, <2>1 DEF RootIsBare
<1>13. IsLine(h, L, c) /\ L \in Seq(D) /\ Len(L) \in Nat \ {0} /\ UndoDepth(h) = Len(L) - 1
       /\ L[Len(L)] = c
  BY <1>0, CurrentLine DEF IsLine
<1> HIDE DEF L
<1>14. IsLine(g, L, c)
  <2>1. DOMAIN h.nodes \subseteq DOMAIN g.nodes
    BY <1>5, <1>6
  <2> QED
    BY <1>6, <1>8, <1>13, <2>1, SameLine
<1>15. ToCurrent(g) = L
  BY <1>6, <1>9, <1>14, LineUnique DEF ToCurrent
<1>16. UndoDepth(g) = UndoDepth(h)
  BY <1>15 DEF UndoDepth, L
<1>17. Retraces(g)
  <2> SUFFICES ASSUME NEW n \in 1..UndoDepth(h) PROVE g.nodes[L[n]].preferred = L[n + 1]
    BY <1>15, <1>16 DEF Retraces
  <2>1. n \in 1..Len(L) /\ Len(L) \in 1..Len(L) /\ n < Len(L)
    BY <1>13
  <2>2. L[n] < c /\ L[n] \in D
    BY <1>0, <1>13, <2>1, LineGrows, ElementOfSeq
  <2>3. L[n] \in Nat /\ c \in Nat
    BY <1>0, <2>2, TreeFacts
  <2>4. h.nodes[L[n]].preferred = L[n + 1]
    BY <1>0 DEF Retraces, L
  <2> QED
    BY <1>5, <1>6, <2>2, <2>3, <2>4
<1>18. Shape(g)
  BY <1>7, <1>9, <1>11, <1>12, <1>17 DEF Shape
<1> QED
  BY <1>5, <1>6, <1>18 DEF new, node

----------------------------------------------------------------------------
\* A set of subsets that holds every one whose smaller parts it holds, holds a finite whole.
LEMMA FiniteInduction ==
  ASSUME NEW K, IsFiniteSet(K), NEW Good, {} \in Good,
         \A S \in SUBSET K : S # {} /\ (\A x \in S : S \ {x} \in Good) => S \in Good
  PROVE  K \in Good
<1> DEFINE k == Cardinality(K)
           Done == {c \in Nat : \A S \in SUBSET K : Cardinality(S) <= c => S \in Good}
<1>1. k \in Nat
  BY FS_CardinalityType
<1>2. \A S \in SUBSET K : IsFiniteSet(S) /\ Cardinality(S) \in Nat /\ (Cardinality(S) = 0 => S = {})
  BY FS_Subset, FS_CardinalityType, FS_EmptySet
<1>3. 0 \in Done
  <2>1. \A S \in SUBSET K : Cardinality(S) <= 0 => Cardinality(S) = 0
    BY <1>2
  <2> QED
    BY <1>2, <2>1
<1>4. \A c \in 0..(k - 1) : c \in Done => c + 1 \in Done
  <2> SUFFICES ASSUME NEW c \in 0..(k - 1), c \in Done,
                      NEW S \in SUBSET K, Cardinality(S) <= c + 1
               PROVE  S \in Good
    BY <1>1
  <2>1. CASE S = {}
    BY <2>1
  <2>2. CASE S # {}
    <3>1. ASSUME NEW x \in S PROVE S \ {x} \in Good
      <4>1. Cardinality(S \ {x}) = Cardinality(S) - 1
        BY <1>2, FS_RemoveElement
      <4>2. S \ {x} \in SUBSET K /\ Cardinality(S \ {x}) <= c
        BY <1>1, <1>2, <4>1
      <4> QED
        BY <4>2
    <3> QED
      BY <2>2, <3>1
  <2> QED
    BY <2>1, <2>2
<1>5. k \in Done
  <2> HIDE DEF Done, k
  <2>1. k \in 0..k
    BY <1>1
  <2> QED
    BY <1>1, <1>3, <1>4, <2>1, UpInduction
<1> QED
  BY <1>1, <1>5

\* An op comes before another in a normalized batch.
Ahead(norm, i, j) == norm[i].start < norm[j].start \/ (norm[i].start = norm[j].start /\ i < j)

\* A sequence of the kept edits, by start and, at one start, in the order given.
Sorts(norm, K, at) ==
  /\ at \in [1..Cardinality(K) -> K]
  /\ \A n \in DOMAIN at : \A m \in 1..(n - 1) : Ahead(norm, at[m], at[n])

\* Of finitely many kept edits one comes after all the others.
LEMMA LastExists ==
  ASSUME NEW norm, NEW K \in SUBSET Nat, IsFiniteSet(K), \A i \in K : norm[i].start \in Nat
  PROVE  K = {} \/ \E x \in K : \A y \in K \ {x} : Ahead(norm, y, x)
<1> DEFINE ComesLast(S, x) == \A y \in S \ {x} : Ahead(norm, y, x)
           Good == {S \in SUBSET K : S = {} \/ \E x \in S : ComesLast(S, x)}
<1>1. ASSUME NEW S \in SUBSET K, S # {}, \A x \in S : S \ {x} \in Good
      PROVE  S \in Good
  <2>1. PICK x : x \in S
    BY <1>1
  <2>2. CASE S \ {x} = {}
    <3>1. ComesLast(S, x)
      BY <2>2
    <3> QED
      BY <2>1, <3>1
  <2>3. CASE S \ {x} # {}
    <3>1. PICK y \in S \ {x} : ComesLast(S \ {x}, y)
      BY <1>1, <2>1, <2>3
    <3>2. x \in Nat /\ y \in Nat /\ x # y /\ norm[x].start \in Nat /\ norm[y].start \in Nat
      BY <1>1, <2>1, <3>1
    <3>3. CASE Ahead(norm, x, y)
      <4>1. ComesLast(S, y)
        BY <3>1, <3>3
      <4> QED
        BY <3>1, <4>1
    <3>4. CASE ~Ahead(norm, x, y)
      <4>1. Ahead(norm, y, x)
        BY <3>2, <3>4 DEF Ahead
      <4>2. ASSUME NEW z \in S \ {x} PROVE Ahead(norm, z, x)
        <5>1. z = y \/ Ahead(norm, z, y)
          BY <3>1
        <5>2. z \in Nat /\ norm[z].start \in Nat
          BY <1>1
        <5> QED
          BY <3>2, <4>1, <5>1, <5>2 DEF Ahead
      <4>3. ComesLast(S, x)
        BY <4>2
      <4> QED
        BY <2>1, <4>3
    <3> QED
      BY <3>3, <3>4
  <2> QED
    BY <2>2, <2>3
<1>2. {} \in Good
  OBVIOUS
<1> HIDE DEF Good
<1>3. K \in Good
  BY <1>1, <1>2, FiniteInduction
<1> QED
  BY <1>3 DEF Good

\* So finitely many can be put in order.
LEMMA OrderExists ==
  ASSUME NEW norm, NEW K \in SUBSET Nat, IsFiniteSet(K), \A i \in K : norm[i].start \in Nat
  PROVE  \E at : Sorts(norm, K, at)
<1> DEFINE Good == {S \in SUBSET K : \E at : Sorts(norm, S, at)}
<1>0. \A S \in SUBSET K : IsFiniteSet(S) /\ Cardinality(S) \in Nat
  BY FS_Subset, FS_CardinalityType
<1>1. {} \in Good
  <2>1. Cardinality({}) = 0
    BY FS_EmptySet
  <2>2. Sorts(norm, {}, <<>>)
    BY <2>1 DEF Sorts
  <2> QED
    BY <2>2
<1>2. ASSUME NEW S \in SUBSET K, S # {}, \A x \in S : S \ {x} \in Good
      PROVE  S \in Good
  <2>1. PICK x \in S : \A y \in S \ {x} : Ahead(norm, y, x)
    BY <1>0, <1>2, LastExists
  <2> DEFINE c == Cardinality(S)
  <2>2. PICK f : Sorts(norm, S \ {x}, f)
    BY <1>2
  <2>3. c \in Nat /\ Cardinality(S \ {x}) = c - 1 /\ c - 1 \in Nat
    <3>1. Cardinality(S \ {x}) = Cardinality(S) - 1
      BY <1>0, FS_RemoveElement
    <3>2. S \ {x} \in SUBSET K
      OBVIOUS
    <3> QED
      BY <1>0, <3>1, <3>2
  <2> HIDE DEF c
  <2> DEFINE at == [n \in 1..c |-> IF n = c THEN x ELSE f[n]]
  <2>4. f \in [1..(c - 1) -> S \ {x}]
        /\ \A n \in 1..(c - 1) : \A m \in 1..(n - 1) : Ahead(norm, f[m], f[n])
    BY <2>2, <2>3 DEF Sorts
  <2>5. at \in [1..c -> S]
    BY <2>3, <2>4
  <2>6. ASSUME NEW n \in 1..c, NEW m \in 1..(n - 1)
        PROVE  Ahead(norm, at[m], at[n])
    <3>1. m \in 1..(c - 1) /\ m \in 1..c /\ m # c
      BY <2>3
    <3>2. at[m] = f[m] /\ f[m] \in S \ {x}
      BY <2>4, <3>1
    <3>3. CASE n = c
      BY <2>1, <3>2, <3>3
    <3>4. CASE n # c
      <4>1. n \in 1..(c - 1)
        BY <2>3, <3>4
      <4> QED
        BY <2>4, <3>2, <3>4, <4>1
    <3> QED
      BY <3>3, <3>4
  <2>7. Sorts(norm, S, at)
    <3> HIDE DEF at
    <3>1. DOMAIN at = 1..c
      BY <2>5
    <3> QED
      BY <2>5, <2>6, <3>1 DEF Sorts, c
  <2> HIDE DEF at
  <2> QED
    BY <2>7
<1> HIDE DEF Good
<1>3. K \in Good
  BY <1>1, <1>2, FiniteInduction
<1> QED
  BY <1>3 DEF Good

\* There is one way to sort numbers that are in order.
LEMMA OrderOfSorted ==
  ASSUME NEW norm, NEW k \in Nat, NEW at, Sorts(norm, 1..k, at),
         \A i \in 1..k : norm[i].start \in Nat,
         \A i, j \in 1..k : i < j => ~Ahead(norm, j, i)
  PROVE  at = [n \in 1..k |-> n]
<1>1. IsFiniteSet(1..k) /\ Cardinality(1..k) = k
  BY FS_Interval
<1>2. /\ at \in [1..k -> 1..k]
      /\ \A n \in 1..k : \A m \in 1..(n - 1) : Ahead(norm, at[m], at[n])
  BY <1>1 DEF Sorts
<1>3. \A n \in 1..k : \A m \in 1..(n - 1) : at[m] < at[n]
  <2> SUFFICES ASSUME NEW n \in 1..k, NEW m \in 1..(n - 1) PROVE at[m] < at[n]
    OBVIOUS
  <2>1. at[m] \in 1..k /\ at[n] \in 1..k /\ Ahead(norm, at[m], at[n])
    BY <1>2
  <2>2. at[m] # at[n]
    <3> SUFFICES ASSUME at[m] = at[n] PROVE FALSE
      OBVIOUS
    <3> DEFINE i == at[m]
    <3>1. norm[i].start < norm[i].start \/ i < i
      BY <2>1 DEF Ahead
    <3>2. i \in 1..k
      BY <2>1
    <3> HIDE DEF i
    <3>3. ~(i < i)
      BY <3>2
    <3>4. ~(norm[i].start < norm[i].start)
      BY <3>2
    <3> QED
      BY <3>1, <3>3, <3>4
  <2>3. ~(at[n] < at[m])
    BY <2>1
  <2> QED
    BY <2>1, <2>2, <2>3
<1> DEFINE Up == {n \in Nat : n \in 1..k => at[n] >= n}
           Down == {n \in Nat : k - n \in 1..k => at[k - n] <= k - n}
<1>4. \A n \in 0..k : n \in Up
  <2>1. 0 \in Up
    OBVIOUS
  <2>2. \A n \in 0..(k - 1) : n \in Up => n + 1 \in Up
    <3> SUFFICES ASSUME NEW n \in 0..(k - 1), n \in Up PROVE at[n + 1] >= n + 1
      OBVIOUS
    <3>1. CASE n = 0
      BY <1>2, <3>1
    <3>2. CASE n # 0
      <4>1. n \in 1..k /\ n + 1 \in 1..k /\ n \in 1..((n + 1) - 1)
        BY <3>2
      <4>2. at[n] < at[n + 1] /\ at[n] >= n /\ at[n] \in Nat /\ at[n + 1] \in Nat
        BY <1>2, <1>3, <4>1
      <4> QED
        BY <4>2
    <3> QED
      BY <3>1, <3>2
  <2> HIDE DEF Up
  <2> QED
    BY <2>1, <2>2, UpInduction
<1>5. \A n \in 0..k : n \in Down
  <2>1. 0 \in Down
    BY <1>2
  <2>2. \A n \in 0..(k - 1) : n \in Down => n + 1 \in Down
    <3> SUFFICES ASSUME NEW n \in 0..(k - 1), n \in Down, k - (n + 1) \in 1..k
                 PROVE  at[k - (n + 1)] <= k - (n + 1)
      OBVIOUS
    <3> DEFINE m == k - (n + 1)
    <3>1. m \in 1..k /\ k - n \in 1..k /\ m \in 1..((k - n) - 1) /\ m = (k - n) - 1
      OBVIOUS
    <3>2. at[m] < at[k - n] /\ at[k - n] <= k - n /\ at[m] \in Nat /\ at[k - n] \in Nat
      BY <1>2, <1>3, <3>1
    <3> QED
      BY <3>1, <3>2
  <2> HIDE DEF Down
  <2> QED
    BY <2>1, <2>2, UpInduction
<1>6. \A n \in 1..k : at[n] = n
  <2> SUFFICES ASSUME NEW n \in 1..k PROVE at[n] = n
    OBVIOUS
  <2>1. n \in 0..k /\ k - n \in 0..k /\ k - (k - n) = n /\ n \in 1..k /\ at[n] \in Nat
    BY <1>2
  <2>2. at[n] >= n
    BY <1>4, <2>1
  <2>3. at[n] <= n
    <3>1. k - n \in Down
      BY <1>5, <2>1
    <3> QED
      BY <2>1, <3>1
  <2> QED
    BY <2>1, <2>2, <2>3
<1> QED
  BY <1>2, <1>6

----------------------------------------------------------------------------
\* An op that stays within a text, and changes it.
Fits(t, op) == op.start <= op.stop /\ op.stop <= Len(t) /\ Changing(op)

\* A batch that normalizing leaves alone.
Normal(t, ops) ==
  ops \in Seq(OpSet) /\ (\A n \in 1..Len(ops) : Fits(t, ops[n])) /\ Disjoint(ops)

\* The library's greatest and least of two numbers.
LEMMA MinMax ==
  ASSUME NEW a \in Nat, NEW b \in Nat
  PROVE  /\ Max({a, b}) = IF a >= b THEN a ELSE b
         /\ Min({a, b}) = IF a <= b THEN a ELSE b
<1>1. Max({a, b}) = IF a >= b THEN a ELSE b
  BY DEF Max
<1>2. Min({a, b}) = IF a <= b THEN a ELSE b
  BY DEF Min
<1> QED
  BY <1>1, <1>2

\* And the least of three.
LEMMA MinOfThree ==
  ASSUME NEW a \in Nat, NEW b \in Nat, NEW c \in Nat
  PROVE  Min({a, b, c}) = IF a <= b /\ a <= c THEN a ELSE IF b <= c THEN b ELSE c
<1> DEFINE m == IF a <= b /\ a <= c THEN a ELSE IF b <= c THEN b ELSE c
<1>1. m \in {a, b, c} /\ \A y \in {a, b, c} : m <= y
  OBVIOUS
<1>2. \A x \in {a, b, c} : (\A y \in {a, b, c} : x <= y) => x = m
  OBVIOUS
<1> HIDE DEF m
<1>3. (CHOOSE x \in {a, b, c} : \A y \in {a, b, c} : x <= y) = m
  BY <1>1, <1>2
<1>4. Min({a, b, c}) = m
  BY <1>3 DEF Min
<1> QED
  BY <1>4 DEF m

\* A clipped edit lies in the text, and one that did is itself.
LEMMA ClippedFacts ==
  ASSUME NEW t, Len(t) \in Nat, NEW op \in OpSet
  PROVE  /\ Clipped(t, op) \in OpSet
         /\ Clipped(t, op).start <= Clipped(t, op).stop /\ Clipped(t, op).stop <= Len(t)
         /\ op.start <= op.stop /\ op.stop <= Len(t) => Clipped(t, op) = op
<1> DEFINE a == op.start
           b == op.stop
           c == Len(t)
           top == Max({a, b})
           low == Min({a, b, c})
           high == Min({top, c})
<1>1. a \in Nat /\ b \in Nat /\ c \in Nat /\ op.text \in Texts
      /\ op = [start |-> a, stop |-> b, text |-> op.text]
  BY DEF OpSet
<1>2. Clipped(t, op) = [start |-> low, stop |-> high, text |-> op.text]
  BY DEF Clipped, EditOp
<1> HIDE DEF a, b, c
<1>m. top = IF a >= b THEN a ELSE b
  BY <1>1, MinMax
<1>l. low = IF a <= b /\ a <= c THEN a ELSE IF b <= c THEN b ELSE c
  BY <1>1, MinOfThree
<1>3. top = (IF a >= b THEN a ELSE b)
      /\ low = (IF a <= b /\ a <= c THEN a ELSE IF b <= c THEN b ELSE c)
  BY <1>m, <1>l
<1> HIDE DEF low
<1>4. top \in Nat
  BY <1>1, <1>3
<1> HIDE DEF top
<1>5. high = IF top <= c THEN top ELSE c
  BY <1>1, <1>4, MinMax
<1> HIDE DEF high
<1>6. low \in Nat /\ high \in Nat /\ low <= high /\ high <= c
      /\ (a <= b /\ b <= c => low = a /\ high = b)
  BY <1>1, <1>3, <1>4, <1>5
<1>7. [start |-> low, stop |-> high, text |-> op.text] \in OpSet
  BY <1>1, <1>6 DEF OpSet
<1>8. ASSUME a <= b, b <= c PROVE Clipped(t, op) = op
  BY <1>1, <1>2, <1>6, <1>8
<1>9. Clipped(t, op).start = low /\ Clipped(t, op).stop = high
  BY <1>2
<1> QED
  BY <1>2, <1>6, <1>7, <1>8, <1>9 DEF a, b, c

\* A batch's ops within the text, those that change it, and the batch as at sorts it.
Within(t, ops) == [i \in DOMAIN ops |-> Clipped(t, ops[i])]
Kept(t, ops) == {i \in DOMAIN ops : Changing(Within(t, ops)[i])}
InOrder(t, ops, at) == [n \in DOMAIN at |-> Within(t, ops)[at[n]]]

\* Normalized gives the kept edits in an order that sorts them.
LEMMA NormalizedForm ==
  ASSUME NEW t, NEW ops, \E f : Sorts(Within(t, ops), Kept(t, ops), f)
  PROVE  \E at : Sorts(Within(t, ops), Kept(t, ops), at) /\ Normalized(t, ops) = InOrder(t, ops, at)
<1> DEFINE norm == Within(t, ops)
           K == Kept(t, ops)
           at == CHOOSE f \in [1..Cardinality(K) -> K] :
                   \A n \in DOMAIN f : \A m \in 1..(n - 1) : Ahead(norm, f[m], f[n])
<1>1. Sorts(norm, K, at)
  BY DEF Sorts
<1>2. Normalized(t, ops) = InOrder(t, ops, at)
  BY DEF Normalized, Ahead, InOrder, Within, Kept
<1> HIDE DEF at
<1> QED
  BY <1>1, <1>2

\* What is left of a batch fits the text.
LEMMA NormalizedFits ==
  ASSUME NEW t, Len(t) \in Nat, NEW ops \in Seq(OpSet)
  PROVE  /\ Normalized(t, ops) \in Seq(OpSet)
         /\ \A n \in 1..Len(Normalized(t, ops)) : Fits(t, Normalized(t, ops)[n])
         /\ Len(Normalized(t, ops)) <= Len(ops)
<1> DEFINE norm == Within(t, ops)
           K == Kept(t, ops)
           l == Len(ops)
<1>1. l \in Nat /\ DOMAIN ops = 1..l /\ K \in SUBSET (1..l) /\ K \in SUBSET Nat
  BY LenProperties DEF Kept
<1>2. \A i \in 1..l : ops[i] \in OpSet
  BY <1>1, ElementOfSeq
<1>3. \A i \in 1..l : norm[i] \in OpSet /\ norm[i].start <= norm[i].stop /\ norm[i].stop <= Len(t)
  BY <1>1, <1>2, ClippedFacts DEF Within
<1>4. \A i \in K : i \in 1..l /\ Changing(norm[i])
  BY <1>1 DEF Kept
<1> HIDE DEF norm
<1>5. IsFiniteSet(K) /\ Cardinality(K) \in Nat /\ Cardinality(K) <= l
  <2> HIDE DEF K, l
  <2>1. IsFiniteSet(1..l) /\ Cardinality(1..l) = l
    BY <1>1, FS_Interval
  <2>2. IsFiniteSet(K) /\ Cardinality(K) <= Cardinality(1..l)
    <3>1. K \in SUBSET (1..l)
      BY <1>1
    <3> QED
      BY <2>1, <3>1, FS_Subset
  <2> QED
    BY <2>1, <2>2, FS_CardinalityType
<1>6. \A i \in K : norm[i].start \in Nat
  BY <1>3, <1>4 DEF OpSet
<1>7. \E f : Sorts(norm, K, f)
  <2> HIDE DEF K
  <2> QED
    BY <1>1, <1>5, <1>6, OrderExists
<1>7a. PICK at : Sorts(Within(t, ops), K, at) /\ Normalized(t, ops) = InOrder(t, ops, at)
  BY <1>7, NormalizedForm DEF norm
<1>8. Sorts(norm, K, at) /\ Normalized(t, ops) = [n \in DOMAIN at |-> norm[at[n]]]
  BY <1>7a DEF norm, InOrder
<1> HIDE DEF K, l
<1> DEFINE k == Cardinality(K)
           new == Normalized(t, ops)
<1>9. at \in [1..k -> K] /\ DOMAIN at = 1..k
  BY <1>8 DEF Sorts
<1>10. new = [n \in 1..k |-> norm[at[n]]] /\ \A n \in 1..k : norm[at[n]] \in OpSet
  BY <1>3, <1>4, <1>8, <1>9
<1> HIDE DEF new
<1>11. new \in Seq(OpSet) /\ Len(new) = k
  BY <1>5, <1>10
<1>12. \A n \in 1..k : Fits(t, new[n])
  <2> SUFFICES ASSUME NEW n \in 1..k PROVE Fits(t, norm[at[n]])
    BY <1>10
  <2>1. at[n] \in K
    BY <1>9
  <2> QED
    BY <1>3, <1>4, <2>1 DEF Fits
<1> QED
  BY <1>5, <1>11, <1>12 DEF new, l

\* In a batch without overlaps, what comes later starts later.
LEMMA StartsGrow ==
  ASSUME NEW ops \in Seq(OpSet), \A n \in 1..Len(ops) : ops[n].start <= ops[n].stop, Disjoint(ops),
         NEW i \in 1..Len(ops), NEW j \in 1..Len(ops), i < j
  PROVE  ops[i].stop <= ops[j].start
<1> DEFINE l == Len(ops)
           a(n) == ops[n].start
           b(n) == ops[n].stop
           Good == {k \in Nat : i + 1 + k <= l => b(i) <= a(i + 1 + k)}
<1>1. l \in Nat /\ \A n \in 1..l : a(n) \in Nat /\ b(n) \in Nat
  <2>1. \A n \in 1..l : ops[n] \in OpSet
    BY ElementOfSeq
  <2> QED
    BY <2>1, LenProperties DEF OpSet
<1>2. \A n \in 1..l : a(n) <= b(n)
  OBVIOUS
<1>3. \A n \in 1..(l - 1) : b(n) <= a(n + 1)
  BY DEF Disjoint
<1>4. i \in 1..l /\ j \in 1..l
  OBVIOUS
<1> HIDE DEF l, a, b
<1>5. 0 \in Good
  BY <1>1, <1>3, <1>4
<1>6. \A k \in 0..(j - i - 2) : k \in Good => k + 1 \in Good
  <2> SUFFICES ASSUME NEW k \in 0..(j - i - 2), k \in Good, i + 1 + (k + 1) <= l
               PROVE  b(i) <= a(i + 1 + (k + 1))
    OBVIOUS
  <2> DEFINE m == i + 1 + k
  <2>1. m \in 1..(l - 1) /\ m \in 1..l /\ m + 1 \in 1..l /\ i + 1 + (k + 1) = m + 1
    BY <1>1, <1>4
  <2>2. b(i) <= a(m)
    BY <1>1, <2>1
  <2> HIDE DEF m
  <2>3. a(m) <= b(m) /\ b(m) <= a(m + 1)
    BY <1>2, <1>3, <2>1
  <2>4. b(i) \in Nat /\ a(m) \in Nat /\ b(m) \in Nat /\ a(m + 1) \in Nat
    BY <1>1, <1>4, <2>1
  <2>5. b(i) <= a(m + 1)
    BY <2>2, <2>3, <2>4
  <2> QED
    BY <2>1, <2>5
<1>7. j - i - 1 \in Nat /\ (j - i - 1) - 1 = j - i - 2 /\ j - i - 1 \in 0..(j - i - 1)
      /\ i + 1 + (j - i - 1) = j
  BY <1>1, <1>4
<1>8. j - i - 1 \in Good
  <2> DEFINE d == j - i - 1
  <2> HIDE DEF Good
  <2>1. d \in Nat /\ d - 1 = j - i - 2 /\ d \in 0..d
    BY <1>7
  <2>2. \A k \in 0..(d - 1) : k \in Good => k + 1 \in Good
    BY <1>6, <2>1
  <2> HIDE DEF d
  <2>3. d \in Good
    BY <1>5, <2>1, <2>2, UpInduction
  <2> QED
    BY <2>3 DEF d
<1>9. b(i) <= a(j)
  BY <1>1, <1>4, <1>7, <1>8
<1> QED
  BY <1>9 DEF a, b

\* A normal batch is left as it is: replaying what was logged applies what was applied.
LEMMA NormalizedAgain ==
  ASSUME NEW t, Len(t) \in Nat, NEW ops, Normal(t, ops)
  PROVE  Normalized(t, ops) = ops
<1> DEFINE norm == Within(t, ops)
           K == Kept(t, ops)
           l == Len(ops)
<1>0. ops \in Seq(OpSet) /\ Disjoint(ops) /\ \A n \in 1..l : Fits(t, ops[n])
  BY DEF Normal
<1>1. l \in Nat /\ DOMAIN ops = 1..l /\ ops = [i \in 1..l |-> ops[i]]
  BY <1>0, LenProperties
<1>2. \A i \in 1..l : ops[i] \in OpSet /\ ops[i].start <= ops[i].stop
                      /\ ops[i].stop <= Len(t) /\ Changing(ops[i])
  BY <1>0, <1>1, ElementOfSeq DEF Fits
<1>3. \A i \in 1..l : Clipped(t, ops[i]) = ops[i]
  BY <1>1, <1>2, ClippedFacts
<1>4. norm = ops
  BY <1>1, <1>3 DEF Within
<1>5. K = 1..l
  BY <1>1, <1>2, <1>4 DEF Kept
<1>6. \A i \in 1..l : norm[i].start \in Nat /\ norm[i].stop \in Nat
  BY <1>2, <1>4 DEF OpSet
<1>7. \A i, j \in 1..l : i < j => ~Ahead(norm, j, i)
  <2> SUFFICES ASSUME NEW i \in 1..l, NEW j \in 1..l, i < j, Ahead(norm, j, i) PROVE FALSE
    OBVIOUS
  <2>1. norm[i].stop <= norm[j].start
    BY <1>0, <1>2, <1>4, StartsGrow
  <2>2. norm[i].start <= norm[i].stop
    BY <1>2, <1>4
  <2>3. norm[i].start \in Nat /\ norm[i].stop \in Nat /\ norm[j].start \in Nat
    BY <1>6
  <2>4. i \in Nat /\ j \in Nat
    BY <1>1
  <2>5. norm[j].start < norm[i].start \/ (norm[j].start = norm[i].start /\ j < i)
    BY DEF Ahead
  <2> DEFINE x == norm[i].start
             y == norm[j].start
             z == norm[i].stop
  <2> HIDE DEF x, y, z
  <2>6. x <= z /\ z <= y /\ x \in Nat /\ y \in Nat /\ z \in Nat /\ (y < x \/ (y = x /\ j < i))
    BY <2>1, <2>2, <2>3, <2>5 DEF x, y, z
  <2> QED
    BY <2>4, <2>6
<1>8. \E f : Sorts(norm, K, f)
  <2>1. IsFiniteSet(1..l) /\ 1..l \in SUBSET Nat
    BY <1>1, FS_Interval
  <2> HIDE DEF norm, K, l
  <2> QED
    BY <1>5, <1>6, <2>1, OrderExists
<1>8a. PICK at : Sorts(norm, K, at) /\ Normalized(t, ops) = InOrder(t, ops, at)
  BY <1>8, NormalizedForm
<1>9. Sorts(norm, K, at) /\ Normalized(t, ops) = [n \in DOMAIN at |-> norm[at[n]]]
  BY <1>8a DEF InOrder
<1>10. at = [n \in 1..l |-> n]
  <2> HIDE DEF norm, K, l
  <2> QED
    BY <1>1, <1>5, <1>6, <1>7, <1>9, OrderOfSorted
<1> HIDE DEF norm, K, l
<1> QED
  BY <1>1, <1>4, <1>9, <1>10

----------------------------------------------------------------------------
\* Slices of a text.
LEMMA SliceFacts ==
  ASSUME NEW t \in Texts, NEW a \in Nat, NEW b \in Nat, a <= b, b <= Len(t)
  PROVE  /\ Slice(t, a, b) \in Texts /\ Len(Slice(t, a, b)) = b - a
         /\ \A i \in 1..(b - a) : Slice(t, a, b)[i] = t[a + i]
<1>1. t \in Seq(Nat) /\ Len(t) \in Nat
  BY LenProperties DEF Texts
<1>2. \A i \in (a + 1)..b : t[i] \in Nat
  <2>1. \A i \in (a + 1)..b : i \in 1..Len(t)
    BY <1>1
  <2> QED
    BY <1>1, <2>1, ElementOfSeq
<1> DEFINE q == SubSeq(t, a + 1, b)
<1>3. q \in Seq(Nat) /\ Len(q) = (IF a + 1 <= b THEN b - (a + 1) + 1 ELSE 0)
      /\ \A i \in 1..(b - (a + 1) + 1) : q[i] = t[a + 1 + i - 1]
  <2>1. a + 1 \in Int /\ b \in Int
    OBVIOUS
  <2> QED
    BY <1>2, <2>1, SubSeqProperties
<1> HIDE DEF q
<1>4. Len(q) = b - a
  BY <1>3
<1>5. \A i \in 1..(b - a) : q[i] = t[a + i]
  <2> SUFFICES ASSUME NEW i \in 1..(b - a) PROVE q[i] = t[a + i]
    OBVIOUS
  <2>1. i \in 1..(b - (a + 1) + 1) /\ a + 1 + i - 1 = a + i
    OBVIOUS
  <2> QED
    BY <1>3, <2>1
<1> QED
  BY <1>3, <1>4, <1>5 DEF Slice, Texts, q

\* Slices that meet join up.
LEMMA SliceJoin ==
  ASSUME NEW t \in Texts, NEW a \in Nat, NEW b \in Nat, NEW c \in Nat,
         a <= b, b <= c, c <= Len(t)
  PROVE  Slice(t, a, b) \o Slice(t, b, c) = Slice(t, a, c)
<1>1. t \in Seq(Nat) /\ Len(t) \in Nat
  BY LenProperties DEF Texts
<1>2. a + 1 \in 1..(Len(t) + 1) /\ b \in ((a + 1) - 1)..Len(t) /\ c \in b..Len(t)
  BY <1>1
<1> QED
  BY <1>1, <1>2, ConcatAdjacentSubSeq DEF Slice

\* The slice from end to end is the text.
LEMMA SliceAll ==
  ASSUME NEW t \in Texts
  PROVE  Slice(t, 0, Len(t)) = t
BY SubSeqFull DEF Texts, Slice

\* What joining two texts gives.
LEMMA JoinFacts ==
  ASSUME NEW a \in Texts, NEW b \in Texts
  PROVE  /\ a \o b \in Texts /\ Len(a \o b) = Len(a) + Len(b) /\ Len(a) \in Nat /\ Len(b) \in Nat
         /\ \A i \in 1..Len(a) : (a \o b)[i] = a[i]
         /\ \A i \in 1..Len(b) : (a \o b)[Len(a) + i] = b[i]
<1>1. a \in Seq(Nat) /\ b \in Seq(Nat) /\ Len(a) \in Nat /\ Len(b) \in Nat
  BY LenProperties DEF Texts
<1>2. /\ a \o b \in Seq(Nat) /\ Len(a \o b) = Len(a) + Len(b)
      /\ \A i \in 1..(Len(a) + Len(b)) :
           (a \o b)[i] = IF i <= Len(a) THEN a[i] ELSE b[i - Len(a)]
  BY <1>1, ConcatProperties
<1>3. ASSUME NEW i \in 1..Len(a) PROVE (a \o b)[i] = a[i]
  BY <1>1, <1>2
<1>4. ASSUME NEW i \in 1..Len(b) PROVE (a \o b)[Len(a) + i] = b[i]
  <2>1. Len(a) + i \in 1..(Len(a) + Len(b)) /\ ~(Len(a) + i <= Len(a)) /\ Len(a) + i - Len(a) = i
    BY <1>1
  <2> QED
    BY <1>2, <2>1
<1> QED
  BY <1>1, <1>2, <1>3, <1>4 DEF Texts

\* Joining is associative.
LEMMA JoinAgain ==
  ASSUME NEW a \in Texts, NEW b \in Texts, NEW c \in Texts
  PROVE  (a \o b) \o c = a \o (b \o c)
BY ConcatAssociative DEF Texts

Three(a, b, c) == a \o (b \o c)

\* Splicing replaces what the op's range holds.
LEMMA SplicedMiddle ==
  ASSUME NEW a \in Texts, NEW b \in Texts, NEW c \in Texts, NEW op,
         op.text \in Texts, op.start = Len(a), op.stop = Len(a) + Len(b)
  PROVE  Spliced(Three(a, b, c), op) = Three(a, op.text, c)
<1> DEFINE t == a \o (b \o c)
           x == Len(a)
           y == Len(b)
           z == Len(c)
<1>1. b \o c \in Texts /\ Len(b \o c) = y + z /\ x \in Nat /\ y \in Nat /\ z \in Nat
  BY JoinFacts
<1>2. t \in Texts /\ Len(t) = x + (y + z)
  BY <1>1, JoinFacts
<1>3. /\ \A i \in 1..x : t[i] = a[i]
      /\ \A i \in 1..Len(b \o c) : t[x + i] = (b \o c)[i]
  BY <1>1, JoinFacts
<1>4. \A i \in 1..z : (b \o c)[y + i] = c[i]
  BY JoinFacts
<1> HIDE DEF t, x, y, z
<1>5. Slice(t, 0, x) = a
  <2>1. 0 <= x /\ x <= Len(t) /\ x - 0 = x
    BY <1>1, <1>2
  <2>2. Slice(t, 0, x) \in Texts /\ Len(Slice(t, 0, x)) = x - 0
        /\ \A i \in 1..(x - 0) : Slice(t, 0, x)[i] = t[0 + i]
    BY <1>1, <1>2, <2>1, SliceFacts
  <2>3. \A i \in 1..x : Slice(t, 0, x)[i] = a[i]
    BY <1>1, <1>3, <2>1, <2>2
  <2> QED
    BY <2>1, <2>2, <2>3, SeqEqual DEF Texts, x
<1>6. Slice(t, x + y, Len(t)) = c
  <2> DEFINE q == Slice(t, x + y, Len(t))
  <2>1. x + y \in Nat /\ Len(t) \in Nat /\ x + y <= Len(t) /\ Len(t) - (x + y) = z
    BY <1>1, <1>2
  <2>2. q \in Texts /\ Len(q) = Len(t) - (x + y)
        /\ \A i \in 1..(Len(t) - (x + y)) : q[i] = t[x + y + i]
    <3> DEFINE m == x + y
               n == Len(t)
    <3>1. m \in Nat /\ n \in Nat /\ m <= n
      BY <2>1
    <3>2. n <= Len(t)
      BY <3>1
    <3> HIDE DEF m, n
    <3>3. /\ Slice(t, m, n) \in Texts /\ Len(Slice(t, m, n)) = n - m
          /\ \A i \in 1..(n - m) : Slice(t, m, n)[i] = t[m + i]
      BY <1>2, <3>1, <3>2, SliceFacts
    <3> QED
      BY <3>3 DEF m, n
  <2> HIDE DEF q
  <2>3. \A i \in 1..z : q[i] = c[i]
    <3> SUFFICES ASSUME NEW i \in 1..z PROVE q[i] = c[i]
      OBVIOUS
    <3>1. y + i \in 1..Len(b \o c) /\ x + y + i = x + (y + i) /\ i \in 1..(Len(t) - (x + y))
      BY <1>1, <2>1
    <3>2. q[i] = t[x + (y + i)]
      BY <2>2, <3>1
    <3>3. t[x + (y + i)] = (b \o c)[y + i]
      BY <1>3, <3>1
    <3> QED
      BY <1>4, <3>2, <3>3
  <2>4. q = c
    BY <2>1, <2>2, <2>3, SeqEqual DEF Texts, z
  <2> QED
    BY <2>4 DEF q
<1>7. Spliced(t, op) = (a \o op.text) \o c
  BY <1>5, <1>6 DEF Spliced, x, y
<1>8. (a \o op.text) \o c = a \o (op.text \o c)
  BY JoinAgain
<1> QED
  BY <1>7, <1>8 DEF t, Three

----------------------------------------------------------------------------
\* A normal batch cuts its text: before each op comes what the one before it left alone.
End(ops, n) == IF n = 0 THEN 0 ELSE ops[n].stop

\* The edits of a normal batch lie one after the other in the text.
LEMMA EndFacts ==
  ASSUME NEW t \in Texts, NEW ops, Normal(t, ops)
  PROVE  /\ Len(t) \in Nat /\ Len(ops) \in Nat /\ ops \in Seq(OpSet) /\ End(ops, 0) = 0
         /\ \A n \in 0..Len(ops) : End(ops, n) \in Nat /\ End(ops, n) <= Len(t)
         /\ \A n \in 1..Len(ops) :
              /\ ops[n].start \in Nat /\ ops[n].stop \in Nat /\ ops[n].text \in Texts
              /\ ops[n] = EditOp(ops[n].start, ops[n].stop, ops[n].text)
              /\ End(ops, n - 1) <= ops[n].start /\ ops[n].start <= ops[n].stop
              /\ ops[n].stop <= Len(t) /\ End(ops, n) = ops[n].stop
              /\ Changing(ops[n]) /\ Len(ops[n].text) \in Nat
<1> DEFINE l == Len(ops)
<1>0. t \in Seq(Nat) /\ Len(t) \in Nat /\ ops \in Seq(OpSet) /\ l \in Nat
  BY LenProperties DEF Texts, Normal
<1>1. ASSUME NEW n \in 1..l
      PROVE  /\ ops[n].start \in Nat /\ ops[n].stop \in Nat /\ ops[n].text \in Texts
             /\ ops[n] = EditOp(ops[n].start, ops[n].stop, ops[n].text)
             /\ ops[n].start <= ops[n].stop /\ ops[n].stop <= Len(t) /\ Changing(ops[n])
  <2>1. ops[n] \in OpSet
    BY <1>0, ElementOfSeq
  <2>2. Fits(t, ops[n])
    BY DEF Normal
  <2> QED
    BY <2>1, <2>2 DEF OpSet, Fits, EditOp
<1>2. ASSUME NEW n \in 1..l PROVE Len(ops[n].text) \in Nat
  BY <1>1, LenProperties DEF Texts
<1>3. ASSUME NEW n \in 1..l PROVE End(ops, n) = ops[n].stop
  BY DEF End
<1>4. ASSUME NEW n \in 1..l PROVE End(ops, n - 1) <= ops[n].start
  <2>1. CASE n = 1
    BY <1>1, <2>1 DEF End
  <2>2. CASE n # 1
    <3>1. n - 1 \in 1..(l - 1) /\ (n - 1) + 1 = n /\ n - 1 # 0
      BY <1>0, <2>2
    <3>2. ops[n - 1].stop <= ops[(n - 1) + 1].start
      BY <3>1 DEF Normal, Disjoint
    <3> QED
      BY <3>1, <3>2 DEF End
  <2> QED
    BY <2>1, <2>2
<1>5. ASSUME NEW n \in 0..l PROVE End(ops, n) \in Nat /\ End(ops, n) <= Len(t)
  <2>1. CASE n = 0
    BY <1>0, <2>1 DEF End
  <2>2. CASE n # 0
    <3>1. n \in 1..l
      BY <1>0, <2>2
    <3> QED
      BY <1>1, <1>3, <3>1
  <2> QED
    BY <2>1, <2>2
<1>6. End(ops, 0) = 0
  BY DEF End
<1> HIDE DEF l
<1> QED
  BY <1>0, <1>1, <1>2, <1>3, <1>4, <1>5, <1>6 DEF l

\* What an edit of the batch contributes: the text kept before it, and what it writes.
Piece(t, ops, n) == Slice(t, End(ops, n - 1), ops[n].start) \o ops[n].text

\* Up to op n, the new text; and after it.
Laid(t, ops, pre, suf) ==
  /\ pre[0] = <<>> /\ suf[Len(ops)] = Slice(t, End(ops, Len(ops)), Len(t))
  /\ \A n \in 0..Len(ops) : pre[n] \in Texts /\ suf[n] \in Texts
  /\ \A n \in 1..Len(ops) :
       pre[n] = pre[n - 1] \o Piece(t, ops, n) /\ suf[n - 1] = Piece(t, ops, n) \o suf[n]

\* A normal batch can be laid along the text: what each edit leaves before it and behind it.
LEMMA BatchLaid ==
  ASSUME NEW t \in Texts, NEW ops, Normal(t, ops)
  PROVE  /\ \E pre, suf : Laid(t, ops, pre, suf)
         /\ \A n \in 1..Len(ops) :
              /\ Piece(t, ops, n) \in Texts
              /\ Len(Piece(t, ops, n)) = (ops[n].start - End(ops, n - 1)) + Len(ops[n].text)
              /\ Slice(t, End(ops, n - 1), ops[n].start) \in Texts
              /\ Len(Slice(t, End(ops, n - 1), ops[n].start)) = ops[n].start - End(ops, n - 1)
<1> DEFINE l == Len(ops)
           pieces == [n \in 1..l |-> Piece(t, ops, n)]
           rest == Slice(t, End(ops, l), Len(t))
<1>0. l \in Nat /\ ops \in Seq(OpSet)
  BY EndFacts
<1>1. ASSUME NEW n \in 1..l
      PROVE  /\ Piece(t, ops, n) \in Texts
             /\ Len(Piece(t, ops, n)) = (ops[n].start - End(ops, n - 1)) + Len(ops[n].text)
             /\ Slice(t, End(ops, n - 1), ops[n].start) \in Texts
             /\ Len(Slice(t, End(ops, n - 1), ops[n].start)) = ops[n].start - End(ops, n - 1)
  <2> DEFINE a == End(ops, n - 1)
             b == ops[n].start
  <2>1. n - 1 \in 0..l
    BY <1>0
  <2>2. a \in Nat /\ b \in Nat /\ a <= b /\ b <= Len(t) /\ ops[n].text \in Texts
    BY <2>1, EndFacts
  <2> HIDE DEF a, b
  <2>3. Slice(t, a, b) \in Texts /\ Len(Slice(t, a, b)) = b - a
    BY <2>2, SliceFacts
  <2>4. Slice(t, a, b) \o ops[n].text \in Texts
        /\ Len(Slice(t, a, b) \o ops[n].text) = Len(Slice(t, a, b)) + Len(ops[n].text)
    BY <2>2, <2>3, JoinFacts
  <2> QED
    BY <2>3, <2>4 DEF Piece, a, b
<1>2. rest \in Texts
  <2>1. End(ops, l) \in Nat /\ End(ops, l) <= Len(t) /\ Len(t) \in Nat
    <3>1. l \in 0..l
      BY <1>0
    <3> QED
      BY <3>1, EndFacts
  <2> QED
    BY <2>1, SliceFacts
<1> HIDE DEF rest
<1>3. pieces \in Seq(Texts) /\ Len(pieces) = l /\ \A n \in 1..l : pieces[n] = Piece(t, ops, n)
  <2> HIDE DEF l
  <2> QED
    BY <1>0, <1>1
<1> HIDE DEF pieces, l
<1> DEFINE back == Reverse(pieces)
<1>4. back \in Seq(Texts) /\ Len(back) = l /\ \A n \in 1..l : back[n] = pieces[l - n + 1]
  <2>1. back = [n \in 1..l |-> pieces[l - n + 1]]
    BY <1>3 DEF Reverse
  <2>2. \A n \in 1..l : l - n + 1 \in 1..l
    BY <1>0
  <2>3. \A n \in 1..l : pieces[l - n + 1] \in Texts
    BY <1>3, <2>2, ElementOfSeq
  <2> QED
    BY <1>0, <2>1, <2>3
<1> HIDE DEF back
<1>5. PICK pre : Trace("join", <<>>, pieces, pre)
  BY <1>3, FoldHasTrace
<1>6. PICK g : Trace("ahead", rest, back, g)
  BY <1>4, FoldHasTrace
<1> DEFINE suf == [n \in 0..l |-> g[l - n]]
<1>7. pre[0] = <<>> /\ \A n \in 1..l : pre[n] = pre[n - 1] \o Piece(t, ops, n)
  BY <1>3, <1>5 DEF Trace, Apply
<1>8. g[0] = rest /\ \A n \in 1..l : g[n] = back[n] \o g[n - 1]
  BY <1>4, <1>6 DEF Trace, Apply
<1>9. suf[l] = rest
  BY <1>0, <1>8
<1>10. ASSUME NEW n \in 1..l PROVE suf[n - 1] = Piece(t, ops, n) \o suf[n]
  <2> DEFINE m == l - n + 1
  <2>1. m \in 1..l /\ l - (n - 1) = m /\ l - n = m - 1 /\ n - 1 \in 0..l /\ n \in 0..l /\ l - m + 1 = n
    BY <1>0
  <2>2. suf[n - 1] = g[m] /\ suf[n] = g[m - 1]
    BY <2>1
  <2> HIDE DEF m, suf
  <2>3. back[m] = Piece(t, ops, n)
    BY <1>3, <1>4, <2>1
  <2> QED
    BY <1>8, <2>1, <2>2, <2>3
<1>11. \A n \in 0..l : pre[n] \in Texts
  <2> DEFINE Good == {n \in 0..l : pre[n] \in Texts}
  <2>1. 0 \in Good
    <3>1. <<>> \in Texts /\ 0 \in 0..l
      BY <1>0, EmptySeq DEF Texts
    <3> QED
      BY <1>7, <3>1
  <2>2. \A n \in 0..(l - 1) : n \in Good => n + 1 \in Good
    <3> SUFFICES ASSUME NEW n \in 0..(l - 1), n \in Good PROVE n + 1 \in Good
      OBVIOUS
    <3>1. n + 1 \in 1..l /\ (n + 1) - 1 = n /\ n + 1 \in 0..l
      BY <1>0
    <3>2. pre[n + 1] = pre[n] \o Piece(t, ops, n + 1)
      BY <1>7, <3>1
    <3>3. Piece(t, ops, n + 1) \in Texts /\ pre[n] \in Texts
      BY <1>1, <3>1 DEF l
    <3> QED
      BY <3>1, <3>2, <3>3, JoinFacts
  <2> HIDE DEF Good
  <2>3. \A n \in 0..l : n \in Good
    BY <1>0, <2>1, <2>2, UpInduction
  <2> QED
    BY <2>3 DEF Good
<1>12. \A n \in 0..l : g[n] \in Texts
  <2> DEFINE Good == {n \in 0..l : g[n] \in Texts}
  <2>1. 0 \in Good
    BY <1>0, <1>2, <1>8
  <2>2. \A n \in 0..(l - 1) : n \in Good => n + 1 \in Good
    <3> SUFFICES ASSUME NEW n \in 0..(l - 1), n \in Good PROVE n + 1 \in Good
      OBVIOUS
    <3>1. n + 1 \in 1..l /\ (n + 1) - 1 = n /\ n + 1 \in 0..l
      BY <1>0
    <3>2. g[n + 1] = back[n + 1] \o g[n]
      BY <1>8, <3>1
    <3>3. back[n + 1] \in Texts /\ g[n] \in Texts
      BY <1>4, <3>1, ElementOfSeq
    <3>4. back[n + 1] \o g[n] \in Texts
      BY <3>3, JoinFacts
    <3> QED
      BY <3>1, <3>2, <3>4
  <2> HIDE DEF Good
  <2>3. \A n \in 0..l : n \in Good
    BY <1>0, <2>1, <2>2, UpInduction
  <2> QED
    BY <2>3 DEF Good
<1>13. \A n \in 0..l : suf[n] \in Texts
  <2>1. \A n \in 0..l : l - n \in 0..l
    BY <1>0
  <2> QED
    BY <1>12, <2>1
<1> HIDE DEF suf
<1>14. Laid(t, ops, pre, suf)
  BY <1>7, <1>9, <1>10, <1>11, <1>13 DEF Laid, l, rest
<1> QED
  BY <1>1, <1>14 DEF l

\* The text with its first n ops applied, and where op n has its text for the old one.
Mid(t, ops, pre, n) == pre[n] \o Slice(t, End(ops, n), Len(t))
Swapped(t, ops, pre, n) ==
  \E a \in Texts :
    /\ Mid(t, ops, pre, n) = Three(a, ops[n].text, Slice(t, ops[n].stop, Len(t)))
    /\ Mid(t, ops, pre, n - 1) =
         Three(a, Slice(t, ops[n].start, ops[n].stop), Slice(t, ops[n].stop, Len(t)))

\* Op by op: applied to the text, it takes the next piece; undone, it gives it back.
Stepped(t, ops, pre, suf, n) ==
  /\ Spliced(Slice(t, 0, End(ops, n)) \o suf[n], ops[n]) =
       Slice(t, 0, End(ops, n - 1)) \o suf[n - 1]
  /\ pre[n] \o suf[n] = pre[n - 1] \o suf[n - 1]
  /\ Len(pre[n]) = Len(pre[n - 1]) + (ops[n].start - End(ops, n - 1)) + Len(ops[n].text)
  /\ Len(pre[n]) \in Nat /\ Len(pre[n - 1]) \in Nat
  /\ \A op : /\ op.text = Slice(t, ops[n].start, ops[n].stop)
             /\ op.start = Len(pre[n - 1]) + (ops[n].start - End(ops, n - 1))
             /\ op.stop = op.start + Len(ops[n].text)
             => Spliced(Mid(t, ops, pre, n), op) = Mid(t, ops, pre, n - 1)
  /\ Swapped(t, ops, pre, n)

\* One edit of the batch replaces its range in the text the later ones left.
LEMMA LaidStep ==
  ASSUME NEW t \in Texts, NEW ops, Normal(t, ops), NEW pre, NEW suf, Laid(t, ops, pre, suf),
         NEW n \in 1..Len(ops)
  PROVE  Stepped(t, ops, pre, suf, n)
<1> DEFINE a == End(ops, n - 1)
           s == ops[n].start
           e == ops[n].stop
           x == ops[n].text
           l == Len(t)
           head == Slice(t, 0, a)
           gap == Slice(t, a, s)
           old == Slice(t, s, e)
           rest == Slice(t, e, l)
           p == pre[n - 1]
           q == suf[n]
<1>1. n - 1 \in 0..Len(ops) /\ n \in 0..Len(ops) /\ n \in Nat
  <2>1. Len(ops) \in Nat
    BY EndFacts
  <2> QED
    BY <2>1
<1>2. /\ a \in Nat /\ s \in Nat /\ e \in Nat /\ l \in Nat /\ a <= s /\ s <= e /\ e <= l
      /\ x \in Texts /\ Len(x) \in Nat
  BY <1>1, EndFacts
<1>3. End(ops, n) = e
  BY EndFacts
<1>4. p \in Texts /\ q \in Texts
  BY <1>1 DEF Laid
<1>5. pre[n] = p \o (gap \o x) /\ suf[n - 1] = (gap \o x) \o q
  BY DEF Laid, Piece
<1>6. ops[n].start = s /\ ops[n].stop = e /\ ops[n].text = x
  OBVIOUS
<1> HIDE DEF a, s, e, x, p, q
<1>7. 0 \in Nat /\ 0 <= a /\ a <= l /\ s <= l /\ 0 <= s /\ a <= e /\ 0 <= e /\ l <= Len(t)
  BY <1>2
<1>8. /\ head \in Texts /\ Len(head) = a - 0
      /\ gap \in Texts /\ Len(gap) = s - a
      /\ old \in Texts /\ Len(old) = e - s
      /\ rest \in Texts
  <2>1. head \in Texts /\ Len(head) = a - 0
    BY <1>2, <1>7, SliceFacts
  <2>2. gap \in Texts /\ Len(gap) = s - a
    BY <1>2, <1>7, SliceFacts
  <2>3. old \in Texts /\ Len(old) = e - s
    BY <1>2, <1>7, SliceFacts
  <2>4. rest \in Texts
    BY <1>2, <1>7, SliceFacts
  <2> QED
    BY <2>1, <2>2, <2>3, <2>4
<1>9. /\ head \o gap = Slice(t, 0, s) /\ Slice(t, 0, s) \o old = Slice(t, 0, e)
      /\ old \o rest = Slice(t, s, l) /\ gap \o Slice(t, s, l) = Slice(t, a, l)
  <2>1. head \o gap = Slice(t, 0, s)
    BY <1>2, <1>7, SliceJoin
  <2>2. Slice(t, 0, s) \o old = Slice(t, 0, e)
    BY <1>2, <1>7, SliceJoin
  <2>3. old \o rest = Slice(t, s, l)
    BY <1>2, <1>7, SliceJoin
  <2>4. gap \o Slice(t, s, l) = Slice(t, a, l)
    BY <1>2, <1>7, SliceJoin
  <2> QED
    BY <2>1, <2>2, <2>3, <2>4
<1> DEFINE lead == Slice(t, 0, s)
<1>10. lead \in Texts /\ Len(lead) = s
  <2>1. lead \in Texts /\ Len(lead) = s - 0
    BY <1>2, <1>7, SliceFacts
  <2> QED
    BY <1>2, <2>1
<1> HIDE DEF head, gap, old, rest, lead, l
<1>11. /\ x \o q \in Texts /\ gap \o x \in Texts /\ Len(gap \o x) = Len(gap) + Len(x)
       /\ old \o rest \in Texts /\ x \o rest \in Texts /\ p \o gap \in Texts
       /\ Len(p \o gap) = Len(p) + Len(gap) /\ Len(p) \in Nat
  <2>t. x \in Texts /\ gap \in Texts /\ old \in Texts /\ rest \in Texts /\ p \in Texts /\ q \in Texts
    BY <1>2, <1>4, <1>8
  <2>1. x \o q \in Texts /\ old \o rest \in Texts /\ x \o rest \in Texts
    BY <1>2, <1>4, <1>8, JoinFacts
  <2>2. gap \o x \in Texts /\ Len(gap \o x) = Len(gap) + Len(x)
    BY <1>2, <1>8, JoinFacts
  <2>3. p \o gap \in Texts /\ Len(p \o gap) = Len(p) + Len(gap) /\ Len(p) \in Nat
    BY <1>4, <1>8, JoinFacts
  <2> QED
    BY <2>1, <2>2, <2>3
<1>x. x \in Texts
  BY <1>2, <1>4, <1>8, <1>10, <1>11
<1>g. gap \in Texts
  BY <1>2, <1>4, <1>8, <1>10, <1>11
<1>o. old \in Texts
  BY <1>2, <1>4, <1>8, <1>10, <1>11
<1>r. rest \in Texts
  BY <1>2, <1>4, <1>8, <1>10, <1>11
<1>p. p \in Texts
  BY <1>2, <1>4, <1>8, <1>10, <1>11
<1>q. q \in Texts
  BY <1>2, <1>4, <1>8, <1>10, <1>11
<1>l. lead \in Texts
  BY <1>2, <1>4, <1>8, <1>10, <1>11
<1>h. head \in Texts
  BY <1>2, <1>4, <1>8, <1>10, <1>11
<1>xq. x \o q \in Texts
  BY <1>2, <1>4, <1>8, <1>10, <1>11
<1>gx. gap \o x \in Texts
  BY <1>2, <1>4, <1>8, <1>10, <1>11
<1>pg. p \o gap \in Texts
  BY <1>2, <1>4, <1>8, <1>10, <1>11
<1>xr. x \o rest \in Texts
  BY <1>2, <1>4, <1>8, <1>10, <1>11
<1>or. old \o rest \in Texts
  BY <1>2, <1>4, <1>8, <1>10, <1>11
<1>12. Spliced(Slice(t, 0, e) \o q, ops[n]) = head \o suf[n - 1]
  <2>1. Slice(t, 0, e) \o q = lead \o (old \o q)
    <3>1. (lead \o old) \o q = lead \o (old \o q)
      BY <1>l, <1>o, <1>q, JoinAgain
    <3> QED
      BY <1>9, <3>1 DEF lead
  <2>2. ops[n].start = Len(lead) /\ ops[n].stop = Len(lead) + Len(old) /\ ops[n].text \in Texts
    <3>1. Len(old) = e - s /\ Len(lead) = s
      BY <1>8, <1>10
    <3>2. s + (e - s) = e
      BY <1>2
    <3> QED
      BY <1>6, <1>x, <3>1, <3>2
  <2>3. Spliced(lead \o (old \o q), ops[n]) = lead \o (ops[n].text \o q)
    <3> DEFINE op == ops[n]
    <3>1. op.text \in Texts
      BY <2>2
    <3>2. op.start = Len(lead)
      BY <2>2
    <3>3. op.stop = Len(lead) + Len(old)
      BY <2>2
    <3> HIDE DEF op
    <3>4. Spliced(Three(lead, old, q), op) = Three(lead, op.text, q)
      BY <1>l, <1>o, <1>q, <3>1, <3>2, <3>3, SplicedMiddle
    <3> QED
      BY <3>4 DEF op, Three
  <2>4. head \o ((gap \o x) \o q) = lead \o (x \o q)
    <3>1. (gap \o x) \o q = gap \o (x \o q)
      BY <1>g, <1>x, <1>q, JoinAgain
    <3>2. (head \o gap) \o (x \o q) = head \o (gap \o (x \o q))
      BY <1>h, <1>g, <1>xq, JoinAgain
    <3> QED
      BY <1>9, <3>1, <3>2 DEF lead
  <2> QED
    BY <1>5, <1>6, <2>1, <2>3, <2>4
<1>13. pre[n] \o suf[n] = p \o suf[n - 1]
  <2>1. (p \o (gap \o x)) \o q = p \o ((gap \o x) \o q)
    BY <1>p, <1>gx, <1>q, JoinAgain
  <2> QED
    BY <1>5, <2>1 DEF q
<1>14. Len(pre[n]) = Len(p) + (s - a) + Len(x) /\ Len(pre[n]) \in Nat
  <2>1. Len(p \o (gap \o x)) = Len(p) + Len(gap \o x)
    BY <1>4, <1>11, JoinFacts
  <2> QED
    BY <1>2, <1>5, <1>8, <1>11, <2>1
<1>15. ASSUME NEW op, op.text = old, op.start = Len(p) + (s - a), op.stop = op.start + Len(x)
       PROVE  Spliced(pre[n] \o rest, op) = p \o Slice(t, a, l)
  <2>1. pre[n] \o rest = (p \o gap) \o (x \o rest)
    <3>1. (p \o gap) \o x = p \o (gap \o x)
      BY <1>p, <1>g, <1>x, JoinAgain
    <3>2. ((p \o gap) \o x) \o rest = (p \o gap) \o (x \o rest)
      BY <1>pg, <1>x, <1>r, JoinAgain
    <3> QED
      BY <1>5, <3>1, <3>2
  <2>2. op.start = Len(p \o gap) /\ op.stop = Len(p \o gap) + Len(x) /\ op.text \in Texts
    BY <1>8, <1>11, <1>15
  <2>3. Spliced((p \o gap) \o (x \o rest), op) = (p \o gap) \o (op.text \o rest)
    <3> DEFINE new == p \o gap
    <3>1. new \in Texts /\ op.start = Len(new) /\ op.stop = Len(new) + Len(x) /\ op.text \in Texts
      BY <1>pg, <2>2
    <3> HIDE DEF new
    <3>2. Spliced(Three(new, x, rest), op) = Three(new, op.text, rest)
      BY <1>x, <1>r, <3>1, SplicedMiddle
    <3> QED
      BY <3>2 DEF new, Three
  <2>4. (p \o gap) \o (old \o rest) = p \o (gap \o (old \o rest))
    BY <1>p, <1>g, <1>or, JoinAgain
  <2> QED
    BY <1>9, <1>15, <2>1, <2>3, <2>4
<1>16. \E b \in Texts : /\ pre[n] \o rest = Three(b, x, rest)
                       /\ p \o Slice(t, a, l) = Three(b, old, rest)
  <2>1. pre[n] \o rest = (p \o gap) \o (x \o rest)
    <3>1. (p \o gap) \o x = p \o (gap \o x)
      BY <1>p, <1>g, <1>x, JoinAgain
    <3>2. ((p \o gap) \o x) \o rest = (p \o gap) \o (x \o rest)
      BY <1>pg, <1>x, <1>r, JoinAgain
    <3> QED
      BY <1>5, <3>1, <3>2
  <2>2. p \o Slice(t, a, l) = (p \o gap) \o (old \o rest)
    <3>1. (p \o gap) \o (old \o rest) = p \o (gap \o (old \o rest))
      BY <1>p, <1>g, <1>or, JoinAgain
    <3> QED
      BY <1>9, <3>1
  <2>3. pre[n] \o rest = Three(p \o gap, x, rest) /\ p \o Slice(t, a, l) = Three(p \o gap, old, rest)
    BY <2>1, <2>2 DEF Three
  <2> QED
    BY <1>pg, <2>3
<1>17. pre[n] \o rest = Mid(t, ops, pre, n) /\ p \o Slice(t, a, l) = Mid(t, ops, pre, n - 1)
  BY <1>3 DEF Mid, rest, e, l, a, p
<1>18. Swapped(t, ops, pre, n)
  BY <1>16, <1>17 DEF Swapped, rest, old, x, s, e, l
<1> QED
  BY <1>3, <1>11, <1>12, <1>13, <1>14, <1>15, <1>17, <1>18
     DEF a, s, e, x, p, q, l, head, old, rest, Stepped

\* The text u, cut at every op.
Parts(u, ops, pre, suf) == \A n \in 0..Len(ops) : u = pre[n] \o suf[n]

\* The batch turns the text into the new text up to an op, and what is after it.
LEMMA LaidText ==
  ASSUME NEW t \in Texts, NEW ops, Normal(t, ops), NEW pre, NEW suf, Laid(t, ops, pre, suf)
  PROVE  Applied(t, ops) \in Texts /\ Parts(Applied(t, ops), ops, pre, suf)
<1> DEFINE k == Len(ops)
           at(n) == Slice(t, 0, End(ops, n)) \o suf[n]
           h == [j \in 0..k |-> at(k - j)]
           back == Reverse(ops)
<1>0. k \in Nat /\ ops \in Seq(OpSet) /\ Len(t) \in Nat
  BY EndFacts
<1>1. back \in Seq(OpSet) /\ Len(back) = k /\ \A j \in 1..k : back[j] = ops[k - j + 1]
  <2>1. back = [j \in 1..k |-> ops[k - j + 1]]
    BY DEF Reverse
  <2> HIDE DEF k, back
  <2>2. \A j \in 1..k : k - j + 1 \in 1..k
    BY <1>0
  <2>3. \A j \in 1..k : ops[k - j + 1] \in OpSet
    BY <1>0, <2>2, ElementOfSeq DEF k
  <2> QED
    BY <1>0, <2>1, <2>3
<1>2s. \A n \in 1..k : Stepped(t, ops, pre, suf, n)
  BY LaidStep
<1>2. \A n \in 1..k : Spliced(at(n), ops[n]) = at(n - 1)
  BY <1>2s DEF Stepped
<1>3. at(k) = t
  <2>1. k \in 0..k
    BY <1>0
  <2>2. End(ops, k) \in Nat /\ End(ops, k) <= Len(t)
    BY <2>1, EndFacts
  <2>3. suf[k] = Slice(t, End(ops, k), Len(t))
    BY DEF Laid
  <2> HIDE DEF k
  <2> DEFINE e == End(ops, k)
             l == Len(t)
  <2>4. 0 \in Nat /\ e \in Nat /\ l \in Nat /\ 0 <= e /\ e <= l /\ l <= Len(t)
    BY <1>0, <2>2
  <2> HIDE DEF e, l
  <2>5. Slice(t, 0, e) \o Slice(t, e, l) = Slice(t, 0, l)
    BY <2>4, SliceJoin
  <2> QED
    BY <2>3, <2>5, SliceAll DEF e, l
<1>4. at(0) = suf[0] /\ suf[0] \in Texts /\ pre[0] \o suf[0] = suf[0]
  <2>1. 0 \in 0..k
    BY <1>0
  <2>2. suf[0] \in Texts /\ pre[0] = <<>>
    BY <2>1 DEF Laid
  <2>3. End(ops, 0) = 0 /\ Slice(t, 0, 0) = <<>>
    BY SubSeqEmpty DEF End, Slice
  <2>4. <<>> \o suf[0] = suf[0]
    BY <2>2, ConcatEmptySeq DEF Texts
  <2> QED
    BY <2>2, <2>3, <2>4
<1> HIDE DEF at, back, k
<1>5. Trace("splice", t, back, h)
  <2>1. h[0] = t
    BY <1>0, <1>3
  <2>2. ASSUME NEW j \in 1..k PROVE h[j] = Spliced(h[j - 1], back[j])
    <3> DEFINE n == k - j + 1
    <3>1. n \in 1..k /\ j \in 0..k /\ j - 1 \in 0..k /\ k - j = n - 1 /\ k - (j - 1) = n
      BY <1>0
    <3>2. h[j] = at(n - 1) /\ h[j - 1] = at(n)
      BY <3>1
    <3>3. back[j] = ops[n]
      BY <1>1
    <3> HIDE DEF n, h
    <3> QED
      BY <1>2, <3>1, <3>2, <3>3
  <2> HIDE DEF h
  <2> QED
    BY <1>1, <2>1, <2>2 DEF Trace, Apply
<1>6. h[k] = suf[0]
  <2>1. k \in 0..k /\ k - k = 0
    BY <1>0
  <2> QED
    BY <1>4, <2>1
<1> HIDE DEF h
<1>7. Applied(t, ops) = suf[0]
  <2>1. Folded("splice", t, back) = h[Len(back)]
    BY <1>1, <1>5, FoldIs
  <2>2. Applied(t, ops) = Folded("splice", t, back)
    BY FoldForms DEF Applied, back
  <2> QED
    BY <1>1, <1>6, <2>1, <2>2
<1> DEFINE Good == {n \in 0..k : Applied(t, ops) = pre[n] \o suf[n]}
<1>8. 0 \in Good
  <2>1. 0 \in 0..k
    BY <1>0
  <2> QED
    BY <1>4, <1>7, <2>1
<1>9. \A n \in 0..(k - 1) : n \in Good => n + 1 \in Good
  <2> SUFFICES ASSUME NEW n \in 0..(k - 1), n \in Good PROVE n + 1 \in Good
    OBVIOUS
  <2>1. n + 1 \in 1..k /\ (n + 1) - 1 = n /\ n + 1 \in 0..k
    BY <1>0
  <2>2. pre[n + 1] \o suf[n + 1] = pre[n] \o suf[n]
    BY <1>2s, <2>1 DEF Stepped
  <2> QED
    BY <2>1, <2>2
<1> HIDE DEF Good
<1>10. \A n \in 0..k : n \in Good
  BY <1>0, <1>8, <1>9, UpInduction
<1> QED
  BY <1>4, <1>7, <1>10 DEF Good, k, Parts

\* Where an op's text ends up: after what the ops before it made, and what they left alone.
LEMMA LaidStarts ==
  ASSUME NEW t \in Texts, NEW ops, Normal(t, ops), NEW pre, NEW suf, Laid(t, ops, pre, suf),
         NEW n \in 1..Len(ops)
  PROVE  NewStart(ops, n) = Len(pre[n - 1]) + (ops[n].start - End(ops, n - 1))
<1> DEFINE k == Len(ops)
           s == ops[n].start
           part == SubSeq(ops, 1, n - 1)
           h == [i \in 0..(n - 1) |-> Len(pre[i]) + (s - End(ops, i))]
<1>0. k \in Nat /\ ops \in Seq(OpSet) /\ s \in Nat /\ n \in 1..k
  BY EndFacts
<1>1. \A i \in 1..k : Stepped(t, ops, pre, suf, i)
  BY LaidStep
<1>2. part \in Seq(OpSet) /\ Len(part) = n - 1 /\ \A i \in 1..(n - 1) : part[i] = ops[i]
  <2>1. \A i \in 1..(n - 1) : ops[i] \in OpSet
    BY <1>0, ElementOfSeq
  <2> HIDE DEF k
  <2> DEFINE m == n - 1
  <2>2. m \in Int /\ 1 \in Int /\ m - 1 + 1 = m /\ m >= 0
    BY <1>0
  <2> HIDE DEF m
  <2> DEFINE q == SubSeq(ops, 1, m)
  <2>3. \A i \in 1..m : ops[i] \in OpSet
    BY <2>1 DEF m
  <2>4. q \in Seq(OpSet) /\ Len(q) = (IF 1 <= m THEN m - 1 + 1 ELSE 0)
        /\ \A i \in 1..(m - 1 + 1) : q[i] = ops[1 + i - 1]
    BY <2>2, <2>3, SubSeqProperties
  <2> HIDE DEF q
  <2>5. Len(q) = m
    BY <2>2, <2>4
  <2>6. \A i \in 1..m : q[i] = ops[i]
    BY <2>2, <2>4
  <2> QED
    BY <2>4, <2>5, <2>6 DEF q, m
<1> HIDE DEF part
<1>3. h[0] = s
  <2>1. pre[0] = <<>> /\ End(ops, 0) = 0 /\ 0 \in 0..(n - 1)
    BY <1>0, EndFacts DEF Laid
  <2> HIDE DEF s
  <2>2. Len(<<>>) + (s - 0) = s
    BY <1>0, EmptySeq
  <2> QED
    BY <2>1, <2>2
<1>4. ASSUME NEW i \in 1..(n - 1) PROVE h[i] = h[i - 1] + Growth(part[i])
  <2> DEFINE a == End(ops, i - 1)
             b == ops[i].start
             c == ops[i].stop
             x == Len(ops[i].text)
             y == Len(pre[i - 1])
             z == Len(pre[i])
  <2>1. i \in 1..k /\ i - 1 \in 0..k /\ i \in 0..(n - 1) /\ i - 1 \in 0..(n - 1)
    BY <1>0
  <2>2. a \in Nat /\ b \in Nat /\ c \in Nat /\ x \in Nat /\ End(ops, i) = c
    BY <2>1, EndFacts
  <2>3. Stepped(t, ops, pre, suf, i)
    BY <1>1, <2>1
  <2>4. z = y + (b - a) + x /\ y \in Nat
    BY <2>3 DEF Stepped
  <2>5. Growth(part[i]) = x - (c - b)
    BY <1>2 DEF Growth
  <2>6. h[i] = z + (s - End(ops, i)) /\ h[i - 1] = y + (s - a)
    BY <2>1
  <2> HIDE DEF a, b, c, x, y, z, s, h
  <2> QED
    BY <1>0, <2>2, <2>4, <2>5, <2>6
<1>5. Trace("grow", s, part, h)
  <2> HIDE DEF h, s
  <2> QED
    BY <1>2, <1>3, <1>4 DEF Trace, Apply
<1>6. Folded("grow", s, part) = h[Len(part)]
  <2> HIDE DEF h, s
  <2> QED
    BY <1>2, <1>5, FoldIs
<1>7. NewStart(ops, n) = h[n - 1]
  BY <1>2, <1>6, NewStartForm DEF part
<1>8. n - 1 \in 0..(n - 1)
  BY <1>0
<1> QED
  BY <1>7, <1>8

\* The inverse of a batch, in the coordinates of the text after it.
LEMMA InverseNormal ==
  ASSUME NEW t \in Texts, NEW ops, Normal(t, ops), NEW pre, NEW suf, Laid(t, ops, pre, suf),
         NEW u, u = Applied(t, ops), NEW inv, inv = InverseOps(t, ops)
  PROVE  /\ Normal(u, inv) /\ Len(inv) = Len(ops)
         /\ \A n \in 1..Len(ops) :
              inv[n] = EditOp(Len(pre[n - 1]) + (ops[n].start - End(ops, n - 1)), Len(pre[n]),
                              Slice(t, ops[n].start, ops[n].stop))
<1> DEFINE k == Len(ops)
           at(n) == Len(pre[n - 1]) + (ops[n].start - End(ops, n - 1))
           old(n) == Slice(t, ops[n].start, ops[n].stop)
<1>0. k \in Nat /\ ops \in Seq(OpSet) /\ DOMAIN ops = 1..k /\ Len(t) \in Nat
  BY EndFacts, LenProperties
<1>1. \A n \in 1..k : Stepped(t, ops, pre, suf, n)
  BY LaidStep
<1>2. ASSUME NEW n \in 1..k
      PROVE  /\ NewStart(ops, n) = at(n) /\ at(n) \in Nat /\ at(n) + Len(ops[n].text) = Len(pre[n])
             /\ Len(pre[n]) \in Nat /\ old(n) \in Texts /\ at(n) <= Len(pre[n])
             /\ at(n) < Len(pre[n]) \/ old(n) # <<>>
  <2> DEFINE a == End(ops, n - 1)
             s == ops[n].start
             e == ops[n].stop
             x == Len(ops[n].text)
             y == Len(pre[n - 1])
             z == Len(pre[n])
             o == Slice(t, s, e)
  <2>1. n - 1 \in 0..k
    BY <1>0
  <2>2. a \in Nat /\ s \in Nat /\ e \in Nat /\ x \in Nat /\ a <= s /\ s <= e /\ e <= Len(t)
        /\ ops[n].text \in Texts /\ Changing(ops[n])
    BY <2>1, EndFacts
  <2>3. z = y + (s - a) + x /\ y \in Nat /\ z \in Nat
    BY <1>1 DEF Stepped
  <2>4. NewStart(ops, n) = y + (s - a)
    BY LaidStarts
  <2>5. s < e \/ x # 0
    <3>1. s < e \/ ops[n].text # <<>>
      BY <2>2 DEF Changing
    <3>2. ops[n].text # <<>> => x # 0
      BY <2>2, EmptySeq DEF Texts
    <3> QED
      BY <3>1, <3>2
  <2> HIDE DEF a, s, e, x, y, z, o
  <2>6. o \in Texts /\ Len(o) = e - s
    BY <2>2, SliceFacts DEF o
  <2>7. s < e => o # <<>>
    <3> SUFFICES ASSUME s < e, o = <<>> PROVE FALSE
      OBVIOUS
    <3>1. Len(o) = 0
      BY EmptySeq
    <3> QED
      BY <2>2, <2>6, <3>1
  <2>8. y + (s - a) \in Nat /\ y + (s - a) + x = z /\ y + (s - a) <= z
        /\ (x # 0 => y + (s - a) < z)
    BY <2>2, <2>3
  <2>9. at(n) = y + (s - a)
    BY DEF y, s, a
  <2> HIDE DEF at
  <2> QED
    BY <2>3, <2>4, <2>5, <2>6, <2>7, <2>8, <2>9 DEF o, s, e, x, z
<1>3. DOMAIN inv = 1..k /\ \A n \in 1..k : inv[n] = EditOp(at(n), Len(pre[n]), old(n))
  <2>1. inv = [n \in 1..k |-> EditOp(NewStart(ops, n), NewStart(ops, n) + Len(ops[n].text), old(n))]
    BY <1>0 DEF InverseOps
  <2> HIDE DEF at, old, k
  <2> QED
    BY <1>2, <2>1
<1> HIDE DEF at, old, k
<1>4. \A n \in 1..k : inv[n] \in OpSet
  BY <1>2, <1>3 DEF EditOp, OpSet
<1>5. inv \in Seq(OpSet) /\ Len(inv) = k
  <2>1. inv = [n \in DOMAIN inv |-> inv[n]]
    BY DEF InverseOps
  <2>2. inv = [n \in 1..k |-> inv[n]]
    BY <1>3, <2>1
  <2> QED
    BY <1>0, <1>4, <2>2
<1>6. \A n \in 0..k : pre[n] \in Texts /\ suf[n] \in Texts
  BY DEF Laid, k
<1>7. u \in Texts /\ \A n \in 0..k : u = pre[n] \o suf[n]
  <2>1. Applied(t, ops) \in Texts
    BY LaidText
  <2>2. \A n \in 0..Len(ops) : Applied(t, ops) = pre[n] \o suf[n]
    <3>1. Parts(Applied(t, ops), ops, pre, suf)
      BY LaidText
    <3> QED
      BY <3>1 DEF Parts
  <2> QED
    BY <2>1, <2>2 DEF k
<1>8. ASSUME NEW n \in 1..k PROVE Fits(u, inv[n])
  <2>1. n \in 0..k
    BY <1>0
  <2>2. Len(u) = Len(pre[n]) + Len(suf[n]) /\ Len(suf[n]) \in Nat
    <3> DEFINE p == pre[n]
               q == suf[n]
    <3>1. p \in Texts /\ q \in Texts /\ u = p \o q
      BY <1>6, <1>7, <2>1
    <3> HIDE DEF p, q
    <3>2. Len(u) = Len(p) + Len(q) /\ Len(q) \in Nat
      BY <3>1, JoinFacts
    <3> QED
      BY <3>2 DEF p, q
  <2>3. at(n) \in Nat /\ Len(pre[n]) \in Nat /\ at(n) <= Len(pre[n])
        /\ (at(n) < Len(pre[n]) \/ old(n) # <<>>)
    BY <1>2
  <2>4. inv[n].start = at(n) /\ inv[n].stop = Len(pre[n]) /\ inv[n].text = old(n)
    BY <1>3 DEF EditOp
  <2>5. Len(pre[n]) <= Len(u)
    <3> DEFINE a == Len(pre[n])
               b == Len(suf[n])
    <3>1. Len(u) = a + b /\ a \in Nat /\ b \in Nat
      BY <2>2, <2>3
    <3> HIDE DEF a, b
    <3>2. a <= Len(u)
      BY <3>1
    <3> QED
      BY <3>2 DEF a
  <2> QED
    BY <2>3, <2>4, <2>5 DEF Fits, Changing
<1>9. ASSUME NEW n \in 1..(k - 1) PROVE inv[n].stop <= inv[n + 1].start
  <2>1. n \in 1..k /\ n + 1 \in 1..k /\ (n + 1) - 1 = n /\ n \in 0..k
    BY <1>0
  <2>2. inv[n].stop = Len(pre[n]) /\ inv[n + 1].start = at(n + 1)
    BY <1>3, <2>1 DEF EditOp
  <2>3. at(n + 1) = Len(pre[n]) + (ops[n + 1].start - End(ops, n))
    BY <2>1 DEF at
  <2> DEFINE a == End(ops, n)
             s == ops[n + 1].start
  <2>4. End(ops, (n + 1) - 1) <= s
    BY <2>1, EndFacts DEF k
  <2>5. a <= s
    BY <2>1, <2>4
  <2>6. a \in Nat /\ s \in Nat /\ Len(pre[n]) \in Nat
    <3>1. a \in Nat
      BY <2>1, EndFacts DEF k
    <3>2. s \in Nat
      BY <2>1, EndFacts DEF k
    <3> QED
      BY <1>2, <2>1, <3>1, <3>2
  <2> HIDE DEF a, s
  <2>7. at(n + 1) = Len(pre[n]) + (s - a)
    BY <2>3 DEF a, s
  <2> QED
    BY <2>2, <2>5, <2>6, <2>7
<1>10. Normal(u, inv)
  BY <1>5, <1>8, <1>9 DEF Normal, Disjoint
<1> QED
  BY <1>3, <1>5, <1>10 DEF k, at, old

\* The inverse, applied to the text after the batch, gives the text before it.
LEMMA InverseLeadsBack ==
  ASSUME NEW t \in Texts, NEW ops, Normal(t, ops)
  PROVE  /\ Applied(t, ops) \in Texts /\ Normal(Applied(t, ops), InverseOps(t, ops))
         /\ Applied(Applied(t, ops), InverseOps(t, ops)) = t
<1> DEFINE k == Len(ops)
           u == Applied(t, ops)
           inv == InverseOps(t, ops)
           back == Reverse(inv)
<1>0. k \in Nat /\ ops \in Seq(OpSet) /\ Len(t) \in Nat
  BY EndFacts
<1>1. PICK pre, suf : Laid(t, ops, pre, suf)
  BY BatchLaid
<1> DEFINE at(n) == Len(pre[n - 1]) + (ops[n].start - End(ops, n - 1))
           old(n) == Slice(t, ops[n].start, ops[n].stop)
           mid(n) == Mid(t, ops, pre, n)
           h == [j \in 0..k |-> mid(k - j)]
<1>2. /\ Normal(u, inv) /\ Len(inv) = k
      /\ \A n \in 1..k : inv[n] = EditOp(at(n), Len(pre[n]), old(n))
  BY <1>1, InverseNormal
<1>3. \A n \in 1..k : Stepped(t, ops, pre, suf, n)
  BY <1>1, LaidStep
<1>4. u \in Texts /\ u = pre[k] \o suf[k]
  <2>1. k \in 0..k
    BY <1>0
  <2>2. Applied(t, ops) \in Texts
    BY <1>1, LaidText
  <2>3. \A n \in 0..Len(ops) : Applied(t, ops) = pre[n] \o suf[n]
    <3>1. Parts(Applied(t, ops), ops, pre, suf)
      BY <1>1, LaidText
    <3> QED
      BY <3>1 DEF Parts
  <2> QED
    BY <2>1, <2>2, <2>3
<1>5. suf[k] = Slice(t, End(ops, k), Len(t)) /\ pre[0] = <<>>
  BY <1>1 DEF Laid
<1>6. u = mid(k)
  BY <1>4, <1>5 DEF Mid
<1>7. mid(0) = t
  <2>1. End(ops, 0) = 0
    BY DEF End
  <2>2. Slice(t, 0, Len(t)) = t
    BY SliceAll
  <2>3. <<>> \o t = t
    BY ConcatEmptySeq DEF Texts
  <2> QED
    BY <1>5, <2>1, <2>2, <2>3 DEF Mid
<1>8. ASSUME NEW n \in 1..k PROVE Spliced(mid(n), inv[n]) = mid(n - 1)
  <2>1. /\ inv[n].text = old(n) /\ inv[n].start = at(n) /\ inv[n].stop = Len(pre[n])
    <3>1. inv[n] = EditOp(at(n), Len(pre[n]), old(n))
      BY <1>2
    <3> DEFINE a == at(n)
               b == Len(pre[n])
               c == old(n)
    <3> HIDE DEF at, old, inv
    <3>2. inv[n] = EditOp(a, b, c)
      BY <3>1
    <3> HIDE DEF a, b, c
    <3>3. inv[n].text = c /\ inv[n].start = a /\ inv[n].stop = b
      BY <3>2 DEF EditOp
    <3> QED
      BY <3>3 DEF a, b, c
  <2>2. Len(pre[n]) = at(n) + Len(ops[n].text)
    BY <1>3 DEF Stepped
  <2>3. inv[n].stop = inv[n].start + Len(ops[n].text)
    BY <2>1, <2>2
  <2> DEFINE op == inv[n]
  <2>4. op.text = Slice(t, ops[n].start, ops[n].stop)
    BY <2>1
  <2>5. op.start = Len(pre[n - 1]) + (ops[n].start - End(ops, n - 1))
    BY <2>1
  <2>6. op.stop = op.start + Len(ops[n].text)
    BY <2>3
  <2> HIDE DEF op
  <2>7. Spliced(Mid(t, ops, pre, n), op) = Mid(t, ops, pre, n - 1)
    BY <1>3, <2>4, <2>5, <2>6 DEF Stepped
  <2> QED
    BY <2>7 DEF op
<1>9. back \in Seq(OpSet) /\ Len(back) = k /\ \A j \in 1..k : back[j] = inv[k - j + 1]
  <2>1. inv \in Seq(OpSet)
    BY <1>2 DEF Normal
  <2> HIDE DEF inv, k
  <2>2. back = [j \in 1..k |-> inv[k - j + 1]]
    BY <1>2 DEF Reverse
  <2> HIDE DEF back
  <2>3. \A j \in 1..k : k - j + 1 \in 1..k
    BY <1>0
  <2>4. \A j \in 1..k : inv[k - j + 1] \in OpSet
    BY <1>2, <2>1, <2>3, ElementOfSeq
  <2> QED
    BY <1>0, <2>2, <2>4
<1> HIDE DEF at, old, mid, back, k, inv, u
<1>10. Trace("splice", u, back, h)
  <2>1. h[0] = u
    BY <1>0, <1>6
  <2>2. ASSUME NEW j \in 1..k PROVE h[j] = Spliced(h[j - 1], back[j])
    <3> DEFINE n == k - j + 1
    <3>1. n \in 1..k /\ j \in 0..k /\ j - 1 \in 0..k /\ k - j = n - 1 /\ k - (j - 1) = n
      BY <1>0
    <3>2. h[j] = mid(n - 1) /\ h[j - 1] = mid(n)
      BY <3>1
    <3>3. back[j] = inv[n]
      BY <1>9
    <3> HIDE DEF n, h
    <3> QED
      BY <1>8, <3>1, <3>2, <3>3
  <2> HIDE DEF h
  <2> QED
    BY <1>9, <2>1, <2>2 DEF Trace, Apply
<1>11. h[k] = t
  <2>1. k \in 0..k /\ k - k = 0
    BY <1>0
  <2> QED
    BY <1>7, <2>1
<1> HIDE DEF h
<1>12. Applied(u, inv) = t
  <2>1. Folded("splice", u, back) = h[Len(back)]
    BY <1>9, <1>10, FoldIs
  <2>2. Applied(u, inv) = Folded("splice", u, back)
    BY FoldForms DEF Applied, back
  <2> QED
    BY <1>9, <1>11, <2>1, <2>2
<1> QED
  BY <1>2, <1>4, <1>12 DEF inv, u

----------------------------------------------------------------------------
\* The characters of a text, and whether it has each of them once.
Chars(t) == {t[i] : i \in 1..Len(t)}
Once(t) == \A i, j \in 1..Len(t) : t[i] = t[j] => i = j

\* Characters of a joined text, each written once if the parts share none.
LEMMA CharsJoined ==
  ASSUME NEW a \in Texts, NEW b \in Texts
  PROVE  /\ Chars(a \o b) = Chars(a) \cup Chars(b)
         /\ Once(a \o b) <=> Once(a) /\ Once(b) /\ Chars(a) \cap Chars(b) = {}
<1> DEFINE c == a \o b
           x == Len(a)
           y == Len(b)
<1>0. /\ x \in Nat /\ y \in Nat /\ Len(c) = x + y
      /\ \A i \in 1..x : c[i] = a[i]
      /\ \A i \in 1..y : c[x + i] = b[i]
  BY JoinFacts
<1> HIDE DEF c, x, y
<1>1. \A i \in 1..x : i \in 1..(x + y)
  BY <1>0
<1>2. \A i \in 1..y : x + i \in 1..(x + y)
  BY <1>0
<1>3. \A i \in 1..(x + y) : i \in 1..x \/ \E j \in 1..y : i = x + j
  <2> SUFFICES ASSUME NEW i \in 1..(x + y), i \notin 1..x PROVE \E j \in 1..y : i = x + j
    OBVIOUS
  <2>1. i - x \in 1..y /\ i = x + (i - x)
    BY <1>0
  <2> QED
    BY <2>1
<1>4. Chars(c) \subseteq Chars(a) \cup Chars(b)
  <2> SUFFICES ASSUME NEW i \in 1..(x + y) PROVE c[i] \in Chars(a) \cup Chars(b)
    BY <1>0 DEF Chars
  <2>1. CASE i \in 1..x
    BY <1>0, <2>1 DEF Chars, x
  <2>2. CASE \E j \in 1..y : i = x + j
    <3>1. PICK j \in 1..y : i = x + j
      BY <2>2
    <3>2. c[x + j] = b[j]
      BY <1>0
    <3> QED
      BY <3>1, <3>2 DEF Chars, y
  <2> QED
    BY <1>3, <2>1, <2>2
<1>5. Chars(a) \subseteq Chars(c)
  <2> SUFFICES ASSUME NEW i \in 1..x PROVE a[i] \in Chars(c)
    BY DEF Chars, x
  <2> QED
    BY <1>0, <1>1 DEF Chars
<1>6. Chars(b) \subseteq Chars(c)
  <2> SUFFICES ASSUME NEW i \in 1..y PROVE b[i] \in Chars(c)
    BY DEF Chars, y
  <2>1. c[x + i] = b[i] /\ x + i \in 1..Len(c)
    BY <1>0, <1>2
  <2> QED
    BY <2>1 DEF Chars
<1>7. ASSUME Once(c) PROVE Once(a) /\ Once(b) /\ Chars(a) \cap Chars(b) = {}
  <2>1. \A i, j \in 1..(x + y) : c[i] = c[j] => i = j
    BY <1>0, <1>7 DEF Once
  <2>2. ASSUME NEW i \in 1..x, NEW j \in 1..x, a[i] = a[j] PROVE i = j
    <3>1. c[i] = c[j]
      BY <1>0, <2>2
    <3> QED
      BY <1>1, <2>1, <3>1
  <2>3. ASSUME NEW i \in 1..y, NEW j \in 1..y, b[i] = b[j] PROVE i = j
    <3>1. c[x + i] = c[x + j]
      BY <1>0, <2>3
    <3>2. x + i = x + j
      BY <1>2, <2>1, <3>1
    <3> QED
      BY <1>0, <3>2
  <2>4. ASSUME NEW i \in 1..x, NEW j \in 1..y, a[i] = b[j] PROVE FALSE
    <3>1. c[i] = c[x + j]
      BY <1>0, <2>4
    <3>2. i = x + j
      BY <1>1, <1>2, <2>1, <3>1
    <3> QED
      BY <1>0, <3>2
  <2> QED
    BY <2>2, <2>3, <2>4 DEF Once, Chars, x, y
<1>8. ASSUME Once(a), Once(b), Chars(a) \cap Chars(b) = {} PROVE Once(c)
  <2>1. \A i, j \in 1..x : a[i] = a[j] => i = j
    BY <1>8 DEF Once, x
  <2>2. \A i, j \in 1..y : b[i] = b[j] => i = j
    BY <1>8 DEF Once, y
  <2>3. \A i \in 1..x, j \in 1..y : a[i] # b[j]
    <3> SUFFICES ASSUME NEW i \in 1..x, NEW j \in 1..y, a[i] = b[j] PROVE FALSE
      OBVIOUS
    <3>1. a[i] \in Chars(a) /\ b[j] \in Chars(b)
      BY DEF Chars, x, y
    <3> QED
      BY <1>8, <3>1
  <2> SUFFICES ASSUME NEW i \in 1..(x + y), NEW j \in 1..(x + y), c[i] = c[j] PROVE i = j
    BY <1>0 DEF Once
  <2>4. CASE i \in 1..x
    <3>1. c[i] = a[i]
      BY <1>0, <2>4
    <3>2. CASE j \in 1..x
      <4>1. c[j] = a[j]
        BY <1>0, <3>2
      <4> QED
        BY <2>1, <2>4, <3>1, <3>2, <4>1
    <3>3. ASSUME NEW m \in 1..y, j = x + m PROVE FALSE
      <4>1. c[x + m] = b[m]
        BY <1>0
      <4> QED
        BY <2>3, <2>4, <3>1, <3>3, <4>1
    <3> QED
      BY <1>3, <3>2, <3>3
  <2>5. ASSUME NEW n \in 1..y, i = x + n PROVE i = j
    <3>1. c[i] = b[n]
      <4>1. c[x + n] = b[n]
        BY <1>0
      <4> QED
        BY <2>5, <4>1
    <3>2. CASE j \in 1..x
      <4>1. c[j] = a[j]
        BY <1>0, <3>2
      <4> QED
        BY <2>3, <3>1, <3>2, <4>1
    <3>3. ASSUME NEW m \in 1..y, j = x + m PROVE i = j
      <4>1. c[x + m] = b[m]
        BY <1>0
      <4>2. n = m
        BY <2>2, <3>1, <3>3, <4>1
      <4> QED
        BY <2>5, <3>3, <4>2
    <3> QED
      BY <1>3, <3>2, <3>3
  <2> QED
    BY <1>3, <2>4, <2>5
<1> QED
  BY <1>4, <1>5, <1>6, <1>7, <1>8 DEF c

\* Three parts, and the middle one swapped for characters that were not there.
LEMMA CharsOfThree ==
  ASSUME NEW a \in Texts, NEW b \in Texts, NEW c \in Texts
  PROVE  /\ Chars(Three(a, b, c)) = Chars(a) \cup Chars(b) \cup Chars(c)
         /\ Once(Three(a, b, c)) <=>
              /\ Once(a) /\ Once(b) /\ Once(c)
              /\ Chars(a) \cap Chars(b) = {} /\ Chars(a) \cap Chars(c) = {}
              /\ Chars(b) \cap Chars(c) = {}
         /\ Three(a, b, c) \in Texts
<1> DEFINE d == b \o c
<1>1. d \in Texts /\ Chars(d) = Chars(b) \cup Chars(c)
  BY JoinFacts, CharsJoined
<1>2. Once(d) <=> Once(b) /\ Once(c) /\ Chars(b) \cap Chars(c) = {}
  BY CharsJoined
<1> HIDE DEF d
<1>3. Chars(a \o d) = Chars(a) \cup Chars(d)
  BY <1>1, CharsJoined
<1>4. Once(a \o d) <=> Once(a) /\ Once(d) /\ Chars(a) \cap Chars(d) = {}
  BY <1>1, CharsJoined
<1>5. a \o d \in Texts
  BY <1>1, JoinFacts
<1>6. Three(a, b, c) = a \o d
  BY DEF Three, d
<1> DEFINE A == Chars(a)
           B == Chars(b)
           C == Chars(c)
<1> HIDE DEF A, B, C
<1>7. Chars(a \o d) = A \cup B \cup C
  BY <1>1, <1>3 DEF A, B, C
<1>8. Chars(a) \cap Chars(d) = {} <=> A \cap B = {} /\ A \cap C = {}
  BY <1>1 DEF A, B, C
<1> QED
  BY <1>2, <1>4, <1>5, <1>6, <1>7, <1>8 DEF A, B, C

\* What a slice of a text holds.
LEMMA CharsOfSlice ==
  ASSUME NEW t \in Texts, NEW a \in Nat, NEW b \in Nat, a <= b, b <= Len(t)
  PROVE  /\ Chars(Slice(t, a, b)) = {t[i] : i \in (a + 1)..b}
         /\ Chars(Slice(t, a, b)) \subseteq Chars(t)
         /\ Once(t) => Once(Slice(t, a, b))
<1> DEFINE q == Slice(t, a, b)
           l == Len(t)
<1>0. Len(q) = b - a /\ (\A i \in 1..(b - a) : q[i] = t[a + i]) /\ l \in Nat
  BY SliceFacts, LenProperties DEF Texts
<1>l. b <= l
  OBVIOUS
<1> HIDE DEF q, l
<1>1. \A i \in 1..(b - a) : a + i \in (a + 1)..b
  OBVIOUS
<1>2. \A j \in (a + 1)..b : j - a \in 1..(b - a) /\ a + (j - a) = j /\ j \in 1..l
  BY <1>0, <1>l
<1>3. Chars(q) = {t[i] : i \in (a + 1)..b}
  <2>1. \A i \in 1..(b - a) : q[i] \in {t[j] : j \in (a + 1)..b}
    BY <1>0, <1>1
  <2>2. ASSUME NEW j \in (a + 1)..b PROVE t[j] \in {q[i] : i \in 1..(b - a)}
    <3>1. q[j - a] = t[j] /\ j - a \in 1..(b - a)
      BY <1>0, <1>2
    <3> QED
      BY <3>1
  <2> QED
    BY <1>0, <2>1, <2>2 DEF Chars
<1>4. Chars(q) \subseteq Chars(t)
  BY <1>2, <1>3 DEF Chars, l
<1>5. ASSUME Once(t) PROVE Once(q)
  <2> SUFFICES ASSUME NEW i \in 1..(b - a), NEW j \in 1..(b - a), q[i] = q[j] PROVE i = j
    BY <1>0 DEF Once
  <2>1. t[a + i] = t[a + j] /\ a + i \in 1..l /\ a + j \in 1..l
    BY <1>0, <1>1, <1>2
  <2>2. a + i = a + j
    BY <1>5, <2>1 DEF Once, l
  <2> QED
    BY <2>2
<1> QED
  BY <1>3, <1>4, <1>5 DEF q

\* Slices that do not overlap share nothing in a text that has each character once.
LEMMA SlicesApart ==
  ASSUME NEW t \in Texts, Once(t), NEW a \in Nat, NEW b \in Nat, NEW c \in Nat, NEW d \in Nat,
         a <= b, b <= c, c <= d, d <= Len(t)
  PROVE  Chars(Slice(t, a, b)) \cap Chars(Slice(t, c, d)) = {}
<1> DEFINE l == Len(t)
<1>0. l \in Nat /\ d <= l
  BY LenProperties DEF Texts
<1> HIDE DEF l
<1>1. b <= l
  BY <1>0
<1>2. Chars(Slice(t, a, b)) = {t[i] : i \in (a + 1)..b}
  BY <1>1, CharsOfSlice DEF l
<1>3. Chars(Slice(t, c, d)) = {t[i] : i \in (c + 1)..d}
  BY CharsOfSlice
<1>4. ASSUME NEW i \in (a + 1)..b, NEW j \in (c + 1)..d, t[i] = t[j] PROVE FALSE
  <2>1. i \in 1..l /\ j \in 1..l /\ i # j
    BY <1>0
  <2> QED
    BY <1>4, <2>1 DEF Once, l
<1> QED
  BY <1>2, <1>3, <1>4

----------------------------------------------------------------------------
\* The characters a batch takes out, and a batch that puts in none that was there, and each once.
Taken(t, ops, n) == Chars(Slice(t, ops[n].start, ops[n].stop))

\* What the batch writes is new to the text, and each character is written once.
Novel(t, ops) ==
  \A n \in 1..Len(ops) :
    /\ Once(ops[n].text) /\ Chars(ops[n].text) \cap Chars(t) = {}
    /\ \A m \in 1..Len(ops) : m # n => Chars(ops[n].text) \cap Chars(ops[m].text) = {}

\* What the first k ops of a batch make of the characters.
Swaps(t, ops, k, u) ==
  /\ u \in Texts /\ Once(u)
  /\ \A n \in 1..k : Chars(ops[n].text) \subseteq Chars(u) /\ Taken(t, ops, n) \cap Chars(u) = {}
  /\ \A char \in Chars(u) : char \in Chars(t) \/ \E n \in 1..k : char \in Chars(ops[n].text)
  /\ \A char \in Chars(t) : char \in Chars(u) \/ \E n \in 1..k : char \in Taken(t, ops, n)

\* A batch that writes only what is new leaves every character written once.
LEMMA BatchSwaps ==
  ASSUME NEW t \in Texts, NEW ops, Normal(t, ops), Once(t), Novel(t, ops),
         NEW pre, NEW suf, Laid(t, ops, pre, suf)
  PROVE  Swaps(t, ops, Len(ops), Mid(t, ops, pre, Len(ops)))
<1> DEFINE k == Len(ops)
           Good == {n \in 0..k : Swaps(t, ops, n, Mid(t, ops, pre, n))}
<1>0. k \in Nat /\ Len(t) \in Nat
  BY EndFacts
<1>1. \A n \in 1..k : Stepped(t, ops, pre, suf, n)
  BY LaidStep
<1>2. \A n \in 1..k : Taken(t, ops, n) \subseteq Chars(t)
  <2> SUFFICES ASSUME NEW n \in 1..k PROVE Taken(t, ops, n) \subseteq Chars(t)
    OBVIOUS
  <2> DEFINE s == ops[n].start
             e == ops[n].stop
  <2>1. s \in Nat /\ e \in Nat /\ s <= e /\ e <= Len(t)
    BY EndFacts
  <2> HIDE DEF s, e
  <2>2. Chars(Slice(t, s, e)) \subseteq Chars(t)
    BY <2>1, CharsOfSlice
  <2> QED
    BY <2>2 DEF Taken, s, e
<1>3. 0 \in Good
  <2>1. pre[0] = <<>> /\ End(ops, 0) = 0
    BY DEF Laid, End
  <2>2. Slice(t, 0, Len(t)) = t
    BY SliceAll
  <2>3. <<>> \o t = t
    BY ConcatEmptySeq DEF Texts
  <2>4. Mid(t, ops, pre, 0) = t
    BY <2>1, <2>2, <2>3 DEF Mid
  <2>5. Swaps(t, ops, 0, t)
    BY DEF Swaps
  <2> QED
    BY <1>0, <2>4, <2>5
<1>4. \A n \in 0..(k - 1) : n \in Good => n + 1 \in Good
  <2> SUFFICES ASSUME NEW i \in 0..(k - 1), i \in Good PROVE i + 1 \in Good
    OBVIOUS
  <2> DEFINE n == i + 1
             x == ops[n].text
             o == Slice(t, ops[n].start, ops[n].stop)
             c == Slice(t, ops[n].stop, Len(t))
             v == Mid(t, ops, pre, i)
             w == Mid(t, ops, pre, n)
  <2>1. n \in 1..k /\ n - 1 = i /\ n \in 0..k /\ i \in Nat /\ \A m \in 1..n : m = n \/ m \in 1..i
    BY <1>0
  <2>n. \A m \in 1..i : m \in 1..k /\ m # n /\ m \in 1..n
    BY <1>0
  <2>2. Swaps(t, ops, i, v)
    OBVIOUS
  <2>3. PICK a \in Texts : w = Three(a, x, c) /\ v = Three(a, o, c)
    BY <1>1, <2>1 DEF Stepped, Swapped
  <2>4. x \in Texts /\ o \in Texts /\ c \in Texts
    <3> DEFINE s == ops[n].start
               e == ops[n].stop
               l == Len(t)
    <3>1. s \in Nat /\ e \in Nat /\ s <= e /\ e <= l /\ x \in Texts
      BY <2>1, EndFacts
    <3>2. l \in Nat /\ l <= Len(t)
      BY <1>0
    <3> HIDE DEF s, e, l, n
    <3>3. Slice(t, s, e) \in Texts
      BY <3>1, SliceFacts DEF l
    <3>4. Slice(t, e, l) \in Texts
      BY <3>1, <3>2, SliceFacts
    <3> QED
      BY <3>1, <3>3, <3>4 DEF s, e, l
  <2>5. Taken(t, ops, n) = Chars(o)
    BY DEF Taken
  <2> DEFINE A == Chars(a)
             X == Chars(x)
             O == Chars(o)
             C == Chars(c)
             T == Chars(t)
  <2> HIDE DEF x, o, c, v, w, n
  <2>6. /\ Chars(w) = A \cup X \cup C /\ w \in Texts
        /\ Once(w) <=> Once(a) /\ Once(x) /\ Once(c) /\ A \cap X = {} /\ A \cap C = {} /\ X \cap C = {}
    BY <2>3, <2>4, CharsOfThree
  <2>7. /\ Chars(v) = A \cup O \cup C
        /\ Once(v) <=> Once(a) /\ Once(o) /\ Once(c) /\ A \cap O = {} /\ A \cap C = {} /\ O \cap C = {}
    BY <2>3, <2>4, CharsOfThree
  <2>8. Once(x) /\ X \cap T = {} /\ \A m \in 1..k : m # n => X \cap Chars(ops[m].text) = {}
    BY <2>1 DEF Novel, x
  <2>o. O \subseteq T
    BY <1>2, <2>1, <2>5
  <2> HIDE DEF A, X, O, C, T
  <2>9. X \cap Chars(v) = {}
    <3> SUFFICES ASSUME NEW char \in Chars(v), char \in X PROVE FALSE
      OBVIOUS
    <3>1. char \in T \/ \E m \in 1..i : char \in Chars(ops[m].text)
      BY <2>2 DEF Swaps, T
    <3> QED
      BY <2>8, <2>n, <3>1
  <2>10. Once(w)
    BY <2>2, <2>6, <2>7, <2>8, <2>9 DEF Swaps
  <2>11. ASSUME NEW m \in 1..n
         PROVE  Chars(ops[m].text) \subseteq Chars(w) /\ Taken(t, ops, m) \cap Chars(w) = {}
    <3>1. CASE m = n
      <4>1. Chars(ops[m].text) = X /\ Taken(t, ops, m) = O
        BY <2>5, <3>1 DEF X, O, x
      <4> QED
        BY <2>2, <2>6, <2>7, <2>8, <2>o, <4>1 DEF Swaps
    <3>2. CASE m # n
      <4>1. m \in 1..i /\ m \in 1..k
        BY <2>1, <2>n, <3>2
      <4>2. Chars(ops[m].text) \subseteq Chars(v) /\ Taken(t, ops, m) \cap Chars(v) = {}
        BY <2>2, <4>1 DEF Swaps
      <4>3. Chars(ops[m].text) \cap T = {} /\ Taken(t, ops, m) \subseteq T
        BY <1>2, <4>1 DEF Novel, T
      <4> QED
        BY <2>6, <2>7, <2>8, <2>o, <4>2, <4>3
    <3> QED
      BY <3>1, <3>2
  <2>12. ASSUME NEW char \in Chars(w)
         PROVE  char \in T \/ \E m \in 1..n : char \in Chars(ops[m].text)
    <3>1. CASE char \in X
      <4>1. n \in 1..n
        BY <2>1
      <4> QED
        BY <3>1, <4>1 DEF X, x
    <3>2. CASE char \notin X
      <4>1. char \in Chars(v)
        BY <2>6, <2>7, <3>2
      <4>2. char \in T \/ \E m \in 1..i : char \in Chars(ops[m].text)
        BY <2>2, <4>1 DEF Swaps, T
      <4> QED
        BY <2>n, <4>2
    <3> QED
      BY <3>1, <3>2
  <2>13. ASSUME NEW char \in T
         PROVE  char \in Chars(w) \/ \E m \in 1..n : char \in Taken(t, ops, m)
    <3>1. char \in Chars(v) \/ \E m \in 1..i : char \in Taken(t, ops, m)
      BY <2>2 DEF Swaps, T
    <3>2. CASE char \in Chars(v)
      <4>1. char \in Chars(w) \/ char \in O
        BY <2>6, <2>7, <3>2
      <4>2. n \in 1..n
        BY <2>1
      <4> QED
        BY <2>5, <4>1, <4>2 DEF O
    <3> QED
      BY <2>n, <3>1, <3>2
  <2>14. Swaps(t, ops, n, w)
    BY <2>6, <2>10, <2>11, <2>12, <2>13 DEF Swaps, T
  <2> QED
    BY <2>1, <2>14 DEF w, n
<1> HIDE DEF Good
<1>5. \A n \in 0..k : n \in Good
  BY <1>0, <1>3, <1>4, UpInduction
<1>6. k \in 0..k
  BY <1>0
<1> QED
  BY <1>5, <1>6 DEF Good

\* Batch ops turns text t into u, bringing in nothing that t had.
Turns(t, ops, u) ==
  /\ t \in Texts /\ Once(t) /\ Normal(t, ops) /\ Novel(t, ops)
  /\ u \in Texts /\ Applied(t, ops) = u

\* Step leads from text t to text u, and back.
Leads(t, step, u) == Turns(t, step.forward, u) /\ Turns(u, step.inverse, t)

\* What Applied gives is what was laid.
LEMMA AppliedMid ==
  ASSUME NEW t \in Texts, NEW ops, Normal(t, ops), NEW pre, NEW suf, Laid(t, ops, pre, suf)
  PROVE  Applied(t, ops) = Mid(t, ops, pre, Len(ops))
<1> DEFINE k == Len(ops)
<1>1. k \in 0..k
  <2>1. k \in Nat
    BY EndFacts
  <2> QED
    BY <2>1
<1>2. Parts(Applied(t, ops), ops, pre, suf)
  BY LaidText
<1>3. Applied(t, ops) = pre[k] \o suf[k]
  BY <1>1, <1>2 DEF Parts
<1>4. suf[k] = Slice(t, End(ops, k), Len(t))
  BY DEF Laid
<1> QED
  BY <1>3, <1>4 DEF Mid

\* A batch that turns one text into another swaps its ranges.
LEMMA TurnsSwaps ==
  ASSUME NEW t, NEW ops, NEW u, Turns(t, ops, u)
  PROVE  Swaps(t, ops, Len(ops), u)
<1>1. t \in Texts /\ Once(t) /\ Normal(t, ops) /\ Novel(t, ops) /\ Applied(t, ops) = u
  BY DEF Turns
<1>2. PICK pre, suf : Laid(t, ops, pre, suf)
  BY <1>1, BatchLaid
<1>3. u = Mid(t, ops, pre, Len(ops))
  BY <1>1, <1>2, AppliedMid
<1>4. Swaps(t, ops, Len(ops), Mid(t, ops, pre, Len(ops)))
  BY <1>1, <1>2, BatchSwaps
<1> QED
  BY <1>3, <1>4

\* An edit's step leads there and back.
LEMMA EditLeads ==
  ASSUME NEW t \in Texts, Once(t), NEW ops, Normal(t, ops), Novel(t, ops)
  PROVE  Leads(t, Step(ops, InverseOps(t, ops)), Applied(t, ops))
<1> DEFINE k == Len(ops)
           u == Applied(t, ops)
           inv == InverseOps(t, ops)
           old(n) == Slice(t, ops[n].start, ops[n].stop)
<1>0. k \in Nat /\ Len(t) \in Nat /\ ops \in Seq(OpSet)
  BY EndFacts
<1>1. PICK pre, suf : Laid(t, ops, pre, suf)
  BY BatchLaid
<1>2. u \in Texts /\ Normal(u, inv) /\ Applied(u, inv) = t
  BY InverseLeadsBack
<1>3. Turns(t, ops, u)
  BY <1>2 DEF Turns
<1>4. Swaps(t, ops, k, u)
  BY <1>3, TurnsSwaps
<1>5. /\ Len(inv) = k
      /\ \A n \in 1..k : inv[n] = EditOp(Len(pre[n - 1]) + (ops[n].start - End(ops, n - 1)),
                                         Len(pre[n]), old(n))
  BY <1>1, InverseNormal
<1>6. \A n \in 1..k : inv[n].text = old(n)
  <2> SUFFICES ASSUME NEW n \in 1..k PROVE inv[n].text = old(n)
    OBVIOUS
  <2> DEFINE a == Len(pre[n - 1]) + (ops[n].start - End(ops, n - 1))
             b == Len(pre[n])
             c == old(n)
  <2>1. inv[n] = EditOp(a, b, c)
    BY <1>5
  <2> HIDE DEF a, b, c, inv
  <2>2. inv[n].text = c
    BY <2>1 DEF EditOp
  <2> QED
    BY <2>2 DEF c
<1>7. \A n \in 1..k : ops[n].start \in Nat /\ ops[n].stop \in Nat
                      /\ ops[n].start <= ops[n].stop /\ ops[n].stop <= Len(t)
  BY EndFacts
<1>8. ASSUME NEW n \in 1..k, NEW m \in 1..k, n < m
      PROVE  Chars(old(n)) \cap Chars(old(m)) = {}
  <2>1. ops[n].stop <= ops[m].start
    <3>1. Disjoint(ops) /\ \A i \in 1..Len(ops) : ops[i].start \in Nat /\ ops[i].stop \in Nat
                                                 /\ ops[i].start <= ops[i].stop
      BY <1>7 DEF Normal
    <3> QED
      BY <1>0, <1>8, <3>1, StartsGrow
  <2> DEFINE a == ops[n].start
             b == ops[n].stop
             c == ops[m].start
             d == ops[m].stop
  <2>2. a \in Nat /\ b \in Nat /\ c \in Nat /\ d \in Nat /\ a <= b /\ b <= c /\ c <= d /\ d <= Len(t)
    BY <1>7, <2>1
  <2> HIDE DEF a, b, c, d
  <2>3. Chars(Slice(t, a, b)) \cap Chars(Slice(t, c, d)) = {}
    BY <2>2, SlicesApart
  <2> QED
    BY <2>3 DEF a, b, c, d
<1>9. ASSUME NEW n \in 1..k PROVE Once(old(n))
  <2> DEFINE a == ops[n].start
             b == ops[n].stop
  <2>1. a \in Nat /\ b \in Nat /\ a <= b /\ b <= Len(t)
    BY <1>7
  <2> HIDE DEF a, b
  <2>2. Once(Slice(t, a, b))
    BY <2>1, CharsOfSlice
  <2> QED
    BY <2>2 DEF a, b
<1>10. \A n \in 1..k : Chars(old(n)) \cap Chars(u) = {}
  BY <1>4 DEF Swaps, Taken
<1>11. Once(u)
  BY <1>4 DEF Swaps
<1> HIDE DEF inv, u, old
<1>12. Novel(u, inv)
  <2> SUFFICES ASSUME NEW n \in 1..k
               PROVE  /\ Once(inv[n].text) /\ Chars(inv[n].text) \cap Chars(u) = {}
                      /\ \A m \in 1..k : m # n => Chars(inv[n].text) \cap Chars(inv[m].text) = {}
    BY <1>5 DEF Novel
  <2>1. ASSUME NEW m \in 1..k, m # n PROVE Chars(inv[n].text) \cap Chars(inv[m].text) = {}
    <3>1. n < m \/ m < n
      BY <1>0, <2>1
    <3>2. Chars(old(n)) \cap Chars(old(m)) = {}
      BY <1>8, <3>1
    <3> QED
      BY <1>6, <3>2
  <2> QED
    BY <1>6, <1>9, <1>10, <2>1
<1>13. Turns(u, inv, t)
  BY <1>2, <1>11, <1>12 DEF Turns
<1> DEFINE step == Step(ops, inv)
<1>14. step.forward = ops /\ step.inverse = inv
  BY DEF Step
<1> HIDE DEF step
<1>15. Leads(t, step, u)
  BY <1>3, <1>13, <1>14 DEF Leads, u
<1> QED
  BY <1>15 DEF step, inv, u

----------------------------------------------------------------------------
\* Where a batch leaves the positions of a text, from the ends its ops had (E), their starts (S),
\* the ends they have (P) and the starts they have (A).
Strides(k, E, S, P, A) ==
  /\ \A n \in 0..k : E[n] \in Nat /\ P[n] \in Nat
  /\ \A n \in 1..k :
       /\ S[n] \in Nat /\ A[n] \in Nat
       /\ E[n - 1] <= S[n] /\ S[n] <= E[n]
       /\ A[n] = P[n - 1] + (S[n] - E[n - 1]) /\ A[n] <= P[n]

\* Starts and landings only grow along a batch.
LEMMA StridesGrow ==
  ASSUME NEW k \in Nat, NEW E, NEW S, NEW P, NEW A, Strides(k, E, S, P, A),
         NEW i \in 0..k, NEW j \in 0..k, i <= j
  PROVE  E[i] <= E[j] /\ P[i] <= P[j]
<1> DEFINE Good == {n \in Nat : i + n <= k => E[i] <= E[i + n] /\ P[i] <= P[i + n]}
<1>1. 0 \in Good
  <2>1. i + 0 = i /\ E[i] \in Nat /\ P[i] \in Nat
    BY DEF Strides
  <2> QED
    BY <2>1
<1>2. \A n \in 0..(j - i - 1) : n \in Good => n + 1 \in Good
  <2> SUFFICES ASSUME NEW n \in 0..(j - i - 1), n \in Good PROVE n + 1 \in Good
    OBVIOUS
  <2> DEFINE m == i + n
  <2>1. m \in 0..k /\ m + 1 \in 1..k /\ m + 1 \in 0..k /\ i + (n + 1) = m + 1 /\ (m + 1) - 1 = m
        /\ n + 1 \in Nat /\ m <= k
    OBVIOUS
  <2>2. E[i] <= E[m] /\ P[i] <= P[m]
    BY <2>1
  <2> HIDE DEF m
  <2> DEFINE a == E[m]
             b == S[m + 1]
             c == E[m + 1]
             x == P[m]
             y == A[m + 1]
             z == P[m + 1]
             e == E[i]
             p == P[i]
  <2>3. a \in Nat /\ b \in Nat /\ c \in Nat /\ x \in Nat /\ y \in Nat /\ z \in Nat /\ e \in Nat /\ p \in Nat
    BY <2>1 DEF Strides
  <2>4. E[(m + 1) - 1] <= b /\ b <= c /\ y = P[(m + 1) - 1] + (b - E[(m + 1) - 1]) /\ y <= z
    BY <2>1 DEF Strides
  <2>5. a <= b /\ b <= c /\ y = x + (b - a) /\ y <= z /\ e <= a /\ p <= x
    BY <2>1, <2>2, <2>4
  <2> HIDE DEF a, b, c, x, y, z, e, p
  <2>6. e <= c /\ p <= z
    BY <2>3, <2>5
  <2> QED
    BY <2>1, <2>6 DEF e, c, p, z
<1> HIDE DEF Good
<1>3. CASE i = j
  <2>1. E[i] \in Nat /\ P[i] \in Nat
    BY DEF Strides
  <2> QED
    BY <1>3, <2>1
<1>4. CASE i < j
  <2> DEFINE d == j - i
  <2>1. d \in Nat /\ d - 1 = j - i - 1 /\ d \in 0..d /\ i + d = j
    BY <1>4
  <2>2. \A n \in 0..(d - 1) : n \in Good => n + 1 \in Good
    BY <1>2, <2>1
  <2> HIDE DEF d
  <2>3. d \in Good
    BY <1>1, <2>1, <2>2, UpInduction
  <2> QED
    BY <2>1, <2>3 DEF Good
<1> QED
  BY <1>3, <1>4

\* An offset lands within the text of the op it was at, or goes along with the gap it was in.
Lands(k, E, S, P, A, p, v) ==
  /\ v \in Nat
  /\ \/ \E j \in 1..k : S[j] <= p /\ p <= E[j] /\ A[j] <= v /\ v <= P[j]
     \/ \E i \in 0..k : E[i] <= p /\ (i < k => p < S[i + 1]) /\ v = P[i] + (p - E[i])

\* What is before a character that stays lands before it, and what is after it after it.
LEMMA LandsAround ==
  ASSUME NEW k \in Nat, NEW E, NEW S, NEW P, NEW A, Strides(k, E, S, P, A),
         NEW i \in 0..k, NEW p \in Nat, E[i] <= p, i < k => p < S[i + 1],
         NEW b \in Nat, NEW v, Lands(k, E, S, P, A, b, v)
  PROVE  /\ b <= p => v <= P[i] + (p - E[i])
         /\ b > p => v > P[i] + (p - E[i])
<1> DEFINE ei == E[i]
           pi == P[i]
           q == pi + (p - ei)
<1>0. v \in Nat /\ ei \in Nat /\ pi \in Nat /\ ei <= p
  BY DEF Lands, Strides
<1>n. \A n \in 0..k : n \in Nat
  OBVIOUS
<1>1. \A n \in 1..k : /\ S[n] \in Nat /\ A[n] \in Nat /\ E[n - 1] <= S[n] /\ S[n] <= E[n]
                      /\ A[n] = P[n - 1] + (S[n] - E[n - 1]) /\ A[n] <= P[n]
                      /\ E[n] \in Nat /\ P[n] \in Nat /\ E[n - 1] \in Nat /\ P[n - 1] \in Nat
                      /\ n \in 0..k /\ n - 1 \in 0..k
  <2> SUFFICES ASSUME NEW n \in 1..k
               PROVE  /\ S[n] \in Nat /\ A[n] \in Nat /\ E[n - 1] <= S[n] /\ S[n] <= E[n]
                      /\ A[n] = P[n - 1] + (S[n] - E[n - 1]) /\ A[n] <= P[n]
                      /\ E[n] \in Nat /\ P[n] \in Nat /\ E[n - 1] \in Nat /\ P[n - 1] \in Nat
                      /\ n \in 0..k /\ n - 1 \in 0..k
    OBVIOUS
  <2>1. n \in 0..k /\ n - 1 \in 0..k
    OBVIOUS
  <2> QED
    BY <2>1 DEF Strides
<1>2. \A n, m \in 0..k : n <= m => E[n] <= E[m] /\ P[n] <= P[m]
  BY StridesGrow
<1>3. ASSUME i < k
      PROVE  /\ i + 1 \in 1..k /\ i + 1 \in 0..k /\ p < S[i + 1] /\ q < A[i + 1]
             /\ A[i + 1] <= P[i + 1] /\ A[i + 1] \in Nat /\ P[i + 1] \in Nat /\ S[i + 1] \in Nat
             /\ E[i + 1] \in Nat /\ S[i + 1] <= E[i + 1]
  <2>1. i + 1 \in 1..k /\ i + 1 \in 0..k /\ (i + 1) - 1 = i
    BY <1>3
  <2> DEFINE s == S[i + 1]
             a == A[i + 1]
             z == P[i + 1]
             e == E[i + 1]
  <2>2. a = P[(i + 1) - 1] + (s - E[(i + 1) - 1])
    BY <1>1, <2>1
  <2>3. a = pi + (s - ei) /\ p < s
    BY <1>3, <2>1, <2>2
  <2>4. a \in Nat /\ s \in Nat /\ a <= z /\ z \in Nat /\ e \in Nat /\ s <= e
    BY <1>1, <2>1
  <2> HIDE DEF a, s, z, e, pi, ei
  <2>5. q < a
    BY <1>0, <2>3, <2>4
  <2> QED
    BY <2>1, <2>3, <2>4, <2>5 DEF a, s, z, e
<1>4. ASSUME NEW j \in 1..k, S[j] <= b, b <= E[j], A[j] <= v, v <= P[j]
      PROVE  (b <= p => v <= q) /\ (b > p => v > q)
  <2> DEFINE s == S[j]
             e == E[j]
             a == A[j]
             z == P[j]
             y == P[j - 1]
             f == E[j - 1]
  <2>1. /\ s \in Nat /\ e \in Nat /\ a \in Nat /\ z \in Nat /\ y \in Nat /\ f \in Nat
        /\ f <= s /\ s <= e /\ a = y + (s - f) /\ a <= z /\ j \in 0..k /\ j - 1 \in 0..k
    BY <1>1
  <2>2. s <= b /\ b <= e /\ a <= v /\ v <= z
    BY <1>4
  <2>3. CASE j <= i
    <3>1. e <= ei /\ z <= pi
      BY <1>2, <2>1, <2>3
    <3> HIDE DEF s, e, a, z, y, f, ei, pi
    <3>2. b <= p
      BY <1>0, <2>1, <2>2, <3>1
    <3>3. v <= q
      BY <1>0, <2>1, <2>2, <3>1
    <3> QED
      BY <3>2, <3>3
  <2>4. CASE j > i
    <3>1. i < k /\ i + 1 <= j /\ i <= j - 1
      BY <2>1, <2>4
    <3> DEFINE t == S[i + 1]
               g == A[i + 1]
               h == P[i + 1]
    <3>2. p < t /\ q < g /\ g <= h /\ g \in Nat /\ h \in Nat /\ t \in Nat /\ i + 1 \in 0..k
      BY <1>3, <3>1
    <3>3. t <= s /\ g <= a
      <4>1. CASE j = i + 1
        <5>1. t = s /\ g = a
          BY <4>1
        <5> HIDE DEF s, a, t, g
        <5> QED
          BY <2>1, <3>2, <5>1
      <4>2. CASE j # i + 1
        <5>1. i + 1 <= j - 1
          BY <3>1, <4>2
        <5>2. E[i + 1] <= f /\ h <= y
          BY <1>2, <2>1, <3>2, <5>1
        <5>3. t <= E[i + 1] /\ E[i + 1] \in Nat
          BY <1>3, <3>1
        <5> DEFINE w == E[i + 1]
        <5>4. w <= f /\ t <= w /\ w \in Nat
          BY <5>2, <5>3
        <5> HIDE DEF s, e, a, z, y, f, t, g, h, w
        <5>5. t <= s
          BY <2>1, <3>2, <5>4
        <5>6. g <= a
          BY <2>1, <3>2, <5>2
        <5> QED
          BY <5>5, <5>6
      <4> QED
        BY <4>1, <4>2
    <3> HIDE DEF s, e, a, z, y, f, ei, pi, t, g, h
    <3>4. b > p /\ v > q
      BY <1>0, <2>1, <2>2, <3>2, <3>3
    <3> QED
      BY <1>0, <3>4
  <2> QED
    BY <2>1, <2>3, <2>4
<1>5. ASSUME NEW j \in 0..k, E[j] <= b, j < k => b < S[j + 1], v = P[j] + (b - E[j])
      PROVE  (b <= p => v <= q) /\ (b > p => v > q)
  <2> DEFINE e == E[j]
             y == P[j]
  <2>1. e \in Nat /\ y \in Nat /\ e <= b /\ v = y + (b - e)
    BY <1>5 DEF Strides
  <2>2. CASE j = i
    <3>1. e = ei /\ y = pi
      BY <2>2
    <3> HIDE DEF e, y, ei, pi
    <3>2. (b <= p => v <= q) /\ (b > p => v > q)
      BY <1>0, <2>1, <3>1
    <3> QED
      BY <3>2
  <2>3. CASE j > i
    <3>1. i < k /\ i + 1 <= j
      BY <2>3
    <3> DEFINE t == S[i + 1]
               g == A[i + 1]
               h == P[i + 1]
               w == E[i + 1]
    <3>2. p < t /\ q < g /\ g <= h /\ g \in Nat /\ h \in Nat /\ t \in Nat /\ i + 1 \in 0..k
          /\ t <= w /\ w \in Nat
      BY <1>3, <3>1
    <3>3. w <= e /\ h <= y
      BY <1>2, <3>1, <3>2
    <3> HIDE DEF e, y, ei, pi, t, g, h, w
    <3>4. b > p /\ v > q
      BY <1>0, <2>1, <3>2, <3>3
    <3> QED
      BY <1>0, <3>4
  <2>4. CASE j < i
    <3>1. j < k /\ j + 1 \in 1..k /\ j + 1 \in 0..k /\ j + 1 <= i /\ (j + 1) - 1 = j
      BY <2>4
    <3> DEFINE t == S[j + 1]
               g == A[j + 1]
               h == P[j + 1]
               w == E[j + 1]
    <3>2. t \in Nat /\ g \in Nat /\ h \in Nat /\ w \in Nat /\ t <= w /\ g <= h
          /\ g = P[(j + 1) - 1] + (t - E[(j + 1) - 1])
      BY <1>1, <3>1
    <3>3. g = y + (t - e) /\ b < t
      BY <1>5, <3>1, <3>2
    <3>4. w <= ei /\ h <= pi
      BY <1>2, <3>1
    <3> HIDE DEF e, y, ei, pi, t, g, h, w
    <3>5. b <= p /\ v <= q
      BY <1>0, <2>1, <3>2, <3>3, <3>4
    <3> QED
      BY <1>0, <3>5
  <2> QED
    BY <1>n, <2>2, <2>3, <2>4
<1> HIDE DEF q
<1>6. (b <= p => v <= q) /\ (b > p => v > q)
  BY <1>4, <1>5 DEF Lands
<1> QED
  BY <1>6 DEF q

\* How the texts of a batch are laid out, as strides.
Laying(t, ops, pre, E, S, P, A) ==
  /\ E = [n \in 0..Len(ops) |-> End(ops, n)] /\ S = [n \in 1..Len(ops) |-> ops[n].start]
  /\ P = [n \in 0..Len(ops) |-> Len(pre[n])] /\ A = [n \in 1..Len(ops) |-> NewStart(ops, n)]

\* A batch laid along a text has strides.
LEMMA LayingStrides ==
  ASSUME NEW t \in Texts, NEW ops, Normal(t, ops), NEW pre, NEW suf, Laid(t, ops, pre, suf),
         NEW E, NEW S, NEW P, NEW A, Laying(t, ops, pre, E, S, P, A)
  PROVE  /\ Strides(Len(ops), E, S, P, A) /\ P[0] = 0 /\ E[0] = 0
         /\ \A n \in 1..Len(ops) : A[n] + Len(ops[n].text) = P[n] /\ E[n] = ops[n].stop
<1> DEFINE k == Len(ops)
<1>0. k \in Nat
  BY EndFacts
<1>1. /\ \A n \in 0..k : E[n] = End(ops, n) /\ P[n] = Len(pre[n])
      /\ \A n \in 1..k : S[n] = ops[n].start /\ A[n] = NewStart(ops, n)
  BY DEF Laying
<1>2. ASSUME NEW n \in 0..k PROVE E[n] \in Nat /\ P[n] \in Nat
  <2>1. pre[n] \in Texts
    BY DEF Laid
  <2>2. Len(pre[n]) \in Nat
    BY <2>1, LenProperties DEF Texts
  <2>3. End(ops, n) \in Nat
    BY EndFacts
  <2> QED
    BY <1>1, <2>2, <2>3
<1>3. ASSUME NEW n \in 1..k
      PROVE  /\ S[n] \in Nat /\ A[n] \in Nat
             /\ E[n - 1] <= S[n] /\ S[n] <= E[n]
             /\ A[n] = P[n - 1] + (S[n] - E[n - 1]) /\ A[n] <= P[n]
             /\ A[n] + Len(ops[n].text) = P[n] /\ E[n] = ops[n].stop
  <2> DEFINE e == E[n - 1]
             s == S[n]
             d == E[n]
             y == P[n - 1]
             z == P[n]
             a == A[n]
             x == Len(ops[n].text)
  <2>1. n - 1 \in 0..k /\ n \in 0..k
    BY <1>0
  <2>2. s \in Nat /\ x \in Nat /\ e <= s /\ s <= d /\ d = ops[n].stop
    <3>1. /\ ops[n].start \in Nat /\ Len(ops[n].text) \in Nat /\ End(ops, n - 1) <= ops[n].start
          /\ ops[n].start <= ops[n].stop /\ End(ops, n) = ops[n].stop
      BY EndFacts
    <3> QED
      BY <1>1, <2>1, <3>1
  <2>3. a = y + (s - e)
    <3>1. NewStart(ops, n) = Len(pre[n - 1]) + (ops[n].start - End(ops, n - 1))
      BY LaidStarts
    <3> QED
      BY <1>1, <2>1, <3>1
  <2>4. z = y + (s - e) + x
    <3>1. Stepped(t, ops, pre, suf, n)
      BY LaidStep
    <3>2. Len(pre[n]) = Len(pre[n - 1]) + (ops[n].start - End(ops, n - 1)) + Len(ops[n].text)
      BY <3>1 DEF Stepped
    <3> QED
      BY <1>1, <2>1, <3>2
  <2>5. e \in Nat /\ d \in Nat /\ y \in Nat /\ z \in Nat
    BY <1>2, <2>1
  <2> HIDE DEF e, s, d, y, z, a, x
  <2>6. a \in Nat /\ a <= z /\ a + x = z
    BY <2>2, <2>3, <2>4, <2>5
  <2> QED
    BY <2>2, <2>3, <2>6 DEF e, s, d, y, z, a, x
<1>4. P[0] = 0 /\ E[0] = 0
  <2>1. pre[0] = <<>> /\ End(ops, 0) = 0 /\ 0 \in 0..k
    BY <1>0 DEF Laid, End
  <2>2. Len(<<>>) = 0
    BY EmptySeq
  <2> QED
    BY <1>1, <2>1, <2>2
<1>5. Strides(k, E, S, P, A)
  BY <1>2, <1>3 DEF Strides
<1> QED
  BY <1>3, <1>4, <1>5

\* The first numbers up to a limit, told by what is among them.
LEMMA FirstNumbers ==
  ASSUME NEW k \in Nat, NEW s \in SUBSET (1..k), \A n \in s : \A m \in 1..n : m \in s
  PROVE  Cardinality(s) \in 0..k /\ s = 1..Cardinality(s)
<1>1. CASE s = {}
  <2>1. Cardinality(s) = 0
    BY <1>1, FS_EmptySet
  <2> QED
    BY <1>1, <2>1
<1>2. CASE s # {}
  <2> DEFINE i == Max(s)
  <2>1. i \in s /\ \A y \in s : i >= y
    BY <1>2, MaxIn
  <2> HIDE DEF i
  <2>2. i \in 1..k /\ s = 1..i
    <3>1. i \in 1..k
      BY <2>1
    <3>2. \A n \in s : n \in 1..i
      <4>1. \A n \in s : n \in 1..k /\ i >= n
        BY <2>1
      <4> QED
        BY <3>1, <4>1
    <3>3. \A n \in 1..i : n \in s
      BY <2>1
    <3> QED
      BY <3>1, <3>2, <3>3
  <2>3. Cardinality(1..i) = i
    <3>1. 1 \in Int /\ i \in Int /\ i - 1 + 1 = i /\ ~(1 > i)
      BY <2>2
    <3>2. Cardinality(1..i) = IF 1 > i THEN 0 ELSE i - 1 + 1
      BY <3>1, FS_Interval
    <3> QED
      BY <3>1, <3>2
  <2> QED
    BY <2>2, <2>3
<1> QED
  BY <1>1, <1>2

\* An offset within an op lands within its text.
LEMMA LandsWithin ==
  ASSUME NEW e, NEW p \in Nat, NEW bias \in Biases,
         e.oldStart \in Nat, e.oldStop \in Nat, e.newStart \in Nat, e.newStop \in Nat,
         e.newStart <= e.newStop, e.oldStart <= p, p <= e.oldStop
  PROVE  /\ MapWithin(e, p, bias) \in Nat
         /\ e.newStart <= MapWithin(e, p, bias) /\ MapWithin(e, p, bias) <= e.newStop
<1>1. CASE p = e.oldStart
  <2>1. MapWithin(e, p, bias) = IF bias = "Right" THEN e.newStop ELSE e.newStart
    BY <1>1 DEF MapWithin
  <2> QED
    BY <2>1
<1>2. CASE p > e.oldStart /\ p < e.oldStop
  <2> DEFINE m == e.newStart + p - e.oldStart
  <2>0. p # e.oldStart
    BY <1>2
  <2>1. MapWithin(e, p, bias) = Min({m, e.newStop})
    BY <1>2, <2>0 DEF MapWithin
  <2>2. m \in Nat /\ e.newStart <= m
    BY <1>2
  <2> HIDE DEF m
  <2>3. Min({m, e.newStop}) = IF m <= e.newStop THEN m ELSE e.newStop
    BY <2>2, MinMax
  <2> QED
    BY <2>1, <2>2, <2>3
<1>3. CASE p # e.oldStart /\ ~(p > e.oldStart /\ p < e.oldStop)
  <2>1. MapWithin(e, p, bias) = e.newStop
    BY <1>3 DEF MapWithin
  <2> QED
    BY <2>1
<1> QED
  BY <1>1, <1>2, <1>3

\* An offset mapped through the batch's patch lands where the strides say.
LEMMA OffsetLands ==
  ASSUME NEW t \in Texts, NEW ops, Normal(t, ops), NEW pre, NEW suf, Laid(t, ops, pre, suf),
         NEW E, NEW S, NEW P, NEW A, Laying(t, ops, pre, E, S, P, A),
         NEW p \in Nat, NEW bias \in Biases
  PROVE  Lands(Len(ops), E, S, P, A, p, MapOffset(PatchOf(ops), p, bias))
<1> DEFINE k == Len(ops)
           patch == PatchOf(ops)
           ended == {n \in DOMAIN patch : patch[n].oldStop < p}
           last == Cardinality(ended)
           v == MapOffset(patch, p, bias)
<1>0. k \in Nat /\ ops \in Seq(OpSet) /\ DOMAIN ops = 1..k
  BY EndFacts, LenProperties
<1>1. /\ Strides(k, E, S, P, A) /\ P[0] = 0 /\ E[0] = 0
      /\ \A n \in 1..k : A[n] + Len(ops[n].text) = P[n] /\ E[n] = ops[n].stop
  BY LayingStrides
<1>2. DOMAIN patch = 1..k /\ Len(patch) = k
      /\ \A n \in 1..k : /\ patch[n].oldStart = S[n] /\ patch[n].oldStop = E[n]
                         /\ patch[n].newStart = A[n] /\ patch[n].newStop = P[n]
  <2>1. patch = [n \in 1..k |-> [oldStart |-> ops[n].start, oldStop |-> ops[n].stop,
                                 newStart |-> NewStart(ops, n),
                                 newStop |-> NewStart(ops, n) + Len(ops[n].text)]]
    BY <1>0 DEF PatchOf
  <2> HIDE DEF patch, k
  <2>2. DOMAIN patch = 1..k /\ Len(patch) = k
    BY <1>0, <2>1
  <2>3. \A n \in 1..k : S[n] = ops[n].start /\ A[n] = NewStart(ops, n)
    BY DEF Laying, k
  <2>4. ASSUME NEW n \in 1..k
        PROVE  /\ patch[n].oldStart = S[n] /\ patch[n].oldStop = E[n]
               /\ patch[n].newStart = A[n] /\ patch[n].newStop = P[n]
    <3>1. patch[n] = [oldStart |-> ops[n].start, oldStop |-> ops[n].stop,
                      newStart |-> NewStart(ops, n),
                      newStop |-> NewStart(ops, n) + Len(ops[n].text)]
      BY <2>1
    <3> QED
      BY <1>1, <2>3, <3>1
  <2> QED
    BY <2>2, <2>4
<1>3. \A n \in 1..k : /\ S[n] \in Nat /\ E[n] \in Nat /\ A[n] \in Nat /\ P[n] \in Nat
                      /\ S[n] <= E[n] /\ A[n] <= P[n] /\ n \in 0..k
  BY <1>0, <1>1 DEF Strides
<1> HIDE DEF patch, k
<1>4. last \in 0..k /\ ended = 1..last
  <2>1. ended \in SUBSET (1..k)
    BY <1>2
  <2>2. ASSUME NEW n \in ended, NEW m \in 1..n PROVE m \in ended
    <3>1. n \in 1..k /\ E[n] < p
      BY <1>2
    <3>2. m \in 1..k /\ m \in 0..k /\ n \in 0..k /\ m <= n
      BY <1>0, <3>1
    <3>3. E[m] <= E[n]
      BY <1>0, <1>1, <3>2, StridesGrow
    <3>4. E[m] < p
      BY <1>3, <3>1, <3>2, <3>3
    <3> QED
      BY <1>2, <3>2, <3>4
  <2> HIDE DEF ended
  <2>3. \A n \in ended : \A m \in 1..n : m \in ended
    BY <2>2
  <2> QED
    BY <1>0, <2>1, <2>3, FirstNumbers
<1>5. v = LET shift == IF ended = {} THEN 0 ELSE patch[last].newStop - patch[last].oldStop
          IN IF last < Len(patch) /\ p >= patch[last + 1].oldStart
             THEN MapWithin(patch[last + 1], p, bias)
             ELSE p + shift
  BY DEF MapOffset
<1> HIDE DEF last, v, ended
<1>6. CASE last < k /\ p >= patch[last + 1].oldStart
  <2> DEFINE j == last + 1
             e == patch[j]
  <2>1. j \in 1..k /\ j \notin ended
    BY <1>0, <1>4, <1>6
  <2>2. S[j] <= p /\ p <= E[j]
    <3>1. ~(E[j] < p)
      BY <1>2, <2>1 DEF ended
    <3>2. p >= S[j]
      BY <1>2, <1>6, <2>1
    <3> QED
      BY <1>3, <2>1, <3>1, <3>2
  <2>3. v = MapWithin(e, p, bias)
    BY <1>2, <1>5, <1>6
  <2> HIDE DEF j
  <2>4. e.oldStart = S[j] /\ e.oldStop = E[j] /\ e.newStart = A[j] /\ e.newStop = P[j]
    BY <1>2, <2>1
  <2> HIDE DEF e
  <2>5. /\ MapWithin(e, p, bias) \in Nat
        /\ e.newStart <= MapWithin(e, p, bias) /\ MapWithin(e, p, bias) <= e.newStop
    BY <1>3, <2>1, <2>2, <2>4, LandsWithin
  <2>6. v \in Nat /\ A[j] <= v /\ v <= P[j]
    BY <2>3, <2>4, <2>5
  <2> QED
    BY <2>1, <2>2, <2>6 DEF Lands, v, k, patch
<1>7. CASE ~(last < k /\ p >= patch[last + 1].oldStart)
  <2>1. v = p + (IF ended = {} THEN 0 ELSE patch[last].newStop - patch[last].oldStop)
    BY <1>2, <1>5, <1>7
  <2>2. E[last] \in Nat /\ P[last] \in Nat
    BY <1>1, <1>4 DEF Strides
  <2>3. E[last] <= p /\ v = p + (P[last] - E[last])
    <3>1. CASE last = 0
      <4>1. ended = {}
        BY <1>4, <3>1
      <4> QED
        BY <1>1, <2>1, <3>1, <4>1
    <3>2. CASE last # 0
      <4>1. last \in ended /\ last \in 1..k
        BY <1>0, <1>4, <3>2
      <4>2. E[last] < p
        BY <1>2, <4>1 DEF ended
      <4>3. v = p + (P[last] - E[last])
        BY <1>2, <2>1, <4>1
      <4> QED
        BY <2>2, <4>2, <4>3
    <3> QED
      BY <3>1, <3>2
  <2>4. v \in Nat /\ v = P[last] + (p - E[last])
    BY <2>2, <2>3
  <2>5. last < k => p < S[last + 1]
    <3> SUFFICES ASSUME last < k PROVE p < S[last + 1]
      OBVIOUS
    <3>1. last + 1 \in 1..k
      BY <1>0, <1>4
    <3>2. ~(p >= S[last + 1])
      BY <1>2, <1>7, <3>1
    <3> QED
      BY <1>3, <3>1, <3>2
  <2> QED
    BY <1>4, <2>3, <2>4, <2>5 DEF Lands, v, k, patch
<1> QED
  BY <1>6, <1>7

\* Every offset of a text that no op takes out is in a gap.
LEMMA GapOf ==
  ASSUME NEW k \in Nat, NEW E, NEW S, NEW P, NEW A, Strides(k, E, S, P, A), E[0] = 0,
         NEW p \in Nat, \A n \in 1..k : ~(S[n] <= p /\ p < E[n])
  PROVE  \E i \in 0..k : E[i] <= p /\ (i < k => p < S[i + 1])
<1> DEFINE Past == {n \in 1..k : E[n] <= p}
<1>1. CASE Past = {}
  <2>1. CASE k = 0
    <3>1. 0 \in 0..k /\ E[0] <= p /\ ~(0 < k)
      BY <2>1
    <3> QED
      BY <3>1
  <2>2. CASE k # 0
    <3>1. 1 \in 1..k /\ 0 \in 0..k /\ 0 + 1 = 1
      BY <2>2
    <3>2. ~(E[1] <= p) /\ ~(S[1] <= p /\ p < E[1])
      BY <1>1, <3>1
    <3>3. E[1] \in Nat /\ S[1] \in Nat
      <4>1. 1 \in 0..k
        BY <3>1
      <4> QED
        BY <3>1, <4>1 DEF Strides
    <3>4. p < S[0 + 1] /\ E[0] <= p
      BY <3>1, <3>2, <3>3
    <3> QED
      BY <3>1, <3>4
  <2> QED
    BY <2>1, <2>2
<1>2. CASE Past # {}
  <2> DEFINE i == Max(Past)
  <2>1. i \in Past /\ \A y \in Past : i >= y
    <3>1. Past \in SUBSET (1..k)
      OBVIOUS
    <3> HIDE DEF Past
    <3> QED
      BY <1>2, <3>1, MaxIn
  <2> HIDE DEF i
  <2>2. i \in 0..k /\ i \in 1..k /\ E[i] <= p
    BY <2>1
  <2>3. ASSUME i < k PROVE p < S[i + 1]
    <3>1. i + 1 \in 1..k /\ i + 1 \in 0..k /\ ~(i >= i + 1)
      BY <2>2, <2>3
    <3>2. i + 1 \notin Past
      BY <2>1, <3>1
    <3>3. ~(E[i + 1] <= p) /\ ~(S[i + 1] <= p /\ p < E[i + 1])
      BY <3>1, <3>2
    <3>4. E[i + 1] \in Nat /\ S[i + 1] \in Nat
      BY <3>1 DEF Strides
    <3> QED
      BY <3>3, <3>4
  <2> QED
    BY <2>2, <2>3
<1> QED
  BY <1>1, <1>2

\* A character in a gap goes where the gap goes.
LEMMA GapMoves ==
  ASSUME NEW t \in Texts, NEW ops, Normal(t, ops), NEW pre, NEW suf, Laid(t, ops, pre, suf),
         NEW i \in 0..Len(ops), NEW p \in Nat, End(ops, i) <= p, p < Len(t),
         i < Len(ops) => p < ops[i + 1].start,
         NEW u, u = Applied(t, ops), NEW q, q = Len(pre[i]) + (p - End(ops, i))
  PROVE  q \in Nat /\ q + 1 \in 1..Len(u) /\ u[q + 1] = t[p + 1]
<1> DEFINE k == Len(ops)
           e == End(ops, i)
           j == p - e + 1
           l == Len(t)
           a == pre[i]
           b == suf[i]
<1>0. k \in Nat /\ l \in Nat /\ e \in Nat /\ e <= l
  BY EndFacts
<1>1. a \in Texts /\ b \in Texts
  BY DEF Laid
<1>2. u = a \o b
  <2>1. Parts(Applied(t, ops), ops, pre, suf)
    BY LaidText
  <2> QED
    BY <2>1 DEF Parts
<1>h. e <= p /\ p < l /\ i \in 0..k /\ (i < k => p < ops[i + 1].start)
  OBVIOUS
<1>3. j \in Nat /\ j >= 1 /\ e + j = p + 1 /\ i \in Nat
  <2> HIDE DEF e, l, k
  <2> QED
    BY <1>0, <1>h
<1>4. \E d \in Nat, c \in Texts : e <= d /\ d <= l /\ p < d /\ b = Slice(t, e, d) \o c
  <2>1. CASE i = k
    <3>1. b = Slice(t, e, l)
      BY <2>1 DEF Laid
    <3>2. <<>> \in Texts
      BY EmptySeq DEF Texts
    <3>3. Slice(t, e, l) \in Texts
      <4> HIDE DEF e
      <4>1. l <= Len(t)
        BY <1>0
      <4> HIDE DEF l
      <4> QED
        BY <1>0, <4>1, SliceFacts
    <3>4. Slice(t, e, l) \o <<>> = Slice(t, e, l)
      BY <3>3, ConcatEmptySeq DEF Texts
    <3>5. e <= l /\ l <= l /\ p < l /\ b = Slice(t, e, l) \o <<>>
      BY <1>0, <3>1, <3>4
    <3> QED
      BY <1>0, <3>2, <3>5
  <2>2. CASE i # k
    <3> DEFINE n == i + 1
               d == ops[n].start
               x == ops[n].text
               w == suf[n]
    <3>1. n \in 1..k /\ n - 1 = i /\ n \in 0..k /\ i < k
      <4> HIDE DEF k
      <4> QED
        BY <1>0, <1>h, <2>2
    <3>2. d \in Nat /\ x \in Texts /\ End(ops, n - 1) <= d /\ d <= ops[n].stop /\ ops[n].stop <= Len(t)
          /\ ops[n].stop \in Nat
      BY <3>1, EndFacts
    <3>3. d <= l /\ p < d /\ e <= d
      <4>1. e <= d /\ p < d
        BY <1>h, <3>1, <3>2
      <4> DEFINE z == ops[n].stop
      <4>2. d <= z /\ z <= l /\ z \in Nat
        BY <3>2
      <4> HIDE DEF d, z, l
      <4>3. d <= l
        BY <1>0, <3>2, <4>2
      <4> QED
        BY <4>1, <4>3
    <3>4. suf[n - 1] = Piece(t, ops, n) \o suf[n] /\ w \in Texts
      BY <3>1 DEF Laid
    <3>5. b = (Slice(t, e, d) \o x) \o w
      BY <3>1, <3>4 DEF Piece
    <3> HIDE DEF n, d, x, w, b, e, l
    <3>6. Slice(t, e, d) \in Texts
      BY <1>0, <3>2, <3>3, SliceFacts DEF l
    <3>7. (Slice(t, e, d) \o x) \o w = Slice(t, e, d) \o (x \o w)
      BY <3>2, <3>4, <3>6, JoinAgain
    <3>8. x \o w \in Texts
      BY <3>2, <3>4, JoinFacts
    <3> DEFINE y == x \o w
    <3>9. b = Slice(t, e, d) \o y /\ y \in Texts
      BY <3>5, <3>7, <3>8
    <3> HIDE DEF y
    <3> QED
      BY <3>2, <3>3, <3>9
  <2> QED
    BY <2>1, <2>2
<1>5. PICK d \in Nat, c \in Texts : e <= d /\ d <= l /\ p < d /\ b = Slice(t, e, d) \o c
  BY <1>4
<1> DEFINE o == Slice(t, e, d)
<1> HIDE DEF k, e, j, a, b
<1>6. o \in Texts /\ Len(o) = d - e /\ \A m \in 1..(d - e) : o[m] = t[e + m]
  <2>1. d <= Len(t)
    BY <1>5
  <2> QED
    BY <1>0, <1>5, <2>1, SliceFacts
<1> HIDE DEF o, l
<1>7. j \in 1..(d - e)
  BY <1>0, <1>3, <1>5 DEF j
<1>8. o[j] = t[p + 1]
  BY <1>3, <1>6, <1>7
<1>9. b = o \o c
  BY <1>5 DEF o
<1>10. Len(b) = Len(o) + Len(c) /\ Len(c) \in Nat /\ \A m \in 1..Len(o) : b[m] = o[m]
  BY <1>6, <1>9, JoinFacts
<1> DEFINE y == Len(o)
           z == Len(c)
<1>11. b[j] = t[p + 1] /\ j \in 1..Len(b)
  <2>1. y = d - e /\ z \in Nat /\ Len(b) = y + z /\ \A m \in 1..y : b[m] = o[m]
    BY <1>6, <1>10
  <2> HIDE DEF y, z
  <2>2. j \in 1..y
    BY <1>7, <2>1
  <2>3. b[j] = o[j]
    BY <2>1, <2>2
  <2>4. y \in Nat
    BY <1>0, <1>5, <2>1
  <2>5. j \in 1..Len(b)
    <3>1. j \in 1..(y + z)
      BY <2>1, <2>2, <2>4
    <3>2. Len(b) = y + z
      BY <2>1
    <3> QED
      BY <3>1, <3>2, Zenon
  <2> QED
    BY <1>8, <2>3, <2>5
<1>12. Len(u) = Len(a) + Len(b) /\ Len(a) \in Nat /\ Len(b) \in Nat
       /\ \A m \in 1..Len(b) : u[Len(a) + m] = b[m]
  BY <1>1, <1>2, JoinFacts
<1> DEFINE v == Len(a)
           w == Len(b)
<1> HIDE DEF v, w
<1>13. u[v + j] = t[p + 1] /\ v + j \in 1..Len(u)
  <2>1. Len(u) = v + w /\ v \in Nat /\ w \in Nat /\ j \in 1..w /\ \A m \in 1..w : u[v + m] = b[m]
    BY <1>11, <1>12 DEF v, w
  <2>2. u[v + j] = b[j]
    BY <2>1
  <2>3. v + j \in 1..Len(u)
    <3> DEFINE x == Len(u)
    <3>1. x = v + w
      BY <2>1
    <3> HIDE DEF x
    <3>2. v + j \in 1..x
      BY <2>1, <3>1
    <3> QED
      BY <3>2 DEF x
  <2> QED
    BY <1>11, <2>2, <2>3
<1>14. q = v + (p - e) /\ v \in Nat
  BY <1>12 DEF a, e, v
<1>15. q + 1 = v + j /\ q \in Nat
  <2>1. e \in Nat /\ p \in Nat /\ e <= p
    BY <1>0, <1>h
  <2>2. j = p - e + 1
    BY DEF j
  <2>3. v + (p - e) + 1 = v + (p - e + 1) /\ v + (p - e) \in Nat
    BY <1>14, <2>1
  <2> QED
    BY <1>14, <2>2, <2>3
<1> QED
  BY <1>13, <1>15

\* A diagnostic that has what it says it has, and covers the character it was put on.
Pinned(s, t) ==
  /\ s \in [char : Nat, start : Nat, stop : Nat, alive : BOOLEAN]
  /\ s.alive => \E p \in s.start..(s.stop - 1) : p + 1 \in 1..Len(t) /\ t[p + 1] = s.char

\* A commit leaves it on its character, as long as that is there.
LEMMA MovedPinned ==
  ASSUME NEW t, NEW ops, NEW u, Turns(t, ops, u), NEW s, Pinned(s, t)
  PROVE  Pinned(Moved(s, PatchOf(ops), u), u)
<1> DEFINE k == Len(ops)
           E == [n \in 0..k |-> End(ops, n)]
           S == [n \in 1..k |-> ops[n].start]
           A == [n \in 1..k |-> NewStart(ops, n)]
<1>1. /\ t \in Texts /\ Once(t) /\ Normal(t, ops) /\ Novel(t, ops) /\ u \in Texts
      /\ u = Applied(t, ops)
  BY DEF Turns
<1>2. PICK pre, suf : Laid(t, ops, pre, suf)
  BY <1>1, BatchLaid
<1> DEFINE P == [n \in 0..k |-> Len(pre[n])]
           patch == PatchOf(ops)
           vs == MapOffset(patch, s.start, "Right")
           ve == MapOffset(patch, s.stop, "Left")
           r == NeverGrowing(patch, s)
           alive == s.alive /\ Contains(u, s.char)
<1>3. k \in Nat /\ Len(t) \in Nat /\ s.start \in Nat /\ s.stop \in Nat /\ s.char \in Nat
      /\ s.alive \in BOOLEAN
  BY <1>1, EndFacts DEF Pinned
<1>4. Laying(t, ops, pre, E, S, P, A)
  BY DEF Laying
<1>5. Strides(k, E, S, P, A) /\ E[0] = 0
  BY <1>1, <1>2, <1>4, LayingStrides
<1>6. Lands(k, E, S, P, A, s.start, vs)
  <2>1. "Right" \in Biases
    BY DEF Biases
  <2> QED
    BY <1>1, <1>2, <1>3, <1>4, <2>1, OffsetLands
<1>7. Lands(k, E, S, P, A, s.stop, ve)
  <2>1. "Left" \in Biases
    BY DEF Biases
  <2> QED
    BY <1>1, <1>2, <1>3, <1>4, <2>1, OffsetLands
<1>8. vs \in Nat /\ ve \in Nat
  BY <1>6, <1>7 DEF Lands
<1>9. r.stop = ve /\ r.start = Min({vs, ve})
  BY DEF NeverGrowing
<1>10. \A n \in 0..k : E[n] = End(ops, n) /\ P[n] = Len(pre[n])
  OBVIOUS
<1>11. \A n \in 1..k : S[n] = ops[n].start
  OBVIOUS
<1>12. Moved(s, patch, u) = [s EXCEPT !.start = r.start, !.stop = r.stop, !.alive = alive]
  BY DEF Moved
<1> HIDE DEF E, S, A, P, patch, vs, ve, k, r, alive
<1>13. Min({vs, ve}) = IF vs <= ve THEN vs ELSE ve
  BY <1>8, MinMax
<1> DEFINE from == r.start
<1>14. from \in Nat /\ from <= vs /\ r.stop = ve
  BY <1>8, <1>9, <1>13
<1> DEFINE new == [char |-> s.char, start |-> from, stop |-> ve, alive |-> alive]
<1>15. Moved(s, patch, u) = new
  <2>1. s = [char |-> s.char, start |-> s.start, stop |-> s.stop, alive |-> s.alive]
    BY DEF Pinned
  <2> HIDE DEF from
  <2> DEFINE a == s.char
             b == s.start
             c == s.stop
             d == s.alive
  <2>2. s = [char |-> a, start |-> b, stop |-> c, alive |-> d]
    BY <2>1
  <2> HIDE DEF a, b, c, d
  <2>3. [s EXCEPT !.start = from, !.stop = ve, !.alive = alive]
          = [char |-> a, start |-> from, stop |-> ve, alive |-> alive]
    <3> DEFINE s1 == [s EXCEPT !.start = from]
               s2 == [s1 EXCEPT !.stop = ve]
               s3 == [s2 EXCEPT !.alive = alive]
    <3>0. [s EXCEPT !.start = from, !.stop = ve, !.alive = alive] = s3
      OBVIOUS
    <3>1. s1 = [char |-> a, start |-> from, stop |-> c, alive |-> d]
      BY <2>2
    <3> HIDE DEF s1
    <3>2. s2 = [char |-> a, start |-> from, stop |-> ve, alive |-> d]
      BY <3>1
    <3> HIDE DEF s2
    <3>3. s3 = [char |-> a, start |-> from, stop |-> ve, alive |-> alive]
      BY <3>2
    <3> QED
      BY <3>0, <3>3
  <2>4. Moved(s, patch, u) = [s EXCEPT !.start = from, !.stop = ve, !.alive = alive]
    BY <1>12, <1>14 DEF from
  <2> QED
    BY <2>3, <2>4 DEF a
<1>16. alive \in BOOLEAN
  BY <1>3 DEF alive
<1>17. new \in [char : Nat, start : Nat, stop : Nat, alive : BOOLEAN]
  BY <1>3, <1>8, <1>14, <1>16
<1>18. ASSUME alive PROVE \E p \in from..(ve - 1) : p + 1 \in 1..Len(u) /\ u[p + 1] = s.char
  <2>1. s.alive /\ Contains(u, s.char)
    BY <1>18 DEF alive
  <2>2. PICK p \in s.start..(s.stop - 1) : p + 1 \in 1..Len(t) /\ t[p + 1] = s.char
    BY <2>1 DEF Pinned
  <2>3. p \in Nat /\ p < Len(t) /\ s.start <= p /\ s.stop > p
    BY <1>3, <2>2
  <2>4. s.char \in Chars(u)
    BY <2>1 DEF Contains, Chars
  <2>5. \A n \in 1..k : Taken(t, ops, n) \cap Chars(u) = {}
    <3>1. Swaps(t, ops, Len(ops), u)
      BY TurnsSwaps
    <3> QED
      BY <3>1 DEF Swaps, k
  <2>6. ASSUME NEW n \in 1..k, S[n] <= p, p < E[n] PROVE FALSE
    <3> DEFINE a == ops[n].start
               b == ops[n].stop
    <3>1. a \in Nat /\ b \in Nat /\ a <= b /\ b <= Len(t) /\ End(ops, n) = b
      BY <1>1, EndFacts DEF k
    <3>2. n \in 0..k
      BY <1>3
    <3>3. a <= p /\ p < b
      BY <1>10, <1>11, <2>6, <3>1, <3>2
    <3> HIDE DEF a, b
    <3>4. Chars(Slice(t, a, b)) = {t[i] : i \in (a + 1)..b}
      BY <1>1, <3>1, CharsOfSlice
    <3>5. p + 1 \in (a + 1)..b
      BY <2>3, <3>1, <3>3
    <3>6. s.char \in Chars(Slice(t, a, b))
      BY <2>2, <3>4, <3>5
    <3>7. s.char \in Taken(t, ops, n)
      BY <3>6 DEF Taken, a, b
    <3> QED
      BY <2>4, <2>5, <3>7
  <2>7. \A n \in 1..k : ~(S[n] <= p /\ p < E[n])
    BY <2>6
  <2>8. PICK i \in 0..k : E[i] <= p /\ (i < k => p < S[i + 1])
    BY <1>3, <1>5, <2>3, <2>7, GapOf
  <2> DEFINE q == P[i] + (p - E[i])
  <2>9. (s.start <= p => vs <= q) /\ (s.start > p => vs > q)
    BY <1>3, <1>5, <1>6, <2>3, <2>8, LandsAround
  <2>10. (s.stop <= p => ve <= q) /\ (s.stop > p => ve > q)
    BY <1>3, <1>5, <1>7, <2>3, <2>8, LandsAround
  <2>11. q \in Nat /\ q + 1 \in 1..Len(u) /\ u[q + 1] = t[p + 1]
    <3> DEFINE z == Len(pre[i]) + (p - End(ops, i))
    <3>1. q = z
      BY <1>10
    <3>2. End(ops, i) <= p
      BY <1>10, <2>8
    <3>3. i < Len(ops) => p < ops[i + 1].start
      <4> SUFFICES ASSUME i < k PROVE p < ops[i + 1].start
        BY DEF k
      <4>1. i + 1 \in 1..k
        BY <1>3
      <4> QED
        BY <1>11, <2>8, <4>1
    <3>4. i \in 0..Len(ops)
      BY DEF k
    <3> HIDE DEF z, q
    <3>5. z = Len(pre[i]) + (p - End(ops, i))
      BY DEF z
    <3>6. z \in Nat /\ z + 1 \in 1..Len(u) /\ u[z + 1] = t[p + 1]
      BY <1>1, <1>2, <2>3, <3>2, <3>3, <3>4, <3>5, GapMoves
    <3> QED
      BY <3>1, <3>6
  <2> HIDE DEF q
  <2>12. vs <= q /\ ve > q
    BY <2>3, <2>9, <2>10
  <2> HIDE DEF from
  <2>13. q \in from..(ve - 1)
    BY <1>8, <1>14, <2>11, <2>12 DEF from
  <2> QED
    BY <2>2, <2>11, <2>13
<1>19. Pinned(new, u)
  BY <1>17, <1>18 DEF Pinned
<1> QED
  BY <1>15, <1>19 DEF patch

----------------------------------------------------------------------------
\* An entry of the change log, and a log that leads from one text to another through its befores.
EntrySet == [before : Texts, ops : Seq(OpSet)]

Chained(base, entries, t) ==
  \E h : /\ Trace("replay", base, entries, h) /\ h[Len(entries)] = t
         /\ \A n \in 1..Len(entries) : entries[n].before = h[n - 1]

\* A log without entries leads a text to itself.
LEMMA ChainedNone ==
  ASSUME NEW t
  PROVE  Chained(t, <<>>, t)
<1> DEFINE h == [i \in {0} |-> t]
<1>1. Len(<<>>) = 0
  BY EmptySeq
<1>2. h[0] = t
  OBVIOUS
<1> HIDE DEF h
<1>3. Trace("replay", t, <<>>, h) /\ h[Len(<<>>)] = t
  BY <1>1, <1>2 DEF Trace
<1> QED
  BY <1>1, <1>3 DEF Chained

\* An entry made from where a log leads leads it on.
LEMMA ChainedOn ==
  ASSUME NEW base, NEW entries \in Seq(EntrySet), NEW e \in EntrySet, NEW u,
         Chained(base, entries, e.before), Replayed(e.before, e) = u
  PROVE  Chained(base, Append(entries, e), u)
<1> DEFINE l == Len(entries)
           more == Append(entries, e)
<1>1. PICK h : /\ Trace("replay", base, entries, h) /\ h[l] = e.before
               /\ \A n \in 1..l : entries[n].before = h[n - 1]
  BY DEF Chained
<1>2. /\ l \in Nat /\ Len(more) = l + 1 /\ more[l + 1] = e
      /\ \A i \in 1..l : more[i] = entries[i]
  BY AppendProperties, LenProperties
<1> DEFINE g == [i \in 0..(l + 1) |-> IF i <= l THEN h[i] ELSE u]
<1>3. h[0] = base /\ \A i \in 1..l : h[i] = Replayed(h[i - 1], entries[i])
  BY <1>1 DEF Trace, Apply
<1> HIDE DEF l, more
<1>4. g[0] = base /\ g[l + 1] = u /\ g[l] = e.before
  BY <1>1, <1>2, <1>3
<1>5. \A i \in 1..l : g[i] = h[i] /\ g[i - 1] = h[i - 1]
  BY <1>2
<1> HIDE DEF g
<1>6. ASSUME NEW i \in 1..(l + 1)
      PROVE  g[i] = Replayed(g[i - 1], more[i]) /\ more[i].before = g[i - 1]
  <2>1. CASE i \in 1..l
    <3>1. g[i] = h[i] /\ g[i - 1] = h[i - 1] /\ more[i] = entries[i]
      BY <1>2, <1>5, <2>1
    <3>2. h[i] = Replayed(h[i - 1], entries[i]) /\ entries[i].before = h[i - 1]
      BY <1>1, <1>3, <2>1
    <3> QED
      BY <3>1, <3>2
  <2>2. CASE i = l + 1
    <3>1. i - 1 = l
      BY <1>2, <2>2
    <3> QED
      BY <1>2, <1>4, <2>2, <3>1
  <2> QED
    BY <1>2, <2>1, <2>2
<1>7. Trace("replay", base, more, g)
  BY <1>2, <1>4, <1>6 DEF Trace, Apply
<1>8. Chained(base, more, u)
  BY <1>2, <1>4, <1>6, <1>7 DEF Chained
<1> QED
  BY <1>8 DEF more

\* Entries that lead text base through their befores to text t.
Replays(base, entries, t) ==
  /\ FoldLeft(Replayed, base, entries) = t
  /\ \A n \in DOMAIN entries :
       entries[n].before = FoldLeft(Replayed, base, SubSeq(entries, 1, n - 1))

\* What a chained log comes to, and its befores.
LEMMA ChainedReplays ==
  ASSUME NEW base, NEW entries \in Seq(EntrySet), NEW t, Chained(base, entries, t)
  PROVE  Replays(base, entries, t)
<1> DEFINE l == Len(entries)
<1>1. PICK h : /\ Trace("replay", base, entries, h) /\ h[l] = t
               /\ \A n \in 1..l : entries[n].before = h[n - 1]
  BY DEF Chained
<1>2. l \in Nat /\ DOMAIN entries = 1..l /\ \A i \in 1..l : entries[i] \in EntrySet
  BY LenProperties, ElementOfSeq
<1>3. FoldLeft(Replayed, base, entries) = t
  <2>1. Folded("replay", base, entries) = h[Len(entries)]
    BY <1>1, FoldIs
  <2> QED
    BY <1>1, <2>1, FoldForms
<1>4. ASSUME NEW n \in 1..l
      PROVE  entries[n].before = FoldLeft(Replayed, base, SubSeq(entries, 1, n - 1))
  <2> DEFINE m == n - 1
             q == SubSeq(entries, 1, m)
  <2>1. m \in Int /\ 1 \in Int /\ m - 1 + 1 = m /\ m >= 0 /\ m <= l
    BY <1>2
  <2> HIDE DEF m
  <2>2. \A i \in 1..m : entries[i] \in EntrySet
    BY <1>2, <2>1
  <2>3. q \in Seq(EntrySet) /\ Len(q) = (IF 1 <= m THEN m - 1 + 1 ELSE 0)
        /\ \A i \in 1..(m - 1 + 1) : q[i] = entries[1 + i - 1]
    BY <2>1, <2>2, SubSeqProperties
  <2> HIDE DEF q
  <2>4. Len(q) = m
    BY <2>1, <2>3
  <2>5. \A i \in 1..m : q[i] = entries[i]
    BY <2>1, <2>3
  <2>6. Folded("replay", base, q) = h[Len(q)]
    <3>1. Len(q) <= Len(entries)
      BY <2>1, <2>4 DEF l
    <3> QED
      BY <1>1, <2>3, <2>4, <2>5, <3>1, FoldOfPrefix
  <2>7. FoldLeft(Replayed, base, q) = h[m]
    BY <2>4, <2>6, FoldForms
  <2>8. entries[n].before = h[n - 1]
    BY <1>1
  <2> QED
    BY <2>7, <2>8 DEF m, q
<1> QED
  BY <1>2, <1>3, <1>4 DEF Replays

\* What the observer has to catch up from a document c with mirror m.
Followed(c, m) ==
  /\ c.revision \in Nat /\ m.revision \in Nat /\ m.revision <= c.revision
  /\ m.revision = c.revision => m.text = c.text
  /\ c.changes \in [on : BOOLEAN, from : Nat \cup {NoRevision}, entries : Seq(EntrySet)]
  /\ ~c.changes.on => c.changes.from = NoRevision
  /\ c.changes.from = m.revision => Chained(m.text, c.changes.entries, c.text)

\* A document, whatever was committed to it.
Sound(c, m) == c.text \in Texts /\ Followed(c, m) /\ Pinned(c.squiggle, c.text)

\* A commit of a batch that normalizes to ops.
Committed(c, ops, u) ==
  [text |-> u, revision |-> c.revision + 1, changes |-> Logged(c.changes, c.text, ops),
   squiggle |-> Moved(c.squiggle, PatchOf(ops), u)]

\* A commit of a batch that turns the text, field by field.
LEMMA CommitForm ==
  ASSUME NEW c, NEW given, NEW ops, Normalized(c.text, given) = ops, NEW u, Turns(c.text, ops, u)
  PROVE  Commit(c, given) = Committed(c, ops, u)
<1>1. Disjoint(ops) /\ Applied(c.text, ops) = u
  BY DEF Turns, Normal
<1> QED
  BY <1>1 DEF Commit, Committed

\* A commit keeps the log replaying and the squiggle on its characters.
LEMMA CommitSound ==
  ASSUME NEW c, NEW m, Sound(c, m), NEW ops, NEW u, Turns(c.text, ops, u),
         NEW d, d = Committed(c, ops, u)
  PROVE  Sound(d, m) /\ d.text = u
<1> DEFINE log == c.changes
           new == Logged(log, c.text, ops)
           e == [before |-> c.text, ops |-> Reverse(ops)]
<1>1. d.text = u /\ d.revision = c.revision + 1 /\ d.changes = new
      /\ d.squiggle = Moved(c.squiggle, PatchOf(ops), u)
  BY DEF Committed
<1>2. Pinned(d.squiggle, d.text)
  BY <1>1, MovedPinned DEF Sound
<1>3. Followed(c, m) /\ c.text \in Texts /\ u \in Texts /\ Normal(c.text, ops)
      /\ Applied(c.text, ops) = u
  BY DEF Sound, Turns
<1>4. Reverse(ops) \in Seq(OpSet)
  <2>1. ops \in Seq(OpSet) /\ Len(ops) \in Nat
    BY <1>3, EndFacts
  <2>2. \A i \in 1..Len(ops) : Len(ops) - i + 1 \in 1..Len(ops)
    BY <2>1
  <2>3. \A i \in 1..Len(ops) : ops[Len(ops) - i + 1] \in OpSet
    BY <2>1, <2>2, ElementOfSeq
  <2> QED
    BY <2>1, <2>3 DEF Reverse
<1>5. e \in EntrySet /\ e.before = c.text /\ Replayed(c.text, e) = u
  <2>1. e \in EntrySet
    BY <1>3, <1>4 DEF EntrySet
  <2>2. Replayed(c.text, e) = u
    BY <1>3 DEF Replayed, Applied
  <2> QED
    BY <2>1, <2>2
<1> HIDE DEF e
<1>6. /\ log \in [on : BOOLEAN, from : Nat \cup {NoRevision}, entries : Seq(EntrySet)]
      /\ (~log.on => log.from = NoRevision)
      /\ (log.from = m.revision => Chained(m.text, log.entries, c.text))
      /\ c.revision \in Nat /\ m.revision \in Nat /\ m.revision <= c.revision
  BY <1>3 DEF Followed
<1>7. m.revision # NoRevision /\ m.revision <= c.revision + 1 /\ m.revision # c.revision + 1
      /\ c.revision + 1 \in Nat
  BY <1>6 DEF NoRevision
<1> DEFINE on == log.on
           from == log.from
           entries == log.entries
<1>8. log = [on |-> on, from |-> from, entries |-> entries]
      /\ on \in BOOLEAN /\ from \in Nat \cup {NoRevision} /\ entries \in Seq(EntrySet)
  BY <1>6
<1>9. new = IF from = NoRevision THEN log
            ELSE IF Len(entries) >= CHANGE_LOG_CAP
            THEN [log EXCEPT !.entries = <<>>, !.from = NoRevision]
            ELSE [log EXCEPT !.entries = Append(@, e)]
  BY DEF Logged, e
<1>10. /\ new \in [on : BOOLEAN, from : Nat \cup {NoRevision}, entries : Seq(EntrySet)]
       /\ (~new.on => new.from = NoRevision)
       /\ (new.from = m.revision => Chained(m.text, new.entries, u))
  <2> HIDE DEF on, from, entries, new, log
  <2>1. CASE from = NoRevision
    <3>1. new = log
      BY <1>9, <2>1
    <3>2. log.from # m.revision
      BY <1>7, <1>8, <2>1
    <3> QED
      BY <1>6, <3>1, <3>2
  <2>2. CASE from # NoRevision /\ Len(entries) >= CHANGE_LOG_CAP
    <3>1. new = [log EXCEPT !.entries = <<>>, !.from = NoRevision]
      BY <1>9, <2>2
    <3>2. new = [on |-> on, from |-> NoRevision, entries |-> <<>>]
      BY <1>8, <3>1
    <3>3. <<>> \in Seq(EntrySet)
      BY EmptySeq
    <3> QED
      BY <1>7, <1>8, <3>2, <3>3
  <2>3. CASE from # NoRevision /\ ~(Len(entries) >= CHANGE_LOG_CAP)
    <3> DEFINE more == Append(entries, e)
    <3>1. new = [log EXCEPT !.entries = Append(@, e)]
      BY <1>9, <2>3
    <3>2. new = [on |-> on, from |-> from, entries |-> more]
      BY <1>8, <3>1
    <3>3. more \in Seq(EntrySet)
      BY <1>5, <1>8, AppendProperties
    <3> HIDE DEF more
    <3>4. ASSUME from = m.revision PROVE Chained(m.text, more, u)
      <4>1. Chained(m.text, entries, e.before)
        BY <1>5, <1>6, <1>8, <3>4
      <4>2. Replayed(e.before, e) = u
        BY <1>5
      <4> QED
        BY <1>5, <1>8, <4>1, <4>2, ChainedOn DEF more
    <3>5. log.on = on /\ log.from = from
      BY <1>8
    <3>6. ~on => from = NoRevision
      BY <1>6, <3>5
    <3> QED
      BY <1>8, <3>2, <3>3, <3>4, <3>6
  <2> QED
    BY <2>1, <2>2, <2>3
<1> HIDE DEF new
<1>11. Followed(d, m)
  BY <1>1, <1>6, <1>7, <1>10 DEF Followed
<1> QED
  BY <1>1, <1>2, <1>3, <1>11 DEF Sound

\* Batch after batch, through the texts tt.
Runs(batches, tt) == \A j \in 1..Len(batches) : Turns(tt[j - 1], batches[j], tt[j])

\* So does a run of them, as undo and redo of a merged unit make.
LEMMA RunSound ==
  ASSUME NEW c, NEW m, Sound(c, m), NEW batches \in Seq(Seq(OpSet)), NEW tt, Runs(batches, tt),
         c.text = tt[0], NEW d, d = FoldLeft(Commit, c, batches)
  PROVE  Sound(d, m) /\ d.text = tt[Len(batches)]
<1> DEFINE l == Len(batches)
<1>0. l \in Nat
  BY LenProperties
<1>1. PICK h : Trace("commit", c, batches, h) /\ Folded("commit", c, batches) = h[l]
  BY FoldHasTrace
<1>2. d = h[l]
  BY <1>1, FoldForms
<1>3. h[0] = c /\ \A i \in 1..l : h[i] = Commit(h[i - 1], batches[i])
  BY <1>1 DEF Trace, Apply
<1> DEFINE Good == {i \in 0..l : Sound(h[i], m) /\ h[i].text = tt[i]}
<1>4. 0 \in Good
  BY <1>0, <1>3
<1>5. \A i \in 0..(l - 1) : i \in Good => i + 1 \in Good
  <2> SUFFICES ASSUME NEW i \in 0..(l - 1), i \in Good PROVE i + 1 \in Good
    OBVIOUS
  <2> DEFINE j == i + 1
             b == h[i]
             ops == batches[j]
             u == tt[j]
  <2>1. j \in 1..l /\ j - 1 = i /\ j \in 0..l
    BY <1>0
  <2>2. Sound(b, m) /\ b.text = tt[i]
    OBVIOUS
  <2>3. Turns(b.text, ops, u)
    <3>1. Turns(tt[j - 1], ops, u)
      BY <2>1 DEF Runs
    <3> QED
      BY <2>1, <2>2, <3>1
  <2>4. h[j] = Commit(b, ops)
    BY <1>3, <2>1
  <2> HIDE DEF j, b, ops, u
  <2>5. Normalized(b.text, ops) = ops
    <3>1. b.text \in Texts /\ Normal(b.text, ops)
      BY <2>3 DEF Turns
    <3>2. Len(b.text) \in Nat
      BY <3>1, LenProperties DEF Texts
    <3> QED
      BY <3>1, <3>2, NormalizedAgain
  <2>6. h[j] = Committed(b, ops, u)
    BY <2>3, <2>4, <2>5, CommitForm
  <2>7. Sound(h[j], m) /\ h[j].text = u
    BY <2>2, <2>3, <2>6, CommitSound
  <2> QED
    BY <2>1, <2>7 DEF j, u
<1> HIDE DEF Good
<1>6. \A i \in 0..l : i \in Good
  BY <1>0, <1>4, <1>5, UpInduction
<1>7. l \in 0..l
  BY <1>0
<1> QED
  BY <1>2, <1>6, <1>7 DEF Good

----------------------------------------------------------------------------
\* A unit's steps lead from text t to text u.
LedBy(t, steps, u, tt) ==
  /\ tt[0] = t /\ tt[Len(steps)] = u
  /\ \A i \in 1..Len(steps) : Leads(tt[i - 1], steps[i], tt[i])

\* With some such texts in between.
Led(t, steps, u) == \E tt : LedBy(t, steps, u, tt)

\* A unit that takes in a step leads one text further.
LEMMA LedOn ==
  ASSUME NEW t, NEW steps \in Seq(StepSet), NEW u, Led(t, steps, u), NEW step \in StepSet,
         NEW v, Leads(u, step, v)
  PROVE  Led(t, Append(steps, step), v)
<1> DEFINE l == Len(steps)
           more == Append(steps, step)
<1>1. PICK tt : LedBy(t, steps, u, tt)
  BY DEF Led
<1>2. /\ l \in Nat /\ Len(more) = l + 1 /\ more[l + 1] = step
      /\ \A i \in 1..l : more[i] = steps[i]
  BY AppendProperties, LenProperties
<1>3. tt[0] = t /\ tt[l] = u /\ \A i \in 1..l : Leads(tt[i - 1], steps[i], tt[i])
  BY <1>1 DEF LedBy
<1> HIDE DEF l, more
<1> DEFINE uu == [i \in 0..(l + 1) |-> IF i <= l THEN tt[i] ELSE v]
<1>4. uu[0] = t /\ uu[l] = u /\ uu[l + 1] = v
  BY <1>2, <1>3
<1>5. \A i \in 1..l : uu[i] = tt[i] /\ uu[i - 1] = tt[i - 1]
  BY <1>2
<1> HIDE DEF uu
<1>6. ASSUME NEW i \in 1..(l + 1) PROVE Leads(uu[i - 1], more[i], uu[i])
  <2>1. CASE i \in 1..l
    <3>1. Leads(tt[i - 1], steps[i], tt[i])
      BY <1>3, <2>1
    <3>2. uu[i] = tt[i] /\ uu[i - 1] = tt[i - 1] /\ more[i] = steps[i]
      BY <1>2, <1>5, <2>1
    <3> QED
      BY <3>1, <3>2
  <2>2. CASE i = l + 1
    <3>1. i - 1 = l
      BY <1>2, <2>2
    <3> QED
      BY <1>2, <1>4, <2>2, <3>1
  <2> QED
    BY <1>2, <2>1, <2>2
<1>7. LedBy(t, more, v, uu)
  BY <1>2, <1>4, <1>6 DEF LedBy
<1> QED
  BY <1>7 DEF Led, more

\* A unit of one step leads where the step does.
LEMMA LedOne ==
  ASSUME NEW t, NEW step \in StepSet, NEW v, Leads(t, step, v)
  PROVE  Led(t, <<step>>, v)
<1> DEFINE none == <<>>
<1>1. none \in Seq(StepSet) /\ Len(none) = 0
  BY EmptySeq
<1> DEFINE tt == [i \in {0} |-> t]
<1>2. tt[0] = t
  OBVIOUS
<1> HIDE DEF tt
<1>3. LedBy(t, none, t, tt)
  BY <1>1, <1>2 DEF LedBy
<1>4. Led(t, none, t)
  BY <1>3 DEF Led
<1>5. Append(none, step) = <<step>>
  OBVIOUS
<1> HIDE DEF none
<1>6. Led(t, Append(none, step), v)
  BY <1>1, <1>4, LedOn
<1> QED
  BY <1>5, <1>6

\* The types of what leads from one text to another.
LEMMA StepTyped ==
  ASSUME NEW t, NEW step, NEW u, Leads(t, step, u)
  PROVE  step.forward \in Seq(OpSet) /\ step.inverse \in Seq(OpSet)
BY DEF Leads, Turns, Normal

\* Batches that run from text t to text u.
RunFrom(batches, t, u) ==
  /\ batches \in Seq(Seq(OpSet))
  /\ \E tt : Runs(batches, tt) /\ tt[0] = t /\ tt[Len(batches)] = u

\* Undoing a unit runs through its texts back, and redoing it forth.
LEMMA UnitRuns ==
  ASSUME NEW steps \in Seq(StepSet), NEW t, NEW u, Led(t, steps, u),
         NEW back, back = [n \in DOMAIN steps |-> Reverse(steps)[n].inverse],
         NEW forth, forth = [n \in DOMAIN steps |-> steps[n].forward]
  PROVE  RunFrom(back, u, t) /\ RunFrom(forth, t, u)
<1> DEFINE l == Len(steps)
<1>1. PICK tt : LedBy(t, steps, u, tt)
  BY DEF Led
<1>2. l \in Nat /\ DOMAIN steps = 1..l
  BY LenProperties
<1>3. tt[0] = t /\ tt[l] = u /\ \A i \in 1..l : Leads(tt[i - 1], steps[i], tt[i])
  BY <1>1 DEF LedBy
<1>4. \A i \in 1..l : steps[i].forward \in Seq(OpSet) /\ steps[i].inverse \in Seq(OpSet)
  BY <1>3, StepTyped
<1>5. /\ back = [n \in 1..l |-> steps[l - n + 1].inverse]
  BY <1>2 DEF Reverse
<1> HIDE DEF l
<1>6. forth \in Seq(Seq(OpSet)) /\ Len(forth) = l /\ \A n \in 1..l : forth[n] = steps[n].forward
  BY <1>2, <1>4
<1>7. \A n \in 1..l : l - n + 1 \in 1..l /\ l - (n - 1) = l - n + 1 /\ l - n = (l - n + 1) - 1
                      /\ n \in 0..l /\ n - 1 \in 0..l
  BY <1>2
<1>8. back \in Seq(Seq(OpSet)) /\ Len(back) = l /\ \A n \in 1..l : back[n] = steps[l - n + 1].inverse
  <2>1. \A n \in 1..l : steps[l - n + 1].inverse \in Seq(OpSet)
    BY <1>4, <1>7
  <2>2. back = [n \in 1..l |-> back[n]] /\ \A n \in 1..l : back[n] = steps[l - n + 1].inverse
    BY <1>5
  <2>3. \A n \in 1..l : back[n] \in Seq(OpSet)
    BY <2>1, <2>2
  <2> DEFINE T == Seq(OpSet)
  <2> HIDE DEF T
  <2>4. back \in Seq(T) /\ Len(back) = l
    <3>1. \A n \in 1..l : back[n] \in T
      BY <2>3 DEF T
    <3>2. back = [n \in 1..l |-> back[n]]
      BY <2>2
    <3> QED
      BY <1>2, <3>1, <3>2
  <2> QED
    BY <2>2, <2>4 DEF T
<1>9. Runs(forth, tt)
  BY <1>3, <1>6 DEF Runs, Leads
<1> DEFINE rr == [i \in 0..l |-> tt[l - i]]
<1>10. rr[0] = u /\ rr[l] = t
  BY <1>2, <1>3
<1>11. \A n \in 1..l : rr[n - 1] = tt[l - n + 1] /\ rr[n] = tt[(l - n + 1) - 1]
  BY <1>7
<1> HIDE DEF rr
<1>12. ASSUME NEW n \in 1..l PROVE Turns(rr[n - 1], back[n], rr[n])
  <2> DEFINE m == l - n + 1
  <2>1. m \in 1..l /\ rr[n - 1] = tt[m] /\ rr[n] = tt[m - 1] /\ back[n] = steps[m].inverse
    BY <1>7, <1>8, <1>11
  <2> HIDE DEF m
  <2>2. Leads(tt[m - 1], steps[m], tt[m])
    BY <1>3, <2>1
  <2> QED
    BY <2>1, <2>2 DEF Leads
<1>13. Runs(back, rr)
  BY <1>8, <1>12 DEF Runs
<1>14. RunFrom(forth, t, u)
  BY <1>3, <1>6, <1>9 DEF RunFrom
<1>15. RunFrom(back, u, t)
  BY <1>8, <1>10, <1>13 DEF RunFrom
<1> QED
  BY <1>14, <1>15

----------------------------------------------------------------------------
\* Texts of characters written so far.
Below(t, w) == \A char \in Chars(t) : char <= w

\* Every unit leads from the text its parent was left with to the text its node was.
Exact(h, st, w) ==
  /\ st \in [DOMAIN h.nodes -> Texts]
  /\ \A n \in DOMAIN h.nodes : Once(st[n]) /\ Below(st[n], w)
  /\ \A n \in DOMAIN h.nodes :
       n # h.root => Led(st[h.nodes[n].parent], h.nodes[n].steps, st[n])

\* Nothing hangs off a unit that is open, so a merge changes nothing's parent.
OpenTop(h) == h.open => Children(h, h.current) = {}

\* The versions of the nodes: every node has its own, which its unit leads to and its children's
\* units lead from.
Versions(h, ver) ==
  /\ ver \in [DOMAIN h.nodes -> 0..h.altSeq] /\ ver[h.current] = h.alt
  /\ \A n \in DOMAIN h.nodes :
       n # h.root => /\ h.nodes[n].altAfter = ver[n]
                     /\ h.nodes[n].altBefore = ver[h.nodes[n].parent]
  /\ \A n, m \in DOMAIN h.nodes : ver[n] = ver[m] => n = m

\* A unit that grew since its node was saved has a character the saved text has not, or has fewer.
Drifted(op, t, s) ==
  \/ op \in {"Type", "Root"} /\ \E char \in Chars(t) : char \notin Chars(s)
  \/ op \in {"Delete", "Root"} /\ Len(t) < Len(s)

\* A node of the saved version is the one saved at, with the text then saved; and if that node has
\* another version by now, a merge has made its text another, the way its kind of unit does.
SavedAs(h, ver, st, sv) ==
  /\ h.savedAlt \in 0..h.altSeq /\ sv.node \in 0..h.altSeq
  /\ \A n \in DOMAIN h.nodes : ver[n] = h.savedAlt => n = sv.node /\ st[n] = sv.text
  /\ sv.node \in DOMAIN h.nodes /\ ver[sv.node] # h.savedAlt =>
       Drifted(h.nodes[sv.node].op, st[sv.node], sv.text)

Versioned(h, st, sv) == \E ver : Versions(h, ver) /\ SavedAs(h, ver, st, sv)

\* What a history keeps, with the texts its nodes were left with and what was saved.
Whole(h, st, sv, w) ==
  /\ Shape(h) /\ Exact(h, st, w) /\ OpenTop(h) /\ Versioned(h, st, sv)
  /\ sv.text \in Texts /\ Below(sv.text, w)

\* Typing brings in a character that was never there, deleting takes some out.
Drives(hint, t, u, w) ==
  /\ hint.op = "Type" => \E char \in Chars(u) : ~(char <= w)
  /\ hint.op = "Delete" => Len(u) < Len(t)

\* Ids are no newer than the newest, and no node is its own parent.
LEMMA TreeParents ==
  ASSUME NEW h, Shape(h), NEW n \in DOMAIN h.nodes
  PROVE  /\ n \in Nat /\ n <= h.altSeq /\ h.altSeq \in Nat
         /\ n # h.root => /\ h.nodes[n].parent \in DOMAIN h.nodes /\ h.nodes[n].parent # n
                          /\ h.nodes[n].parent \in Nat
         /\ n = h.root => h.nodes[n].parent = NoNode
<1>1. Tree(h) /\ RootIsBare(h)
  BY DEF Shape
<1>2. /\ n \in Nat
      /\ n # h.root => /\ h.nodes[n].parent \in DOMAIN h.nodes
                       /\ h.nodes[n].parent \in Nat /\ h.nodes[n].parent < n
  BY <1>1, TreeFacts
<1>3. n \in 0..h.altSeq /\ h.altSeq \in Nat
  BY <1>1 DEF Tree
<1>4. n <= h.altSeq
  BY <1>2, <1>3
<1>5. n # h.root => h.nodes[n].parent # n
  BY <1>2
<1> QED
  BY <1>1, <1>2, <1>3, <1>4, <1>5 DEF RootIsBare

\* Characters written before a moment were written before any later one.
LEMMA BelowLater ==
  ASSUME NEW t \in Texts, NEW w \in Nat, NEW v \in Nat, w <= v, Below(t, w)
  PROVE  Below(t, v)
<1>1. \A char \in Chars(t) : char \in Nat
  BY ElementOfSeq DEF Texts, Chars
<1> QED
  BY <1>1 DEF Below

\* A merge keeps the history whole.
LEMMA MergedWhole ==
  ASSUME NEW h, NEW st, NEW sv, NEW w \in Nat, Whole(h, st, sv, w), NEW step \in StepSet,
         NEW hint \in Hints, Merges(h, hint), NEW p, p = Placed(h, step, hint),
         NEW u \in Texts, Once(u), NEW v \in Nat, w <= v, Below(u, v),
         Leads(st[h.current], step, u), Drives(hint, st[h.current], u, w),
         NEW stp, stp = [n \in DOMAIN p.nodes |-> IF n = p.current THEN u ELSE st[n]]
  PROVE  Whole(p, stp, sv, v)
<1> DEFINE c == h.current
           D == DOMAIN h.nodes
           a == h.altSeq + 1
<1>0. Shape(h) /\ Exact(h, st, w) /\ OpenTop(h) /\ c \in D /\ Typed(h)
  BY DEF Whole, Shape, Tree
<1>1. MergedTo(p, h, step, hint) /\ Shape(p)
  BY <1>0, MergedFacts, MergedShape
<1>2. /\ DOMAIN p.nodes = D /\ p.root = h.root /\ p.current = c /\ p.alt = a /\ p.altSeq = a
      /\ p.savedAlt = h.savedAlt /\ c # h.root
      /\ \A n \in D : n # c => p.nodes[n] = h.nodes[n]
  BY <1>1 DEF MergedTo
<1>3. /\ p.nodes[c].parent = h.nodes[c].parent /\ p.nodes[c].steps = Append(h.nodes[c].steps, step)
      /\ p.nodes[c].altAfter = a /\ p.nodes[c].altBefore = h.nodes[c].altBefore
      /\ p.nodes[c].op = h.nodes[c].op /\ h.nodes[c].steps \in Seq(StepSet)
  <2> DEFINE node == h.nodes[c]
             more == Append(node.steps, step)
             other == [node EXCEPT !.steps = more]
             new == [other EXCEPT !.altAfter = a]
  <2>1. node \in NodeSet
    BY <1>0 DEF Typed
  <2>2. p.nodes[c] = [node EXCEPT !.steps = Append(@, step), !.altAfter = a]
    BY <1>1 DEF MergedTo
  <2> HIDE DEF node, a
  <2>3. p.nodes[c] = new
    BY <2>2
  <2> HIDE DEF more
  <2>4. other = [parent |-> node.parent, preferred |-> node.preferred, steps |-> more,
                 op |-> node.op, altBefore |-> node.altBefore, altAfter |-> node.altAfter]
    BY <2>1 DEF NodeSet
  <2> HIDE DEF other
  <2>5. new = [parent |-> node.parent, preferred |-> node.preferred, steps |-> more,
               op |-> node.op, altBefore |-> node.altBefore, altAfter |-> a]
    BY <2>4
  <2>6. node.steps \in Seq(StepSet)
    BY <2>1 DEF NodeSet
  <2> QED
    BY <2>3, <2>5, <2>6 DEF node, more
<1>4. Children(h, c) = {}
  BY <1>0 DEF OpenTop, Merges
<1>5. \A n \in D : h.nodes[n].parent # c
  BY <1>4 DEF Children
<1>6. \A n \in D : n \in Nat /\ n <= h.altSeq /\ h.altSeq \in Nat
                   /\ (n # h.root => h.nodes[n].parent \in D /\ h.nodes[n].parent # n)
  BY <1>0, TreeParents
<1> HIDE DEF D, c
<1>7. /\ st \in [D -> Texts]
      /\ \A n \in D : Once(st[n]) /\ Below(st[n], w)
      /\ \A n \in D : n # h.root => Led(st[h.nodes[n].parent], h.nodes[n].steps, st[n])
  BY <1>0 DEF Exact, D
<1>c. c \in D /\ Leads(st[c], step, u) /\ Drives(hint, st[c], u, w)
  BY <1>0 DEF c
<1>8. stp = [n \in D |-> IF n = c THEN u ELSE st[n]]
  BY <1>2
<1>9. stp[c] = u /\ \A n \in D : n # c => stp[n] = st[n]
  BY <1>8, <1>c
<1>10. stp \in [D -> Texts]
  BY <1>7, <1>8
<1>11. ASSUME NEW n \in D PROVE Once(stp[n]) /\ Below(stp[n], v)
  <2>1. CASE n = c
    BY <1>9, <2>1
  <2>2. CASE n # c
    <3>1. stp[n] = st[n] /\ st[n] \in Texts
      BY <1>7, <1>9, <2>2
    <3> QED
      BY <1>7, <3>1, BelowLater
  <2> QED
    BY <2>1, <2>2
<1>12. ASSUME NEW n \in D, n # p.root
       PROVE  Led(stp[p.nodes[n].parent], p.nodes[n].steps, stp[n])
  <2>1. n # h.root /\ h.nodes[n].parent \in D /\ h.nodes[n].parent # c
    BY <1>2, <1>5, <1>6, <1>12
  <2>2. stp[h.nodes[n].parent] = st[h.nodes[n].parent]
    BY <1>9, <2>1
  <2>3. Led(st[h.nodes[n].parent], h.nodes[n].steps, st[n])
    BY <1>7, <2>1
  <2>4. CASE n = c
    <3> DEFINE steps == h.nodes[c].steps
               from == st[h.nodes[c].parent]
               to == st[c]
    <3>1. steps \in Seq(StepSet) /\ Led(from, steps, to) /\ Leads(to, step, u)
      BY <1>3, <1>c, <2>3, <2>4
    <3> HIDE DEF steps, from, to
    <3>2. Led(from, Append(steps, step), u)
      BY <3>1, LedOn
    <3> QED
      BY <1>3, <1>9, <2>2, <2>4, <3>2 DEF steps, from
  <2>5. CASE n # c
    BY <1>2, <1>9, <2>2, <2>3, <2>5
  <2> QED
    BY <2>4, <2>5
<1>13. Exact(p, stp, v)
  BY <1>2, <1>10, <1>11, <1>12 DEF Exact
<1>14. OpenTop(p)
  <2>1. \A n \in D : p.nodes[n].parent = h.nodes[n].parent
    BY <1>2, <1>3
  <2> QED
    BY <1>2, <1>5, <2>1 DEF OpenTop, Children
<1>15. PICK ver : Versions(h, ver) /\ SavedAs(h, ver, st, sv)
  BY DEF Whole, Versioned
<1> DEFINE new == [n \in D |-> IF n = c THEN a ELSE ver[n]]
<1>16. new[c] = a /\ \A n \in D : n # c => new[n] = ver[n]
  BY <1>c
<1>17. /\ ver \in [D -> 0..h.altSeq]
       /\ \A n \in D : n # h.root => /\ h.nodes[n].altAfter = ver[n]
                                     /\ h.nodes[n].altBefore = ver[h.nodes[n].parent]
       /\ \A n, m \in D : ver[n] = ver[m] => n = m
  BY <1>15 DEF Versions, D
<1>18. a \in Nat /\ h.altSeq \in Nat /\ h.altSeq < a /\ \A n \in D : ver[n] \in 0..a /\ ver[n] # a
  <2>1. h.altSeq \in Nat
    BY <1>6, <1>c
  <2>2. \A n \in D : ver[n] \in 0..h.altSeq
    BY <1>17
  <2> QED
    BY <2>1, <2>2
<1> HIDE DEF a
<1>19. new \in [D -> 0..a]
  <2>1. a \in 0..a
    BY <1>18
  <2> QED
    BY <1>18, <2>1
<1> HIDE DEF new
<1>20. Versions(p, new)
  <2>1. ASSUME NEW n \in D, n # p.root
        PROVE  p.nodes[n].altAfter = new[n] /\ p.nodes[n].altBefore = new[p.nodes[n].parent]
    <3>1. n # h.root /\ h.nodes[n].parent \in D /\ h.nodes[n].parent # c
      BY <1>2, <1>5, <1>6, <2>1
    <3>2. new[h.nodes[n].parent] = ver[h.nodes[n].parent]
      BY <1>16, <3>1
    <3>3. h.nodes[n].altAfter = ver[n] /\ h.nodes[n].altBefore = ver[h.nodes[n].parent]
      BY <1>17, <3>1
    <3>4. CASE n = c
      BY <1>3, <1>16, <3>2, <3>3, <3>4
    <3>5. CASE n # c
      BY <1>2, <1>16, <3>2, <3>3, <3>5
    <3> QED
      BY <3>4, <3>5
  <2>2. ASSUME NEW n \in D, NEW m \in D, new[n] = new[m] PROVE n = m
    BY <1>16, <1>17, <1>18, <2>2
  <2>3. DOMAIN p.nodes = D /\ p.altSeq = a /\ new[p.current] = p.alt
    BY <1>2, <1>16 DEF a
  <2> QED
    BY <1>19, <2>1, <2>2, <2>3 DEF Versions
<1>21. /\ h.savedAlt \in 0..h.altSeq /\ sv.node \in 0..h.altSeq
       /\ \A n \in D : ver[n] = h.savedAlt => n = sv.node /\ st[n] = sv.text
       /\ sv.node \in D /\ ver[sv.node] # h.savedAlt =>
            Drifted(h.nodes[sv.node].op, st[sv.node], sv.text)
  BY <1>15 DEF SavedAs, D
<1>22. SavedAs(p, new, stp, sv)
  <2>1. p.savedAlt \in 0..p.altSeq /\ sv.node \in 0..p.altSeq /\ p.savedAlt # a
    <3>1. p.altSeq = a /\ p.savedAlt = h.savedAlt
      BY <1>2 DEF a
    <3> QED
      BY <1>18, <1>21, <3>1
  <2>2. ASSUME NEW n \in D, new[n] = p.savedAlt PROVE n = sv.node /\ stp[n] = sv.text
    <3>1. n # c
      BY <1>16, <2>1, <2>2
    <3>2. ver[n] = h.savedAlt /\ stp[n] = st[n]
      BY <1>2, <1>9, <1>16, <2>2, <3>1
    <3> QED
      BY <1>21, <3>2
  <2>3. ASSUME sv.node \in D, new[sv.node] # p.savedAlt
        PROVE  Drifted(p.nodes[sv.node].op, stp[sv.node], sv.text)
    <3>1. CASE sv.node # c
      <4>1. ver[sv.node] # h.savedAlt /\ p.nodes[sv.node] = h.nodes[sv.node]
            /\ stp[sv.node] = st[sv.node]
        BY <1>2, <1>9, <1>16, <2>3, <3>1
      <4> QED
        BY <1>21, <2>3, <4>1
    <3>2. CASE sv.node = c
      <4>1. hint.op = h.nodes[c].op /\ hint.op \in {"Type", "Delete"}
        BY DEF Merges, Hints, Classes, c
      <4>2. sv.text \in Texts /\ Below(sv.text, w)
        BY DEF Whole
      <4>3. CASE hint.op = "Type"
        <5>1. PICK char \in Chars(u) : ~(char <= w)
          BY <1>c, <4>3 DEF Drives
        <5>2. char \notin Chars(sv.text)
          BY <4>2, <5>1 DEF Below
        <5>3. Drifted("Type", u, sv.text)
          BY <5>1, <5>2 DEF Drifted
        <5> QED
          BY <1>3, <1>9, <3>2, <4>1, <4>3, <5>3
      <4>4. CASE hint.op = "Delete"
        <5>1. Len(u) < Len(st[c])
          BY <1>c, <4>4 DEF Drives
        <5>2. Len(u) \in Nat /\ Len(st[c]) \in Nat /\ Len(sv.text) \in Nat
          BY <1>7, <1>c, <4>2, LenProperties DEF Texts
        <5>3. Len(st[c]) <= Len(sv.text)
          <6>1. CASE ver[c] = h.savedAlt
            <7>1. st[c] = sv.text
              BY <1>21, <1>c, <6>1
            <7> QED
              BY <5>2, <7>1
          <6>2. CASE ver[c] # h.savedAlt
            <7>1. Drifted("Delete", st[c], sv.text)
              BY <1>21, <1>c, <3>2, <4>1, <4>4, <6>2
            <7>2. Len(st[c]) < Len(sv.text)
              BY <7>1 DEF Drifted
            <7> QED
              BY <5>2, <7>2
          <6> QED
            BY <6>1, <6>2
        <5> DEFINE x == Len(u)
                   y == Len(st[c])
                   z == Len(sv.text)
        <5> HIDE DEF x, y, z
        <5>4. x < z
          <6>1. x < y /\ y <= z /\ x \in Nat /\ y \in Nat /\ z \in Nat
            BY <5>1, <5>2, <5>3 DEF x, y, z
          <6> QED
            BY <6>1
        <5>5. Drifted("Delete", u, sv.text)
          BY <5>4 DEF Drifted, x, z
        <5> QED
          BY <1>3, <1>9, <3>2, <4>1, <4>4, <5>5
      <4> QED
        BY <4>1, <4>3, <4>4
    <3> QED
      BY <3>1, <3>2
  <2> QED
    BY <1>2, <2>1, <2>2, <2>3 DEF SavedAs
<1>23. Versioned(p, stp, sv)
  BY <1>20, <1>22 DEF Versioned
<1>24. sv.text \in Texts /\ Below(sv.text, v)
  <2>1. sv.text \in Texts /\ Below(sv.text, w)
    BY DEF Whole
  <2> QED
    BY <2>1, BelowLater
<1> QED
  BY <1>1, <1>13, <1>14, <1>23, <1>24 DEF Whole

\* A new unit keeps the history whole.
LEMMA GrownWhole ==
  ASSUME NEW h, NEW st, NEW sv, NEW w \in Nat, Whole(h, st, sv, w), NEW step \in StepSet,
         NEW hint \in Hints, ~Merges(h, hint), NEW p, p = Placed(h, step, hint),
         NEW u \in Texts, Once(u), NEW v \in Nat, w <= v, Below(u, v),
         Leads(st[h.current], step, u),
         NEW stp, stp = [n \in DOMAIN p.nodes |-> IF n = p.current THEN u ELSE st[n]]
  PROVE  Whole(p, stp, sv, v)
<1> DEFINE c == h.current
           D == DOMAIN h.nodes
           a == h.altSeq + 1
<1>0. Shape(h) /\ Exact(h, st, w) /\ c \in D /\ Typed(h)
  BY DEF Whole, Shape, Tree
<1>1. GrownTo(p, h, step, hint) /\ Shape(p)
  BY <1>0, GrownFacts, GrownShape
<1>2. /\ DOMAIN p.nodes = D \cup {a} /\ a \notin D /\ p.root = h.root /\ p.current = a
      /\ p.alt = a /\ p.altSeq = a /\ p.savedAlt = h.savedAlt
      /\ \A n \in D : n # c => p.nodes[n] = h.nodes[n]
  BY <1>1 DEF GrownTo
<1>3. /\ p.nodes[c].parent = h.nodes[c].parent /\ p.nodes[c].steps = h.nodes[c].steps
      /\ p.nodes[c].altAfter = h.nodes[c].altAfter /\ p.nodes[c].altBefore = h.nodes[c].altBefore
      /\ p.nodes[c].op = h.nodes[c].op
  <2> DEFINE node == h.nodes[c]
  <2>1. node \in NodeSet
    BY <1>0 DEF Typed
  <2>2. p.nodes[c] = [node EXCEPT !.preferred = a]
    BY <1>1 DEF GrownTo
  <2> HIDE DEF node, a
  <2>3. p.nodes[c] = [parent |-> node.parent, preferred |-> a, steps |-> node.steps, op |-> node.op,
                      altBefore |-> node.altBefore, altAfter |-> node.altAfter]
    BY <2>1, <2>2 DEF NodeSet
  <2> QED
    BY <2>3 DEF node
<1>4. /\ p.nodes[a].parent = c /\ p.nodes[a].steps = <<step>> /\ p.nodes[a].altBefore = h.alt
      /\ p.nodes[a].altAfter = a
  <2>1. p.nodes[a] = Node(c, <<step>>, hint.op, h.alt, a)
    BY <1>1 DEF GrownTo
  <2> QED
    BY <2>1 DEF Node
<1>5. \A n \in D : n \in Nat /\ n <= h.altSeq /\ h.altSeq \in Nat
                   /\ (n # h.root => h.nodes[n].parent \in D)
                   /\ (n = h.root => h.nodes[n].parent = NoNode)
  BY <1>0, TreeParents
<1>6. a \in Nat /\ h.altSeq \in Nat /\ h.altSeq < a /\ a # NoNode /\ h.root \in D
  <2>1. h.altSeq \in Nat /\ h.root \in D
    BY <1>0, <1>5 DEF Shape, Tree
  <2> QED
    BY <2>1 DEF NoNode
<1>7. \A n \in D : /\ p.nodes[n].parent = h.nodes[n].parent /\ p.nodes[n].steps = h.nodes[n].steps
                   /\ p.nodes[n].altAfter = h.nodes[n].altAfter
                   /\ p.nodes[n].altBefore = h.nodes[n].altBefore /\ p.nodes[n].op = h.nodes[n].op
  BY <1>2, <1>3
<1> HIDE DEF D, c, a
<1>8. /\ st \in [D -> Texts]
      /\ \A n \in D : Once(st[n]) /\ Below(st[n], w)
      /\ \A n \in D : n # h.root => Led(st[h.nodes[n].parent], h.nodes[n].steps, st[n])
  BY <1>0 DEF Exact, D
<1>c. c \in D /\ Leads(st[c], step, u)
  BY <1>0 DEF c
<1>9. stp = [n \in D \cup {a} |-> IF n = a THEN u ELSE st[n]]
  BY <1>2
<1>10. stp[a] = u /\ \A n \in D : stp[n] = st[n] /\ n # a
  BY <1>2, <1>9
<1>11. stp \in [D \cup {a} -> Texts]
  BY <1>2, <1>8, <1>9
<1>12. ASSUME NEW n \in D \cup {a} PROVE Once(stp[n]) /\ Below(stp[n], v)
  <2>1. CASE n = a
    BY <1>10, <2>1
  <2>2. CASE n \in D
    <3>1. stp[n] = st[n] /\ st[n] \in Texts
      BY <1>8, <1>10, <2>2
    <3> QED
      BY <1>8, <2>2, <3>1, BelowLater
  <2> QED
    BY <2>1, <2>2
<1>13. ASSUME NEW n \in D \cup {a}, n # p.root
       PROVE  Led(stp[p.nodes[n].parent], p.nodes[n].steps, stp[n])
  <2>1. CASE n = a
    <3>1. Led(st[c], <<step>>, u)
      BY <1>c, LedOne
    <3> QED
      BY <1>4, <1>10, <1>c, <2>1, <3>1
  <2>2. CASE n \in D
    <3>1. n # h.root /\ h.nodes[n].parent \in D
      BY <1>2, <1>5, <1>13, <2>2
    <3> QED
      BY <1>7, <1>8, <1>10, <2>2, <3>1
  <2> QED
    BY <2>1, <2>2
<1>14. Exact(p, stp, v)
  BY <1>2, <1>11, <1>12, <1>13 DEF Exact, a, D
<1>15. OpenTop(p)
  <2>1. \A n \in D \cup {a} : p.nodes[n].parent # a
    <3>1. p.nodes[a].parent # a
      BY <1>2, <1>4, <1>c DEF a, D
    <3>2. ASSUME NEW n \in D PROVE p.nodes[n].parent # a
      <4>1. h.nodes[n].parent \in D \cup {NoNode}
        BY <1>5
      <4> QED
        BY <1>6, <1>7, <1>10, <4>1
    <3> QED
      BY <3>1, <3>2
  <2> QED
    BY <1>2, <2>1 DEF OpenTop, Children, a, D
<1>16. PICK ver : Versions(h, ver) /\ SavedAs(h, ver, st, sv)
  BY DEF Whole, Versioned
<1>17. /\ ver \in [D -> 0..h.altSeq] /\ ver[c] = h.alt
       /\ \A n \in D : n # h.root => /\ h.nodes[n].altAfter = ver[n]
                                     /\ h.nodes[n].altBefore = ver[h.nodes[n].parent]
       /\ \A n, m \in D : ver[n] = ver[m] => n = m
  BY <1>16 DEF Versions, D, c
<1> DEFINE new == [n \in D \cup {a} |-> IF n = a THEN a ELSE ver[n]]
<1>18. new[a] = a /\ \A n \in D : new[n] = ver[n]
  BY <1>10
<1>19. \A n \in D : ver[n] \in 0..a /\ ver[n] # a
  <2>1. \A n \in D : ver[n] \in 0..h.altSeq
    BY <1>17
  <2> QED
    BY <1>6, <2>1
<1>20. new \in [D \cup {a} -> 0..a]
  <2>1. a \in 0..a
    BY <1>6
  <2> QED
    BY <1>19, <2>1
<1> HIDE DEF new
<1>21. Versions(p, new)
  <2>1. ASSUME NEW n \in D \cup {a}, n # p.root
        PROVE  p.nodes[n].altAfter = new[n] /\ p.nodes[n].altBefore = new[p.nodes[n].parent]
    <3>1. CASE n = a
      BY <1>4, <1>17, <1>18, <1>c, <3>1
    <3>2. CASE n \in D
      <4>1. n # h.root /\ h.nodes[n].parent \in D
        BY <1>2, <1>5, <2>1, <3>2
      <4> QED
        BY <1>7, <1>17, <1>18, <3>2, <4>1
    <3> QED
      BY <3>1, <3>2
  <2>2. ASSUME NEW n \in D \cup {a}, NEW m \in D \cup {a}, new[n] = new[m] PROVE n = m
    BY <1>17, <1>18, <1>19, <2>2
  <2>3. DOMAIN p.nodes = D \cup {a} /\ p.altSeq = a /\ new[p.current] = p.alt
    BY <1>2, <1>18 DEF a, D
  <2> QED
    BY <1>20, <2>1, <2>2, <2>3 DEF Versions
<1>22. /\ h.savedAlt \in 0..h.altSeq /\ sv.node \in 0..h.altSeq
       /\ \A n \in D : ver[n] = h.savedAlt => n = sv.node /\ st[n] = sv.text
       /\ sv.node \in D /\ ver[sv.node] # h.savedAlt =>
            Drifted(h.nodes[sv.node].op, st[sv.node], sv.text)
  BY <1>16 DEF SavedAs, D
<1>23. SavedAs(p, new, stp, sv)
  <2>0. p.altSeq = a /\ p.savedAlt = h.savedAlt /\ DOMAIN p.nodes = D \cup {a}
    BY <1>2 DEF a, D
  <2>1. p.savedAlt \in 0..p.altSeq /\ sv.node \in 0..p.altSeq /\ p.savedAlt # a /\ sv.node # a
    BY <1>6, <1>22, <2>0
  <2>2. ASSUME NEW n \in D \cup {a}, new[n] = p.savedAlt PROVE n = sv.node /\ stp[n] = sv.text
    <3>1. n \in D
      BY <1>18, <2>1, <2>2
    <3> QED
      BY <1>10, <1>18, <1>22, <2>0, <2>2, <3>1
  <2>3. ASSUME sv.node \in D \cup {a}, new[sv.node] # p.savedAlt
        PROVE  Drifted(p.nodes[sv.node].op, stp[sv.node], sv.text)
    <3>1. sv.node \in D
      BY <2>1, <2>3
    <3> QED
      BY <1>7, <1>10, <1>18, <1>22, <2>0, <2>3, <3>1
  <2> QED
    BY <2>0, <2>1, <2>2, <2>3 DEF SavedAs
<1>24. Versioned(p, stp, sv)
  BY <1>21, <1>23 DEF Versioned
<1>25. sv.text \in Texts /\ Below(sv.text, v)
  <2>1. sv.text \in Texts /\ Below(sv.text, w)
    BY DEF Whole
  <2> QED
    BY <2>1, BelowLater
<1> QED
  BY <1>1, <1>14, <1>15, <1>24, <1>25 DEF Whole

\* Dropping units keeps the history whole.
LEMMA PartWhole ==
  ASSUME NEW h, NEW st, NEW sv, NEW w, Whole(h, st, sv, w), NEW g, Shape(g), PartOf(g, h),
         g.current = h.current, g.open = h.open, g.alt = h.alt, g.altSeq = h.altSeq,
         g.savedAlt = h.savedAlt
  PROVE  Whole(g, [n \in DOMAIN g.nodes |-> st[n]], sv, w)
<1> DEFINE D == DOMAIN h.nodes
           G == DOMAIN g.nodes
           some == [n \in G |-> st[n]]
<1>0. Shape(h) /\ Exact(h, st, w) /\ OpenTop(h) /\ sv.text \in Texts /\ Below(sv.text, w)
  BY DEF Whole
<1>1. G \subseteq D /\ \A n \in G : n # g.root => n # h.root /\ g.nodes[n] = h.nodes[n]
  BY DEF PartOf
<1>2. \A n \in G : /\ n \in Nat
                   /\ n # g.root => g.nodes[n].parent \in G
                   /\ n = g.root => g.nodes[n].parent = NoNode
  BY TreeParents
<1>3. g.current \in G /\ g.root \in G
  BY DEF Shape, Tree
<1> HIDE DEF D, G
<1>4. /\ st \in [D -> Texts]
      /\ \A n \in D : Once(st[n]) /\ Below(st[n], w)
      /\ \A n \in D : n # h.root => Led(st[h.nodes[n].parent], h.nodes[n].steps, st[n])
  BY <1>0 DEF Exact, D
<1>5. \A n \in G : some[n] = st[n] /\ n \in D
  BY <1>1
<1>6. some \in [G -> Texts]
  BY <1>1, <1>4
<1> HIDE DEF some
<1>7. ASSUME NEW n \in G, n # g.root PROVE Led(some[g.nodes[n].parent], g.nodes[n].steps, some[n])
  BY <1>1, <1>2, <1>4, <1>5, <1>7
<1>8. Exact(g, some, w)
  BY <1>4, <1>5, <1>6, <1>7 DEF Exact, G
<1>9. OpenTop(g)
  <2> SUFFICES ASSUME g.open, NEW n \in G, g.nodes[n].parent = g.current PROVE FALSE
    BY DEF OpenTop, Children, G
  <2>1. Children(h, h.current) = {}
    BY <1>0 DEF OpenTop
  <2>2. g.current # NoNode
    BY <1>2, <1>3 DEF NoNode
  <2>3. n # g.root
    BY <1>2, <2>2
  <2>4. n \in D /\ h.nodes[n].parent = h.current
    BY <1>1, <1>5, <2>3
  <2> QED
    BY <2>1, <2>4 DEF Children, D
<1>10. PICK ver : Versions(h, ver) /\ SavedAs(h, ver, st, sv)
  BY DEF Whole, Versioned
<1>11. /\ ver \in [D -> 0..h.altSeq] /\ ver[h.current] = h.alt
       /\ \A n \in D : n # h.root => /\ h.nodes[n].altAfter = ver[n]
                                     /\ h.nodes[n].altBefore = ver[h.nodes[n].parent]
       /\ \A n, m \in D : ver[n] = ver[m] => n = m
  BY <1>10 DEF Versions, D
<1> DEFINE new == [n \in G |-> ver[n]]
<1>12. \A n \in G : new[n] = ver[n]
  OBVIOUS
<1>13. new \in [G -> 0..g.altSeq]
  <2>1. \A n \in G : ver[n] \in 0..h.altSeq
    BY <1>5, <1>11
  <2> QED
    BY <2>1
<1> HIDE DEF new
<1>14. Versions(g, new)
  <2>1. ASSUME NEW n \in G, n # g.root
        PROVE  g.nodes[n].altAfter = new[n] /\ g.nodes[n].altBefore = new[g.nodes[n].parent]
    BY <1>1, <1>2, <1>5, <1>11, <1>12, <2>1
  <2>2. ASSUME NEW n \in G, NEW m \in G, new[n] = new[m] PROVE n = m
    BY <1>5, <1>11, <1>12, <2>2
  <2>3. new[g.current] = g.alt
    BY <1>3, <1>11, <1>12
  <2> QED
    BY <1>13, <2>1, <2>2, <2>3 DEF Versions, G
<1>15. /\ h.savedAlt \in 0..h.altSeq /\ sv.node \in 0..h.altSeq
       /\ \A n \in D : ver[n] = h.savedAlt => n = sv.node /\ st[n] = sv.text
       /\ sv.node \in D /\ ver[sv.node] # h.savedAlt =>
            Drifted(h.nodes[sv.node].op, st[sv.node], sv.text)
  BY <1>10 DEF SavedAs, D
<1>16. ASSUME sv.node \in G, new[sv.node] # g.savedAlt
       PROVE  Drifted(g.nodes[sv.node].op, some[sv.node], sv.text)
  <2>1. Drifted(h.nodes[sv.node].op, st[sv.node], sv.text) /\ some[sv.node] = st[sv.node]
    BY <1>5, <1>12, <1>15, <1>16
  <2>2. CASE sv.node # g.root
    BY <1>1, <1>16, <2>1, <2>2
  <2>3. CASE sv.node = g.root
    <3>1. g.nodes[sv.node].op = "Root"
      BY <2>3 DEF Shape, RootIsBare
    <3> QED
      BY <2>1, <3>1 DEF Drifted
  <2> QED
    BY <2>2, <2>3
<1>17. SavedAs(g, new, some, sv)
  BY <1>5, <1>12, <1>15, <1>16 DEF SavedAs, G
<1>18. Whole(g, some, sv, w)
  BY <1>0, <1>8, <1>9, <1>14, <1>17 DEF Whole, Versioned
<1> QED
  BY <1>18 DEF some, G

\* Recording an edit keeps the history whole, with the text left at the node it leads to.
LEMMA RecordedWhole ==
  ASSUME NEW h, NEW st, NEW sv, NEW w \in Nat, Whole(h, st, sv, w), NEW step \in StepSet,
         NEW hint \in Hints, NEW g, g = Recorded(h, step, hint),
         NEW u \in Texts, Once(u), NEW v \in Nat, w <= v, Below(u, v),
         Leads(st[h.current], step, u), Drives(hint, st[h.current], u, w),
         NEW new, new = [n \in DOMAIN g.nodes |-> IF n = g.current THEN u ELSE st[n]]
  PROVE  Whole(g, new, sv, v) /\ new[g.current] = u
<1> DEFINE p == Placed(h, step, hint)
           stp == [n \in DOMAIN p.nodes |-> IF n = p.current THEN u ELSE st[n]]
<1>1. Whole(p, stp, sv, v)
  <2>1. CASE Merges(h, hint)
    BY <2>1, MergedWhole
  <2>2. CASE ~Merges(h, hint)
    BY <2>2, GrownWhole
  <2> QED
    BY <2>1, <2>2
<1>2. g = Pruned(p)
  BY RecordedForm
<1>3. \A n \in DOMAIN p.nodes : stp[n] = IF n = p.current THEN u ELSE st[n]
  OBVIOUS
<1> HIDE DEF p, stp
<1>4. Shape(p)
  BY <1>1 DEF Whole
<1>5. Shape(g) /\ Aside(g, p) /\ PartOf(g, p)
  BY <1>2, <1>4, PrunedFacts
<1>6. /\ g.current = p.current /\ g.open = p.open /\ g.alt = p.alt /\ g.altSeq = p.altSeq
      /\ g.savedAlt = p.savedAlt
  BY <1>5 DEF Aside
<1>7. Whole(g, [n \in DOMAIN g.nodes |-> stp[n]], sv, v)
  BY <1>1, <1>5, <1>6, PartWhole
<1>8. DOMAIN g.nodes \subseteq DOMAIN p.nodes
  BY <1>5 DEF PartOf
<1>9. [n \in DOMAIN g.nodes |-> stp[n]] = new
  BY <1>3, <1>6, <1>8
<1>10. g.current \in DOMAIN g.nodes
  BY <1>5 DEF Shape, Tree
<1> QED
  BY <1>7, <1>9, <1>10

\* A history whose units are those of a whole one is whole, wherever it is.
LEMMA ElsewhereWhole ==
  ASSUME NEW h, NEW st, NEW sv, NEW w, Whole(h, st, sv, w), NEW g, Shape(g), OpenTop(g),
         DOMAIN g.nodes = DOMAIN h.nodes, g.root = h.root, g.altSeq = h.altSeq,
         g.savedAlt = h.savedAlt,
         \A n \in DOMAIN h.nodes :
           /\ g.nodes[n].parent = h.nodes[n].parent /\ g.nodes[n].steps = h.nodes[n].steps
           /\ g.nodes[n].op = h.nodes[n].op /\ g.nodes[n].altBefore = h.nodes[n].altBefore
           /\ g.nodes[n].altAfter = h.nodes[n].altAfter,
         \A ver : Versions(h, ver) => ver[g.current] = g.alt
  PROVE  Whole(g, st, sv, w)
<1>0. Shape(h) /\ Exact(h, st, w) /\ sv.text \in Texts /\ Below(sv.text, w)
  BY DEF Whole
<1>1. PICK ver : Versions(h, ver) /\ SavedAs(h, ver, st, sv)
  BY DEF Whole, Versioned
<1>2. ver[g.current] = g.alt
  BY <1>1
<1>3. Versions(g, ver)
  BY <1>1, <1>2 DEF Versions
<1>4. SavedAs(g, ver, st, sv)
  BY <1>1 DEF SavedAs
<1>5. Exact(g, st, w)
  BY <1>0 DEF Exact
<1> QED
  BY <1>0, <1>3, <1>4, <1>5 DEF Whole, Versioned

\* Undo moves within the history and keeps what it holds.
LEMMA UndoneWhole ==
  ASSUME NEW h, NEW st, NEW sv, NEW w, Whole(h, st, sv, w), CanUndo(h), NEW g, g = Undone(h)
  PROVE  Whole(g, st, sv, w)
<1>1. Shape(h) /\ h.current \in DOMAIN h.nodes
  BY DEF Whole, Shape, Tree
<1>2. /\ Shape(g) /\ g.nodes = h.nodes /\ g.root = h.root /\ g.open = FALSE
      /\ g.current = h.nodes[h.current].parent /\ g.alt = h.nodes[h.current].altBefore
      /\ g.altSeq = h.altSeq /\ g.savedAlt = h.savedAlt
  BY <1>1, UndoneFacts
<1>3. OpenTop(g)
  BY <1>2 DEF OpenTop
<1>4. ASSUME NEW ver, Versions(h, ver) PROVE ver[g.current] = g.alt
  BY <1>1, <1>2, <1>4 DEF Versions, CanUndo
<1> QED
  BY <1>2, <1>3, <1>4, ElsewhereWhole

\* So does redo.
LEMMA RedoneWhole ==
  ASSUME NEW h, NEW st, NEW sv, NEW w, Whole(h, st, sv, w), CanRedo(h), NEW g, g = Redone(h)
  PROVE  Whole(g, st, sv, w)
<1>1. Shape(h) /\ h.current \in DOMAIN h.nodes
  BY DEF Whole, Shape, Tree
<1>2. /\ Shape(g) /\ g.nodes = h.nodes /\ g.root = h.root /\ g.open = FALSE
      /\ g.current \in DOMAIN h.nodes /\ g.current # h.root
      /\ g.alt = h.nodes[g.current].altAfter
      /\ g.altSeq = h.altSeq /\ g.savedAlt = h.savedAlt
  BY <1>1, RedoneFacts, Zenon
<1>3. OpenTop(g)
  BY <1>2 DEF OpenTop
<1>4. ASSUME NEW ver, Versions(h, ver) PROVE ver[g.current] = g.alt
  BY <1>1, <1>2, <1>4 DEF Versions
<1> QED
  BY <1>2, <1>3, <1>4, ElsewhereWhole

\* Sealing the unit keeps what the history holds.
LEMMA SealedWhole ==
  ASSUME NEW h, NEW st, NEW sv, NEW w, Whole(h, st, sv, w)
  PROVE  Whole(Sealed(h), st, sv, w)
<1> DEFINE g == Sealed(h)
<1>1. Shape(h) /\ Typed(h)
  BY DEF Whole, Shape
<1>2. Shape(g)
  BY <1>1, SealedFacts
<1>3. /\ g.nodes = h.nodes /\ g.root = h.root /\ g.open = FALSE /\ g.current = h.current
      /\ g.alt = h.alt /\ g.altSeq = h.altSeq /\ g.savedAlt = h.savedAlt
  BY <1>1 DEF Sealed, Typed
<1> HIDE DEF g
<1>4. OpenTop(g)
  BY <1>3 DEF OpenTop
<1>5. ASSUME NEW ver, Versions(h, ver) PROVE ver[g.current] = g.alt
  BY <1>3, <1>5 DEF Versions
<1>6. Whole(g, st, sv, w)
  BY <1>2, <1>3, <1>4, <1>5, ElsewhereWhole
<1> QED
  BY <1>6 DEF g

\* So does choosing another branch to redo.
LEMMA SteeredWhole ==
  ASSUME NEW h, NEW st, NEW sv, NEW w, Whole(h, st, sv, w), NEW child \in Children(h, h.current),
         NEW g, g = Steered(h, child)
  PROVE  Whole(g, st, sv, w) /\ g.current = h.current /\ DOMAIN g.nodes = DOMAIN h.nodes
<1> DEFINE c == h.current
           D == DOMAIN h.nodes
<1>1. Shape(h) /\ Typed(h) /\ OpenTop(h) /\ c \in D
  BY DEF Whole, Shape, Tree
<1>2. /\ Shape(g) /\ DOMAIN g.nodes = D /\ g.root = h.root
      /\ g.current = c /\ g.open = h.open /\ g.alt = h.alt
      /\ g.altSeq = h.altSeq /\ g.savedAlt = h.savedAlt
      /\ \A n \in D : n # c => g.nodes[n] = h.nodes[n]
      /\ g.nodes[c] = [h.nodes[c] EXCEPT !.preferred = child]
  BY <1>1, SteeredFacts
<1>3. /\ g.nodes[c].parent = h.nodes[c].parent /\ g.nodes[c].steps = h.nodes[c].steps
      /\ g.nodes[c].altAfter = h.nodes[c].altAfter /\ g.nodes[c].altBefore = h.nodes[c].altBefore
      /\ g.nodes[c].op = h.nodes[c].op
  <2> DEFINE node == h.nodes[c]
  <2>1. node \in NodeSet
    BY <1>1 DEF Typed
  <2>2. g.nodes[c] = [node EXCEPT !.preferred = child]
    BY <1>2
  <2> HIDE DEF node
  <2>3. g.nodes[c] = [parent |-> node.parent, preferred |-> child, steps |-> node.steps,
                      op |-> node.op, altBefore |-> node.altBefore, altAfter |-> node.altAfter]
    BY <2>1, <2>2 DEF NodeSet
  <2> QED
    BY <2>3 DEF node
<1> HIDE DEF c, D
<1>4. \A n \in D :
           /\ g.nodes[n].parent = h.nodes[n].parent /\ g.nodes[n].steps = h.nodes[n].steps
           /\ g.nodes[n].op = h.nodes[n].op /\ g.nodes[n].altBefore = h.nodes[n].altBefore
           /\ g.nodes[n].altAfter = h.nodes[n].altAfter
  BY <1>2, <1>3
<1>5. OpenTop(g)
  BY <1>1, <1>2, <1>4 DEF OpenTop, Children, c, D
<1>6. ASSUME NEW ver, Versions(h, ver) PROVE ver[g.current] = g.alt
  BY <1>2, <1>6 DEF Versions, c
<1>7. Whole(g, st, sv, w)
  BY <1>2, <1>4, <1>5, <1>6, ElsewhereWhole DEF D
<1> QED
  BY <1>2, <1>7 DEF c, D

\* What a new limit leaves of the history still holds what it held.
LEMMA LimitedWhole ==
  ASSUME NEW h, NEW st, NEW sv, NEW w, Whole(h, st, sv, w), NEW limit \in Nat \cup {NoLimit},
         NEW g, g = Limited(h, limit)
  PROVE  /\ Whole(g, [n \in DOMAIN g.nodes |-> st[n]], sv, w)
         /\ g.current = h.current /\ g.current \in DOMAIN g.nodes
<1>1. Shape(h)
  BY DEF Whole
<1>2. /\ Shape(g) /\ PartOf(g, h) /\ g.current = h.current /\ g.open = h.open
      /\ g.alt = h.alt /\ g.altSeq = h.altSeq /\ g.savedAlt = h.savedAlt
  BY <1>1, LimitedFacts
<1>3. Whole(g, [n \in DOMAIN g.nodes |-> st[n]], sv, w)
  BY <1>2, PartWhole
<1>4. g.current \in DOMAIN g.nodes
  BY <1>2 DEF Shape, Tree
<1> QED
  BY <1>2, <1>3, <1>4

\* A save is of the current node, as it is.
LEMMA MarkedWhole ==
  ASSUME NEW h, NEW st, NEW sv, NEW w, Whole(h, st, sv, w), NEW to,
         to = [node |-> h.current, text |-> st[h.current]]
  PROVE  Whole(MarkedSaved(h), st, to, w)
<1> DEFINE g == MarkedSaved(h)
           c == h.current
<1>0. Shape(h) /\ Exact(h, st, w) /\ OpenTop(h) /\ Typed(h) /\ c \in DOMAIN h.nodes
  BY DEF Whole, Shape, Tree
<1>1. Shape(g)
  BY <1>0, SealedFacts
<1>2. /\ g.nodes = h.nodes /\ g.root = h.root /\ g.open = h.open /\ g.current = c
      /\ g.alt = h.alt /\ g.altSeq = h.altSeq /\ g.savedAlt = h.alt
  BY <1>0 DEF MarkedSaved, Typed
<1> HIDE DEF g
<1>3. PICK ver : Versions(h, ver)
  BY DEF Whole, Versioned
<1>4. Versions(g, ver)
  BY <1>2, <1>3 DEF Versions
<1>5. to.node = c /\ to.text = st[c]
  OBVIOUS
<1>6. c \in Nat /\ c <= h.altSeq
  BY <1>0, TreeParents
<1>7. /\ ver[c] = h.alt /\ ver[c] \in 0..h.altSeq
      /\ \A n \in DOMAIN h.nodes : ver[n] = ver[c] => n = c
  BY <1>0, <1>3 DEF Versions
<1>8. SavedAs(g, ver, st, to)
  BY <1>2, <1>5, <1>6, <1>7 DEF SavedAs
<1>9. Exact(g, st, w) /\ OpenTop(g)
  BY <1>0, <1>2 DEF Exact, OpenTop, Children
<1>10. to.text \in Texts /\ Below(to.text, w)
  BY <1>0, <1>5 DEF Exact
<1>11. Whole(g, st, to, w)
  BY <1>1, <1>4, <1>8, <1>9, <1>10 DEF Whole, Versioned
<1> QED
  BY <1>11 DEF g

\* The file as loaded.
LEMMA LoadedFacts ==
  LoadedLength \in Nat /\ Loaded \in Texts /\ Len(Loaded) = LoadedLength
  /\ Once(Loaded) /\ Below(Loaded, LoadedLength)
<1>1. LoadedLength \in Nat
  BY DocumentAssumption
<1>2. Loaded = [n \in 1..LoadedLength |-> Loaded[n]] /\ \A n \in 1..LoadedLength : Loaded[n] = n
  BY DEF Loaded
<1> HIDE DEF Loaded
<1>3. Loaded \in Seq(Nat)
  BY <1>1, <1>2
<1>4. Len(Loaded) = LoadedLength
  BY <1>1, <1>2, <1>3
<1>5. Once(Loaded)
  BY <1>1, <1>2, <1>4 DEF Once
<1>6. Below(Loaded, LoadedLength)
  BY <1>1, <1>2, <1>4 DEF Below, Chars
<1> QED
  BY <1>1, <1>3, <1>4, <1>5, <1>6 DEF Texts

\* A new history holds the loaded text.
LEMMA NewWhole ==
  ASSUME NEW st, st = [n \in {0} |-> Loaded], NEW sv, sv = [node |-> 0, text |-> Loaded]
  PROVE  Whole(NewHistory, st, sv, LoadedLength)
<1> DEFINE h == NewHistory
<1>1. /\ Shape(h) /\ DOMAIN h.nodes = {0} /\ h.current = 0
      /\ h.root = 0 /\ h.open = FALSE /\ h.alt = 0 /\ h.altSeq = 0 /\ h.savedAlt = 0
  BY NewFacts
<1> HIDE DEF h
<1>2. /\ st[0] = Loaded /\ st \in [{0} -> Texts] /\ Once(Loaded) /\ Below(Loaded, LoadedLength)
      /\ Loaded \in Texts
  BY LoadedFacts
<1>3. sv.node = 0 /\ sv.text = Loaded
  OBVIOUS
<1>4. Exact(h, st, LoadedLength) /\ OpenTop(h)
  BY <1>1, <1>2 DEF Exact, OpenTop
<1> DEFINE ver == [n \in {0} |-> 0]
<1>5. ver[0] = 0 /\ ver \in [{0} -> 0..0]
  OBVIOUS
<1> HIDE DEF ver
<1>6. Versions(h, ver)
  BY <1>1, <1>5 DEF Versions
<1>7. SavedAs(h, ver, st, sv)
  BY <1>1, <1>2, <1>3, <1>5 DEF SavedAs
<1>8. Whole(h, st, sv, LoadedLength)
  BY <1>1, <1>2, <1>3, <1>4, <1>6, <1>7 DEF Whole, Versioned
<1> QED
  BY <1>8 DEF h

----------------------------------------------------------------------------
\* Deleting leaves less text.
LEMMA DeletesShrink ==
  ASSUME NEW t \in Texts, NEW ops, Normal(t, ops), ops # <<>>,
         \A n \in 1..Len(ops) : ops[n].text = <<>>
  PROVE  Len(Applied(t, ops)) < Len(t)
<1> DEFINE k == Len(ops)
           l == Len(t)
<1>1. PICK pre, suf : Laid(t, ops, pre, suf)
  BY BatchLaid
<1> DEFINE E == [n \in 0..k |-> End(ops, n)]
           S == [n \in 1..k |-> ops[n].start]
           A == [n \in 1..k |-> NewStart(ops, n)]
           P == [n \in 0..k |-> Len(pre[n])]
<1>2. Laying(t, ops, pre, E, S, P, A)
  BY DEF Laying
<1>3. /\ \A n \in 0..k : E[n] = End(ops, n) /\ P[n] = Len(pre[n])
      /\ \A n \in 1..k : S[n] = ops[n].start
  OBVIOUS
<1> HIDE DEF E, S, A, P
<1>4. /\ Strides(k, E, S, P, A) /\ P[0] = 0 /\ E[0] = 0
      /\ \A n \in 1..k : A[n] + Len(ops[n].text) = P[n] /\ E[n] = ops[n].stop
  BY <1>1, <1>2, LayingStrides
<1>5. k \in Nat /\ l \in Nat /\ ops \in Seq(OpSet)
  BY EndFacts
<1>6. k # 0
  BY <1>5, EmptySeq
<1>7. Len(<<>>) = 0
  BY EmptySeq
<1> HIDE DEF k, l
<1> DEFINE Good == {n \in 0..k : P[n] + n <= E[n]}
<1>8. 0 \in Good
  BY <1>4, <1>5
<1>9. \A n \in 0..(k - 1) : n \in Good => n + 1 \in Good
  <2> SUFFICES ASSUME NEW n \in 0..(k - 1), P[n] + n <= E[n] PROVE n + 1 \in Good
    OBVIOUS
  <2> DEFINE m == n + 1
             e == E[n]
             d == E[m]
             y == P[n]
             z == P[m]
             s == S[m]
             a == A[m]
  <2>1. m \in 1..k /\ m \in 0..k /\ m - 1 = n /\ n \in 0..k /\ n \in Nat
    BY <1>5
  <2>2. e \in Nat /\ d \in Nat /\ y \in Nat /\ z \in Nat
    BY <1>4, <2>1 DEF Strides
  <2>3. s \in Nat /\ a \in Nat /\ e <= s /\ s <= d /\ a = y + (s - e)
    <3>1. m \in 1..k /\ m - 1 = n
      BY <2>1
    <3>2. S[m] \in Nat /\ A[m] \in Nat /\ E[m - 1] <= S[m] /\ S[m] <= E[m]
          /\ A[m] = P[m - 1] + (S[m] - E[m - 1])
      BY <1>4, <3>1 DEF Strides
    <3> QED
      BY <3>1, <3>2
  <2>4. a = z
    <3>1. ops[m].text = <<>> /\ A[m] + Len(ops[m].text) = P[m]
      BY <1>4, <2>1 DEF k
    <3> QED
      BY <1>7, <2>2, <2>3, <3>1
  <2>5. s # d
    <3>1. ops[m].text = <<>> /\ Fits(t, ops[m]) /\ S[m] = ops[m].start /\ E[m] = ops[m].stop
      BY <1>3, <1>4, <2>1 DEF Normal, k
    <3>2. ops[m].start < ops[m].stop
      BY <3>1 DEF Fits, Changing
    <3>3. S[m] < E[m]
      BY <3>1, <3>2
    <3> QED
      BY <2>2, <2>3, <3>3
  <2>6. y + n <= e
    OBVIOUS
  <2> HIDE DEF e, d, y, z, s, a
  <2>7. z + (n + 1) <= d
    BY <2>1, <2>2, <2>3, <2>4, <2>5, <2>6
  <2> QED
    BY <2>1, <2>7 DEF z, d
<1> HIDE DEF Good
<1>10. \A n \in 0..k : n \in Good
  BY <1>5, <1>8, <1>9, UpInduction
<1>11. k \in 0..k
  BY <1>5
<1>12. P[k] + k <= E[k] /\ P[k] \in Nat /\ E[k] \in Nat
  BY <1>4, <1>10, <1>11 DEF Good, Strides
<1> DEFINE e == End(ops, k)
           rest == Slice(t, e, l)
           head == pre[k]
<1>13. Applied(t, ops) = head \o rest
  BY <1>1, AppliedMid DEF Mid, k, l
<1>14. e \in Nat /\ e <= l /\ l <= l
  BY <1>5, <1>11, EndFacts DEF k, l
<1>15. rest \in Texts /\ Len(rest) = l - e
  BY <1>5, <1>14, SliceFacts DEF l
<1>16. head \in Texts /\ Len(head) = P[k]
  BY <1>1, <1>3, <1>11 DEF Laid, k
<1>17. E[k] = e
  BY <1>3, <1>11
<1> HIDE DEF e, rest, head
<1>18. Len(head \o rest) = Len(head) + Len(rest)
  BY <1>15, <1>16, JoinFacts
<1> DEFINE y == P[k]
<1>19. y + k <= e /\ y \in Nat /\ Len(head) = y
  BY <1>12, <1>16, <1>17
<1> HIDE DEF y
<1>20. y + (l - e) < l
  BY <1>5, <1>6, <1>14, <1>19
<1>21. Len(head \o rest) < l
  BY <1>15, <1>18, <1>19, <1>20
<1> QED
  BY <1>13, <1>21 DEF l

\* A host's batch: the next characters, each written once.
Fresh(ops, w) == \A i \in 1..Len(ops) : ops[i].text \in {<<>>, <<w + i>>}

\* The ops a batch is left with are some of its own.
LEMMA NormalizedTexts ==
  ASSUME NEW t, Len(t) \in Nat, NEW ops \in Seq(OpSet), NEW new, new = Normalized(t, ops)
  PROVE  \E at : /\ \A n \in 1..Len(new) : at[n] \in 1..Len(ops) /\ new[n].text = ops[at[n]].text
                 /\ \A n, m \in 1..Len(new) : at[n] = at[m] => n = m
<1> DEFINE norm == Within(t, ops)
           K == Kept(t, ops)
           l == Len(ops)
<1>1. l \in Nat /\ DOMAIN ops = 1..l /\ K \in SUBSET (1..l) /\ K \in SUBSET Nat
  BY LenProperties DEF Kept
<1>2. \A i \in 1..l : ops[i] \in OpSet
  BY <1>1, ElementOfSeq
<1>3. \A i \in 1..l : norm[i].start \in Nat /\ norm[i].text = ops[i].text
  <2> SUFFICES ASSUME NEW i \in 1..l PROVE norm[i].start \in Nat /\ norm[i].text = ops[i].text
    OBVIOUS
  <2>1. norm[i] = Clipped(t, ops[i]) /\ ops[i] \in OpSet
    BY <1>1, <1>2 DEF Within
  <2>2. norm[i] \in OpSet
    BY <2>1, ClippedFacts
  <2>3. Clipped(t, ops[i]).text = ops[i].text
    BY DEF Clipped, EditOp
  <2> QED
    BY <2>1, <2>2, <2>3 DEF OpSet
<1> HIDE DEF norm
<1>4. IsFiniteSet(K)
  <2> HIDE DEF K, l
  <2>1. IsFiniteSet(1..l)
    BY <1>1, FS_Interval
  <2>2. K \in SUBSET (1..l)
    BY <1>1
  <2> QED
    BY <2>1, <2>2, FS_Subset
<1>5. \A i \in K : norm[i].start \in Nat
  BY <1>1, <1>3
<1>6. \E f : Sorts(norm, K, f)
  <2> HIDE DEF K
  <2> QED
    BY <1>1, <1>4, <1>5, OrderExists
<1>7. PICK at : Sorts(Within(t, ops), K, at) /\ Normalized(t, ops) = InOrder(t, ops, at)
  BY <1>6, NormalizedForm DEF norm
<1>8. Sorts(norm, K, at) /\ new = [n \in DOMAIN at |-> norm[at[n]]]
  BY <1>7 DEF norm, InOrder
<1>9. Cardinality(K) \in Nat
  BY <1>4, FS_CardinalityType
<1> HIDE DEF K, l
<1> DEFINE k == Cardinality(K)
<1>10. at \in [1..k -> K] /\ DOMAIN at = 1..k
       /\ \A n \in 1..k : \A m \in 1..(n - 1) : Ahead(norm, at[m], at[n])
  BY <1>8 DEF Sorts
<1> HIDE DEF k
<1>11. new \in Seq(OpSet)
  BY NormalizedFits
<1>12. DOMAIN new = 1..k
  BY <1>8, <1>10
<1>13. Len(new) = k
  BY <1>9, <1>11, <1>12, LenProperties DEF k
<1>14. ASSUME NEW n \in 1..k PROVE at[n] \in 1..l /\ new[n].text = ops[at[n]].text
  <2>1. at[n] \in 1..l /\ new[n] = norm[at[n]]
    BY <1>1, <1>8, <1>10
  <2> QED
    BY <1>3, <2>1
<1>15. ASSUME NEW n \in 1..k, NEW m \in 1..k, m < n PROVE at[m] # at[n]
  <2>1. m \in 1..(n - 1)
    BY <1>9, <1>15
  <2>2. Ahead(norm, at[m], at[n])
    BY <1>10, <2>1
  <2>3. at[m] \in Nat /\ norm[at[m]].start \in Nat
    BY <1>1, <1>5, <1>10
  <2>4. ~Ahead(norm, at[m], at[m])
    BY <2>3 DEF Ahead
  <2> QED
    BY <2>2, <2>4
<1>16. ASSUME NEW n \in 1..k, NEW m \in 1..k, at[n] = at[m] PROVE n = m
  BY <1>9, <1>15, <1>16
<1>17. /\ \A n \in 1..Len(new) : at[n] \in 1..Len(ops) /\ new[n].text = ops[at[n]].text
       /\ \A n, m \in 1..Len(new) : at[n] = at[m] => n = m
  BY <1>13, <1>14, <1>16 DEF l
<1> QED
  BY <1>17

\* So they bring in what was never there before.
LEMMA FreshNovel ==
  ASSUME NEW t \in Texts, NEW w \in Nat, Below(t, w), NEW ops \in Seq(OpSet), Fresh(ops, w),
         NEW new, new = Normalized(t, ops)
  PROVE  /\ Novel(t, new)
         /\ \A n \in 1..Len(new) : \A char \in Chars(new[n].text) : char <= w + Len(ops)
<1> DEFINE l == Len(ops)
           k == Len(new)
<1>1. l \in Nat /\ Len(t) \in Nat
  BY LenProperties DEF Texts
<1>2. PICK at : /\ \A n \in 1..k : at[n] \in 1..l /\ new[n].text = ops[at[n]].text
                /\ \A n, m \in 1..k : at[n] = at[m] => n = m
  BY <1>1, NormalizedTexts
<1>3. \A char \in Chars(t) : char \in Nat /\ char <= w
  BY ElementOfSeq DEF Below, Chars, Texts
<1>4. ASSUME NEW x PROVE Chars(<<>>) = {} /\ Once(<<>>) /\ Chars(<<x>>) = {x} /\ Once(<<x>>)
  <2>1. Len(<<>>) = 0 /\ Len(<<x>>) = 1 /\ <<x>>[1] = x
    BY EmptySeq
  <2> QED
    BY <2>1 DEF Chars, Once
<1> HIDE DEF l, k
<1>5. ASSUME NEW n \in 1..k
      PROVE  /\ Once(new[n].text)
             /\ \A char \in Chars(new[n].text) : char = w + at[n] /\ at[n] \in 1..l
  <2> DEFINE i == at[n]
             x == new[n].text
  <2>1. i \in 1..l /\ x = ops[i].text
    BY <1>2
  <2>2. x \in {<<>>, <<w + i>>}
    BY <2>1 DEF Fresh, l
  <2> HIDE DEF i, x
  <2>3. Once(x) /\ \A char \in Chars(x) : char = w + i
    BY <1>4, <2>2
  <2> QED
    BY <2>1, <2>3 DEF i, x
<1>6. ASSUME NEW n \in 1..k, NEW m \in 1..k, m # n, NEW char \in Chars(new[n].text)
      PROVE  char \notin Chars(new[m].text)
  <2>1. char = w + at[n] /\ at[n] \in 1..l
    BY <1>5, <1>6
  <2>2. SUFFICES ASSUME char = w + at[m], at[m] \in 1..l PROVE FALSE
    BY <1>5, <1>6
  <2> DEFINE i == at[n]
             j == at[m]
  <2>3. i \in 1..l /\ j \in 1..l /\ w + i = w + j
    BY <2>1, <2>2
  <2> HIDE DEF i, j
  <2>4. i \in Nat /\ j \in Nat
    BY <1>1, <2>3
  <2>5. i = j
    BY <2>3, <2>4
  <2>6. at[n] = at[m]
    BY <2>5 DEF i, j
  <2> QED
    BY <1>2, <1>6, <2>6
<1>7. ASSUME NEW n \in 1..k, NEW char \in Chars(new[n].text)
      PROVE  char \notin Chars(t) /\ char <= w + l
  <2> DEFINE i == at[n]
  <2>1. char = w + i /\ i \in 1..l
    BY <1>5, <1>7
  <2> HIDE DEF i
  <2>2. ~(char <= w) /\ char <= w + l
    BY <1>1, <2>1
  <2> QED
    BY <1>3, <2>2
<1>8. ASSUME NEW n \in 1..k PROVE Once(new[n].text)
  BY <1>5, <1>8
<1>9. Novel(t, new)
  BY <1>6, <1>7, <1>8 DEF Novel, k
<1> QED
  BY <1>7, <1>9 DEF k, l

\* What a batch of a host drives the text to.
Hosted(hint, ops, w) ==
  /\ ops \in Seq(OpSet) /\ Fresh(ops, w) /\ Len(ops) \in Nat
  /\ hint.op = "Type" => \A i \in 1..Len(ops) : ops[i].text = <<w + i>>
  /\ hint.op = "Delete" => \A i \in 1..Len(ops) : ops[i].text = <<>>

\* A batch the host may hand over turns the text, has an inverse, and does what its hint says.
LEMMA HostedDrives ==
  ASSUME NEW t \in Texts, Once(t), NEW w \in Nat, Below(t, w), NEW hint, NEW ops,
         Hosted(hint, ops, w), NEW new, new = Normalized(t, ops), new # <<>>, Disjoint(new),
         NEW u, u = Applied(t, new)
  PROVE  /\ Turns(t, new, u) /\ Leads(t, Step(new, InverseOps(t, new)), u)
         /\ u \in Texts /\ Once(u) /\ Below(u, w + Len(ops)) /\ Drives(hint, t, u, w)
<1>1. ops \in Seq(OpSet) /\ Fresh(ops, w) /\ Len(ops) \in Nat
  BY DEF Hosted
<1>2. Len(t) \in Nat
  BY LenProperties DEF Texts
<1>3. Normal(t, new)
  BY <1>1, <1>2, NormalizedFits DEF Normal
<1>4. Novel(t, new) /\ \A n \in 1..Len(new) : \A char \in Chars(new[n].text) : char <= w + Len(ops)
  BY <1>1, FreshNovel
<1>5. Leads(t, Step(new, InverseOps(t, new)), u)
  BY <1>3, <1>4, EditLeads
<1>6. Turns(t, new, u)
  BY <1>5 DEF Leads, Step
<1>7. Swaps(t, new, Len(new), u)
  BY <1>6, TurnsSwaps
<1>8. u \in Texts /\ Once(u)
  BY <1>7 DEF Swaps
<1>9. Below(u, w + Len(ops))
  <2> SUFFICES ASSUME NEW char \in Chars(u) PROVE char <= w + Len(ops)
    BY DEF Below
  <2>1. char \in Chars(t) \/ \E n \in 1..Len(new) : char \in Chars(new[n].text)
    BY <1>7 DEF Swaps
  <2>2. CASE char \in Chars(t)
    <3>1. char \in Nat /\ char <= w
      BY <2>2, ElementOfSeq DEF Below, Chars, Texts
    <3> QED
      BY <1>1, <3>1
  <2> QED
    BY <1>4, <2>1, <2>2
<1>10. Len(new) \in Nat /\ new \in Seq(OpSet) /\ 1 \in 1..Len(new)
  <2>1. Len(new) \in Nat /\ new \in Seq(OpSet)
    BY <1>3, EndFacts
  <2> QED
    BY <2>1, EmptySeq
<1>11. PICK at : \A n \in 1..Len(new) : at[n] \in 1..Len(ops) /\ new[n].text = ops[at[n]].text
  BY <1>1, <1>2, NormalizedTexts
<1>12. ASSUME hint.op = "Type" PROVE \E char \in Chars(u) : ~(char <= w)
  <2> DEFINE i == at[1]
  <2>1. i \in 1..Len(ops) /\ new[1].text = <<w + i>>
    BY <1>10, <1>11, <1>12 DEF Hosted
  <2> HIDE DEF i
  <2>2. w + i \in Chars(new[1].text)
    <3>1. Len(<<w + i>>) = 1 /\ <<w + i>>[1] = w + i
      OBVIOUS
    <3> QED
      BY <2>1, <3>1 DEF Chars
  <2>3. w + i \in Chars(u)
    BY <1>7, <1>10, <2>2 DEF Swaps
  <2>4. ~(w + i <= w)
    BY <1>1, <2>1
  <2> QED
    BY <2>3, <2>4
<1>13. ASSUME hint.op = "Delete" PROVE Len(u) < Len(t)
  <2>1. \A n \in 1..Len(new) : new[n].text = <<>>
    BY <1>11, <1>13 DEF Hosted
  <2> QED
    BY <1>3, <2>1, DeletesShrink
<1>14. Drives(hint, t, u, w)
  BY <1>12, <1>13 DEF Drives
<1> QED
  BY <1>5, <1>6, <1>8, <1>9, <1>14

\* The batches of the model are such.
LEMMA BatchesHosted ==
  ASSUME NEW hint \in Hints, text \in Texts, written \in Nat, NEW ops \in Batches(hint)
  PROVE  Hosted(hint, ops, LoadedLength + written)
<1> DEFINE w == LoadedLength + written
           l == Len(text)
           any(op, n) ==
             /\ op \in OpSet /\ op.text \in {<<>>, <<w + n>>}
             /\ hint.op = "Type" => op.text = <<w + n>>
             /\ hint.op = "Delete" => op.text = <<>>
<1>1. w \in Nat /\ l \in Nat /\ w + 1 \in Nat /\ w + 2 \in Nat
  BY DocumentAssumption, LenProperties DEF Texts
<1>2. ASSUME NEW n \in 1..2, NEW op \in OpsFor(hint, w + n) PROVE any(op, n)
  <2>1. PICK start \in 0..l, stop \in 0..l,
             x \in IF hint.op = "Type" THEN {<<w + n>>}
                   ELSE IF hint.op = "Delete" THEN {<<>>} ELSE {<<>>, <<w + n>>} :
               op = EditOp(start, stop, x)
    BY <1>2 DEF OpsFor
  <2>2. x \in Seq(Nat)
    <3> DEFINE char == w + n
    <3> HIDE DEF w
    <3>1. char \in Nat
      BY <1>1
    <3> HIDE DEF char
    <3>2. <<>> \in Seq(Nat) /\ <<char>> \in Seq(Nat)
      BY <3>1
    <3>3. x = <<>> \/ x = <<char>>
      BY <2>1 DEF char
    <3> QED
      BY <3>2, <3>3
  <2>3. op \in OpSet /\ op.text = x
    BY <1>1, <2>1, <2>2 DEF OpSet, EditOp, Texts
  <2> QED
    BY <2>1, <2>3
<1>3. ASSUME NEW op, any(op, 1) PROVE any(Wild(op), 1)
  <2>1. op.start \in Nat /\ op.stop \in Nat /\ op.stop + 1 \in Nat
    BY <1>3 DEF OpSet
  <2>2. Wild(op) \in OpSet /\ Wild(op).text = op.text
    BY <1>3, <2>1 DEF Wild, EditOp, OpSet
  <2> QED
    BY <1>3, <2>2
<1>4. ASSUME NEW op, any(op, 1), ops = <<op>> PROVE Hosted(hint, ops, w)
  <2>1. ops \in Seq(OpSet) /\ Len(ops) = 1 /\ ops[1] = op
    BY <1>4
  <2>2. \A i \in 1..Len(ops) : i = 1
    BY <2>1
  <2> QED
    BY <1>4, <2>1, <2>2 DEF Hosted, Fresh
<1>5. ASSUME NEW op, any(op, 1), NEW other, any(other, 2), ops = <<op, other>>
      PROVE  Hosted(hint, ops, w)
  <2>1. ops \in Seq(OpSet) /\ Len(ops) = 2 /\ ops[1] = op /\ ops[2] = other
    BY <1>5
  <2>2. \A i \in 1..Len(ops) : i = 1 \/ i = 2
    BY <2>1
  <2> HIDE DEF w
  <2> QED
    BY <1>5, <2>1, <2>2 DEF Hosted, Fresh
<1>6. /\ LoadedLength + written + 1 = w + 1 /\ LoadedLength + written + 2 = w + 2
      /\ 1 \in 1..2 /\ 2 \in 1..2
  OBVIOUS
<1>7. CASE \E op \in OpsFor(hint, w + 1) : ops = <<op>>
  BY <1>2, <1>4, <1>6, <1>7
<1>8. CASE \E op \in OpsFor(hint, w + 1) : ops = <<Wild(op)>>
  BY <1>2, <1>3, <1>4, <1>6, <1>8
<1>9. CASE \E pair \in OpsFor(hint, w + 1) \X OpsFor(hint, w + 2) : ops = pair
  BY <1>2, <1>5, <1>6, <1>9
<1> QED
  BY <1>7, <1>8, <1>9 DEF Batches

----------------------------------------------------------------------------
\* The invariant: the history is whole, the text is that of the current node, and what rides the
\* commits is sound.
DocInv ==
  /\ written \in Nat /\ Whole(history, standing, saved, LoadedLength + written)
  /\ text = standing[history.current] /\ Sound(Now, mirror)

\* What the invariant says of the text.
LEMMA InvFacts ==
  ASSUME DocInv
  PROVE  /\ LoadedLength + written \in Nat /\ Shape(history)
         /\ Exact(history, standing, LoadedLength + written)
         /\ history.current \in DOMAIN history.nodes
         /\ text \in Texts /\ Once(text) /\ Below(text, LoadedLength + written) /\ Len(text) \in Nat
         /\ Now.text = text /\ Now.revision = revision /\ Now.changes = changes
         /\ Now.squiggle = squiggle
<1>1. Whole(history, standing, saved, LoadedLength + written) /\ text = standing[history.current]
  BY DEF DocInv
<1>2. Shape(history) /\ Exact(history, standing, LoadedLength + written)
  BY <1>1 DEF Whole
<1>3. history.current \in DOMAIN history.nodes
  BY <1>2 DEF Shape, Tree
<1>4. text \in Texts /\ Once(text) /\ Below(text, LoadedLength + written)
  BY <1>1, <1>2, <1>3 DEF Exact
<1>5. Len(text) \in Nat
  BY <1>4, LenProperties DEF Texts
<1>6. LoadedLength + written \in Nat
  BY DocumentAssumption DEF DocInv
<1> QED
  BY <1>2, <1>3, <1>4, <1>5, <1>6 DEF Now

\* The invariant holds of a document just loaded.
LEMMA InitInv == Init => DocInv
<1> SUFFICES ASSUME Init PROVE DocInv
  OBVIOUS
<1>1. /\ LoadedLength \in Nat /\ Loaded \in Texts
      /\ text = Loaded /\ revision = 0 /\ history = NewHistory /\ written = 0
      /\ changes = [on |-> FALSE, from |-> NoRevision, entries |-> <<>>]
      /\ squiggle = NoSquiggle /\ mirror = [text |-> Loaded, revision |-> 0]
      /\ standing = [n \in {0} |-> Loaded] /\ saved = [node |-> 0, text |-> Loaded]
  BY LoadedFacts DEF Init
<1>2. Whole(history, standing, saved, LoadedLength)
  BY <1>1, NewWhole
<1>3. LoadedLength + written = LoadedLength /\ written \in Nat
  BY <1>1
<1>4. text = standing[history.current]
  BY <1>1, NewFacts
<1>5. Followed(Now, mirror)
  <2>1. <<>> \in Seq(EntrySet)
    BY EmptySeq
  <2>2. changes.from # 0 /\ changes.from = NoRevision
    BY <1>1 DEF NoRevision
  <2>3. /\ Now.text = Loaded /\ Now.revision = 0 /\ mirror.text = Loaded /\ mirror.revision = 0
        /\ Now.changes = [on |-> FALSE, from |-> NoRevision, entries |-> <<>>]
    BY <1>1 DEF Now
  <2> QED
    BY <2>1, <2>2, <2>3 DEF Followed, NoRevision
<1>6. Pinned(squiggle, text)
  BY <1>1 DEF Pinned, NoSquiggle
<1>7. Sound(Now, mirror)
  BY <1>1, <1>5, <1>6 DEF Sound, Now
<1> QED
  BY <1>2, <1>3, <1>4, <1>7 DEF DocInv

\* A document that has become c.
LEMMA BecomesFacts ==
  ASSUME NEW c, Becomes(c), NEW m, Sound(c, m)
  PROVE  Sound([text |-> text', revision |-> revision', changes |-> changes',
                squiggle |-> squiggle'], m) /\ text' = c.text
BY DEF Becomes, Sound, Followed

\* An edit keeps the invariant, and records one step.
LEMMA EditInv ==
  ASSUME DocInv, NEW hint \in Hints, NEW ops \in Batches(hint), Edit(ops, hint)
  PROVE  DocInv' /\ \E step \in StepSet : history' = Recorded(history, step, hint)
<1> DEFINE w == LoadedLength + written
           norm == Normalized(text, ops)
           u == Applied(text, norm)
           step == Step(norm, InverseOps(text, norm))
           v == w + Len(ops)
           d == Commit(Now, ops)
<1>0. w \in Nat /\ text \in Texts /\ Once(text) /\ Below(text, w) /\ Now.text = text /\ written \in Nat
  BY InvFacts DEF DocInv
<1>1. norm # <<>> /\ Disjoint(norm) /\ Becomes(d) /\ history' = Recorded(history, step, hint)
      /\ standing' = [n \in DOMAIN history'.nodes |->
                        IF n = history'.current THEN text' ELSE standing[n]]
      /\ written' = written + Len(ops) /\ mirror' = mirror /\ saved' = saved
  BY DEF Edit
<1>2. Hosted(hint, ops, w)
  BY <1>0, BatchesHosted
<1>3. Len(ops) \in Nat
  BY <1>2 DEF Hosted
<1> HIDE DEF w
<1>4. /\ Turns(text, norm, u) /\ Leads(text, step, u)
      /\ u \in Texts /\ Once(u) /\ Below(u, v) /\ Drives(hint, text, u, w)
  BY <1>0, <1>1, <1>2, HostedDrives
<1>5. d = Committed(Now, norm, u)
  BY <1>0, <1>4, CommitForm
<1>6. Sound(Now, mirror)
  BY DEF DocInv
<1>7. Sound(d, mirror) /\ d.text = u
  BY <1>0, <1>4, <1>5, <1>6, CommitSound
<1>8. step \in StepSet
  <2>1. step.forward \in Seq(OpSet) /\ step.inverse \in Seq(OpSet)
    BY <1>4, StepTyped
  <2> QED
    BY <2>1 DEF Step, StepSet
<1> HIDE DEF d, norm, u, step
<1>9. Sound(Now, mirror)' /\ text' = u
  BY <1>1, <1>7, BecomesFacts DEF Now
<1>10. w <= v /\ v \in Nat
  BY <1>0, <1>3
<1> HIDE DEF v
<1>11. Whole(history, standing, saved, w) /\ text = standing[history.current]
  BY DEF DocInv, w
<1> DEFINE g == history'
           new == standing'
<1>12. g = Recorded(history, step, hint)
       /\ new = [n \in DOMAIN g.nodes |-> IF n = g.current THEN u ELSE standing[n]]
  BY <1>1, <1>9
<1> HIDE DEF g, new
<1>13. Whole(g, new, saved, v) /\ new[g.current] = u
  BY <1>0, <1>4, <1>8, <1>10, <1>11, <1>12, RecordedWhole
<1>14. v = LoadedLength + written' /\ written' \in Nat
  BY <1>0, <1>1, <1>3, DocumentAssumption DEF v, w
<1> QED
  BY <1>1, <1>8, <1>9, <1>12, <1>13, <1>14 DEF DocInv, g, new

\* Undo keeps the invariant: the unit's inverses lead to the text its parent was left with.
LEMMA UndoInv == DocInv /\ Undo => DocInv'
<1> SUFFICES ASSUME DocInv, Undo PROVE DocInv'
  OBVIOUS
<1> DEFINE c == history.current
           up == history.nodes[c].parent
           steps == history.nodes[c].steps
           back == UndoBatches(history)
           d == FoldLeft(Commit, Now, back)
           w == LoadedLength + written
<1>1. /\ CanUndo(history) /\ Becomes(d) /\ history' = Undone(history)
      /\ mirror' = mirror /\ standing' = standing /\ saved' = saved /\ written' = written
  BY DEF Undo
<1>2. /\ Shape(history) /\ Exact(history, standing, w) /\ c \in DOMAIN history.nodes /\ Typed(history)
      /\ Now.text = text /\ text = standing[c]
  BY InvFacts DEF Shape, DocInv
<1>3. Led(standing[up], steps, standing[c])
  BY <1>1, <1>2 DEF Exact, CanUndo
<1>4. steps \in Seq(StepSet)
  BY <1>2 DEF Typed, NodeSet
<1>5. back = [n \in DOMAIN steps |-> Reverse(steps)[n].inverse]
  BY DEF UndoBatches
<1> HIDE DEF back, steps
<1>6. PICK tt : back \in Seq(Seq(OpSet)) /\ Runs(back, tt) /\ tt[0] = standing[c]
                /\ tt[Len(back)] = standing[up]
  <2> DEFINE forth == [n \in DOMAIN steps |-> steps[n].forward]
  <2>2. forth = [n \in DOMAIN steps |-> steps[n].forward]
    OBVIOUS
  <2> HIDE DEF forth
  <2>1. RunFrom(back, standing[c], standing[up])
    BY <1>3, <1>4, <1>5, <2>2, UnitRuns
  <2> QED
    BY <2>1 DEF RunFrom
<1>7. Sound(Now, mirror)
  BY DEF DocInv
<1>8. Sound(d, mirror) /\ d.text = standing[up]
  BY <1>2, <1>6, <1>7, RunSound
<1> HIDE DEF d
<1>9. Sound(Now, mirror)' /\ text' = standing[up]
  BY <1>1, <1>8, BecomesFacts DEF Now
<1>10. Whole(history, standing, saved, w)
  BY DEF DocInv
<1> HIDE DEF w
<1>11. Whole(Undone(history), standing, saved, w)
  BY <1>1, <1>10, UndoneWhole
<1>12. Undone(history).current = up
  BY <1>1, <1>2, UndoneFacts
<1>13. Whole(history, standing, saved, w)' /\ text' = standing'[history'.current]
  BY <1>1, <1>9, <1>11, <1>12 DEF w
<1> QED
  BY <1>1, <1>9, <1>13 DEF DocInv, w

\* Redo keeps the invariant: the unit's batches lead to the text it was left with.
LEMMA RedoInv == DocInv /\ Redo => DocInv'
<1> SUFFICES ASSUME DocInv, Redo PROVE DocInv'
  OBVIOUS
<1> DEFINE c == history.current
           on == history.nodes[c].preferred
           steps == history.nodes[on].steps
           forth == RedoBatches(history)
           d == FoldLeft(Commit, Now, forth)
           w == LoadedLength + written
           g == Redone(history)
<1>1. /\ CanRedo(history) /\ Becomes(d) /\ history' = g
      /\ mirror' = mirror /\ standing' = standing /\ saved' = saved /\ written' = written
  BY DEF Redo
<1>2. /\ Shape(history) /\ Exact(history, standing, w) /\ Typed(history)
      /\ Now.text = text /\ text = standing[c]
  BY InvFacts DEF Shape, DocInv
<1>3. /\ g.current = on /\ on \in DOMAIN history.nodes /\ on # history.root
      /\ history.nodes[on].parent = c
  <2>1. g.current = on /\ g.current \in DOMAIN history.nodes /\ g.current # history.root
        /\ history.nodes[g.current].parent = c
    BY <1>1, <1>2, RedoneFacts, Zenon
  <2> QED
    BY <2>1
<1>4. Led(standing[c], steps, standing[on])
  BY <1>2, <1>3 DEF Exact
<1>5. steps \in Seq(StepSet)
  BY <1>2, <1>3 DEF Typed, NodeSet
<1>6. forth = [n \in DOMAIN steps |-> steps[n].forward]
  BY DEF RedoBatches, Redoing
<1> HIDE DEF forth, steps, g, on
<1>7. PICK tt : forth \in Seq(Seq(OpSet)) /\ Runs(forth, tt) /\ tt[0] = standing[c]
                /\ tt[Len(forth)] = standing[on]
  <2> DEFINE back == [n \in DOMAIN steps |-> Reverse(steps)[n].inverse]
  <2>2. back = [n \in DOMAIN steps |-> Reverse(steps)[n].inverse]
    OBVIOUS
  <2> HIDE DEF back
  <2>1. RunFrom(forth, standing[c], standing[on])
    BY <1>4, <1>5, <1>6, <2>2, UnitRuns
  <2> QED
    BY <2>1 DEF RunFrom
<1>8. Sound(Now, mirror)
  BY DEF DocInv
<1>9. Sound(d, mirror) /\ d.text = standing[on]
  BY <1>2, <1>7, <1>8, RunSound
<1> HIDE DEF d
<1>10. Sound(Now, mirror)' /\ text' = standing[on]
  BY <1>1, <1>9, BecomesFacts DEF Now
<1>11. Whole(history, standing, saved, w)
  BY DEF DocInv
<1> HIDE DEF w
<1>12. Whole(g, standing, saved, w)
  BY <1>1, <1>11, RedoneWhole DEF g
<1>13. Whole(history, standing, saved, w)' /\ text' = standing'[history'.current]
  BY <1>1, <1>3, <1>10, <1>12 DEF w
<1> QED
  BY <1>1, <1>10, <1>13 DEF DocInv, w

\* A caret move seals the unit, no more.
LEMMA CaretInv == DocInv /\ MoveCaret => DocInv'
<1> SUFFICES ASSUME DocInv, MoveCaret PROVE DocInv'
  OBVIOUS
<1>1. /\ history' = Sealed(history) /\ standing' = standing /\ saved' = saved /\ written' = written
      /\ text' = text /\ Now' = Now /\ mirror' = mirror
  BY DEF MoveCaret, Now
<1>2. Whole(Sealed(history), standing, saved, LoadedLength + written)
  BY SealedWhole DEF DocInv
<1>3. Sealed(history).current = history.current
  BY InvFacts DEF Sealed, Shape, Typed
<1> QED
  BY <1>1, <1>2, <1>3 DEF DocInv

\* Choosing a branch changes a preference.
LEMMA SteerInv ==
  ASSUME DocInv, NEW child, SelectRedoBranch(child)
  PROVE  DocInv'
<1>1. /\ child \in Children(history, history.current) /\ history' = Steered(history, child)
      /\ standing' = standing /\ saved' = saved /\ written' = written
      /\ text' = text /\ Now' = Now /\ mirror' = mirror
  BY DEF SelectRedoBranch, Now
<1>2. Whole(history, standing, saved, LoadedLength + written)
  BY DEF DocInv
<1>3. Whole(history', standing, saved, LoadedLength + written) /\ history'.current = history.current
  BY <1>1, <1>2, SteeredWhole
<1> QED
  BY <1>1, <1>3 DEF DocInv

\* Saving records the version and the text of the current node.
LEMMA SaveInv == DocInv /\ MarkSaved => DocInv'
<1> SUFFICES ASSUME DocInv, MarkSaved PROVE DocInv'
  OBVIOUS
<1>1. /\ history' = MarkedSaved(history) /\ saved' = [node |-> history.current, text |-> text]
      /\ standing' = standing /\ written' = written
      /\ text' = text /\ Now' = Now /\ mirror' = mirror
  BY DEF MarkSaved, Now
<1>2. Whole(history, standing, saved, LoadedLength + written) /\ text = standing[history.current]
  BY DEF DocInv
<1>3. Whole(MarkedSaved(history), standing, saved', LoadedLength + written)
  BY <1>1, <1>2, MarkedWhole
<1>4. MarkedSaved(history).current = history.current
  BY InvFacts DEF MarkedSaved, Shape, Typed
<1> QED
  BY <1>1, <1>3, <1>4 DEF DocInv

\* A new limit prunes, no more.
LEMMA LimitInv ==
  ASSUME DocInv, NEW limit \in Limits, SetUndoLimit(limit)
  PROVE  DocInv'
<1>1. /\ history' = Limited(history, limit)
      /\ standing' = [n \in DOMAIN history'.nodes |-> standing[n]]
      /\ saved' = saved /\ written' = written
      /\ text' = text /\ Now' = Now /\ mirror' = mirror
  BY DEF SetUndoLimit, Now
<1>2. limit \in Nat \cup {NoLimit}
  BY DocumentAssumption
<1>3. Whole(history, standing, saved, LoadedLength + written)
  BY DEF DocInv
<1>4. /\ Whole(history', standing', saved, LoadedLength + written)
      /\ history'.current = history.current /\ history'.current \in DOMAIN history'.nodes
  BY <1>1, <1>2, <1>3, LimitedWhole
<1>5. standing'[history'.current] = standing[history.current]
  BY <1>1, <1>4
<1> QED
  BY <1>1, <1>4, <1>5 DEF DocInv

\* An observer that comes or goes starts a new log.
LEMMA ObserveInv ==
  ASSUME DocInv, NEW on \in BOOLEAN, ObserveChanges(on)
  PROVE  DocInv'
<1> DEFINE log == [on |-> on, from |-> IF on THEN revision ELSE NoRevision, entries |-> <<>>]
           c == [text |-> text, revision |-> revision, changes |-> log, squiggle |-> squiggle]
<1>1. /\ Now' = c /\ history' = history /\ standing' = standing /\ saved' = saved
      /\ written' = written /\ text' = text /\ mirror' = mirror
  BY DEF ObserveChanges, Now
<1>2. Sound(Now, mirror) /\ Now.revision = revision /\ Now.text = text /\ Now.squiggle = squiggle
  BY DEF DocInv, Now
<1>3. /\ revision \in Nat /\ mirror.revision \in Nat /\ mirror.revision <= revision
      /\ mirror.revision = revision => mirror.text = text
  BY <1>2 DEF Sound, Followed
<1>4. <<>> \in Seq(EntrySet)
  BY EmptySeq
<1>5. log \in [on : BOOLEAN, from : Nat \cup {NoRevision}, entries : Seq(EntrySet)]
  BY <1>3, <1>4
<1>6. ASSUME log.from = mirror.revision PROVE Chained(mirror.text, log.entries, text)
  <2>1. mirror.revision # NoRevision
    BY <1>3 DEF NoRevision
  <2>2. mirror.text = text
    BY <1>3, <1>6, <2>1
  <2> QED
    BY <2>2, ChainedNone
<1>7. Followed(c, mirror)
  <2>1. ~log.on => log.from = NoRevision
    OBVIOUS
  <2>2. c.text = text /\ c.revision = revision /\ c.changes = log
    OBVIOUS
  <2> HIDE DEF c, log
  <2> QED
    BY <1>3, <1>5, <1>6, <2>1, <2>2 DEF Followed
<1>8. Sound(c, mirror)
  BY <1>2, <1>7 DEF Sound
<1> QED
  BY <1>1, <1>8 DEF DocInv

\* A drain gives the observer the text, and starts a new log.
LEMMA DrainInv == DocInv /\ DrainChanges => DocInv'
<1> SUFFICES ASSUME DocInv, DrainChanges PROVE DocInv'
  OBVIOUS
<1> DEFINE c == Now'
           log == changes'
           m == mirror'
<1>1. /\ changes' = [changes EXCEPT !.entries = <<>>, !.from = IF changes.on THEN revision ELSE @]
      /\ mirror' = [revision |-> revision,
                    text |-> IF changes.from = mirror.revision
                             THEN FoldLeft(Replayed, mirror.text, changes.entries) ELSE text]
      /\ history' = history /\ standing' = standing /\ saved' = saved
      /\ written' = written /\ text' = text /\ revision' = revision /\ squiggle' = squiggle
  BY DEF DrainChanges
<1>2. Sound(Now, mirror) /\ Now.revision = revision /\ Now.text = text
      /\ Now.squiggle = squiggle /\ Now.changes = changes
  BY DEF DocInv, Now
<1>3. /\ revision \in Nat /\ mirror.revision \in Nat
      /\ changes \in [on : BOOLEAN, from : Nat \cup {NoRevision}, entries : Seq(EntrySet)]
      /\ ~changes.on => changes.from = NoRevision
      /\ changes.from = mirror.revision => Chained(mirror.text, changes.entries, text)
  BY <1>2 DEF Sound, Followed
<1>4. m.revision = revision /\ m.text = text
  <2>1. ASSUME changes.from = mirror.revision
        PROVE  FoldLeft(Replayed, mirror.text, changes.entries) = text
    <3>1. changes.entries \in Seq(EntrySet) /\ Chained(mirror.text, changes.entries, text)
      BY <1>3, <2>1
    <3> QED
      BY <3>1, ChainedReplays DEF Replays
  <2> QED
    BY <1>1, <2>1
<1>5. log = [on |-> changes.on, from |-> IF changes.on THEN revision ELSE changes.from,
             entries |-> <<>>]
  BY <1>1, <1>3
<1>6. <<>> \in Seq(EntrySet)
  BY EmptySeq
<1>7. /\ log \in [on : BOOLEAN, from : Nat \cup {NoRevision}, entries : Seq(EntrySet)]
      /\ ~log.on => log.from = NoRevision
      /\ log.entries = <<>>
  BY <1>3, <1>5, <1>6
<1>8. c.text = text /\ c.revision = revision /\ c.changes = log /\ c.squiggle = squiggle
  BY <1>1 DEF Now
<1> HIDE DEF c, log, m
<1>9. Chained(m.text, log.entries, text)
  BY <1>4, <1>7, ChainedNone
<1>10. Followed(c, m)
  BY <1>3, <1>4, <1>7, <1>8, <1>9 DEF Followed
<1>11. Sound(c, m)
  BY <1>2, <1>8, <1>10 DEF Sound
<1> QED
  BY <1>1, <1>11 DEF DocInv, c, m

\* A diagnostic is put on one character.
LEMMA DiagnoseInv ==
  ASSUME DocInv, NEW start \in 0..Len(text), Diagnose(start)
  PROVE  DocInv'
<1> DEFINE s == [char |-> text[start + 1], start |-> start, stop |-> start + 1, alive |-> TRUE]
           c == [text |-> text, revision |-> revision, changes |-> changes, squiggle |-> s]
<1>1. /\ Now' = c /\ history' = history /\ standing' = standing /\ saved' = saved
      /\ written' = written /\ text' = text /\ mirror' = mirror /\ start < Len(text)
  BY DEF Diagnose, Now
<1>2. Sound(Now, mirror) /\ Now.revision = revision /\ Now.text = text /\ Now.changes = changes
  BY DEF DocInv, Now
<1>3. text \in Seq(Nat) /\ Len(text) \in Nat
  BY InvFacts DEF Texts
<1>4. start \in Nat /\ start + 1 \in 1..Len(text) /\ start \in start..(start + 1 - 1)
      /\ start + 1 \in Nat
  BY <1>1, <1>3
<1>5. text[start + 1] \in Nat
  BY <1>3, <1>4, ElementOfSeq
<1>6. Pinned(s, text)
  BY <1>4, <1>5 DEF Pinned
<1> HIDE DEF s
<1>7. Followed(c, mirror)
  BY <1>2 DEF Sound, Followed
<1>8. Sound(c, mirror)
  BY <1>2, <1>6, <1>7 DEF Sound
<1> QED
  BY <1>1, <1>8 DEF DocInv

\* The invariant is inductive.
LEMMA NextInv == DocInv /\ [Next]_vars => DocInv'
<1> SUFFICES ASSUME DocInv, [Next]_vars PROVE DocInv'
  OBVIOUS
<1>1. GroupingHints \subseteq Hints
  BY DocumentAssumption
<1>2. ASSUME NEW hint \in GroupingHints, NEW ops \in Batches(hint), Edit(ops, hint) PROVE DocInv'
  BY <1>1, <1>2, EditInv
<1>3. CASE Undo
  BY <1>3, UndoInv
<1>4. CASE Redo
  BY <1>4, RedoInv
<1>5. CASE MoveCaret
  BY <1>5, CaretInv
<1>6. ASSUME NEW child \in DOMAIN history.nodes, SelectRedoBranch(child) PROVE DocInv'
  BY <1>6, SteerInv
<1>7. CASE MarkSaved
  BY <1>7, SaveInv
<1>8. ASSUME NEW limit \in Limits, SetUndoLimit(limit) PROVE DocInv'
  BY <1>8, LimitInv
<1>9. ASSUME NEW on \in BOOLEAN, ObserveChanges(on) PROVE DocInv'
  BY <1>9, ObserveInv
<1>10. CASE DrainChanges
  BY <1>10, DrainInv
<1>11. ASSUME NEW start \in 0..Len(text), Diagnose(start) PROVE DocInv'
  BY <1>11, DiagnoseInv
<1>12. CASE UNCHANGED vars
  <2>1. Now' = Now /\ mirror' = mirror /\ text' = text /\ history' = history
        /\ standing' = standing /\ saved' = saved /\ written' = written
    BY <1>12 DEF vars, Now
  <2> QED
    BY <2>1 DEF DocInv
<1> QED
  BY <1>2, <1>3, <1>4, <1>5, <1>6, <1>7, <1>8, <1>9, <1>10, <1>11, <1>12 DEF Next

\* The invariant holds in every reachable state.
LEMMA DocInvHolds == Spec => []DocInv
<1>1. Init => DocInv
  BY InitInv
<1>2. DocInv /\ [Next]_vars => DocInv'
  BY NextInv
<1> QED
  BY <1>1, <1>2, PTL DEF Spec

----------------------------------------------------------------------------
\* History::undo, redo, select_branch and prune: after any edits, merges, undos, redos, jumps
\* between branches and prunings, the text is the one its node was left with, and redo comes forward
\* along the line undo went back.
THEOREM TheHistoryIsExact == Spec => []HistoryIsExact
<1>1. DocInv => HistoryIsExact
  <2> SUFFICES ASSUME DocInv PROVE HistoryIsExact
    OBVIOUS
  <2>1. UndoIsExact
    BY DEF DocInv, UndoIsExact
  <2>2. Retraces(history)
    BY InvFacts DEF Shape
  <2>3. RedoRetracesUndo
    BY <2>2 DEF Retraces, RedoRetracesUndo
  <2> QED
    BY <2>1, <2>3 DEF HistoryIsExact
<1> QED
  BY <1>1, DocInvHolds, PTL

\* History::is_dirty: versions are never used again, so a document is clean exactly at the node it
\* was saved at with the text that was saved, however undo, redo and merges got it there.
THEOREM ACleanDocumentIsSaved == Spec => []CleanIsSaved
<1>1. DocInv => CleanIsSaved
  <2> SUFFICES ASSUME DocInv PROVE CleanIsSaved
    OBVIOUS
  <2> DEFINE c == history.current
             w == LoadedLength + written
  <2>1. /\ Shape(history) /\ c \in DOMAIN history.nodes /\ text \in Texts
        /\ text = standing[c] /\ Len(text) \in Nat
    BY InvFacts DEF DocInv
  <2>2. PICK ver : Versions(history, ver) /\ SavedAs(history, ver, standing, saved)
    BY DEF DocInv, Whole, Versioned
  <2>3. ver[c] = history.alt
    BY <2>2 DEF Versions
  <2>4. ASSUME history.alt = history.savedAlt PROVE c = saved.node /\ text = saved.text
    BY <2>1, <2>2, <2>3, <2>4 DEF SavedAs
  <2>5. ASSUME history.alt # history.savedAlt, c = saved.node, text = saved.text PROVE FALSE
    <3>1. Drifted(history.nodes[c].op, text, text)
      BY <2>1, <2>2, <2>3, <2>5 DEF SavedAs
    <3>2. ~(Len(text) < Len(text))
      BY <2>1
    <3> QED
      BY <3>1, <3>2 DEF Drifted
  <2> QED
    BY <2>4, <2>5 DEF CleanIsSaved, IsDirty
<1> QED
  BY <1>1, DocInvHolds, PTL

\* ChangeLog::record and DecorationStore::apply_patch: a log drained from the observer's revision on
\* leads its text to the document's, and a diagnostic stays on its character.
THEOREM CommitsAreAlwaysFollowed == Spec => []CommitsAreFollowed
<1>1. DocInv => CommitsAreFollowed
  <2> SUFFICES ASSUME DocInv PROVE CommitsAreFollowed
    OBVIOUS
  <2>1. Followed(Now, mirror) /\ Pinned(Now.squiggle, Now.text)
        /\ Now.text = text /\ Now.changes = changes /\ Now.squiggle = squiggle
    BY InvFacts DEF DocInv, Sound
  <2>2. ASSUME changes.from = mirror.revision
        PROVE  Replays(mirror.text, changes.entries, text)
    <3>1. changes.entries \in Seq(EntrySet) /\ Chained(mirror.text, changes.entries, text)
      BY <2>1, <2>2 DEF Followed
    <3> QED
      BY <3>1, ChainedReplays
  <2>3. LogReplays
    BY <2>2 DEF LogReplays, Replays
  <2>4. SquiggleCovers
    BY <2>1 DEF Pinned, SquiggleCovers
  <2> QED
    BY <2>3, <2>4 DEF CommitsAreFollowed
<1> QED
  BY <1>1, DocInvHolds, PTL

\* History::prune_if_needed: a new edit never leaves more units than the limit, and drops no more
\* than it must.
THEOREM TheLimitIsKept == Spec => EditsKeepTheLimit
<1> DEFINE KeepsTheLimit ==
             history'.altSeq # history.altSeq /\ history.maxUndo # NoLimit =>
               /\ UndoDepth(history') <= history.maxUndo
               /\ history'.root # history.root => UndoDepth(history') = history.maxUndo
<1>1. DocInv /\ [Next]_vars => [KeepsTheLimit]_vars
  <2> SUFFICES ASSUME DocInv, Next, history'.altSeq # history.altSeq, history.maxUndo # NoLimit
               PROVE  /\ UndoDepth(history') <= history.maxUndo
                      /\ history'.root # history.root => UndoDepth(history') = history.maxUndo
    OBVIOUS
  <2>1. Shape(history)
    BY InvFacts
  <2>2. ASSUME NEW hint \in GroupingHints, NEW ops \in Batches(hint), Edit(ops, hint)
        PROVE  /\ UndoDepth(history') <= history.maxUndo
               /\ history'.root # history.root => UndoDepth(history') = history.maxUndo
    <3>1. hint \in Hints
      BY DocumentAssumption
    <3>2. PICK step \in StepSet : history' = Recorded(history, step, hint)
      BY <2>2, <3>1, EditInv
    <3> QED
      BY <2>1, <3>1, <3>2, RecordedFacts
  <2>3. Undo => history'.altSeq = history.altSeq
    BY <2>1, UndoneFacts DEF Undo
  <2>4. Redo => history'.altSeq = history.altSeq
    <3> SUFFICES ASSUME Redo PROVE history'.altSeq = history.altSeq
      OBVIOUS
    <3>1. CanRedo(history) /\ history' = Redone(history)
      BY DEF Redo
    <3> QED
      BY <2>1, <3>1, RedoneFacts, Zenon
  <2>5. MoveCaret => history'.altSeq = history.altSeq
    BY <2>1 DEF MoveCaret, Sealed, Shape, Typed
  <2>6. ASSUME NEW child, SelectRedoBranch(child) PROVE history'.altSeq = history.altSeq
    <3>1. child \in Children(history, history.current) /\ history' = Steered(history, child)
      BY <2>6 DEF SelectRedoBranch
    <3> QED
      BY <2>1, <3>1 DEF Steered, Shape, Typed
  <2>7. MarkSaved => history'.altSeq = history.altSeq
    BY <2>1 DEF MarkSaved, MarkedSaved, Shape, Typed
  <2>8. ASSUME NEW limit \in Limits, SetUndoLimit(limit) PROVE history'.altSeq = history.altSeq
    BY <2>1, <2>8, LimitedFacts, DocumentAssumption DEF SetUndoLimit
  <2>9. /\ \A on \in BOOLEAN : ObserveChanges(on) => history' = history
        /\ DrainChanges => history' = history
        /\ \A start \in 0..Len(text) : Diagnose(start) => history' = history
    BY DEF ObserveChanges, DrainChanges, Diagnose
  <2> QED
    BY <2>2, <2>3, <2>4, <2>5, <2>6, <2>7, <2>8, <2>9 DEF Next
<1>2. Spec => [][KeepsTheLimit]_vars
  BY <1>1, DocInvHolds, PTL DEF Spec
<1> QED
  BY <1>2 DEF EditsKeepTheLimit
=============================================================================
