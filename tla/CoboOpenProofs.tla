--------------------------- MODULE CoboOpenProofs ---------------------------
(***************************************************************************)
(* Proofs about CoboOpen.  Two invariants, one on top of the other:        *)
(*                                                                         *)
(* OInv is about who holds which connection: every connection has its two  *)
(* ends, what its ends rely on is written there, and a daemon that has     *)
(* settled on a parent is one of the children its parent remembers.        *)
(*                                                                         *)
(* BInv adds, for jobs that can be told apart, the ranks, the children of  *)
(* every daemon and the words of the barrier between it and its parent.    *)
(* That the tree has no other daemons than those that can be reached from  *)
(* its root is shown by induction over the ranks, on the loop of           *)
(* cobo_compute_children, by a smallest counterexample.                    *)
(***************************************************************************)
EXTENDS CoboOpen, TLAPS, WellFoundedInduction

-----------------------------------------------------------------------------
(* Induction over the naturals, by a smallest counterexample *)

LEMMA Least ==
  ASSUME NEW T, T \subseteq Nat, T # {}
  PROVE  \E m \in T : \A n \in T : m <= n
<1> DEFINE R == OpToRel(<, Nat)
<1>1. IsWellFoundedOn(R, Nat)
  BY NatLessThanWellFounded
<1>2. \A m \in T : \A n \in T : n < m => <<n, m>> \in R
  BY DEF OpToRel
<1> HIDE DEF R
<1>3. PICK m \in T : \A n \in T : <<n, m>> \notin R
  BY <1>1, WFMin, Zenon
<1>4. \A n \in T : ~(n < m)
  BY <1>2, <1>3, Zenon
<1> QED BY <1>4

-----------------------------------------------------------------------------
(* The children of cobo_compute_children *)

Mid(l, h) == (h - l) \div 2 + ((h - l) % 2) + l

LEMMA MidBounds ==
  ASSUME NEW n \in Nat, NEW l \in 0 .. n, NEW h \in -1 .. n, h - l > 0
  PROVE  /\ Mid(l, h) \in 0 .. n /\ Mid(l, h) - 1 \in -1 .. n
         /\ l < Mid(l, h) /\ Mid(l, h) <= h
         /\ h - Mid(l, h) < h - l /\ Mid(l, h) - 1 - l < h - l
  BY SMTT(30) DEF Mid

\* one iteration of the loop, when f is what the later ones find
Iteration(f, r, l, h) ==
  IF h - l <= 0 THEN <<>>
  ELSE (IF l = r THEN <<Mid(l, h)>> ELSE <<>>)
       \o (IF Mid(l, h) <= r THEN f[Mid(l, h), h] ELSE f[l, Mid(l, h) - 1])

Loop(f, r, n) == f = [x \in (0 .. n) \X (-1 .. n) |-> Iteration(f, r, x[1], x[2])]

Walk(r, n) == CHOOSE f : Loop(f, r, n)

LEMMA ChildrenWalk ==
  ASSUME NEW r, NEW n
  PROVE  Children(r, n) = Walk(r, n)[0, n - 1]
BY Zenon DEF Children, Walk, Loop, Iteration, Mid

\* f is right for the intervals of at most d + 1 ranks
Right(f, r, n, d) == \A l \in 0 .. n, h \in -1 .. n : h - l <= d => f[l, h] = Iteration(f, r, l, h)

\* sequences of ranks, whatever the walk
Walks(n) == [(0 .. n) \X (-1 .. n) -> Seq(Int)]

LEMMA WalkAt ==
  ASSUME NEW n, NEW f \in Walks(n), NEW l \in 0 .. n, NEW h \in -1 .. n
  PROVE  f[l, h] \in Seq(Int)
<1>1. <<l, h>> \in (0 .. n) \X (-1 .. n)
  BY Zenon
<1> DEFINE x == <<l, h>>
<1>2. f[x] \in Seq(Int)
  <2> HIDE DEF x
  <2>1. x \in (0 .. n) \X (-1 .. n)
    BY <1>1, Zenon DEF x
  <2> QED BY <2>1, Zenon DEF Walks
<1> QED BY <1>2

LEMMA IterationFits ==
  ASSUME NEW n \in Nat, NEW r, NEW f \in Walks(n), NEW l \in 0 .. n, NEW h \in -1 .. n
  PROVE  Iteration(f, r, l, h) \in Seq(Int)
<1>1. CASE h - l <= 0
  BY <1>1 DEF Iteration
<1>2. CASE h - l > 0
  <2>1. PICK m : m = Mid(l, h)
    OBVIOUS
  <2>2. m \in 0 .. n /\ m - 1 \in -1 .. n /\ m \in Int
    BY <1>2, <2>1, MidBounds
  <2>3. f[m, h] \in Seq(Int) /\ f[l, m - 1] \in Seq(Int)
    BY <2>2, WalkAt, Zenon
  <2>4. PICK a, b : a = f[m, h] /\ b = f[l, m - 1]
    OBVIOUS
  <2>5. Iteration(f, r, l, h) = (IF l = r THEN <<m>> ELSE <<>>) \o (IF m <= r THEN a ELSE b)
    <3>1. ~(h - l <= 0)
      BY <1>2
    <3> QED BY <3>1, <2>1, <2>4, Zenon DEF Iteration
  <2>6. a \in Seq(Int) /\ b \in Seq(Int)
    BY <2>3, <2>4, Zenon
  <2>7. (IF l = r THEN <<m>> ELSE <<>>) \o (IF m <= r THEN a ELSE b) \in Seq(Int)
    BY <2>2, <2>6
  <2> QED BY <2>5, <2>7, Zenon
<1> QED BY <1>1, <1>2

Agree(f, g, n, d) == \A l \in 0 .. n, h \in -1 .. n : h - l < d => f[l, h] = g[l, h]

\* an iteration looks at shorter intervals only
LEMMA IterationLooksBelow ==
  ASSUME NEW n \in Nat, NEW r, NEW f, NEW g, NEW l \in 0 .. n, NEW h \in -1 .. n,
         Agree(f, g, n, h - l)
  PROVE  Iteration(f, r, l, h) = Iteration(g, r, l, h)
<1>1. CASE ~(h - l > 0)
  <2>1. h - l <= 0
    BY <1>1
  <2> QED BY <2>1 DEF Iteration
<1>2. CASE h - l > 0
  <2>1. PICK m : m = Mid(l, h)
    OBVIOUS
  <2>2. m \in 0 .. n /\ m - 1 \in -1 .. n /\ h - m < h - l /\ m - 1 - l < h - l
    BY <1>2, <2>1, MidBounds
  <2>3. f[m, h] = g[m, h] /\ f[l, m - 1] = g[l, m - 1]
    BY <2>2, Zenon DEF Agree
  <2> QED BY <2>1, <2>3, Zenon DEF Iteration
<1> QED BY <1>1, <1>2, Zenon

LEMMA LongerIntervals ==
  ASSUME NEW n \in Nat, NEW r, NEW d \in Nat, NEW f \in Walks(n), Right(f, r, n, d)
  PROVE  \E g \in Walks(n) : Right(g, r, n, d + 1)
<1> DEFINE g == [x \in (0 .. n) \X (-1 .. n) |->
                   IF x[2] - x[1] = d + 1 THEN Iteration(f, r, x[1], x[2]) ELSE f[x[1], x[2]]]
<1>1. \A l \in 0 .. n, h \in -1 .. n :
        g[l, h] = IF h - l = d + 1 THEN Iteration(f, r, l, h) ELSE f[l, h]
  OBVIOUS
<1>2. g \in Walks(n)
  <2>1. ASSUME NEW x \in (0 .. n) \X (-1 .. n)
        PROVE  g[x] \in Seq(Int)
    <3>1. PICK l \in 0 .. n, h \in -1 .. n : x = <<l, h>>
      OBVIOUS
    <3>2. g[l, h] \in Seq(Int)
      BY <1>1, WalkAt, IterationFits, Zenon
    <3> HIDE DEF g
    <3> QED BY <3>1, <3>2, Zenon
  <2> QED BY <2>1 DEF Walks
<1> HIDE DEF g
<1>3. ASSUME NEW l \in 0 .. n, NEW h \in -1 .. n, h - l <= d + 1
      PROVE  g[l, h] = Iteration(g, r, l, h)
  <2>1. \A l2 \in 0 .. n, h2 \in -1 .. n : h2 - l2 < h - l => h2 - l2 # d + 1
    BY <1>3
  <2>2. Agree(f, g, n, h - l)
    BY <1>1, <2>1, Zenon DEF Agree
  <2>5. Iteration(f, r, l, h) = Iteration(g, r, l, h)
    BY <2>2, IterationLooksBelow
  <2>3. CASE h - l = d + 1
    BY <1>1, <2>5, <2>3, Zenon
  <2>4. CASE h - l # d + 1
    <3>1. h - l <= d
      BY <1>3, <2>4
    <3>2. f[l, h] = Iteration(f, r, l, h)
      BY <3>1, Zenon DEF Right
    <3> QED BY <1>1, <2>5, <2>4, <3>2, Zenon
  <2> QED BY <2>3, <2>4
<1>4. Right(g, r, n, d + 1)
  BY <1>3 DEF Right
<1> QED BY <1>2, <1>4

LEMMA WalkExists ==
  ASSUME NEW n \in Nat, NEW r
  PROVE  \E f \in Walks(n) : Loop(f, r, n)
<1> DEFINE T == {d \in Nat : ~\E f \in Walks(n) : Right(f, r, n, d)}
<1>1. T = {}
  <2> SUFFICES ASSUME T # {} PROVE FALSE
    OBVIOUS
  <2>1. PICK d \in T : \A e \in T : d <= e
    BY Least
  <2>2. CASE d = 0
    <3> DEFINE f == [x \in (0 .. n) \X (-1 .. n) |-> <<>>]
    <3>1. f \in Walks(n)
      BY DEF Walks
    <3>2. Right(f, r, n, 0)
      BY DEF Right, Iteration
    <3> QED BY <2>1, <2>2, <3>1, <3>2
  <2>3. CASE d # 0
    <3>1. d - 1 \in Nat /\ d - 1 \notin T /\ d - 1 + 1 = d
      BY <2>1, <2>3
    <3>2. PICK f \in Walks(n) : Right(f, r, n, d - 1)
      BY <3>1
    <3>3. \E g \in Walks(n) : Right(g, r, n, d - 1 + 1)
      BY <3>1, <3>2, LongerIntervals
    <3> QED BY <2>1, <3>1, <3>3
  <2> QED BY <2>2, <2>3
<1>2. PICK f \in Walks(n) : Right(f, r, n, n)
  BY <1>1
<1>3. \A l \in 0 .. n, h \in -1 .. n : h - l <= n
  OBVIOUS
<1>4. \A l \in 0 .. n, h \in -1 .. n : f[l, h] = Iteration(f, r, l, h)
  BY <1>2, <1>3, Zenon DEF Right
<1>5. Loop(f, r, n)
  <2>1. PICK g : g = f
    OBVIOUS
  <2>2. ASSUME NEW x \in (0 .. n) \X (-1 .. n)
        PROVE  f[x] = Iteration(g, r, x[1], x[2])
    <3>1. PICK l \in 0 .. n, h \in -1 .. n : x = <<l, h>>
      OBVIOUS
    <3>2. x[1] = l /\ x[2] = h
      BY <3>1
    <3> QED BY <1>4, <2>1, <3>1, <3>2, Zenon
  <2>3. f = [x \in (0 .. n) \X (-1 .. n) |-> f[x]]
    BY DEF Walks
  <2>4. f = [x \in (0 .. n) \X (-1 .. n) |-> Iteration(g, r, x[1], x[2])]
    BY <2>2, <2>3, Zenon
  <2> QED BY <2>1, <2>4, Zenon DEF Loop
<1> QED BY <1>5

Obeys(f, r, l, h) == f[l, h] = Iteration(f, r, l, h)

LEMMA LoopAt ==
  ASSUME NEW n, NEW r, NEW f, Loop(f, r, n), NEW l \in 0 .. n, NEW h \in -1 .. n
  PROVE  Obeys(f, r, l, h)
<1>1. PICK x : x = <<l, h>>
  OBVIOUS
<1>2. x \in (0 .. n) \X (-1 .. n) /\ x[1] = l /\ x[2] = h
  BY <1>1
<1>3. f[x] = Iteration(f, r, x[1], x[2])
  <2>1. PICK g : g = f
    OBVIOUS
  <2>2. f = [y \in (0 .. n) \X (-1 .. n) |-> Iteration(g, r, y[1], y[2])]
    BY <2>1, Zenon DEF Loop
  <2>3. f[x] = Iteration(g, r, x[1], x[2])
    BY <2>2, <1>2, Zenon
  <2> QED BY <2>1, <2>3, Zenon
<1> QED BY <1>1, <1>2, <1>3, Zenon DEF Obeys

LEMMA WalkIsUnique ==
  ASSUME NEW n \in Nat, NEW r, NEW f, NEW g, Loop(f, r, n), Loop(g, r, n)
  PROVE  f = g
<1> DEFINE T == {d \in Nat : ~Agree(f, g, n, d)}
<1>1. T = {}
  <2> SUFFICES ASSUME T # {} PROVE FALSE
    OBVIOUS
  <2>1. PICK d \in T : \A e \in T : d <= e
    BY Least
  <2>2. ASSUME NEW l \in 0 .. n, NEW h \in -1 .. n, h - l < d
        PROVE  f[l, h] = g[l, h]
    <3>1. Iteration(f, r, l, h) = Iteration(g, r, l, h)
      <4>1. CASE h - l <= 0
        BY <4>1 DEF Iteration
      <4>2. CASE ~(h - l <= 0)
        <5>1. h - l \in Nat /\ h - l \notin T
          BY <2>1, <2>2, <4>2
        <5> QED BY <5>1, IterationLooksBelow
      <4> QED BY <4>1, <4>2
    <3>2. Obeys(f, r, l, h) /\ Obeys(g, r, l, h)
      BY LoopAt
    <3> QED BY <3>1, <3>2, Zenon DEF Obeys
  <2> QED BY <2>1, <2>2 DEF Agree
<1>2. \A l \in 0 .. n, h \in -1 .. n : h - l < n + 1
  OBVIOUS
<1>3. \A l \in 0 .. n, h \in -1 .. n : f[l, h] = g[l, h]
  <2>1. Agree(f, g, n, n + 1)
    BY <1>1
  <2> QED BY <2>1, <1>2, Zenon DEF Agree
<1>4. ASSUME NEW x \in (0 .. n) \X (-1 .. n)
      PROVE  Iteration(f, r, x[1], x[2]) = Iteration(g, r, x[1], x[2])
  <2>1. x[1] \in 0 .. n /\ x[2] \in -1 .. n
    OBVIOUS
  <2>2. Obeys(f, r, x[1], x[2]) /\ Obeys(g, r, x[1], x[2])
    BY <2>1, LoopAt
  <2>3. f[x[1], x[2]] = g[x[1], x[2]]
    BY <1>3, <2>1, Zenon
  <2> QED BY <2>2, <2>3, Zenon DEF Obeys
<1>5. [x \in (0 .. n) \X (-1 .. n) |-> Iteration(f, r, x[1], x[2])]
      = [x \in (0 .. n) \X (-1 .. n) |-> Iteration(g, r, x[1], x[2])]
  BY <1>4, Zenon
<1> QED BY <1>5, Zenon DEF Loop

LEMMA WalkLoops ==
  ASSUME NEW n \in Nat, NEW r
  PROVE  Walk(r, n) \in Walks(n) /\ Loop(Walk(r, n), r, n)
<1>1. PICK f \in Walks(n) : Loop(f, r, n)
  BY WalkExists
<1>2. Loop(Walk(r, n), r, n)
  BY <1>1, Zenon DEF Walk
<1>3. Walk(r, n) = f
  BY <1>1, <1>2, WalkIsUnique, Zenon
<1> QED BY <1>1, <1>2, <1>3, Zenon

Occurs(c, a) == \E j \in 1 .. Len(a) : a[j] = c

\* c is found in the walk over l .. h
Has(r, n, l, h, c) == Occurs(c, Walk(r, n)[l, h])

LEMMA HasNone ==
  ASSUME NEW n \in Nat, NEW r, NEW l \in 0 .. n, NEW h \in -1 .. n, h - l <= 0, NEW c
  PROVE  ~Has(r, n, l, h, c)
<1>1. Loop(Walk(r, n), r, n)
  BY WalkLoops
<1>2. Obeys(Walk(r, n), r, l, h)
  BY <1>1, LoopAt
<1>3. Walk(r, n)[l, h] = <<>>
  BY <1>2 DEF Obeys, Iteration
<1>4. \A j \in 1 .. Len(<<>>) : FALSE
  OBVIOUS
<1> QED BY <1>3, <1>4, Zenon DEF Has, Occurs

LEMMA Joined ==
  ASSUME NEW a \in Seq(Int), NEW m \in Int, NEW b \in Seq(Int), NEW c,
         a = <<m>> \o b
  PROVE  Occurs(c, a) <=> (c = m \/ Occurs(c, b))
<1>1. Len(a) = Len(b) + 1 /\ Len(b) \in Nat /\ a[1] = m
  OBVIOUS
<1>2. \A j \in 1 .. Len(b) : j + 1 \in 1 .. Len(a) /\ a[j + 1] = b[j]
  OBVIOUS
<1>3. \A j \in 1 .. Len(a) : j = 1 \/ (j - 1 \in 1 .. Len(b) /\ a[j] = b[j - 1])
  OBVIOUS
<1> QED BY <1>1, <1>2, <1>3 DEF Occurs

LEMMA HasStep ==
  ASSUME NEW n \in Nat, NEW r \in Int, NEW l \in 0 .. n, NEW h \in -1 .. n, h - l > 0, NEW c,
         NEW m, m = Mid(l, h)
  PROVE  /\ m <= r => (Has(r, n, l, h, c) <=> Has(r, n, m, h, c))
         /\ r < m /\ r # l => (Has(r, n, l, h, c) <=> Has(r, n, l, m - 1, c))
         /\ r = l => (Has(r, n, l, h, c) <=> c = m \/ Has(r, n, l, m - 1, c))
<1> PICK w : w = Walk(r, n)
  OBVIOUS
<1>1. w \in Walks(n) /\ Loop(w, r, n)
  BY WalkLoops
<1>2. Obeys(w, r, l, h)
  BY <1>1, LoopAt
<1>3. m \in 0 .. n /\ m - 1 \in -1 .. n /\ l < m
  BY MidBounds
<1>4. PICK x, a, b : x = w[l, h] /\ a = w[m, h] /\ b = w[l, m - 1]
  OBVIOUS
<1>5. w[l, h] \in Seq(Int) /\ w[m, h] \in Seq(Int) /\ w[l, m - 1] \in Seq(Int)
  BY <1>1, <1>3, WalkAt, Zenon
<1>6. x \in Seq(Int) /\ a \in Seq(Int) /\ b \in Seq(Int)
  BY <1>4, <1>5, Zenon
<1>7. x = (IF l = r THEN <<m>> ELSE <<>>) \o (IF m <= r THEN a ELSE b)
  <2>1. ~(h - l <= 0)
    OBVIOUS
  <2> QED BY <2>1, <1>2, <1>4, Zenon DEF Obeys, Iteration
<1>8. ASSUME m <= r PROVE x = a
  <2>1. l # r
    BY <1>3, <1>8
  <2>2. x = <<>> \o a
    BY <2>1, <1>7, <1>8, Zenon
  <2> QED BY <2>2, <1>6
<1>9. ASSUME r < m, r # l PROVE x = b
  <2>1. l # r /\ ~(m <= r)
    BY <1>3, <1>9
  <2>2. x = <<>> \o b
    BY <2>1, <1>7, Zenon
  <2> QED BY <2>2, <1>6
<1>10. ASSUME r = l
       PROVE  Occurs(c, x) <=> (c = m \/ Occurs(c, b))
  <2>1. ~(m <= r)
    BY <1>3, <1>10
  <2>2. x = <<m>> \o b
    BY <2>1, <1>7, <1>10, Zenon
  <2>3. m \in Int
    BY <1>3
  <2> QED BY <2>2, <2>3, <1>6, Joined, Zenon
<1>11. /\ Has(r, n, l, h, c) <=> Occurs(c, x)
       /\ Has(r, n, m, h, c) <=> Occurs(c, a)
       /\ Has(r, n, l, m - 1, c) <=> Occurs(c, b)
  BY <1>4, Zenon DEF Has
<1> QED BY <1>8, <1>9, <1>10, <1>11, Zenon

\* the walk over l .. h finds ranks above l
LEMMA HasAbove ==
  ASSUME NEW n \in Nat, NEW r \in Int
  PROVE  \A l \in 0 .. n, h \in -1 .. n : \A c : Has(r, n, l, h, c) => c \in l + 1 .. h
<1> DEFINE Bad(l, h) == \E c : Has(r, n, l, h, c) /\ c \notin l + 1 .. h
           T == {d \in Nat : \E l \in 0 .. n, h \in -1 .. n : h - l = d /\ Bad(l, h)}
<1>1. \A l \in 0 .. n, h \in -1 .. n : Bad(l, h) => h - l > 0
  BY HasNone
<1>2. T = {}
  <2> SUFFICES ASSUME T # {} PROVE FALSE
    OBVIOUS
  <2> HIDE DEF T
  <2>0. T \subseteq Nat
    BY DEF T
  <2>1. PICK d \in T : \A e \in T : d <= e
    BY <2>0, Least
  <2> PICK l \in 0 .. n, h \in -1 .. n : h - l = d /\ Bad(l, h)
    BY <2>1 DEF T
  <2>2. PICK c : h - l = d /\ Has(r, n, l, h, c) /\ c \notin l + 1 .. h
    OBVIOUS
  <2>3. h - l > 0
    BY <2>2, HasNone
  <2>4. PICK m : m = Mid(l, h)
    OBVIOUS
  <2>5. /\ m \in 0 .. n /\ m - 1 \in -1 .. n /\ l < m /\ m <= h
        /\ h - m < h - l /\ m - 1 - l < h - l
    BY <2>3, <2>4, MidBounds
  <2>6. c # m
    BY <2>2, <2>5
  <2>7. Has(r, n, m, h, c) => c \in m + 1 .. h
    <3> SUFFICES ASSUME Has(r, n, m, h, c), c \notin m + 1 .. h PROVE FALSE
      OBVIOUS
    <3>1. h - m > 0
      BY <2>5, HasNone
    <3>2. h - m \in Nat /\ h - m < d /\ d \in Nat
      BY <3>1, <2>0, <2>2, <2>5
    <3>3. h - m \in T
      BY <3>2, <2>5 DEF T
    <3> QED BY <2>1, <3>2, <3>3
  <2>8. Has(r, n, l, m - 1, c) => c \in l + 1 .. m - 1
    <3> SUFFICES ASSUME Has(r, n, l, m - 1, c), c \notin l + 1 .. m - 1 PROVE FALSE
      OBVIOUS
    <3>1. m - 1 - l > 0
      BY <2>5, HasNone
    <3>2. m - 1 - l \in Nat /\ m - 1 - l < d /\ d \in Nat
      BY <3>1, <2>0, <2>2, <2>5
    <3>3. m - 1 - l \in T
      BY <3>2, <2>5 DEF T
    <3> QED BY <2>1, <3>2, <3>3
  <2>9. c \notin m + 1 .. h /\ c \notin l + 1 .. m - 1
    BY <2>2, <2>5
  <2>10. m <= r \/ (r < m /\ r # l) \/ r = l
    BY <2>5
  <2> QED BY <2>2, <2>3, <2>4, <2>6, <2>7, <2>8, <2>9, <2>10, HasStep
<1>3. ASSUME NEW l \in 0 .. n, NEW h \in -1 .. n PROVE ~Bad(l, h)
  <2> SUFFICES ASSUME Bad(l, h) PROVE FALSE
    OBVIOUS
  <2>1. h - l \in Nat
    BY <1>1
  <2>2. h - l \in T
    BY <2>1
  <2> QED BY <1>2, <2>2
<1> QED BY <1>3

\* the children of the ranks in S that the walk over l .. h finds are in S
Closed(S, n, l, h) == \A r \in l .. h : r \in S => \A c : Has(r, n, l, h, c) => c \in S

\* all ranks of an interval descend from its first
LEMMA AllDescend ==
  ASSUME NEW n \in Nat, NEW S
  PROVE  \A l \in 0 .. n, h \in -1 .. n : l \in S /\ Closed(S, n, l, h) => l .. h \subseteq S
<1> DEFINE Bad(l, h) == l \in S /\ Closed(S, n, l, h) /\ ~(l .. h \subseteq S)
           T == {d \in Nat : \E l \in 0 .. n, h \in -1 .. n : h - l = d /\ Bad(l, h)}
<1>1. \A l \in 0 .. n, h \in -1 .. n : Bad(l, h) => h - l > 0
  <2> SUFFICES ASSUME NEW l \in 0 .. n, NEW h \in -1 .. n, l \in S, h - l <= 0
               PROVE  l .. h \subseteq S
    OBVIOUS
  <2> QED OBVIOUS
<1>2. T = {}
  <2> SUFFICES ASSUME T # {} PROVE FALSE
    OBVIOUS
  <2> HIDE DEF T
  <2>0. T \subseteq Nat
    BY DEF T
  <2>1. PICK d \in T : \A e \in T : d <= e
    BY <2>0, Least
  <2>2. PICK l \in 0 .. n, h \in -1 .. n : h - l = d /\ Bad(l, h)
    BY <2>1 DEF T
  <2>3. h - l > 0
    BY <1>1, <2>2
  <2>4. PICK m : m = Mid(l, h)
    OBVIOUS
  <2>5. /\ m \in 0 .. n /\ m - 1 \in -1 .. n /\ l < m /\ m <= h
        /\ h - m < h - l /\ m - 1 - l < h - l
    BY <2>3, <2>4, MidBounds
  <2>6. /\ h - m \in Nat /\ m - 1 - l \in Nat
        /\ h - m < d /\ m - 1 - l < d /\ d \in Nat
    BY <2>0, <2>2, <2>5
  <2>13. h - m \notin T /\ m - 1 - l \notin T
    BY <2>1, <2>6
  <2>7. ~Bad(m, h) /\ ~Bad(l, m - 1)
    BY <2>5, <2>6, <2>13 DEF T
  <2>8. m \in S
    <3>1. Has(l, n, l, h, m)
      BY <2>3, <2>4, HasStep
    <3>2. l \in l .. h
      BY <2>3
    <3> QED BY <2>2, <3>1, <3>2 DEF Closed
  <2>9. Closed(S, n, m, h)
    <3> SUFFICES ASSUME NEW r \in m .. h, r \in S, NEW c, Has(r, n, m, h, c)
                 PROVE  c \in S
      BY DEF Closed
    <3>1. r \in l .. h /\ r \in Int /\ m <= r
      BY <2>5
    <3>2. Has(r, n, l, h, c)
      BY <2>3, <2>4, <3>1, HasStep
    <3> QED BY <2>2, <3>1, <3>2 DEF Closed
  <2>10. Closed(S, n, l, m - 1)
    <3> SUFFICES ASSUME NEW r \in l .. m - 1, r \in S, NEW c, Has(r, n, l, m - 1, c)
                 PROVE  c \in S
      BY DEF Closed
    <3>1. r \in l .. h /\ r \in Int /\ r < m
      BY <2>5
    <3>2. Has(r, n, l, h, c)
      BY <2>3, <2>4, <3>1, HasStep
    <3> QED BY <2>2, <3>1, <3>2 DEF Closed
  <2>11. m .. h \subseteq S /\ l .. m - 1 \subseteq S
    BY <2>2, <2>7, <2>8, <2>9, <2>10
  <2>12. \A c \in l .. h : c \in m .. h \/ c \in l .. m - 1
    BY <2>5
  <2> QED BY <2>2, <2>11, <2>12
<1>3. ASSUME NEW l \in 0 .. n, NEW h \in -1 .. n PROVE ~Bad(l, h)
  <2> SUFFICES ASSUME Bad(l, h) PROVE FALSE
    OBVIOUS
  <2>1. h - l \in Nat
    BY <1>1
  <2>2. h - l \in T
    BY <2>1
  <2> QED BY <1>2, <2>2
<1> QED BY <1>3

LEMMA ChildrenType ==
  ASSUME NEW n \in Nat \ {0}, NEW r \in 0 .. n - 1
  PROVE  /\ Children(r, n) \in Seq(Int)
         /\ \A j \in 1 .. Len(Children(r, n)) : Children(r, n)[j] \in 1 .. n - 1
<1>0. 0 \in 0 .. n /\ n - 1 \in -1 .. n /\ n \in Nat
  OBVIOUS
<1>1. Walk(r, n)[0, n - 1] \in Seq(Int)
  <2>1. Walk(r, n) \in Walks(n)
    BY <1>0, WalkLoops, Zenon
  <2> QED BY <1>0, <2>1, WalkAt, Zenon
<1>2. \A c : Has(r, n, 0, n - 1, c) => c \in 1 .. n - 1
  BY HasAbove
<1>3. \A j \in 1 .. Len(Children(r, n)) : Has(r, n, 0, n - 1, Children(r, n)[j])
  BY ChildrenWalk DEF Has, Occurs
<1> QED BY <1>1, <1>2, <1>3, ChildrenWalk

\* what holds of rank 0, and of the children of each rank of which it holds,
\* holds of all
LEMMA TreeCovers ==
  ASSUME NEW n \in Nat \ {0}, NEW S, 0 \in S,
         \A r \in 0 .. n - 1 : r \in S =>
           \A j \in 1 .. Len(Children(r, n)) : Children(r, n)[j] \in S
  PROVE  0 .. n - 1 \subseteq S
<1>1. Closed(S, n, 0, n - 1)
  <2> SUFFICES ASSUME NEW r \in 0 .. n - 1, r \in S, NEW c, Has(r, n, 0, n - 1, c)
               PROVE  c \in S
    BY DEF Closed
  <2>1. PICK j \in 1 .. Len(Children(r, n)) : Children(r, n)[j] = c
    BY ChildrenWalk DEF Has, Occurs
  <2> QED BY <2>1
<1>2. 0 \in 0 .. n /\ n - 1 \in -1 .. n
  OBVIOUS
<1> QED BY <1>1, <1>2, AllDescend

-----------------------------------------------------------------------------
(* The inductive invariant: connections and their two ends *)

Conns == 1 .. MaxConns
Words == {"ids", "reply", "ack", "hostlist", "max", "go"}
NoRank == <<"none", Server>>
NoTable == <<"none", 0>>
Ranks == {p \in Procs : p[2] # Server}

\* where a daemon is once it has its host list; and once it has its parent
Placed == {"scan", "shake_client", "reply"} \cup Connected
Settled == {"hostlist"} \cup Placed
Probing == {"shake_server", "ids", "ack"}
Asking == {"scan", "shake_client", "reply"}

HasParent(p) == p[2] # Server /\ pc[p] \in Probing \cup Settled
Trying(p) == pc[p] \in {"shake_client", "reply"}

Connections == [from : Procs, to : Ranks, open : SUBSET Procs, met : BOOLEAN,
                down : Seq(Words), up : Seq(Words), table : Ranks \cup {NoTable}]

Live(k) == conn[k] # NoConn
Named(k) == conn[k].table # NoTable

Typed ==
  /\ nprocs \in [Jobs -> 0 .. Max0(NAlone, NShared)]
  /\ pc \in [Procs -> {"start", "accept", "served", "gone"} \cup Probing \cup Settled]
  /\ backlog \in [Procs -> Seq(Conns)]
  /\ fd \in [Procs -> Nat] /\ s \in [Procs -> Nat]
  /\ todo \in [Procs -> Seq(Int)]
  /\ child_fd \in [Procs -> Seq(Conns)]
  /\ me \in [Procs -> Procs \cup {NoRank}]
  /\ conn \in [Conns -> Connections \cup {NoConn}]

\* the children looked for are daemons
Looking(p) ==
  /\ \A n \in 1 .. Len(todo[p]) : <<me[p][1], todo[p][n]>> \in Ranks
  /\ pc[p] \in Asking => todo[p] # <<>>
  /\ p[2] = Server => pc[p] \in Asking \cup {"served", "gone"}

Ends(k) == Live(k) => LET c == conn[k] IN
  c.open # {} /\ c.open \subseteq {c.from, c.to} /\ c.from # c.to

\* the connection p tests
Client(p) == Trying(p) =>
  LET k == s[p]
      c == conn[k]
  IN
  /\ k \in Conns /\ Live(k) /\ c.from = p /\ p \in c.open /\ ~Named(k)
  /\ c.to[2] = Head(todo[p])
  /\ pc[p] = "shake_client" => c.up = <<>> /\ c.down = <<>>

\* the children p has
Father(p) == \A k \in kids(p) : Live(k) /\ conn[k].from = p /\ p \in conn[k].open /\ Named(k)
Remembered(k) == Live(k) /\ Named(k) /\ conn[k].from \in conn[k].open => k \in kids(conn[k].from)

\* the connections in the queue of p
Waiting(p) ==
  /\ IsInjective(backlog[p])
  /\ \A k \in ToSet(backlog[p]) : LET c == conn[k] IN
       Live(k) /\ c.to = p /\ p \in c.open /\ ~Named(k) /\ ~c.met /\ c.up = <<>> /\ c.down = <<>>

\* the connection to the parent
Child(p) == HasParent(p) =>
  LET k == fd[p]
      c == conn[k]
  IN
  /\ k \in Conns /\ Live(k) /\ c.to = p /\ p \in c.open /\ k \notin ToSet(backlog[p])
  /\ pc[p] \in {"shake_server", "ids"} => ~Named(k) /\ c.up = <<>> /\ c.down \in {<<>>, <<"ids">>}
  /\ pc[p] = "ack" /\ ~Named(k) => c.up = <<"reply">> /\ c.down = <<>>
  /\ pc[p] \in Settled => Named(k)

Wired(p) == Looking(p) /\ Client(p) /\ Father(p) /\ Waiting(p) /\ Child(p)

OInv == Typed /\ (\A k \in Conns : Ends(k) /\ Remembered(k)) /\ \A p \in Procs : Wired(p)

-----------------------------------------------------------------------------
(* What a step leaves alone *)

LEMMA SameProcs ==
  ASSUME nprocs' = nprocs
  PROVE  Procs' = Procs /\ Ranks' = Ranks /\ Connections' = Connections
<1>1. Procs' = Procs
  BY DEF Procs
<1>2. Ranks' = Ranks
  BY <1>1 DEF Ranks
<1> QED BY <1>1, <1>2 DEF Connections

\* the roles in which an end of a connection relies on what is written there
Relies(k, q) == \/ pc[q] = "shake_client" /\ s[q] = k
                \/ k \in ToSet(backlog[q])
                \/ HasParent(q) /\ fd[q] = k

\* a step leaves connection k to its end q
Keeps(k, q) == LET c == conn[k]
                   d == conn'[k]
               IN
  /\ d # NoConn /\ d.from = c.from /\ d.to = c.to /\ q \in d.open
  /\ Named(k)' <=> Named(k)
  /\ ~Named(k) /\ Relies(k, q) => d.up = c.up /\ d.down = c.down
  /\ ~Named(k) /\ k \in ToSet(backlog[q]) => d.met = c.met

\* a step leaves process q its own variables
Idle(q) == /\ pc'[q] = pc[q] /\ fd'[q] = fd[q] /\ s'[q] = s[q] /\ todo'[q] = todo[q]
           /\ child_fd'[q] = child_fd[q] /\ me'[q] = me[q] /\ backlog'[q] = backlog[q]

KeepsAll(q) == \A k \in Conns : Live(k) /\ q \in conn[k].open => Keeps(k, q)

LEMMA KidsAre ==
  ASSUME Typed, NEW q \in Procs, NEW k \in kids(q)
  PROVE  k \in Conns
<1>1. child_fd[q] \in Seq(Conns)
  BY DEF Typed
<1> QED BY <1>1 DEF kids, ToSet

LEMMA WaitersAre ==
  ASSUME Typed, NEW q \in Procs, NEW k \in ToSet(backlog[q])
  PROVE  k \in Conns
<1>1. backlog[q] \in Seq(Conns)
  BY DEF Typed
<1> QED BY <1>1 DEF ToSet

LEMMA ClientStays ==
  ASSUME NEW q \in Procs, Client(q), pc'[q] = pc[q], s'[q] = s[q], todo'[q] = todo[q],
         Trying(q) => Keeps(s[q], q)
  PROVE  Client(q)'
<1> SUFFICES ASSUME Trying(q)'
    PROVE  Client(q)'
  BY DEF Client
<1>1. Trying(q)
  BY DEF Trying
<1>2. /\ s[q] \in Conns /\ Live(s[q]) /\ conn[s[q]].from = q /\ q \in conn[s[q]].open /\ ~Named(s[q])
      /\ conn[s[q]].to[2] = Head(todo[q])
      /\ pc[q] = "shake_client" => conn[s[q]].up = <<>> /\ conn[s[q]].down = <<>>
  BY <1>1 DEF Client
<1>3. Keeps(s[q], q)
  BY <1>1
<1>4. ~Named(s[q])'
  BY <1>2, <1>3 DEF Keeps
<1>5. pc[q] = "shake_client" => Relies(s[q], q)
  BY DEF Relies
<1> QED BY <1>2, <1>3, <1>4, <1>5 DEF Client, Keeps, Live

LEMMA FatherStays ==
  ASSUME Typed, NEW q \in Procs, Father(q), child_fd'[q] = child_fd[q],
         \A k \in kids(q) : Keeps(k, q)
  PROVE  Father(q)'
<1> SUFFICES ASSUME NEW k \in kids(q)
    PROVE  conn'[k] # NoConn /\ conn'[k].from = q /\ q \in conn'[k].open /\ Named(k)'
  BY DEF Father, kids, Live
<1>1. k \in Conns /\ Live(k) /\ conn[k].from = q /\ q \in conn[k].open /\ Named(k)
  BY KidsAre DEF Father
<1>2. Keeps(k, q)
  OBVIOUS
<1> QED BY <1>1, <1>2 DEF Keeps

LEMMA WaitingStays ==
  ASSUME Typed, NEW q \in Procs, Waiting(q), backlog'[q] = backlog[q],
         \A k \in ToSet(backlog[q]) : Keeps(k, q)
  PROVE  Waiting(q)'
<1>1. IsInjective(backlog'[q])
  BY DEF Waiting
<1>2. ASSUME NEW k \in ToSet(backlog[q])
      PROVE  LET c == conn'[k] IN
             /\ c # NoConn /\ c.to = q /\ q \in c.open /\ ~Named(k)' /\ ~c.met
             /\ c.up = <<>> /\ c.down = <<>>
  <2>1. /\ k \in Conns /\ Live(k) /\ conn[k].to = q /\ q \in conn[k].open /\ ~Named(k) /\ ~conn[k].met
        /\ conn[k].up = <<>> /\ conn[k].down = <<>>
    BY WaitersAre DEF Waiting
  <2>2. Keeps(k, q) /\ Relies(k, q)
    BY DEF Relies
  <2> QED BY <2>1, <2>2 DEF Keeps
<1>3. ToSet(backlog'[q]) = ToSet(backlog[q])
  OBVIOUS
<1> QED BY <1>1, <1>2, <1>3 DEF Waiting, Live

LEMMA ChildStays ==
  ASSUME Typed, NEW q \in Procs, Child(q), pc'[q] = pc[q], fd'[q] = fd[q], backlog'[q] = backlog[q],
         HasParent(q) => Keeps(fd[q], q)
  PROVE  Child(q)'
<1> SUFFICES ASSUME HasParent(q)'
    PROVE  Child(q)'
  BY DEF Child
<1>1. HasParent(q) /\ ToSet(backlog'[q]) = ToSet(backlog[q])
  BY DEF HasParent
<1> DEFINE k == fd[q]
<1>2. /\ k \in Conns /\ Live(k) /\ conn[k].to = q /\ q \in conn[k].open /\ k \notin ToSet(backlog[q])
      /\ pc[q] \in {"shake_server", "ids"} =>
           ~Named(k) /\ conn[k].up = <<>> /\ conn[k].down \in {<<>>, <<"ids">>}
      /\ pc[q] = "ack" /\ ~Named(k) => conn[k].up = <<"reply">> /\ conn[k].down = <<>>
      /\ pc[q] \in Settled => Named(k)
  BY <1>1 DEF Child
<1>3. Keeps(k, q) /\ Relies(k, q)
  BY <1>1 DEF Relies
<1> HIDE DEF k
<1>4. /\ conn'[k] # NoConn /\ conn'[k].to = q /\ q \in conn'[k].open /\ (Named(k)' <=> Named(k))
      /\ ~Named(k) => conn'[k].up = conn[k].up /\ conn'[k].down = conn[k].down
  BY <1>2, <1>3 DEF Keeps
<1> QED BY <1>1, <1>2, <1>4 DEF Child, Live, k

LEMMA LookingStays ==
  ASSUME NEW q \in Procs, Looking(q), nprocs' = nprocs, todo'[q] = todo[q], me'[q] = me[q],
         pc'[q] \in Asking => pc[q] \in Asking \/ todo[q] # <<>>,
         q[2] = Server => pc'[q] \in Asking \cup {"served", "gone"}
  PROVE  Looking(q)'
  BY SameProcs DEF Looking, Asking

LEMMA IdleStaysWired ==
  ASSUME Typed, NEW q \in Procs, Wired(q), nprocs' = nprocs, Idle(q), KeepsAll(q)
  PROVE  Wired(q)'
<1>1. Looking(q)'
  BY LookingStays DEF Wired, Looking, Idle
<1>2. Client(q)'
  <2>1. Trying(q) => Keeps(s[q], q)
    BY DEF Wired, Client, KeepsAll
  <2> QED BY <2>1, ClientStays DEF Wired, Idle
<1>3. Father(q)'
  <2>1. \A k \in kids(q) : Keeps(k, q)
    BY KidsAre DEF Wired, Father, KeepsAll
  <2> QED BY <2>1, FatherStays DEF Wired, Idle
<1>4. Waiting(q)'
  <2>1. \A k \in ToSet(backlog[q]) : Keeps(k, q)
    BY WaitersAre DEF Wired, Waiting, KeepsAll
  <2> QED BY <2>1, WaitingStays DEF Wired, Idle
<1>5. Child(q)'
  <2>1. HasParent(q) => Keeps(fd[q], q)
    BY DEF Wired, Child, KeepsAll
  <2> QED BY <2>1, ChildStays DEF Wired, Idle
<1> QED BY <1>1, <1>2, <1>3, <1>4, <1>5 DEF Wired

\* connection k is the same as before, or closed at one end, or at both
Onward(k) == LET c == conn[k]
                 d == conn'[k]
             IN
  d # NoConn => /\ Live(k) /\ d.from = c.from /\ d.to = c.to
                /\ d.open # {} /\ d.open \subseteq c.open
                /\ Named(k)' => Named(k)

\* processes forget children only when they go
Faithful(q) == kids(q) \subseteq kids(q)' \/ \A k \in Conns : Live(k)' => q \notin conn'[k].open

LEMMA OnwardStays ==
  ASSUME Typed, NEW k \in Conns, Ends(k), Remembered(k), Onward(k),
         \A q \in Procs : Faithful(q)
  PROVE  Ends(k)' /\ Remembered(k)'
<1>1. Ends(k)'
  BY DEF Ends, Onward, Live
<1>2. Remembered(k)'
  <2> SUFFICES ASSUME conn'[k] # NoConn, Named(k)', conn'[k].from \in conn'[k].open
      PROVE  k \in ToSet(child_fd'[conn'[k].from])
    BY DEF Remembered, Live, kids
  <2>1. /\ Live(k) /\ Named(k) /\ conn'[k].from = conn[k].from
        /\ conn[k].from \in conn[k].open /\ conn[k].from \in conn'[k].open
    BY DEF Onward
  <2>2. conn[k] \in Connections
    BY <2>1 DEF Typed, Live
  <2>3. conn[k].from \in Procs
    BY <2>2 DEF Connections
  <2>4. k \in kids(conn[k].from)
    BY <2>1, <2>3 DEF Remembered
  <2>5. kids(conn[k].from) \subseteq kids(conn[k].from)'
    BY <2>1, <2>3 DEF Faithful, Live
  <2> QED BY <2>1, <2>4, <2>5 DEF kids
<1> QED BY <1>1, <1>2

LEMMA NoConnection == \A c \in Connections : c # NoConn
<1> SUFFICES ASSUME NEW c \in Connections, c = NoConn PROVE FALSE
  OBVIOUS
<1>1. DOMAIN c = {"from", "to", "open", "met", "down", "up", "table"}
  BY DEF Connections
<1>2. DOMAIN c = {"open"}
  BY DEF NoConn
<1> QED BY <1>1, <1>2

LEMMA ShutAt ==
  ASSUME NEW cs, NEW p, NEW K, NEW k \in Conns, NEW c, c = cs[k], NEW d, d = Shut(cs, p, K)[k],
         c \in Connections \cup {NoConn}
  PROVE  /\ k \notin K => d = c
         /\ k \in K /\ c.open \subseteq {p} => d = NoConn
         /\ k \in K /\ ~(c.open \subseteq {p}) =>
              /\ c \in Connections /\ d \in Connections
              /\ d.from = c.from /\ d.to = c.to /\ d.open = c.open \ {p}
              /\ d.met = c.met /\ d.up = c.up /\ d.down = c.down /\ d.table = c.table
<1>1. d = IF k \notin K THEN cs[k]
          ELSE IF cs[k].open \subseteq {p} THEN NoConn ELSE [cs[k] EXCEPT !.open = cs[k].open \ {p}]
  BY DEF Shut, Conns
<1>2. c = NoConn => c.open \subseteq {p}
  BY DEF NoConn
<1>3. ASSUME k \in K, ~(c.open \subseteq {p})
      PROVE  /\ c \in Connections /\ d \in Connections
             /\ d.from = c.from /\ d.to = c.to /\ d.open = c.open \ {p}
             /\ d.met = c.met /\ d.up = c.up /\ d.down = c.down /\ d.table = c.table
  <2>1. c \in Connections
    BY <1>2, <1>3
  <2>2. d = [c EXCEPT !.open = c.open \ {p}]
    BY <1>1, <1>3
  <2>3. c.open \ {p} \in SUBSET Procs
    BY <2>1 DEF Connections
  <2> QED BY <2>1, <2>2, <2>3 DEF Connections
<1> QED BY <1>1, <1>3

\* p has written or read in the connections, but not where another end relies on it
Rewritten(cs, x, p) == LET c == conn[x]
                           e == cs[x]
                       IN
  /\ e # NoConn <=> Live(x)
  /\ Live(x) =>
       /\ e.from = c.from /\ e.to = c.to /\ e.open = c.open /\ e.table = c.table
       /\ \A q \in Procs \ {p} : q \in c.open /\ ~Named(x) =>
            /\ Relies(x, q) => e.up = c.up /\ e.down = c.down
            /\ x \in ToSet(backlog[q]) => e.met = c.met

\* p reads, writes, and closes the connections in K
LEMMA Changing ==
  ASSUME Typed, nprocs' = nprocs, NEW p \in Procs, NEW K, NEW cs \in [Conns -> Connections \cup {NoConn}],
         conn' = Shut(cs, p, K),
         \A k \in Conns : Ends(k) /\ Rewritten(cs, k, p)
  PROVE  /\ conn' \in [Conns -> Connections \cup {NoConn}]
         /\ \A k \in Conns : Onward(k) /\ (k \notin K => conn'[k] = cs[k])
         /\ \A q \in Procs \ {p} : KeepsAll(q)
<1>1. ASSUME NEW k \in Conns
      PROVE  /\ cs[k] \in Connections \cup {NoConn}
             /\ k \notin K => conn'[k] = cs[k]
             /\ k \in K /\ cs[k].open \subseteq {p} => conn'[k] = NoConn
             /\ k \in K /\ ~(cs[k].open \subseteq {p}) =>
                  /\ cs[k] \in Connections /\ conn'[k] \in Connections
                  /\ conn'[k].from = cs[k].from /\ conn'[k].to = cs[k].to
                  /\ conn'[k].open = cs[k].open \ {p}
                  /\ conn'[k].met = cs[k].met /\ conn'[k].up = cs[k].up
                  /\ conn'[k].down = cs[k].down /\ conn'[k].table = cs[k].table
  <2>1. cs[k] \in Connections \cup {NoConn}
    OBVIOUS
  <2>2. PICK c, d : c = cs[k] /\ d = Shut(cs, p, K)[k] /\ d = conn'[k]
    OBVIOUS
  <2>3. c \in Connections \cup {NoConn}
    BY <2>1, <2>2
  <2>4. /\ k \notin K => d = c
        /\ k \in K /\ c.open \subseteq {p} => d = NoConn
        /\ k \in K /\ ~(c.open \subseteq {p}) =>
             /\ c \in Connections /\ d \in Connections
             /\ d.from = c.from /\ d.to = c.to /\ d.open = c.open \ {p}
             /\ d.met = c.met /\ d.up = c.up /\ d.down = c.down /\ d.table = c.table
    BY ShutAt, <2>2, <2>3
  <2> QED BY <2>1, <2>2, <2>4
<1>2. ASSUME NEW k \in Conns
      PROVE  conn'[k] \in Connections \cup {NoConn}
  BY <1>1
<1>3. conn' = [k \in Conns |-> conn'[k]]
  BY DEF Shut, Conns
<1>4. conn' \in [Conns -> Connections \cup {NoConn}]
  BY <1>2, <1>3
<1>5. ASSUME NEW k \in Conns
      PROVE  Onward(k)
  <2>1. k \notin K => conn'[k] = cs[k]
    BY <1>1
  <2>2. /\ conn[k] # NoConn => conn[k].open # {}
        /\ cs[k] # NoConn => /\ Live(k) /\ cs[k].from = conn[k].from /\ cs[k].to = conn[k].to
                             /\ cs[k].open = conn[k].open /\ cs[k].table = conn[k].table
    BY DEF Ends, Live, Rewritten
  <2>3. CASE k \notin K
    BY <2>1, <2>2, <2>3 DEF Onward, Live, Named
  <2>4. CASE k \in K /\ cs[k].open \subseteq {p}
    BY <1>1, <2>4 DEF Onward
  <2>5. CASE k \in K /\ ~(cs[k].open \subseteq {p})
    BY <1>1, <2>2, <2>5, NoConnection DEF Onward, Live, Named
  <2> QED BY <2>3, <2>4, <2>5
<1>6. ASSUME NEW q \in Procs \ {p}, NEW k \in Conns, Live(k), q \in conn[k].open
      PROVE  Keeps(k, q)
  <2>1. /\ cs[k] # NoConn /\ cs[k].from = conn[k].from /\ cs[k].to = conn[k].to
        /\ cs[k].open = conn[k].open /\ cs[k].table = conn[k].table
        /\ ~Named(k) /\ Relies(k, q) => cs[k].up = conn[k].up /\ cs[k].down = conn[k].down
        /\ ~Named(k) /\ k \in ToSet(backlog[q]) => cs[k].met = conn[k].met
    BY <1>6 DEF Rewritten
  <2>2. ~(cs[k].open \subseteq {p})
    BY <1>6, <2>1
  <2>3. CASE k \notin K
    BY <1>1, <1>6, <2>1, <2>3 DEF Keeps, Live, Named
  <2>4. CASE k \in K
    BY <1>1, <1>6, <2>1, <2>2, <2>4, NoConnection DEF Keeps, Live, Named
  <2> QED BY <2>3, <2>4
<1> QED BY <1>1, <1>4, <1>5, <1>6 DEF KeepsAll

LEMMA NothingRewritten ==
  ASSUME NEW x, NEW p PROVE Rewritten(conn, x, p)
  BY DEF Rewritten, Live

LEMMA NothingShut ==
  ASSUME NEW cs \in [Conns -> Connections \cup {NoConn}], NEW p
  PROVE  Shut(cs, p, {}) = cs
<1>1. Shut(cs, p, {}) = [k \in Conns |-> cs[k]]
  BY DEF Shut, Conns
<1> QED BY <1>1

\* only p has moved, and the connections are as they should be
LEMMA TypedAgain ==
  ASSUME Typed, nprocs' = nprocs,
         pc' \in [Procs -> {"start", "accept", "served", "gone"} \cup Probing \cup Settled],
         backlog' \in [Procs -> Seq(Conns)],
         fd' \in [Procs -> Nat], s' \in [Procs -> Nat],
         todo' \in [Procs -> Seq(Int)],
         child_fd' \in [Procs -> Seq(Conns)],
         me' \in [Procs -> Procs \cup {NoRank}],
         conn' \in [Conns -> Connections \cup {NoConn}]
  PROVE  Typed'
<1>1. Procs' = Procs /\ Connections' = Connections
  BY SameProcs
<1> QED BY <1>1 DEF Typed, Probing, Settled, Placed, Connected, Conns, Jobs, NoRank, Max0, NoConn

LEMMA OneMoved ==
  ASSUME OInv, nprocs' = nprocs, NEW p \in Procs, Typed',
         \A k \in Conns : Ends(k)' /\ Remembered(k)',
         \A q \in Procs \ {p} : Idle(q) /\ KeepsAll(q),
         Wired(p)'
  PROVE  OInv'
<1>1. \A q \in Procs \ {p} : Wired(q)'
  BY IdleStaysWired DEF OInv
<1>2. Procs' = Procs /\ Conns' = Conns
  BY SameProcs DEF Conns
<1> QED BY <1>1, <1>2 DEF OInv

LEMMA EmptyQueue == IsInjective(<<>>) /\ ToSet(<<>>) = {}
<1>1. \A x : x \notin ToSet(<<>>)
  BY DEF ToSet
<1> QED BY <1>1 DEF IsInjective

\* the shape of a process that has gone
LEMMA GoneIsWired ==
  ASSUME NEW p \in Procs, nprocs' = nprocs, pc'[p] = "gone", todo'[p] = <<>>, child_fd'[p] = <<>>,
         backlog'[p] = <<>>
  PROVE  Wired(p)'
<1>1. Looking(p)'
  BY SameProcs DEF Looking, Asking
<1>2. Client(p)' /\ Child(p)'
  BY DEF Client, Trying, Child, HasParent, Probing, Settled, Placed, Connected
<1>3. Father(p)'
  BY EmptyQueue DEF Father, kids
<1>4. Waiting(p)'
  BY EmptyQueue DEF Waiting
<1> QED BY <1>1, <1>2, <1>3, <1>4 DEF Wired

LEMMA GoneStep ==
  ASSUME OInv, NEW p \in Procs, Gone(p)
  PROVE  OInv'
<1>1. /\ nprocs' = nprocs /\ me' = me
      /\ pc' = [pc EXCEPT ![p] = "gone"] /\ backlog' = [backlog EXCEPT ![p] = <<>>]
      /\ fd' = [fd EXCEPT ![p] = 0] /\ s' = [s EXCEPT ![p] = 0]
      /\ todo' = [todo EXCEPT ![p] = <<>>] /\ child_fd' = [child_fd EXCEPT ![p] = <<>>]
      /\ conn' = Shut(conn, p, EndsOf(p))
  BY DEF Gone
<1>2. Typed /\ \A k \in Conns : Ends(k) /\ Remembered(k)
  BY DEF OInv
<1>4. /\ conn' \in [Conns -> Connections \cup {NoConn}]
      /\ \A k \in Conns : Onward(k)
      /\ \A q \in Procs \ {p} : KeepsAll(q)
  <2>1. conn \in [Conns -> Connections \cup {NoConn}]
    BY <1>2 DEF Typed
  <2>2. \A k \in Conns : Ends(k) /\ Rewritten(conn, k, p)
    BY <1>2, NothingRewritten
  <2> QED BY <1>1, <1>2, <2>1, <2>2, Changing
<1>6. /\ pc'[p] = "gone" /\ todo'[p] = <<>> /\ child_fd'[p] = <<>> /\ backlog'[p] = <<>>
      /\ \A q \in Procs \ {p} : Idle(q)
  BY <1>1, <1>2 DEF Typed, Idle
<1>7. Typed'
  <2>1. pc' \in [Procs -> {"start", "accept", "served", "gone"} \cup Probing \cup Settled]
    BY <1>1, <1>2 DEF Typed
  <2>2. /\ backlog' \in [Procs -> Seq(Conns)] /\ child_fd' \in [Procs -> Seq(Conns)]
        /\ todo' \in [Procs -> Seq(Int)] /\ fd' \in [Procs -> Nat] /\ s' \in [Procs -> Nat]
    BY <1>1, <1>2 DEF Typed
  <2>3. nprocs' \in [Jobs -> 0 .. Max0(NAlone, NShared)] /\ me' \in [Procs -> Procs \cup {NoRank}]
    BY <1>1, <1>2 DEF Typed
  <2> QED BY <1>1, <1>2, <1>4, <2>1, <2>2, <2>3, TypedAgain
<1>8. Faithful(p)
  <2> SUFFICES ASSUME NEW k \in Conns, conn'[k] # NoConn
      PROVE  p \notin conn'[k].open
    BY DEF Faithful, Live
  <2> PICK c, d : c = conn[k] /\ d = Shut(conn, p, EndsOf(p))[k] /\ d = conn'[k]
    BY <1>1
  <2>1. c \in Connections \cup {NoConn}
    BY <1>2 DEF Typed
  <2>2. /\ k \notin EndsOf(p) => d = c
        /\ k \in EndsOf(p) /\ c.open \subseteq {p} => d = NoConn
        /\ k \in EndsOf(p) /\ ~(c.open \subseteq {p}) => d.open = c.open \ {p}
    <3> PICK K : K = EndsOf(p)
      OBVIOUS
    <3>1. c = conn[k] /\ d = Shut(conn, p, K)[k]
      OBVIOUS
    <3> QED BY <2>1, <3>1, ShutAt
  <2>3. k \in EndsOf(p) <=> p \in c.open
    BY DEF EndsOf, Conns
  <2> QED BY <2>2, <2>3
<1>9. \A q \in Procs \ {p} : Faithful(q)
  BY <1>6 DEF Faithful, Idle, kids
<1>10. \A k \in Conns : Ends(k)' /\ Remembered(k)'
  BY <1>2, <1>4, <1>8, <1>9, OnwardStays
<1>11. Wired(p)'
  BY <1>1, <1>6, GoneIsWired
<1> QED BY <1>1, <1>4, <1>6, <1>7, <1>10, <1>11, OneMoved

LEMMA SameConns ==
  ASSUME conn' = conn, \A k \in Conns : Ends(k)
  PROVE  (\A q \in Procs : KeepsAll(q)) /\ \A k \in Conns : Onward(k)
<1>1. ASSUME NEW q \in Procs, NEW k \in Conns, Live(k), q \in conn[k].open
      PROVE  Keeps(k, q)
  BY <1>1 DEF Keeps, Live, Named
<1>2. ASSUME NEW k \in Conns PROVE Onward(k)
  BY DEF Onward, Ends, Live, Named
<1> QED BY <1>1, <1>2 DEF KeepsAll

LEMMA Unmoved ==
  ASSUME OInv, UNCHANGED <<nprocs, pc, backlog, fd, s, todo, child_fd, me, conn>>
  PROVE  OInv'
<1>1. Procs' = Procs /\ Connections' = Connections /\ Conns' = Conns
  BY SameProcs DEF Conns
<1>2. Typed'
  BY TypedAgain DEF OInv, Typed
<1>3. \A q \in Procs : KeepsAll(q) /\ Idle(q) /\ Faithful(q)
  BY SameConns DEF OInv, Idle, Faithful, kids
<1>4. \A k \in Conns : Ends(k)' /\ Remembered(k)'
  BY <1>3, SameConns, OnwardStays DEF OInv
<1>5. \A q \in Procs : Wired(q)'
  BY <1>3, IdleStaysWired DEF OInv
<1> QED BY <1>1, <1>2, <1>4, <1>5 DEF OInv

LEMMA StringSets ==
  /\ Probing \cup Settled = {"shake_server", "ids", "ack", "hostlist", "scan", "shake_client",
                             "reply", "reduce", "bcast", "open"}
  /\ Settled = {"hostlist", "scan", "shake_client", "reply", "reduce", "bcast", "open"}
  BY DEF Probing, Settled, Placed, Connected

LEMMA bindStep ==
  ASSUME OInv, NEW p \in Procs, bind(p)
  PROVE  OInv'
<1>1. CASE Gone(p)
  BY <1>1, GoneStep
<1>2. CASE ~Gone(p)
  <2>1. /\ pc[p] = "start" /\ pc' = [pc EXCEPT ![p] = "accept"]
        /\ UNCHANGED <<nprocs, backlog, fd, s, todo, child_fd, me, conn>>
    BY <1>2 DEF bind
  <2>2. Typed /\ Wired(p) /\ \A k \in Conns : Ends(k) /\ Remembered(k)
    BY DEF OInv
  <2>3. Typed'
    <3>1. pc' \in [Procs -> {"start", "accept", "served", "gone"} \cup Probing \cup Settled]
      BY <2>1, <2>2 DEF Typed
    <3> QED BY <2>1, <2>2, <3>1, TypedAgain DEF Typed
  <2>4. pc'[p] = "accept" /\ \A q \in Procs \ {p} : Idle(q)
    BY <2>1, <2>2 DEF Typed, Idle
  <2>5. \A q \in Procs : KeepsAll(q) /\ Faithful(q)
    BY <2>1, <2>2, <2>4, SameConns DEF Faithful, Idle, kids
  <2>6. \A k \in Conns : Ends(k)' /\ Remembered(k)'
    BY <2>1, <2>2, <2>5, SameConns, OnwardStays
  <2>7. Wired(p)'
    <3>1. Looking(p)'
      <4>1. p[2] # Server
        BY <2>1, <2>2 DEF Wired, Looking, Asking
      <4> QED BY <2>1, <2>2, <2>4, <4>1, LookingStays DEF Wired, Asking
    <3>2. Client(p)' /\ Child(p)'
      BY <2>4, StringSets DEF Client, Trying, Child, HasParent
    <3>3. Father(p)'
      BY <2>1, <2>2, <2>5, KidsAre, FatherStays DEF Wired, Father, KeepsAll
    <3>4. Waiting(p)'
      BY <2>1, <2>2, <2>5, WaitersAre, WaitingStays DEF Wired, Waiting, KeepsAll
    <3> QED BY <3>1, <3>2, <3>3, <3>4 DEF Wired
  <2> QED BY <2>1, <2>3, <2>4, <2>5, <2>6, <2>7, OneMoved
<1> QED BY <1>1, <1>2

LEMMA QueueTail ==
  ASSUME NEW q \in Seq(Conns), q # <<>>, IsInjective(q)
  PROVE  /\ Head(q) \in ToSet(q) /\ Head(q) \notin ToSet(Tail(q)) /\ Tail(q) \in Seq(Conns)
         /\ ToSet(Tail(q)) \subseteq ToSet(q) /\ IsInjective(Tail(q))
<1>1. /\ Len(q) \in Nat /\ Len(q) >= 1 /\ q[1] = Head(q) /\ DOMAIN q = 1 .. Len(q)
      /\ Tail(q) \in Seq(Conns) /\ Len(Tail(q)) = Len(q) - 1
      /\ DOMAIN Tail(q) = 1 .. Len(q) - 1
      /\ \A n \in 1 .. Len(q) - 1 : n + 1 \in 1 .. Len(q) /\ Tail(q)[n] = q[n + 1]
  OBVIOUS
<1> PICK t, l : t = Tail(q) /\ l = Len(q)
  OBVIOUS
<1>2. /\ l \in Nat /\ l >= 1 /\ q[1] = Head(q) /\ DOMAIN q = 1 .. l /\ DOMAIN t = 1 .. l - 1
      /\ \A n \in 1 .. l - 1 : n + 1 \in 1 .. l /\ t[n] = q[n + 1]
  BY <1>1
<1>3. \A a, b \in 1 .. l : q[a] = q[b] => a = b
  BY <1>2 DEF IsInjective
<1>4. Head(q) \in ToSet(q)
  BY <1>2 DEF ToSet
<1>5. \A n \in 1 .. l - 1 : t[n] # Head(q) /\ \E m \in 1 .. l : t[n] = q[m]
  BY <1>2, <1>3
<1>6. Head(q) \notin ToSet(t) /\ ToSet(t) \subseteq ToSet(q)
  BY <1>2, <1>5 DEF ToSet
<1>7. \A a, b \in 1 .. l - 1 : t[a] = t[b] => a = b
  BY <1>2, <1>3
<1>8. IsInjective(t)
  BY <1>2, <1>7 DEF IsInjective
<1> QED BY <1>1, <1>4, <1>6, <1>8

LEMMA acceptStep ==
  ASSUME OInv, NEW p \in Procs, accept(p)
  PROVE  OInv'
<1>1. /\ pc[p] = "accept" /\ pc' = [pc EXCEPT ![p] = "shake_server"] /\ backlog[p] # <<>>
      /\ fd' = [fd EXCEPT ![p] = Head(backlog[p])] /\ backlog' = [backlog EXCEPT ![p] = Tail(backlog[p])]
      /\ UNCHANGED <<nprocs, s, todo, child_fd, me, conn>>
  BY DEF accept
<1>2. Typed /\ Wired(p) /\ \A k \in Conns : Ends(k) /\ Remembered(k)
  BY DEF OInv
<1> PICK k : k = Head(backlog[p])
  OBVIOUS
<1>3. backlog[p] \in Seq(Conns)
  BY <1>2 DEF Typed
<1>4. /\ k \in ToSet(backlog[p]) /\ k \notin ToSet(Tail(backlog[p])) /\ Tail(backlog[p]) \in Seq(Conns)
      /\ ToSet(Tail(backlog[p])) \subseteq ToSet(backlog[p]) /\ IsInjective(Tail(backlog[p]))
  BY <1>1, <1>2, <1>3, QueueTail DEF Wired, Waiting
<1>5. k \in Conns
  BY <1>2, <1>4, WaitersAre
<1>6. Typed'
  <2>1. pc' \in [Procs -> {"start", "accept", "served", "gone"} \cup Probing \cup Settled]
    BY <1>1, <1>2, StringSets DEF Typed
  <2>2. k \in Nat
    BY <1>5 DEF Conns
  <2>3. fd' \in [Procs -> Nat] /\ backlog' \in [Procs -> Seq(Conns)]
    BY <1>1, <1>2, <1>4, <2>2 DEF Typed
  <2> QED BY <1>1, <1>2, <2>1, <2>3, TypedAgain DEF Typed
<1>7. /\ pc'[p] = "shake_server" /\ fd'[p] = k /\ backlog'[p] = Tail(backlog[p])
      /\ \A q \in Procs \ {p} : Idle(q)
  BY <1>1, <1>2 DEF Typed, Idle
<1>8. \A q \in Procs : KeepsAll(q) /\ Faithful(q)
  BY <1>1, <1>2, <1>7, SameConns DEF Faithful, Idle, kids
<1>9. \A x \in Conns : Ends(x)' /\ Remembered(x)'
  BY <1>1, <1>2, <1>8, SameConns, OnwardStays
<1>10. Wired(p)'
  <2>0. p[2] # Server
    BY <1>1, <1>2 DEF Wired, Looking, Asking
  <2>1. Looking(p)'
    BY <1>1, <1>2, <1>7, <2>0, LookingStays DEF Wired, Asking
  <2>2. Client(p)'
    BY <1>7 DEF Client, Trying
  <2>3. Father(p)'
    BY <1>1, <1>2, <1>8, KidsAre, FatherStays DEF Wired, Father, KeepsAll
  <2>4. Waiting(p)'
    BY <1>1, <1>2, <1>4, <1>7 DEF Wired, Waiting, Live, Named
  <2>5. Child(p)'
    <3>1. /\ Live(k) /\ conn[k].to = p /\ p \in conn[k].open /\ ~Named(k) /\ conn[k].up = <<>>
          /\ conn[k].down = <<>>
      BY <1>2, <1>4 DEF Wired, Waiting
    <3> QED BY <1>1, <1>4, <1>5, <1>7, <3>1, StringSets DEF Child, Live, Named
  <2> QED BY <2>1, <2>2, <2>3, <2>4, <2>5 DEF Wired
<1> QED BY <1>1, <1>6, <1>7, <1>8, <1>9, <1>10, OneMoved

-----------------------------------------------------------------------------
(* One process moves, and does to its connections what others can bear *)

LEMMA Moved ==
  ASSUME OInv, NEW p \in Procs, nprocs' = nprocs, Typed', Faithful(p),
         \A k \in Conns : Onward(k),
         \A q \in Procs \ {p} : Idle(q) /\ KeepsAll(q),
         Wired(p)'
  PROVE  OInv'
<1>1. \A q \in Procs \ {p} : Faithful(q)
  BY DEF Faithful, Idle, kids
<1>2. \A k \in Conns : Ends(k)' /\ Remembered(k)'
  BY <1>1, OnwardStays DEF OInv
<1> QED BY <1>2, OneMoved

\* the connections p has in its several roles are different ones
LEMMA Apart ==
  ASSUME OInv, NEW p \in Procs
  PROVE  /\ HasParent(p) => fd[p] \in Conns /\ fd[p] \notin kids(p) /\ fd[p] \notin ToSet(backlog[p])
         /\ Trying(p) => s[p] \in Conns /\ s[p] \notin kids(p) /\ s[p] \notin ToSet(backlog[p])
         /\ HasParent(p) /\ Trying(p) => s[p] # fd[p]
<1>1. Typed /\ Father(p) /\ Waiting(p) /\ Child(p) /\ Client(p)
  BY DEF OInv, Wired
<1>2. \A k \in kids(p) : k \in Conns /\ Live(k) /\ conn[k].from = p /\ Named(k)
  BY <1>1, KidsAre DEF Father
<1>3. \A k \in ToSet(backlog[p]) : k \in Conns /\ Live(k) /\ conn[k].to = p
  BY <1>1, WaitersAre DEF Waiting
<1>4. \A k \in Conns : Live(k) => conn[k].from # conn[k].to
  BY DEF OInv, Ends
<1>5. HasParent(p) => /\ fd[p] \in Conns /\ Live(fd[p]) /\ conn[fd[p]].to = p
                      /\ fd[p] \notin ToSet(backlog[p])
  BY <1>1 DEF Child
<1>6. Trying(p) => s[p] \in Conns /\ Live(s[p]) /\ conn[s[p]].from = p /\ ~Named(s[p])
  BY <1>1 DEF Client
<1> QED BY <1>2, <1>3, <1>4, <1>5, <1>6

LEMMA KidsStay ==
  ASSUME Typed, NEW p \in Procs, Father(p), child_fd'[p] = child_fd[p],
         \A k \in kids(p) : conn'[k] = conn[k]
  PROVE  Father(p)'
<1>1. kids(p)' = kids(p)
  BY DEF kids
<1> QED BY <1>1 DEF Father, Live, Named

LEMMA QueueStays ==
  ASSUME Typed, NEW p \in Procs, Waiting(p), backlog'[p] = backlog[p],
         \A k \in ToSet(backlog[p]) : conn'[k] = conn[k]
  PROVE  Waiting(p)'
<1>1. ToSet(backlog'[p]) = ToSet(backlog[p]) /\ IsInjective(backlog'[p])
  BY DEF Waiting
<1> QED BY <1>1 DEF Waiting, Live, Named

\* who relies on what is written in the connection of p to its parent
LEMMA AboveRelies ==
  ASSUME OInv, NEW p \in Procs, HasParent(p), NEW q \in Procs \ {p}
  PROVE  /\ fd[p] \notin ToSet(backlog[q])
         /\ Relies(fd[p], q) => /\ ~Named(fd[p])
                                /\ conn[fd[p]].up = <<>> /\ conn[fd[p]].down = <<>>
<1> DEFINE k == fd[p]
<1>1. k \in Conns /\ Live(k) /\ conn[k].to = p
  BY DEF OInv, Wired, Child
<1>2. k \notin ToSet(backlog[q])
  BY <1>1 DEF OInv, Wired, Waiting
<1>3. ~(HasParent(q) /\ fd[q] = k)
  BY <1>1 DEF OInv, Wired, Child
<1>4. pc[q] = "shake_client" /\ s[q] = k => ~Named(k) /\ conn[k].up = <<>> /\ conn[k].down = <<>>
  BY DEF OInv, Wired, Client, Trying
<1> QED BY <1>2, <1>3, <1>4 DEF Relies

\* where a daemon with a parent stands
LEMMA IsDaemon ==
  ASSUME OInv, NEW p \in Procs, pc[p] \notin Asking \cup {"served", "gone"}
  PROVE  /\ p[2] # Server
         /\ pc[p] \in Probing \cup {"hostlist"} \cup Connected => HasParent(p)
<1>1. p[2] # Server
  BY DEF OInv, Wired, Looking
<1> QED BY <1>1 DEF HasParent, Settled, Placed

\* p gives up a connection on probation
LEMMA ParentFails ==
  ASSUME OInv, NEW p \in Procs, pc[p] \in Probing, nprocs' = nprocs,
         NEW cs \in [Conns -> Connections \cup {NoConn}],
         \A k \in Conns : Rewritten(cs, k, p) /\ (k # fd[p] => cs[k] = conn[k]),
         conn' = Shut(cs, p, {fd[p]}), fd' = [fd EXCEPT ![p] = 0], pc' = [pc EXCEPT ![p] = "accept"],
         UNCHANGED <<backlog, s, todo, child_fd, me>>
  PROVE  OInv'
<1>2. Typed /\ Wired(p) /\ \A k \in Conns : Ends(k)
  BY DEF OInv
<1>3. p[2] # Server /\ HasParent(p) /\ pc[p] # "gone"
  BY IsDaemon DEF Asking, Probing
<1>4. /\ conn' \in [Conns -> Connections \cup {NoConn}]
      /\ \A k \in Conns : Onward(k) /\ (k # fd[p] => conn'[k] = cs[k])
      /\ \A q \in Procs \ {p} : KeepsAll(q)
  BY <1>2, Changing
<1>5. pc'[p] = "accept" /\ \A q \in Procs \ {p} : Idle(q)
  BY <1>2 DEF Typed, Idle
<1>6. Typed'
  <2>1. pc' \in [Procs -> {"start", "accept", "served", "gone"} \cup Probing \cup Settled]
    BY <1>2 DEF Typed
  <2>2. fd' \in [Procs -> Nat]
    BY <1>2 DEF Typed
  <2> QED BY <1>2, <1>4, <2>1, <2>2, TypedAgain DEF Typed
<1>7. Faithful(p)
  BY <1>3, <1>5 DEF Faithful, kids
<1>8. Wired(p)'
  <2>0. \A k \in Conns : k # fd[p] => conn'[k] = conn[k]
    BY <1>4
  <2>1. Looking(p)'
    BY <1>2, <1>3, <1>5, LookingStays DEF Wired, Asking
  <2>2. Client(p)' /\ Child(p)'
    BY <1>5, StringSets DEF Client, Trying, Child, HasParent
  <2>3. Father(p)'
    BY <1>2, <1>3, <2>0, Apart, KidsAre, KidsStay DEF Wired
  <2>4. Waiting(p)'
    BY <1>2, <1>3, <2>0, Apart, WaitersAre, QueueStays DEF Wired
  <2> QED BY <2>1, <2>2, <2>3, <2>4 DEF Wired
<1> QED BY <1>4, <1>5, <1>6, <1>7, <1>8, Moved

LEMMA DropsParentStep ==
  ASSUME OInv, NEW p \in Procs, DropsParent(p)
  PROVE  OInv'
<1>1. /\ pc[p] \in {"ids", "ack"} /\ pc' = [pc EXCEPT ![p] = "accept"]
      /\ fd' = [fd EXCEPT ![p] = 0] /\ conn' = Shut(conn, p, {fd[p]})
      /\ UNCHANGED <<nprocs, backlog, s, todo, child_fd, me>>
  BY DEF DropsParent, Continue
<1>2. pc[p] \in Probing
  BY <1>1 DEF Probing
<1>3. conn \in [Conns -> Connections \cup {NoConn}]
  BY DEF OInv, Typed
<1>4. \A k \in Conns : Rewritten(conn, k, p) /\ (k # fd[p] => conn[k] = conn[k])
  BY NothingRewritten
<1> QED BY <1>1, <1>2, <1>3, <1>4, ParentFails

\* p reads from its parent, writes to it, and settles or not
LEMMA HeardAbove ==
  ASSUME OInv, NEW p \in Procs, HasParent(p), nprocs' = nprocs,
         NEW cs \in [Conns -> Connections \cup {NoConn}],
         \/ Named(fd[p]) \/ conn[fd[p]].down # <<>>
         \/ cs[fd[p]].up = conn[fd[p]].up /\ cs[fd[p]].down = conn[fd[p]].down,
         \A k \in Conns : k # fd[p] => cs[k] = conn[k],
         cs[fd[p]].from = conn[fd[p]].from, cs[fd[p]].to = conn[fd[p]].to,
         cs[fd[p]].open = conn[fd[p]].open, cs[fd[p]].table = conn[fd[p]].table,
         cs[fd[p]] # NoConn
  PROVE  \A k \in Conns : Ends(k) /\ Rewritten(cs, k, p)
<1> SUFFICES ASSUME NEW k \in Conns PROVE Ends(k) /\ Rewritten(cs, k, p)
  OBVIOUS
<1>1. Ends(k)
  BY DEF OInv
<1>2. CASE k # fd[p]
  BY <1>1, <1>2 DEF Rewritten, Live
<1>3. CASE k = fd[p]
  <2>1. Live(k)
    BY <1>3 DEF OInv, Wired, Child
  <2>2. \A q \in Procs \ {p} :
          /\ k \notin ToSet(backlog[q])
          /\ ~Named(k) /\ Relies(k, q) => cs[k].up = conn[k].up /\ cs[k].down = conn[k].down
    BY <1>3, AboveRelies
  <2> QED BY <1>1, <1>3, <2>1, <2>2 DEF Rewritten
<1> QED BY <1>2, <1>3

LEMMA ReadIdsStep ==
  ASSUME OInv, NEW p \in Procs, ReadIds(p)
  PROVE  OInv'
<1> DEFINE k == fd[p]
           cs == [conn EXCEPT ![k].down = Tail(conn[k].down), ![k].up = Append(conn[k].up, "reply")]
<1>1. /\ pc[p] = "ids" /\ pc' = [pc EXCEPT ![p] = "ack"] /\ conn[k].down # <<>> /\ conn' = cs
      /\ UNCHANGED <<nprocs, backlog, fd, s, todo, child_fd, me>>
  BY DEF ReadIds
<1>2. Typed /\ Wired(p)
  BY DEF OInv
<1>3. p[2] # Server /\ HasParent(p)
  BY <1>1, IsDaemon DEF Asking, Probing
<1>4. /\ k \in Conns /\ Live(k) /\ conn[k].to = p /\ p \in conn[k].open /\ k \notin ToSet(backlog[p])
      /\ ~Named(k) /\ conn[k].up = <<>> /\ conn[k].down = <<"ids">>
  BY <1>1, <1>2, <1>3 DEF Wired, Child
<1> PICK x, c, d : x = fd[p] /\ c = conn[x] /\ d = cs[x]
  OBVIOUS
<1> HIDE DEF k
<1>5. c \in Connections
  BY <1>2, <1>4 DEF Typed, Live, k
<1>6. d = [c EXCEPT !.down = <<>>, !.up = <<"reply">>]
  <2>1. d = [c EXCEPT !.down = Tail(c.down), !.up = Append(c.up, "reply")]
    BY <1>2, <1>4 DEF Typed, k
  <2>2. c.down = <<"ids">> /\ c.up = <<>>
    BY <1>4 DEF k
  <2>3. Tail(<<"ids">>) = <<>> /\ Append(<<>>, "reply") = <<"reply">>
    OBVIOUS
  <2> QED BY <2>1, <2>2, <2>3
<1>7. /\ d \in Connections /\ d.from = c.from /\ d.to = c.to /\ d.open = c.open /\ d.table = c.table
      /\ d.down = <<>> /\ d.up = <<"reply">>
  <2>1. <<>> \in Seq(Words) /\ <<"reply">> \in Seq(Words)
    BY DEF Words
  <2> QED BY <1>5, <1>6, <2>1 DEF Connections
<1>8. cs \in [Conns -> Connections \cup {NoConn}] /\ \A y \in Conns : y # x => cs[y] = conn[y]
  <2>1. conn \in [Conns -> Connections \cup {NoConn}]
    BY <1>2 DEF Typed
  <2>2. cs = [conn EXCEPT ![x] = d]
    BY <1>4, <2>1 DEF k
  <2> QED BY <1>7, <2>1, <2>2
<1> HIDE DEF cs
<1>9. /\ conn' \in [Conns -> Connections \cup {NoConn}]
      /\ \A y \in Conns : Onward(y) /\ conn'[y] = cs[y]
      /\ \A q \in Procs \ {p} : KeepsAll(q)
  <2>1. \A y \in Conns : Ends(y) /\ Rewritten(cs, y, p)
    BY <1>1, <1>3, <1>4, <1>7, <1>8, NoConnection, HeardAbove DEF k
  <2>2. conn' = Shut(cs, p, {})
    BY <1>1, <1>8, NothingShut
  <2> QED BY <1>1, <1>2, <1>8, <2>1, <2>2, Changing
<1>10. pc'[p] = "ack" /\ \A q \in Procs \ {p} : Idle(q)
  BY <1>1, <1>2 DEF Typed, Idle
<1>11. Typed'
  <2>1. pc' \in [Procs -> {"start", "accept", "served", "gone"} \cup Probing \cup Settled]
    BY <1>1, <1>2 DEF Typed, Probing
  <2> QED BY <1>1, <1>2, <1>9, <2>1, TypedAgain DEF Typed
<1>12. Faithful(p)
  BY <1>1, <1>10 DEF Faithful, kids
<1>13. Wired(p)'
  <2>1. Looking(p)'
    BY <1>1, <1>2, <1>3, <1>10, LookingStays DEF Wired, Asking
  <2>2. Client(p)'
    BY <1>10 DEF Client, Trying
  <2>3. Father(p)'
    BY <1>1, <1>2, <1>3, <1>8, <1>9, Apart, KidsAre, KidsStay DEF Wired
  <2>4. Waiting(p)'
    BY <1>1, <1>2, <1>3, <1>8, <1>9, Apart, WaitersAre, QueueStays DEF Wired
  <2>5. Child(p)'
    <3>1. /\ conn'[x] = d /\ d # NoConn /\ d.to = p /\ p \in d.open /\ d.up = <<"reply">> /\ d.down = <<>>
          /\ x \in Conns /\ x \notin ToSet(backlog'[p]) /\ fd'[p] = x
      BY <1>1, <1>4, <1>7, <1>9, NoConnection DEF k
    <3> QED BY <1>10, <3>1, StringSets DEF Child, Live
  <2> QED BY <2>1, <2>2, <2>3, <2>4, <2>5 DEF Wired
<1> QED BY <1>1, <1>9, <1>10, <1>11, <1>12, <1>13, Moved

\* the connections once a word has been read from the parent
WordRead(x) == [conn EXCEPT ![x].down = Tail(@)]

LEMMA OneWordRead ==
  ASSUME Typed, NEW x \in Conns, Live(x), conn[x].down # <<>>, NEW cs, cs = WordRead(x)
  PROVE  /\ cs \in [Conns -> Connections \cup {NoConn}] /\ cs[x] \in Connections
         /\ \A y \in Conns : y # x => cs[y] = conn[y]
         /\ cs[x].from = conn[x].from /\ cs[x].to = conn[x].to /\ cs[x].open = conn[x].open
         /\ cs[x].table = conn[x].table /\ cs[x].met = conn[x].met
         /\ cs[x].up = conn[x].up /\ cs[x].down = Tail(conn[x].down)
<1>1. conn \in [Conns -> Connections \cup {NoConn}]
  BY DEF Typed
<1> PICK c, d : c = conn[x] /\ d = cs[x]
  OBVIOUS
<1>2. c \in Connections
  BY <1>1 DEF Live
<1>3. d = [c EXCEPT !.down = Tail(c.down)]
  BY <1>1 DEF WordRead
<1>4. Tail(c.down) \in Seq(Words)
  BY <1>2 DEF Connections
<1>5. /\ d \in Connections /\ d.from = c.from /\ d.to = c.to /\ d.open = c.open
      /\ d.table = c.table /\ d.met = c.met /\ d.up = c.up /\ d.down = Tail(c.down)
  BY <1>2, <1>3, <1>4 DEF Connections
<1>6. cs = [conn EXCEPT ![x] = d]
  BY <1>1, <1>3 DEF WordRead
<1>7. cs \in [Conns -> Connections \cup {NoConn}] /\ \A y \in Conns : y # x => cs[y] = conn[y]
  BY <1>1, <1>5, <1>6
<1> QED BY <1>5, <1>7

LEMMA ReadAckStep ==
  ASSUME OInv, NEW p \in Procs, ReadAck(p)
  PROVE  OInv'
<1> PICK x, W : x = fd[p] /\ W = ToSet(backlog[p])
  OBVIOUS
<1> PICK cs : cs = WordRead(x)
  OBVIOUS
<1>1. /\ pc[p] = "ack" /\ pc' = [pc EXCEPT ![p] = "hostlist"] /\ conn[x].down # <<>>
      /\ conn' = Shut(cs, p, W) /\ backlog' = [backlog EXCEPT ![p] = <<>>]
      /\ UNCHANGED <<nprocs, fd, s, todo, child_fd, me>>
  BY DEF ReadAck, WordRead
<1>2. Typed /\ Wired(p)
  BY DEF OInv
<1>3. p[2] # Server /\ HasParent(p)
  BY <1>1, IsDaemon DEF Asking, Probing
<1>4. /\ x \in Conns /\ Live(x) /\ conn[x].to = p /\ p \in conn[x].open /\ x \notin W /\ Named(x)
  BY <1>1, <1>2, <1>3 DEF Wired, Child
<1>5. /\ cs \in [Conns -> Connections \cup {NoConn}] /\ cs[x] \in Connections
      /\ \A y \in Conns : y # x => cs[y] = conn[y]
      /\ cs[x].from = conn[x].from /\ cs[x].to = conn[x].to /\ cs[x].open = conn[x].open
      /\ cs[x].table = conn[x].table
  BY <1>1, <1>2, <1>4, OneWordRead
<1>6. /\ conn' \in [Conns -> Connections \cup {NoConn}]
      /\ \A y \in Conns : Onward(y) /\ (y \notin W => conn'[y] = cs[y])
      /\ \A q \in Procs \ {p} : KeepsAll(q)
  <2>1. \A y \in Conns : Ends(y) /\ Rewritten(cs, y, p)
    BY <1>1, <1>3, <1>4, <1>5, NoConnection, HeardAbove
  <2> QED BY <1>1, <1>2, <1>5, <2>1, Changing
<1>7. pc'[p] = "hostlist" /\ backlog'[p] = <<>> /\ \A q \in Procs \ {p} : Idle(q)
  BY <1>1, <1>2 DEF Typed, Idle
<1>8. Typed'
  <2>1. pc' \in [Procs -> {"start", "accept", "served", "gone"} \cup Probing \cup Settled]
    BY <1>1, <1>2, StringSets DEF Typed
  <2>2. backlog' \in [Procs -> Seq(Conns)]
    BY <1>1, <1>2 DEF Typed
  <2> QED BY <1>1, <1>2, <1>6, <2>1, <2>2, TypedAgain DEF Typed
<1>9. Faithful(p)
  BY <1>1, <1>7 DEF Faithful, kids
<1>10. Wired(p)'
  <2>1. Looking(p)'
    BY <1>1, <1>2, <1>3, <1>7, LookingStays DEF Wired, Asking
  <2>2. Client(p)'
    BY <1>7 DEF Client, Trying
  <2>3. Father(p)'
    <3>1. \A y \in kids(p) : y \in Conns /\ y # x /\ y \notin W
      <4>1. \A y \in kids(p) : conn[y].from = p /\ Live(y) /\ y \in Conns
        BY <1>2, KidsAre DEF Wired, Father
      <4>2. \A y \in W : conn[y].to = p
        BY <1>2 DEF Wired, Waiting
      <4>3. \A y \in Conns : Live(y) => conn[y].from # conn[y].to
        BY DEF OInv, Ends
      <4> QED BY <1>3, <4>1, <4>2, <4>3, Apart
    <3> QED BY <1>1, <1>2, <1>5, <1>6, <3>1, KidsStay DEF Wired
  <2>4. Waiting(p)'
    BY <1>7, EmptyQueue DEF Waiting
  <2>5. Child(p)'
    <3>1. /\ conn'[x] = cs[x] /\ conn'[x] # NoConn /\ conn'[x].to = p /\ p \in conn'[x].open
          /\ Named(x)' /\ fd'[p] = x /\ x \notin ToSet(backlog'[p])
      BY <1>1, <1>4, <1>5, <1>6, <1>7, NoConnection, EmptyQueue DEF Named
    <3> QED BY <1>4, <1>7, <3>1, StringSets DEF Child, Live
  <2> QED BY <2>1, <2>2, <2>3, <2>4, <2>5 DEF Wired
<1> QED BY <1>1, <1>6, <1>7, <1>8, <1>9, <1>10, Moved

LEMMA RanksAre ==
  ASSUME Typed, NEW t \in Ranks
  PROVE  /\ t[1] \in Jobs /\ t[2] \in Nat /\ nprocs[t[1]] \in Nat \ {0}
         /\ t[2] < nprocs[t[1]]
         /\ \A x \in 0 .. nprocs[t[1]] - 1 : <<t[1], x>> \in Ranks
<1> PICK m : m = Max0(NAlone, NShared)
  OBVIOUS
<1>1. m \in Nat
  BY CoboOpenAssumption DEF Max0
<1>2. t \in Jobs \X (Server .. m - 1) /\ t[2] < nprocs[t[1]] /\ nprocs[t[1]] > 0 /\ t[2] # Server
  BY DEF Ranks, Procs, Ids
<1>3. t[1] \in Jobs /\ t[2] \in Server .. m - 1
  BY <1>2
<1>4. nprocs[t[1]] \in 0 .. m
  BY <1>3 DEF Typed
<1>5. ASSUME NEW x \in 0 .. nprocs[t[1]] - 1
      PROVE  <<t[1], x>> \in Ranks
  <2>1. x \in Server .. m - 1 /\ x < nprocs[t[1]] /\ x # Server
    BY <1>1, <1>4 DEF Server
  <2>2. <<t[1], x>> \in Ids
    BY <1>3, <2>1 DEF Ids
  <2> QED BY <1>2, <2>1, <2>2 DEF Ranks, Procs
<1> QED BY <1>1, <1>2, <1>3, <1>4, <1>5 DEF Server

LEMMA ReadHostlistStep ==
  ASSUME OInv, NEW p \in Procs, ReadHostlist(p)
  PROVE  OInv'
<1> PICK x, t : x = fd[p] /\ t = conn[x].table
  OBVIOUS
<1> PICK cs, n : cs = WordRead(x) /\ n = Children(t[2], nprocs[t[1]])
  OBVIOUS
<1>1. /\ pc[p] = "hostlist" /\ pc' = [pc EXCEPT ![p] = AfterChild(p, n)] /\ conn[x].down # <<>>
      /\ conn' = cs /\ me' = [me EXCEPT ![p] = t] /\ todo' = [todo EXCEPT ![p] = n]
      /\ UNCHANGED <<nprocs, backlog, fd, s, child_fd>>
  BY DEF ReadHostlist, WordRead
<1>2. Typed /\ Wired(p)
  BY DEF OInv
<1>3. p[2] # Server /\ HasParent(p)
  BY <1>1, IsDaemon DEF Asking, Probing
<1>4. /\ x \in Conns /\ Live(x) /\ conn[x].to = p /\ p \in conn[x].open /\ x \notin ToSet(backlog[p])
      /\ Named(x)
  BY <1>1, <1>2, <1>3, StringSets DEF Wired, Child
<1>5. /\ cs \in [Conns -> Connections \cup {NoConn}] /\ cs[x] \in Connections
      /\ \A y \in Conns : y # x => cs[y] = conn[y]
      /\ cs[x].from = conn[x].from /\ cs[x].to = conn[x].to /\ cs[x].open = conn[x].open
      /\ cs[x].table = conn[x].table
  BY <1>1, <1>2, <1>4, OneWordRead
<1>6. /\ conn' \in [Conns -> Connections \cup {NoConn}]
      /\ \A y \in Conns : Onward(y) /\ conn'[y] = cs[y]
      /\ \A q \in Procs \ {p} : KeepsAll(q)
  <2>1. \A y \in Conns : Ends(y) /\ Rewritten(cs, y, p)
    BY <1>1, <1>3, <1>4, <1>5, NoConnection, HeardAbove
  <2>2. conn' = Shut(cs, p, {})
    BY <1>1, <1>5, NothingShut
  <2> QED BY <1>1, <1>2, <1>5, <2>1, <2>2, Changing
<1>7. t \in Ranks
  <2>1. conn[x] \in Connections
    BY <1>2, <1>4, SMTT(30) DEF Typed, Live
  <2> QED BY <1>4, <2>1 DEF Connections, Named
<1>8. n \in Seq(Int) /\ \A y \in 1 .. Len(n) : <<t[1], n[y]>> \in Ranks
  <2> PICK r, m : r = t[2] /\ m = nprocs[t[1]]
    OBVIOUS
  <2>1. m \in Nat \ {0} /\ r \in 0 .. m - 1
    BY <1>2, <1>7, RanksAre, SMTT(30)
  <2>2. Children(r, m) \in Seq(Int) /\ \A y \in 1 .. Len(Children(r, m)) : Children(r, m)[y] \in 1 .. m - 1
    BY <2>1, ChildrenType, ZenonT(60)
  <2>4. n = Children(r, m)
    OBVIOUS
  <2>3. \A z \in 1 .. m - 1 : <<t[1], z>> \in Ranks
    BY <1>2, <1>7, <2>1, RanksAre
  <2> QED BY <2>2, <2>3, <2>4, Zenon
<1>9. /\ pc'[p] = IF n # <<>> THEN "scan" ELSE "reduce"
      /\ me'[p] = t /\ todo'[p] = n /\ \A q \in Procs \ {p} : Idle(q)
  BY <1>1, <1>2, <1>3, SMTT(30) DEF Typed, Idle, AfterChild
<1>10. Typed'
  <2>1. pc' \in [Procs -> {"start", "accept", "served", "gone"} \cup Probing \cup Settled]
    BY <1>1, <1>2, <1>3, StringSets, SMTT(30) DEF Typed, AfterChild
  <2>2. me' \in [Procs -> Procs \cup {NoRank}] /\ todo' \in [Procs -> Seq(Int)]
    BY <1>1, <1>2, <1>7, <1>8 DEF Typed, Ranks
  <2> QED BY <1>1, <1>2, <1>6, <2>1, <2>2, TypedAgain, Zenon DEF Typed
<1>11. Faithful(p)
  BY <1>1 DEF Faithful, kids
<1>12. Wired(p)'
  <2>1. Looking(p)'
    <3>1. Ranks' = Ranks
      BY <1>1, SameProcs
    <3> QED BY <1>3, <1>8, <1>9, <3>1, Zenon DEF Looking, Asking
  <2>2. Client(p)'
    BY <1>9 DEF Client, Trying
  <2>3. Father(p)'
    BY <1>1, <1>2, <1>3, <1>5, <1>6, Apart, KidsAre, KidsStay DEF Wired
  <2>4. Waiting(p)'
    BY <1>1, <1>2, <1>3, <1>5, <1>6, Apart, WaitersAre, QueueStays DEF Wired
  <2>5. Child(p)'
    <3>1. /\ conn'[x] = cs[x] /\ conn'[x] # NoConn /\ conn'[x].to = p /\ p \in conn'[x].open
          /\ Named(x)' /\ fd'[p] = x /\ x \notin ToSet(backlog'[p])
      BY <1>1, <1>4, <1>5, <1>6, NoConnection DEF Named
    <3> QED BY <1>4, <1>9, <3>1, StringSets DEF Child, Live
  <2> QED BY <2>1, <2>2, <2>3, <2>4, <2>5, SMTT(30) DEF Wired
<1> QED BY <1>1, <1>6, <1>9, <1>10, <1>11, <1>12, Moved

LEMMA LosesStep ==
  ASSUME OInv, NEW p \in Procs,
         \/ HostlistFails(p) \/ GiveUp(p) \/ HostlistNotSent(p) \/ HandshakeFails(p) \/ BarrierFails(p)
  PROVE  OInv'
<1>1. Gone(p)
  BY DEF HostlistFails, GiveUp, HostlistNotSent, HandshakeFails, BarrierFails
<1> QED BY <1>1, GoneStep

LEMMA WaitsStep ==
  ASSUME OInv, NEW p \in Procs, Rescan(p) \/ connect_timeout(p)
  PROVE  OInv'
<1>1. UNCHANGED <<nprocs, pc, backlog, fd, s, todo, child_fd, me, conn>>
  BY DEF Rescan, connect_timeout
<1> QED BY <1>1, Unmoved

\* a daemon that has its ranks keeps its parent
LEMMA ParentStays ==
  ASSUME NEW p \in Procs, Child(p), HasParent(p), pc[p] \in Placed, pc'[p] \in Placed,
         fd'[p] = fd[p], ToSet(backlog[p])' = ToSet(backlog[p]),
         conn'[fd[p]] = conn[fd[p]]
  PROVE  Child(p)'
<1>1. /\ fd[p] \in Conns /\ Live(fd[p]) /\ conn[fd[p]].to = p /\ p \in conn[fd[p]].open
      /\ fd[p] \notin ToSet(backlog[p]) /\ Named(fd[p])
  BY DEF Child, Settled
<1>2. pc'[p] \notin {"shake_server", "ids", "ack"}
  BY DEF Placed, Connected
<1> QED BY <1>1, <1>2 DEF Child, Live, Named

LEMMA Tested ==
  ASSUME OInv, NEW p \in Procs, Trying(p)
  PROVE  /\ s[p] \in Conns /\ Live(s[p]) /\ conn[s[p]].from = p /\ p \in conn[s[p]].open
         /\ conn[s[p]] \in Connections /\ ~Named(s[p])
         /\ p[2] # Server => HasParent(p)
         /\ todo[p] # <<>> /\ pc[p] \in Placed \cap Asking
<1>1. Client(p) /\ Looking(p) /\ Typed
  BY DEF OInv, Wired
<1>2. pc[p] \in Placed \cap Asking
  BY DEF Trying, Placed, Asking
<1>3. s[p] \in Conns /\ Live(s[p]) /\ conn[s[p]].from = p /\ p \in conn[s[p]].open /\ ~Named(s[p])
  BY <1>1 DEF Client
<1> QED BY <1>1, <1>2, <1>3 DEF Looking, HasParent, Settled, Typed, Live

\* p gives up a connection it has tested
LEMMA TestFails ==
  ASSUME OInv, NEW p \in Procs, Trying(p), nprocs' = nprocs,
         NEW cs \in [Conns -> Connections \cup {NoConn}],
         \A k \in Conns : Rewritten(cs, k, p) /\ (k # s[p] => cs[k] = conn[k]),
         conn' = Shut(cs, p, {s[p]}), s' = [s EXCEPT ![p] = 0], pc' = [pc EXCEPT ![p] = "scan"],
         UNCHANGED <<backlog, fd, todo, child_fd, me>>
  PROVE  OInv'
<1>1. Typed /\ Wired(p) /\ \A k \in Conns : Ends(k)
  BY DEF OInv
<1>2. /\ conn' \in [Conns -> Connections \cup {NoConn}]
      /\ \A k \in Conns : Onward(k) /\ (k # s[p] => conn'[k] = cs[k])
      /\ \A q \in Procs \ {p} : KeepsAll(q)
  BY <1>1, Changing, SMTT(30)
<1>3. \A k \in Conns : k # s[p] => conn'[k] = conn[k]
  BY <1>2
<1>4. pc'[p] = "scan" /\ \A q \in Procs \ {p} : Idle(q)
  BY <1>1 DEF Typed, Idle
<1>5. Typed'
  <2>1. pc' \in [Procs -> {"start", "accept", "served", "gone"} \cup Probing \cup Settled]
    BY <1>1, StringSets DEF Typed
  <2>2. s' \in [Procs -> Nat]
    BY <1>1 DEF Typed
  <2> QED BY <1>1, <1>2, <2>1, <2>2, TypedAgain DEF Typed
<1>6. Faithful(p)
  BY <1>4, Tested DEF Faithful, kids, Asking
<1>7. Wired(p)'
  <2>1. Looking(p)'
    BY <1>1, <1>4, Tested, LookingStays DEF Wired, Asking
  <2>2. Client(p)'
    BY <1>4 DEF Client, Trying
  <2>3. Father(p)'
    BY <1>1, <1>3, Apart, KidsAre, KidsStay DEF Wired
  <2>4. Waiting(p)'
    BY <1>1, <1>3, Apart, WaitersAre, QueueStays DEF Wired
  <2>5. Child(p)'
    <3>1. CASE p[2] = Server
      BY <3>1 DEF Child, HasParent
    <3>2. CASE p[2] # Server
      <4>1. HasParent(p) /\ pc[p] \in Placed /\ pc'[p] \in Placed
        BY <1>4, <3>2, Tested DEF Placed
      <4>2. conn'[fd[p]] = conn[fd[p]]
        BY <1>3, <4>1, Apart
      <4> QED BY <1>1, <4>1, <4>2, ParentStays DEF Wired
    <3> QED BY <3>1, <3>2
  <2> QED BY <2>1, <2>2, <2>3, <2>4, <2>5 DEF Wired
<1> QED BY <1>2, <1>4, <1>5, <1>6, <1>7, Moved

LEMMA DropsChildStep ==
  ASSUME OInv, NEW p \in Procs, DropsChild(p)
  PROVE  OInv'
<1>1. Trying(p)
  BY DEF DropsChild, Trying
<1>2. /\ nprocs' = nprocs /\ conn' = Shut(conn, p, {s[p]}) /\ s' = [s EXCEPT ![p] = 0]
      /\ pc' = [pc EXCEPT ![p] = "scan"] /\ UNCHANGED <<backlog, fd, todo, child_fd, me>>
  BY DEF DropsChild, TestFailed
<1>3. conn \in [Conns -> Connections \cup {NoConn}]
  BY DEF OInv, Typed
<1>4. \A k \in Conns : Rewritten(conn, k, p) /\ (k # s[p] => conn[k] = conn[k])
  BY NothingRewritten
<1> QED BY <1>1, <1>2, <1>3, <1>4, TestFails

-----------------------------------------------------------------------------
(* The barrier: what is written in connections that have a rank disturbs nobody *)

LEMMA Written ==
  ASSUME OInv, NEW p \in Procs, nprocs' = nprocs, pc[p] \in Connected,
         conn' \in [Conns -> Connections \cup {NoConn}],
         \A k \in Conns : \/ conn'[k] = conn[k]
                          \/ /\ Live(k) /\ Named(k) /\ conn'[k] # NoConn
                             /\ conn'[k].from = conn[k].from /\ conn'[k].to = conn[k].to
                             /\ conn'[k].open = conn[k].open /\ conn'[k].table = conn[k].table,
         NEW w \in {"bcast", "open"}, pc' = [pc EXCEPT ![p] = w],
         UNCHANGED <<backlog, fd, s, todo, child_fd, me>>
  PROVE  OInv'
<1>1. Typed /\ Wired(p) /\ \A k \in Conns : Ends(k)
  BY DEF OInv
<1>2. ASSUME NEW q \in Procs, NEW k \in Conns, Live(k), q \in conn[k].open
      PROVE  Keeps(k, q)
  BY <1>2 DEF Keeps, Live, Named
<1>3. \A k \in Conns : Onward(k)
  BY <1>1 DEF Onward, Ends, Live, Named
<1>4. pc'[p] = w /\ \A q \in Procs \ {p} : Idle(q)
  BY <1>1 DEF Typed, Idle
<1>5. Typed'
  <2>1. pc' \in [Procs -> {"start", "accept", "served", "gone"} \cup Probing \cup Settled]
    BY <1>1, StringSets DEF Typed
  <2> QED BY <1>1, <2>1, TypedAgain DEF Typed
<1>6. Faithful(p)
  BY DEF Faithful, kids, Connected
<1>7. p[2] # Server /\ HasParent(p)
  BY IsDaemon DEF Asking, Connected
<1>8. Wired(p)'
  <2>1. Looking(p)'
    BY <1>1, <1>4, <1>7, LookingStays DEF Wired, Asking
  <2>2. Client(p)'
    BY <1>4 DEF Client, Trying
  <2>3. Father(p)'
    BY <1>1, <1>2, KidsAre, FatherStays DEF Wired, Father
  <2>4. Waiting(p)'
    BY <1>1, <1>2, WaitersAre, WaitingStays DEF Wired, Waiting
  <2>5. Child(p)'
    <3>1. /\ fd[p] \in Conns /\ Live(fd[p]) /\ conn[fd[p]].to = p /\ p \in conn[fd[p]].open
          /\ fd[p] \notin ToSet(backlog[p]) /\ Named(fd[p])
      BY <1>1, <1>7, StringSets DEF Wired, Child, Connected
    <3>2. Keeps(fd[p], p)
      BY <1>2, <3>1
    <3> QED BY <1>4, <3>1, <3>2 DEF Child, Keeps, Live
  <2> QED BY <2>1, <2>2, <2>3, <2>4, <2>5 DEF Wired
<1> QED BY <1>2, <1>3, <1>4, <1>5, <1>6, <1>8, Moved DEF KeepsAll

\* d is the connection c with other words under way
Like(d, c) == c \in Connections /\ d \in Connections /\ d.from = c.from /\ d.to = c.to
              /\ d.open = c.open /\ d.table = c.table

Fields == {"up", "down"}

LEMMA TellAt ==
  ASSUME NEW cs, NEW K, NEW field \in Fields,
         NEW w \in Words, NEW k \in Conns, NEW c, c = cs[k], NEW ds, ds = Tell(cs, K, field, w), NEW d, d = ds[k]
  PROVE  /\ k \notin K => d = c
         /\ k \in K /\ c \in Connections => Like(d, c)
<1>1. d = IF k \notin K THEN c
          ELSE IF field = "up" THEN [c EXCEPT !.up = Append(c.up, w)]
          ELSE [c EXCEPT !.down = Append(c.down, w)]
  BY DEF Tell, Conns
<1>2. ASSUME k \in K, c \in Connections
      PROVE  Like(d, c)
  <2>1. Append(c.up, w) \in Seq(Words) /\ Append(c.down, w) \in Seq(Words)
    BY <1>2 DEF Connections
  <2>2. CASE field = "up"
    BY <1>1, <1>2, <2>1, <2>2 DEF Connections, Like
  <2>3. CASE field = "down"
    <3>1. d = [c EXCEPT !.down = Append(c.down, w)]
      BY <1>1, <1>2, <2>3
    <3> QED BY <1>2, <2>1, <2>3, <3>1 DEF Connections, Like
  <2> QED BY <2>2, <2>3 DEF Fields
<1> QED BY <1>1, <1>2

LEMMA Telling ==
  ASSUME NEW cs \in [Conns -> Connections \cup {NoConn}], NEW K, NEW field \in Fields,
         NEW w \in Words, NEW ds, ds = Tell(cs, K, field, w),
         \A k \in K : k \in Conns => cs[k] \in Connections
  PROVE  /\ ds \in [Conns -> Connections \cup {NoConn}]
         /\ \A k \in Conns : (k \notin K /\ ds[k] = cs[k]) \/ (k \in K /\ Like(ds[k], cs[k]))
<1>1. ASSUME NEW k \in Conns
      PROVE  /\ ds[k] \in Connections \cup {NoConn}
             /\ (k \notin K /\ ds[k] = cs[k]) \/ (k \in K /\ Like(ds[k], cs[k]))
  <2> PICK c, d : c = cs[k] /\ d = ds[k]
    OBVIOUS
  <2>1. c \in Connections \cup {NoConn}
    OBVIOUS
  <2>2. /\ k \notin K => d = c
        /\ k \in K /\ c \in Connections => Like(d, c)
    BY TellAt
  <2>3. k \in K => c \in Connections
    OBVIOUS
  <2> QED BY <2>1, <2>2, <2>3 DEF Like
<1>2. ds = [k \in Conns |-> ds[k]]
  BY DEF Tell, Conns
<1> QED BY <1>1, <1>2

LEMMA LikeLike ==
  ASSUME NEW c, NEW d, NEW e, Like(d, c), Like(e, d) PROVE Like(e, c)
  BY DEF Like

LEMMA LikesWritten ==
  ASSUME OInv, NEW p \in Procs, nprocs' = nprocs, pc[p] \in Connected,
         conn' \in [Conns -> Connections \cup {NoConn}],
         \A k \in Conns : \/ conn'[k] = conn[k]
                          \/ Live(k) /\ Named(k) /\ Like(conn'[k], conn[k]),
         NEW w \in {"bcast", "open"}, pc' = [pc EXCEPT ![p] = w],
         UNCHANGED <<backlog, fd, s, todo, child_fd, me>>
  PROVE  OInv'
<1>1. \A k \in Conns : \/ conn'[k] = conn[k]
                       \/ /\ Live(k) /\ Named(k) /\ conn'[k] # NoConn
                          /\ conn'[k].from = conn[k].from /\ conn'[k].to = conn[k].to
                          /\ conn'[k].open = conn[k].open /\ conn'[k].table = conn[k].table
  BY NoConnection DEF Like
<1> QED BY <1>1, Written

\* the connections the barrier goes through
LEMMA Lined ==
  ASSUME OInv, NEW p \in Procs, pc[p] \in Connected
  PROVE  /\ p[2] # Server /\ HasParent(p) /\ fd[p] \in Conns /\ fd[p] \notin kids(p)
         /\ \A k \in kids(p) \cup {fd[p]} : k \in Conns /\ Live(k) /\ Named(k) /\ conn[k] \in Connections
<1>1. Typed /\ Wired(p)
  BY DEF OInv
<1>2. p[2] # Server /\ HasParent(p)
  BY IsDaemon DEF Asking, Connected
<1>3. fd[p] \in Conns /\ Live(fd[p]) /\ Named(fd[p])
  BY <1>1, <1>2, StringSets DEF Wired, Child, Connected
<1>4. \A k \in kids(p) : k \in Conns /\ Live(k) /\ Named(k)
  BY <1>1, KidsAre DEF Wired, Father
<1> QED BY <1>1, <1>2, <1>3, <1>4, Apart DEF Typed, Live

\* the values of the children are taken
HeardFrom(p) == [k \in 1 .. MaxConns |-> IF k \in kids(p) THEN [conn[k] EXCEPT !.up = Tail(@)] ELSE conn[k]]

LEMMA Hearing ==
  ASSUME OInv, NEW p \in Procs, pc[p] \in Connected, \A k \in kids(p) : conn[k].up # <<>>,
         NEW hs, hs = HeardFrom(p)
  PROVE  /\ hs \in [Conns -> Connections \cup {NoConn}]
         /\ \A k \in Conns : /\ k \notin kids(p) => hs[k] = conn[k]
                             /\ k \in kids(p) => /\ Like(hs[k], conn[k]) /\ hs[k].down = conn[k].down
                                                 /\ hs[k].up = Tail(conn[k].up)
<1>1. conn \in [Conns -> Connections \cup {NoConn}]
  BY DEF OInv, Typed
<1>2. ASSUME NEW k \in Conns
      PROVE  /\ hs[k] \in Connections \cup {NoConn}
             /\ k \notin kids(p) => hs[k] = conn[k]
             /\ k \in kids(p) => /\ Like(hs[k], conn[k]) /\ hs[k].down = conn[k].down
                                 /\ hs[k].up = Tail(conn[k].up)
  <2> PICK c, d : c = conn[k] /\ d = hs[k]
    OBVIOUS
  <2>1. d = IF k \in kids(p) THEN [c EXCEPT !.up = Tail(c.up)] ELSE c
    BY DEF HeardFrom, Conns
  <2>2. CASE k \notin kids(p)
    BY <1>1, <2>1, <2>2
  <2>3. CASE k \in kids(p)
    <3>1. c \in Connections /\ c.up # <<>>
      BY <2>3, Lined
    <3>2. Tail(c.up) \in Seq(Words)
      BY <3>1 DEF Connections
    <3>3. d \in Connections /\ d.from = c.from /\ d.to = c.to /\ d.open = c.open
          /\ d.table = c.table /\ d.down = c.down /\ d.up = Tail(c.up)
      BY <2>1, <2>3, <3>1, <3>2 DEF Connections
    <3> QED BY <2>3, <3>1, <3>3 DEF Like
  <2> QED BY <2>2, <2>3
<1>3. hs = [k \in Conns |-> hs[k]]
  BY DEF HeardFrom, Conns
<1> QED BY <1>2, <1>3

LEMMA ReduceStep ==
  ASSUME OInv, NEW p \in Procs, Reduce(p)
  PROVE  OInv'
<1> PICK hs : hs = HeardFrom(p)
  OBVIOUS
<1>1. /\ pc[p] = "reduce" /\ \A k \in kids(p) : conn[k].up # <<>>
      /\ UNCHANGED <<nprocs, backlog, fd, s, todo, child_fd, me>>
      /\ \/ conn' = Tell(hs, kids(p), "down", "go") /\ pc' = [pc EXCEPT ![p] = "open"]
         \/ conn' = Tell(hs, {fd[p]}, "up", "max") /\ pc' = [pc EXCEPT ![p] = "bcast"]
  BY DEF Reduce, HeardFrom
<1>2. pc[p] \in Connected
  BY <1>1 DEF Connected
<1>3. \A k \in kids(p) \cup {fd[p]} : k \in Conns /\ Live(k) /\ Named(k) /\ conn[k] \in Connections
  BY <1>2, Lined
<1>4. /\ hs \in [Conns -> Connections \cup {NoConn}]
      /\ \A k \in Conns : /\ k \notin kids(p) => hs[k] = conn[k]
                          /\ k \in kids(p) => Like(hs[k], conn[k])
  BY <1>1, <1>2, Hearing
<1>5. \A k \in kids(p) \cup {fd[p]} : k \in Conns => hs[k] \in Connections
  BY <1>3, <1>4 DEF Like
<1>6. ASSUME NEW K, K \subseteq kids(p) \cup {fd[p]},
             NEW field \in Fields, NEW v \in Words, conn' = Tell(hs, K, field, v)
      PROVE  /\ conn' \in [Conns -> Connections \cup {NoConn}]
             /\ \A k \in Conns : \/ conn'[k] = conn[k]
                                 \/ Live(k) /\ Named(k) /\ Like(conn'[k], conn[k])
  <2>1. /\ conn' \in [Conns -> Connections \cup {NoConn}]
        /\ \A k \in Conns : \/ k \notin K /\ conn'[k] = hs[k]
                            \/ k \in K /\ Like(conn'[k], hs[k])
    <3>1. \A k \in K : k \in Conns => hs[k] \in Connections
      BY <1>5, <1>6
    <3> QED BY <1>4, <1>6, <3>1, Telling
  <2>2. ASSUME NEW k \in Conns
        PROVE  \/ conn'[k] = conn[k]
               \/ Live(k) /\ Named(k) /\ Like(conn'[k], conn[k])
    BY <1>3, <1>4, <1>6, <2>1, LikeLike
  <2> QED BY <2>1, <2>2
<1>7. "max" \in Words /\ "go" \in Words /\ "up" \in Fields /\ "down" \in Fields
  BY DEF Words, Fields
<1>8. CASE conn' = Tell(hs, kids(p), "down", "go") /\ pc' = [pc EXCEPT ![p] = "open"]
  <2>1. /\ conn' \in [Conns -> Connections \cup {NoConn}]
        /\ \A k \in Conns : \/ conn'[k] = conn[k]
                            \/ Live(k) /\ Named(k) /\ Like(conn'[k], conn[k])
    BY <1>6, <1>7, <1>8
  <2> QED BY <1>1, <1>2, <1>8, <2>1, LikesWritten
<1>9. CASE conn' = Tell(hs, {fd[p]}, "up", "max") /\ pc' = [pc EXCEPT ![p] = "bcast"]
  <2>1. /\ conn' \in [Conns -> Connections \cup {NoConn}]
        /\ \A k \in Conns : \/ conn'[k] = conn[k]
                            \/ Live(k) /\ Named(k) /\ Like(conn'[k], conn[k])
    BY <1>6, <1>7, <1>9
  <2> QED BY <1>1, <1>2, <1>9, <2>1, LikesWritten
<1> QED BY <1>1, <1>8, <1>9

LEMMA BcastStep ==
  ASSUME OInv, NEW p \in Procs, Bcast(p)
  PROVE  OInv'
<1> PICK cs : cs = WordRead(fd[p])
  OBVIOUS
<1>1. /\ pc[p] = "bcast" /\ conn[fd[p]].down # <<>> /\ conn' = Tell(cs, kids(p), "down", "go")
      /\ pc' = [pc EXCEPT ![p] = "open"] /\ UNCHANGED <<nprocs, backlog, fd, s, todo, child_fd, me>>
  BY DEF Bcast, WordRead
<1>2. pc[p] \in Connected
  BY <1>1 DEF Connected
<1>3. /\ fd[p] \in Conns
      /\ \A k \in kids(p) \cup {fd[p]} : k \in Conns /\ Live(k) /\ Named(k) /\ conn[k] \in Connections
  BY <1>2, Lined
<1>4. /\ cs \in [Conns -> Connections \cup {NoConn}]
      /\ \A k \in Conns : k # fd[p] => cs[k] = conn[k]
      /\ Like(cs[fd[p]], conn[fd[p]])
  <2>1. Typed /\ Live(fd[p])
    BY <1>3 DEF OInv
  <2> QED BY <1>1, <1>3, <2>1, OneWordRead DEF Like
<1>5. \A k \in kids(p) : k \in Conns => cs[k] \in Connections
  BY <1>3, <1>4 DEF Like
<1>6. "go" \in Words /\ "down" \in Fields
  BY DEF Words, Fields
<1>7. /\ conn' \in [Conns -> Connections \cup {NoConn}]
      /\ \A k \in Conns : \/ k \notin kids(p) /\ conn'[k] = cs[k]
                          \/ k \in kids(p) /\ Like(conn'[k], cs[k])
  <2>1. cs \in [Conns -> Connections \cup {NoConn}]
    BY <1>4
  <2>2. conn' = Tell(cs, kids(p), "down", "go")
    BY <1>1
  <2> QED BY <1>5, <1>6, <2>1, <2>2, Telling
<1>8. ASSUME NEW k \in Conns
      PROVE  \/ conn'[k] = conn[k]
             \/ Live(k) /\ Named(k) /\ Like(conn'[k], conn[k])
  BY <1>3, <1>4, <1>7, LikeLike
<1> QED BY <1>1, <1>2, <1>7, <1>8, LikesWritten

-----------------------------------------------------------------------------
(* The handshake *)

LEMMA MeetsNotWaiting ==
  ASSUME OInv, NEW k \in Conns, Live(k), Meet(k), NEW q \in Procs
  PROVE  k \notin ToSet(backlog[q])
<1> SUFFICES ASSUME k \in ToSet(backlog[q]) PROVE FALSE
  OBVIOUS
<1>1. conn[k].to = q /\ ~conn[k].met
  BY DEF OInv, Wired, Waiting
<1>2. pc[q] = "shake_server" /\ fd[q] = k
  BY <1>1 DEF Meet
<1>3. HasParent(q)
  BY <1>2, IsDaemon DEF Asking, Probing
<1> QED BY <1>2, <1>3, Apart

\* the handshake has begun to talk
Talked(k) == [conn EXCEPT ![k].met = TRUE]

LEMMA Talking ==
  ASSUME Typed, NEW k \in Conns, Live(k), NEW cs, cs = Talked(k)
  PROVE  /\ cs \in [Conns -> Connections \cup {NoConn}] /\ cs[k] \in Connections
         /\ \A y \in Conns : y # k => cs[y] = conn[y]
         /\ cs[k].from = conn[k].from /\ cs[k].to = conn[k].to /\ cs[k].open = conn[k].open
         /\ cs[k].table = conn[k].table /\ cs[k].up = conn[k].up /\ cs[k].down = conn[k].down
<1>1. conn \in [Conns -> Connections \cup {NoConn}]
  BY DEF Typed
<1> PICK c, d : c = conn[k] /\ d = cs[k]
  OBVIOUS
<1>2. c \in Connections
  BY <1>1 DEF Live
<1>3. d = [c EXCEPT !.met = TRUE]
  BY <1>1 DEF Talked
<1>4. /\ d \in Connections /\ d.from = c.from /\ d.to = c.to /\ d.open = c.open
      /\ d.table = c.table /\ d.up = c.up /\ d.down = c.down
  BY <1>2, <1>3 DEF Connections
<1>5. cs = [conn EXCEPT ![k] = d]
  BY <1>1, <1>3 DEF Talked
<1>6. cs \in [Conns -> Connections \cup {NoConn}] /\ \A y \in Conns : y # k => cs[y] = conn[y]
  BY <1>1, <1>4, <1>5
<1> QED BY <1>4, <1>6

LEMMA TalkingRewrites ==
  ASSUME OInv, NEW p \in Procs, NEW k \in Conns, Live(k), Meet(k), NEW cs, cs = Talked(k)
  PROVE  /\ cs \in [Conns -> Connections \cup {NoConn}]
         /\ \A y \in Conns : Rewritten(cs, y, p) /\ (y # k => cs[y] = conn[y])
<1>1. /\ cs \in [Conns -> Connections \cup {NoConn}] /\ cs[k] \in Connections
      /\ \A y \in Conns : y # k => cs[y] = conn[y]
      /\ cs[k].from = conn[k].from /\ cs[k].to = conn[k].to /\ cs[k].open = conn[k].open
      /\ cs[k].table = conn[k].table /\ cs[k].up = conn[k].up /\ cs[k].down = conn[k].down
  BY Talking DEF OInv
<1>2. \A q \in Procs : k \notin ToSet(backlog[q])
  BY MeetsNotWaiting
<1>3. ASSUME NEW y \in Conns
      PROVE  Rewritten(cs, y, p)
  <2>1. CASE y # k
    BY <1>1, <2>1 DEF Rewritten, Live
  <2>2. CASE y = k
    BY <1>1, <1>2, <2>2, NoConnection DEF Rewritten
  <2> QED BY <2>1, <2>2
<1> QED BY <1>1, <1>3

LEMMA InHand ==
  ASSUME OInv, NEW p \in Procs, Shaking(p)
  PROVE  LET k == Shaken(p) IN
         /\ k \in Conns /\ Live(k) /\ conn[k] \in Connections /\ p \in conn[k].open /\ ~Named(k)
         /\ pc[p] = "shake_client" => Trying(p) /\ k = s[p] /\ conn[k].up = <<>> /\ conn[k].down = <<>>
         /\ pc[p] = "shake_server" => /\ HasParent(p) /\ p[2] # Server /\ k = fd[p] /\ conn[k].up = <<>>
                                      /\ conn[k].down \in {<<>>, <<"ids">>}
<1>1. Typed /\ Client(p) /\ Child(p)
  BY DEF OInv, Wired
<1>2. CASE pc[p] = "shake_client"
  <2>1. Shaken(p) = s[p] /\ Trying(p) /\ pc[p] # "shake_server"
    BY <1>2 DEF Shaken, Trying
  <2>2. /\ s[p] \in Conns /\ Live(s[p]) /\ p \in conn[s[p]].open /\ ~Named(s[p])
        /\ conn[s[p]].up = <<>> /\ conn[s[p]].down = <<>>
    BY <1>1, <1>2, <2>1 DEF Client
  <2> QED BY <1>1, <1>2, <2>1, <2>2 DEF Typed, Live
<1>3. CASE pc[p] = "shake_server"
  <2>1. Shaken(p) = fd[p] /\ pc[p] # "shake_client"
    BY <1>3 DEF Shaken
  <2>2. HasParent(p) /\ p[2] # Server
    BY <1>3, IsDaemon DEF Asking, Probing
  <2>3. /\ fd[p] \in Conns /\ Live(fd[p]) /\ p \in conn[fd[p]].open /\ ~Named(fd[p])
        /\ conn[fd[p]].up = <<>> /\ conn[fd[p]].down \in {<<>>, <<"ids">>}
    BY <1>1, <1>3, <2>2 DEF Child
  <2> QED BY <1>1, <1>3, <2>1, <2>2, <2>3 DEF Typed, Live
<1> QED BY <1>2, <1>3 DEF Shaking

LEMMA ShakeDropsStep ==
  ASSUME OInv, NEW p \in Procs, ShakeDrops(p)
  PROVE  OInv'
<1> PICK k, cs : k = Shaken(p) /\ cs = Talked(k)
  OBVIOUS
<1>1. /\ Shaking(p) /\ Meet(k) /\ conn' = Shut(cs, p, {k})
      /\ UNCHANGED <<nprocs, backlog, todo, child_fd, me>>
      /\ \/ /\ pc[p] = "shake_client" /\ s' = [s EXCEPT ![p] = 0]
            /\ pc' = [pc EXCEPT ![p] = "scan"] /\ fd' = fd
         \/ /\ pc[p] = "shake_server" /\ fd' = [fd EXCEPT ![p] = 0]
            /\ pc' = [pc EXCEPT ![p] = "accept"] /\ s' = s
  BY DEF ShakeDrops, Talked
<1>2. /\ k \in Conns /\ Live(k)
      /\ pc[p] = "shake_client" => Trying(p) /\ k = s[p]
      /\ pc[p] = "shake_server" => k = fd[p]
  BY <1>1, InHand
<1>3. /\ cs \in [Conns -> Connections \cup {NoConn}]
      /\ \A y \in Conns : Rewritten(cs, y, p) /\ (y # k => cs[y] = conn[y])
  BY <1>1, <1>2, TalkingRewrites
<1>4. CASE pc[p] = "shake_client"
  <2>1. Trying(p) /\ k = s[p]
    BY <1>2, <1>4
  <2>2. s' = [s EXCEPT ![p] = 0] /\ pc' = [pc EXCEPT ![p] = "scan"] /\ fd' = fd
    BY <1>1, <1>4
  <2> QED BY <1>1, <1>3, <2>1, <2>2, TestFails
<1>5. CASE pc[p] = "shake_server"
  <2>1. k = fd[p] /\ pc[p] \in Probing
    BY <1>2, <1>5 DEF Probing
  <2>2. fd' = [fd EXCEPT ![p] = 0] /\ pc' = [pc EXCEPT ![p] = "accept"] /\ s' = s
    BY <1>1, <1>5
  <2> QED BY <1>1, <1>3, <2>1, <2>2, ParentFails
<1> QED BY <1>1, <1>4, <1>5

LEMMA PairMoved ==
  ASSUME OInv, NEW p \in Procs, NEW r \in Procs, nprocs' = nprocs, Typed',
         \A k \in Conns : Ends(k)' /\ Remembered(k)',
         \A q \in Procs \ {p, r} : Idle(q) /\ KeepsAll(q),
         Wired(p)', Wired(r)'
  PROVE  OInv'
<1>1. \A q \in Procs \ {p, r} : Wired(q)'
  BY IdleStaysWired DEF OInv
<1>2. Procs' = Procs /\ Conns' = Conns
  BY SameProcs DEF Conns
<1> QED BY <1>1, <1>2 DEF OInv

\* the daemon at the other end of connection k
LEMMA OtherStays ==
  ASSUME OInv, NEW r \in Procs, nprocs' = nprocs, pc'[r] = pc[r], s'[r] = s[r], todo'[r] = todo[r],
         child_fd'[r] = child_fd[r], me'[r] = me[r],
         NEW k \in Conns, \A y \in Conns : y # k => conn'[y] = conn[y],
         k \notin kids(r), Trying(r) => s[r] # k, Waiting(r)', Child(r)'
  PROVE  Wired(r)'
<1>1. Typed /\ Wired(r)
  BY DEF OInv
<1>2. Looking(r)'
  BY <1>1, LookingStays DEF Wired, Looking
<1>3. Father(r)'
  BY <1>1, KidsAre, KidsStay DEF Wired
<1>4. Client(r)'
  <2>1. ASSUME Trying(r)
        PROVE  Keeps(s[r], r)
    <3>1. s[r] \in Conns /\ Live(s[r]) /\ r \in conn[s[r]].open
      BY <2>1, Tested
    <3>2. conn'[s[r]] = conn[s[r]]
      BY <2>1, <3>1
    <3> QED BY <3>1, <3>2 DEF Keeps, Live, Named
  <2> QED BY <1>1, <2>1, ClientStays DEF Wired
<1> QED BY <1>2, <1>3, <1>4 DEF Wired

LEMMA SameParent ==
  ASSUME OInv, NEW r \in Procs, pc'[r] = pc[r], fd'[r] = fd[r],
         HasParent(r) => conn'[fd[r]] = conn[fd[r]] /\ fd[r] \notin ToSet(backlog'[r])
  PROVE  Child(r)'
<1> SUFFICES ASSUME HasParent(r)' PROVE Child(r)'
  BY DEF Child
<1>1. HasParent(r)
  BY DEF HasParent
<1>2. Child(r)
  BY DEF OInv, Wired
<1>3. conn'[fd[r]] = conn[fd[r]] /\ fd[r] \notin ToSet(backlog'[r])
  BY <1>1
<1> QED BY <1>1, <1>2, <1>3 DEF Child, Live, Named

\* a connection that others have nothing to do with
LEMMA NotOurs ==
  ASSUME OInv, NEW k \in Conns, Live(k), NEW q \in Procs, q \notin {conn[k].from, conn[k].to},
         \A y \in Conns : y # k => conn'[y] = conn[y]
  PROVE  KeepsAll(q)
<1> SUFFICES ASSUME NEW y \in Conns, Live(y), q \in conn[y].open
    PROVE  Keeps(y, q)
  BY DEF KeepsAll
<1>1. y # k
  BY DEF OInv, Ends
<1> QED BY <1>1 DEF Keeps, Live, Named

LEMMA ClientShakes ==
  ASSUME OInv, NEW p \in Procs, ShakeSucceeds(p), pc[p] = "shake_client"
  PROVE  OInv'
<1> PICK k, r : k = Shaken(p) /\ r = conn[k].to
  OBVIOUS
<1>1. /\ Shaking(p) /\ Meet(k) /\ pc' = [pc EXCEPT ![p] = "reply"]
      /\ conn' = [conn EXCEPT ![k].met = TRUE, ![k].down = <<"ids">>]
      /\ UNCHANGED <<nprocs, backlog, fd, s, todo, child_fd, me>>
  BY DEF ShakeSucceeds
<1>2. /\ k \in Conns /\ Live(k) /\ conn[k] \in Connections /\ p \in conn[k].open /\ ~Named(k)
      /\ Trying(p) /\ k = s[p] /\ conn[k].up = <<>> /\ conn[k].down = <<>>
  BY <1>1, InHand
<1>3. Typed /\ Wired(p) /\ \A y \in Conns : Ends(y) /\ Remembered(y)
  BY DEF OInv
<1>4. /\ conn[k].from = p /\ conn[k].to[2] = Head(todo[p]) /\ todo[p] # <<>>
      /\ r \in Procs /\ r # p
      /\ p[2] # Server => HasParent(p)
  <2>1. conn[k].from = p /\ conn[k].to[2] = Head(todo[p])
    BY <1>2, <1>3 DEF Wired, Client
  <2>2. r \in Ranks
    BY <1>2 DEF Connections
  <2>3. r # p
    BY <1>2, <1>3, <2>1 DEF Ends
  <2> QED BY <1>2, <2>1, <2>2, <2>3, Tested DEF Ranks
<1> PICK c, d : c = conn[k] /\ d = conn'[k]
  OBVIOUS
<1>5. /\ d \in Connections /\ d.from = c.from /\ d.to = c.to /\ d.open = c.open
      /\ d.table = c.table /\ d.up = c.up /\ d.down = <<"ids">>
  <2>1. d = [c EXCEPT !.met = TRUE, !.down = <<"ids">>]
    BY <1>1, <1>2, <1>3 DEF Typed
  <2>2. <<"ids">> \in Seq(Words)
    BY DEF Words
  <2> QED BY <1>2, <2>1, <2>2 DEF Connections
<1>6. /\ conn' \in [Conns -> Connections \cup {NoConn}]
      /\ \A y \in Conns : y # k => conn'[y] = conn[y]
  <2>1. conn \in [Conns -> Connections \cup {NoConn}]
    BY <1>3 DEF Typed
  <2>2. conn' = [conn EXCEPT ![k] = d]
    BY <1>1, <1>2, <2>1
  <2> QED BY <1>5, <2>1, <2>2
<1>7. pc'[p] = "reply" /\ \A q \in Procs \ {p} : Idle(q)
  BY <1>1, <1>3 DEF Typed, Idle
<1>8. Typed'
  <2>1. pc' \in [Procs -> {"start", "accept", "served", "gone"} \cup Probing \cup Settled]
    BY <1>1, <1>3, StringSets DEF Typed
  <2> QED BY <1>1, <1>3, <1>6, <2>1, TypedAgain DEF Typed
<1>9. \A y \in Conns : Ends(y)' /\ Remembered(y)'
  <2>1. \A y \in Conns : Onward(y)
    <3> SUFFICES ASSUME NEW y \in Conns PROVE Onward(y)
      OBVIOUS
    <3>1. CASE y = k
      BY <1>2, <1>3, <1>5, <3>1 DEF Onward, Ends, Live, Named
    <3>2. CASE y # k
      BY <1>3, <1>6, <3>2 DEF Onward, Ends, Live, Named
    <3> QED BY <3>1, <3>2
  <2>2. \A q \in Procs : Faithful(q)
    <3>1. Faithful(p)
      BY <1>1, <1>2 DEF Faithful, kids, Trying
    <3> QED BY <1>7, <3>1 DEF Faithful, Idle, kids
  <2> QED BY <1>3, <2>1, <2>2, OnwardStays
<1>10. \A q \in Procs \ {p, r} : Idle(q) /\ KeepsAll(q)
  <2>1. \A q \in Procs \ {p, r} : q \notin {conn[k].from, conn[k].to}
    BY <1>4
  <2> QED BY <1>2, <1>6, <1>7, <2>1, NotOurs
<1>11. Wired(p)'
  <2>1. Looking(p)'
    BY <1>1, <1>3, <1>4, <1>7, LookingStays DEF Wired, Looking, Asking
  <2>2. Client(p)'
    <3>1. /\ s'[p] = k /\ d # NoConn /\ d.from = p /\ p \in d.open /\ ~Named(k)'
          /\ d.to[2] = Head(todo'[p])
      BY <1>1, <1>2, <1>4, <1>5, NoConnection DEF Named
    <3> QED BY <1>2, <1>7, <3>1 DEF Client, Live
  <2>3. Father(p)'
    BY <1>1, <1>2, <1>3, <1>6, Apart, KidsAre, KidsStay DEF Wired
  <2>4. Waiting(p)'
    BY <1>1, <1>2, <1>3, <1>6, Apart, WaitersAre, QueueStays DEF Wired
  <2>5. Child(p)'
    <3>1. CASE p[2] = Server
      BY <3>1 DEF Child, HasParent
    <3>2. CASE p[2] # Server
      <4>1. HasParent(p) /\ pc[p] \in Placed /\ pc'[p] \in Placed
        BY <1>2, <1>4, <1>7, <3>2, Tested DEF Placed
      <4>2. conn'[fd[p]] = conn[fd[p]]
        BY <1>2, <1>6, <4>1, Apart
      <4> QED BY <1>1, <1>3, <4>1, <4>2, ParentStays DEF Wired
    <3> QED BY <3>1, <3>2
  <2> QED BY <2>1, <2>2, <2>3, <2>4, <2>5 DEF Wired
<1>12. Wired(r)'
  <2>1. /\ pc'[r] = pc[r] /\ s'[r] = s[r] /\ todo'[r] = todo[r] /\ child_fd'[r] = child_fd[r]
        /\ me'[r] = me[r] /\ fd'[r] = fd[r] /\ backlog'[r] = backlog[r]
    BY <1>4, <1>7 DEF Idle
  <2>2. Father(r) /\ Waiting(r) /\ Child(r)
    BY <1>4 DEF OInv, Wired
  <2>3. k \notin kids(r)
    BY <1>2, <2>2 DEF Father
  <2>4. Trying(r) => s[r] # k
    BY <1>4, Tested
  <2>5. Waiting(r)'
    <3>1. k \notin ToSet(backlog[r])
      BY <1>1, <1>2, <1>4, MeetsNotWaiting
    <3> QED BY <1>3, <1>4, <1>6, <2>1, <2>2, <3>1, WaitersAre, QueueStays
  <2>6. Child(r)'
    <3>1. CASE HasParent(r) /\ fd[r] = k
      <4>1. /\ k \notin ToSet(backlog'[r]) /\ pc[r] \in {"shake_server", "ids"} \cup {"ack"}
        BY <1>2, <2>1, <2>2, <3>1, StringSets DEF Child, HasParent, Probing
      <4>2. pc[r] # "ack"
        <5>1. pc[r] = "ack" => conn[k].up = <<"reply">>
          BY <1>2, <2>2, <3>1, Zenon DEF Child
        <5>2. <<>> # <<"reply">>
          BY SMTT(30)
        <5> QED BY <1>2, <5>1, <5>2, SMTT(30)
      <4>3. /\ d # NoConn /\ d.to = r /\ r \in d.open /\ ~Named(k)' /\ d.up = <<>> /\ d.down = <<"ids">>
        BY <1>2, <1>4, <1>5, <2>2, <3>1, NoConnection, Zenon DEF Named, Child
      <4> QED BY <1>2, <2>1, <3>1, <4>1, <4>2, <4>3, StringSets, ZenonT(60) DEF Child, Live
    <3>2. CASE ~(HasParent(r) /\ fd[r] = k)
      <4>1. HasParent(r) => conn'[fd[r]] = conn[fd[r]] /\ fd[r] \notin ToSet(backlog'[r])
        BY <1>4, <1>6, <2>1, <3>2, Apart
      <4> QED BY <1>4, <2>1, <4>1, SameParent
    <3> QED BY <3>1, <3>2, SMTT(30)
  <2> QED BY <1>1, <1>2, <1>4, <1>6, <2>1, <2>3, <2>4, <2>5, <2>6, OtherStays
<1> QED BY <1>1, <1>4, <1>8, <1>9, <1>10, <1>11, <1>12, PairMoved

LEMMA ServerShakes ==
  ASSUME OInv, NEW p \in Procs, ShakeSucceeds(p), pc[p] = "shake_server"
  PROVE  OInv'
<1> PICK k, cs : k = Shaken(p) /\ cs = Talked(k)
  OBVIOUS
<1>1. /\ Shaking(p) /\ Meet(k) /\ pc' = [pc EXCEPT ![p] = "ids"]
      /\ conn' = [conn EXCEPT ![k].met = TRUE, ![k].down = @]
      /\ UNCHANGED <<nprocs, backlog, fd, s, todo, child_fd, me>>
  BY DEF ShakeSucceeds
<1>2. /\ k \in Conns /\ Live(k) /\ conn[k] \in Connections /\ p \in conn[k].open /\ ~Named(k)
      /\ HasParent(p) /\ p[2] # Server /\ k = fd[p] /\ conn[k].up = <<>>
      /\ conn[k].down \in {<<>>, <<"ids">>}
  BY <1>1, InHand
<1>3. Typed /\ Wired(p) /\ \A y \in Conns : Ends(y)
  BY DEF OInv
<1>4. /\ cs \in [Conns -> Connections \cup {NoConn}] /\ cs[k] \in Connections
      /\ \A y \in Conns : y # k => cs[y] = conn[y]
      /\ cs[k].from = conn[k].from /\ cs[k].to = conn[k].to /\ cs[k].open = conn[k].open
      /\ cs[k].table = conn[k].table /\ cs[k].up = conn[k].up /\ cs[k].down = conn[k].down
  BY <1>2, <1>3, Talking
<1>5. conn' = cs
  <2> PICK c : c = conn[k]
    OBVIOUS
  <2>1. c \in Connections /\ conn \in [Conns -> Connections \cup {NoConn}]
    BY <1>2, <1>3 DEF Typed
  <2>2. [c EXCEPT !.met = TRUE, !.down = c.down] = [c EXCEPT !.met = TRUE]
    BY <2>1 DEF Connections
  <2>3. conn' = [conn EXCEPT ![k] = [c EXCEPT !.met = TRUE, !.down = c.down]]
    BY <1>1, <1>2, <2>1
  <2>4. cs = [conn EXCEPT ![k] = [c EXCEPT !.met = TRUE]]
    BY <1>2, <2>1 DEF Talked
  <2> QED BY <2>2, <2>3, <2>4
<1>6. /\ conn' \in [Conns -> Connections \cup {NoConn}]
      /\ \A y \in Conns : Onward(y)
      /\ \A q \in Procs \ {p} : KeepsAll(q)
  <2>1. \A y \in Conns : Rewritten(cs, y, p)
    BY <1>1, <1>2, TalkingRewrites
  <2>2. conn' = Shut(cs, p, {})
    BY <1>4, <1>5, NothingShut
  <2> QED BY <1>1, <1>3, <1>4, <2>1, <2>2, Changing
<1>7. pc'[p] = "ids" /\ \A q \in Procs \ {p} : Idle(q)
  BY <1>1, <1>3 DEF Typed, Idle
<1>8. Typed'
  <2>1. pc' \in [Procs -> {"start", "accept", "served", "gone"} \cup Probing \cup Settled]
    BY <1>1, <1>3, StringSets DEF Typed
  <2> QED BY <1>1, <1>3, <1>6, <2>1, TypedAgain DEF Typed
<1>9. Faithful(p)
  BY <1>1 DEF Faithful, kids
<1>10. Wired(p)'
  <2>1. Looking(p)'
    BY <1>1, <1>2, <1>3, <1>7, LookingStays DEF Wired, Asking
  <2>2. Client(p)'
    BY <1>7 DEF Client, Trying
  <2>3. Father(p)'
    BY <1>1, <1>2, <1>3, <1>4, <1>5, Apart, KidsAre, KidsStay DEF Wired
  <2>4. Waiting(p)'
    BY <1>1, <1>2, <1>3, <1>4, <1>5, Apart, WaitersAre, QueueStays DEF Wired
  <2>5. Child(p)'
    <3>1. conn[k].to = p /\ k \notin ToSet(backlog[p])
      BY <1>2, <1>3 DEF Wired, Child
    <3> PICK d : d = conn'[k]
      OBVIOUS
    <3>2. /\ d # NoConn /\ d.to = p /\ p \in d.open /\ ~Named(k)' /\ d.up = <<>>
          /\ d.down \in {<<>>, <<"ids">>} /\ fd'[p] = k /\ k \notin ToSet(backlog'[p])
      BY <1>1, <1>2, <1>4, <1>5, <3>1, NoConnection DEF Named
    <3> QED BY <1>2, <1>7, <3>2, StringSets DEF Child, Live
  <2> QED BY <2>1, <2>2, <2>3, <2>4, <2>5 DEF Wired
<1> QED BY <1>1, <1>6, <1>7, <1>8, <1>9, <1>10, Moved

LEMMA QueueGrows ==
  ASSUME NEW q \in Seq(Conns), NEW k \in Conns
  PROVE  /\ Append(q, k) \in Seq(Conns) /\ ToSet(Append(q, k)) = ToSet(q) \cup {k}
         /\ IsInjective(q) /\ k \notin ToSet(q) => IsInjective(Append(q, k))
<1>1. /\ Len(q) \in Nat /\ DOMAIN q = 1 .. Len(q) /\ Append(q, k) \in Seq(Conns)
      /\ DOMAIN Append(q, k) = 1 .. Len(q) + 1 /\ Append(q, k)[Len(q) + 1] = k
      /\ \A n \in 1 .. Len(q) : Append(q, k)[n] = q[n]
  OBVIOUS
<1> PICK t, l : t = Append(q, k) /\ l = Len(q)
  OBVIOUS
<1>2. /\ l \in Nat /\ DOMAIN q = 1 .. l /\ DOMAIN t = 1 .. l + 1 /\ t[l + 1] = k
      /\ \A n \in 1 .. l : t[n] = q[n]
  BY <1>1
<1>3. \A x : x \in ToSet(t) <=> x \in ToSet(q) \/ x = k
  <2>1. \A n \in 1 .. l + 1 : n \in 1 .. l \/ n = l + 1
    BY <1>2
  <2>2. \A n \in 1 .. l : n \in 1 .. l + 1
    BY <1>2
  <2>3. l + 1 \in 1 .. l + 1
    BY <1>2
  <2> QED BY <1>2, <2>1, <2>2, <2>3 DEF ToSet
<1>4. ASSUME IsInjective(q), k \notin ToSet(q)
      PROVE  IsInjective(t)
  <2>1. \A n \in 1 .. l : q[n] # k
    BY <1>2, <1>4 DEF ToSet
  <2>2. \A a, b \in 1 .. l : q[a] = q[b] => a = b
    BY <1>2, <1>4 DEF IsInjective
  <2>3. \A a, b \in 1 .. l + 1 : t[a] = t[b] => a = b
    BY <1>2, <2>1, <2>2
  <2> QED BY <1>2, <2>3 DEF IsInjective
<1> QED BY <1>1, <1>3, <1>4

LEMMA TodoTail ==
  ASSUME NEW q \in Seq(Int), q # <<>>
  PROVE  /\ Head(q) = q[1] /\ Head(q) \in Int /\ Tail(q) \in Seq(Int) /\ 1 \in 1 .. Len(q)
         /\ \A n \in 1 .. Len(Tail(q)) : n + 1 \in 1 .. Len(q) /\ Tail(q)[n] = q[n + 1]
  OBVIOUS

LEMMA ReadReplyStep ==
  ASSUME OInv, NEW p \in Procs, ReadReply(p)
  PROVE  OInv'
<1> PICK k, r : k = s[p] /\ r = conn[k].to
  OBVIOUS
<1> PICK t, n : t = <<me[p][1], Head(todo[p])>> /\ n = Tail(todo[p])
  OBVIOUS
<1>1. /\ pc[p] = "reply" /\ conn[k].up # <<>> /\ pc' = [pc EXCEPT ![p] = AfterChild(p, n)]
      /\ conn' = [conn EXCEPT ![k].up = Tail(@), ![k].down = @ \o <<"ack", "hostlist">>, ![k].table = t]
      /\ child_fd' = [child_fd EXCEPT ![p] = Append(@, k)] /\ todo' = [todo EXCEPT ![p] = n]
      /\ s' = [s EXCEPT ![p] = 0] /\ UNCHANGED <<nprocs, backlog, fd, me>>
  BY DEF ReadReply
<1>2. Trying(p) /\ Typed /\ Wired(p) /\ \A y \in Conns : Ends(y) /\ Remembered(y)
  BY <1>1 DEF OInv, Trying
<1>3. /\ k \in Conns /\ Live(k) /\ conn[k] \in Connections /\ conn[k].from = p /\ p \in conn[k].open
      /\ ~Named(k) /\ todo[p] # <<>>
      /\ k \notin kids(p) /\ k \notin ToSet(backlog[p])
  BY <1>2, Tested, Apart
<1>4. p[2] # Server => HasParent(p)
  BY <1>2, Tested
<1>5. r \in Procs /\ r # p
  <2>1. r \in Ranks
    BY <1>3 DEF Connections
  <2> QED BY <1>2, <1>3, <2>1 DEF Ends, Ranks
<1>6. /\ t \in Ranks /\ n \in Seq(Int) /\ \A x \in 1 .. Len(n) : <<me[p][1], n[x]>> \in Ranks
  <2> PICK q : q = todo[p]
    OBVIOUS
  <2>1. q \in Seq(Int) /\ q # <<>> /\ \A x \in 1 .. Len(q) : <<me[p][1], q[x]>> \in Ranks
    BY <1>2, <1>3 DEF Typed, Wired, Looking
  <2>2. /\ Head(q) = q[1] /\ Tail(q) \in Seq(Int) /\ 1 \in 1 .. Len(q)
        /\ \A x \in 1 .. Len(Tail(q)) : x + 1 \in 1 .. Len(q) /\ Tail(q)[x] = q[x + 1]
    BY <2>1, TodoTail
  <2>3. n = Tail(q) /\ t = <<me[p][1], Head(q)>>
    OBVIOUS
  <2> HIDE <2>3
  <2>4. <<me[p][1], q[1]>> \in Ranks
    BY <2>1, <2>2
  <2>5. \A x \in 1 .. Len(Tail(q)) : <<me[p][1], Tail(q)[x]>> \in Ranks
    BY <2>1, <2>2
  <2> QED BY <2>2, <2>3, <2>4, <2>5
<1>7. t # NoTable
  <2>1. t[1] \in Jobs
    BY <1>2, <1>6, RanksAre
  <2> QED BY <2>1 DEF Jobs, NoTable
<1> PICK c, d : c = conn[k] /\ d = conn'[k]
  OBVIOUS
<1>8. /\ d \in Connections /\ d.from = c.from /\ d.to = c.to /\ d.open = c.open /\ d.table = t
  <2> PICK w, v : w = c.down \o <<"ack", "hostlist">> /\ v = Tail(c.up)
    OBVIOUS
  <2>1. d = [c EXCEPT !.up = v, !.down = w, !.table = t]
    BY <1>1, <1>2, <1>3 DEF Typed
  <2>2. c.down \in Seq(Words) /\ c.up \in Seq(Words) /\ c.up # <<>>
    BY <1>1, <1>3 DEF Connections
  <2>3. <<"ack", "hostlist">> \in Seq(Words)
    BY DEF Words
  <2>4. w \in Seq(Words) /\ v \in Seq(Words)
    BY <2>2, <2>3
  <2>5. c \in Connections
    BY <1>3
  <2> QED BY <1>6, <2>1, <2>4, <2>5 DEF Connections
<1>9. /\ conn' \in [Conns -> Connections \cup {NoConn}]
      /\ \A y \in Conns : y # k => conn'[y] = conn[y]
  <2>1. conn \in [Conns -> Connections \cup {NoConn}]
    BY <1>2 DEF Typed
  <2>2. conn' = [conn EXCEPT ![k] = d]
    BY <1>1, <1>3, <2>1
  <2> QED BY <1>8, <2>1, <2>2
<1>10. child_fd[p] \in Seq(Conns) /\ Append(child_fd[p], k) \in Seq(Conns) /\ kids(p)' = kids(p) \cup {k}
  <2>1. child_fd[p] \in Seq(Conns) /\ child_fd'[p] = Append(child_fd[p], k)
    BY <1>1, <1>2 DEF Typed
  <2> QED BY <1>3, <2>1, QueueGrows DEF kids
<1>11. /\ pc'[p] = AfterChild(p, n) /\ todo'[p] = n
       /\ \A q \in Procs \ {p} : Idle(q)
  BY <1>1, <1>2 DEF Typed, Idle
<1>12. /\ n # <<>> => AfterChild(p, n) = "scan"
       /\ n = <<>> /\ p[2] = Server => AfterChild(p, n) = "served"
       /\ n = <<>> /\ p[2] # Server => AfterChild(p, n) = "reduce"
  BY DEF AfterChild
<1>13. Typed'
  <2>1. pc' \in [Procs -> {"start", "accept", "served", "gone"} \cup Probing \cup Settled]
    BY <1>1, <1>2, <1>12, StringSets DEF Typed
  <2>2. s' \in [Procs -> Nat] /\ todo' \in [Procs -> Seq(Int)] /\ child_fd' \in [Procs -> Seq(Conns)]
    BY <1>1, <1>2, <1>6, <1>10 DEF Typed
  <2> QED BY <1>1, <1>2, <1>9, <2>1, <2>2, TypedAgain DEF Typed
<1>14. \A y \in Conns : Ends(y)' /\ Remembered(y)'
  <2> SUFFICES ASSUME NEW y \in Conns PROVE Ends(y)' /\ Remembered(y)'
    OBVIOUS
  <2>1. CASE y = k
    <3>1. Ends(k)'
      BY <1>2, <1>3, <1>8, NoConnection DEF Ends, Live
    <3>2. conn'[k].from = p
      BY <1>3, <1>8
    <3>3. k \in ToSet(child_fd'[p])
      BY <1>10 DEF kids
    <3>4. Remembered(k)'
      BY <3>2, <3>3 DEF Remembered, kids
    <3> QED BY <2>1, <3>1, <3>4
  <2>2. CASE y # k
    <3>1. Onward(y)
      BY <1>2, <1>9, <2>2 DEF Onward, Ends, Live, Named
    <3>2. \A q \in Procs : Faithful(q)
      <4>1. Faithful(p)
        BY <1>1, <1>10 DEF Faithful
      <4> QED BY <1>11, <4>1 DEF Faithful, Idle, kids
    <3> QED BY <1>2, <3>1, <3>2, OnwardStays
  <2> QED BY <2>1, <2>2
<1>15. \A q \in Procs \ {p, r} : Idle(q) /\ KeepsAll(q)
  <2>1. \A q \in Procs \ {p, r} : q \notin {conn[k].from, conn[k].to}
    BY <1>3
  <2> QED BY <1>3, <1>9, <1>11, <2>1, NotOurs
<1>16. Wired(p)'
  <2>1. Looking(p)'
    <3>1. Ranks' = Ranks /\ me' = me
      BY <1>1, SameProcs
    <3>2. p[2] = Server => pc'[p] \in {"scan", "served"}
      BY <1>11, <1>12
    <3>3. pc'[p] \in Asking => todo'[p] # <<>>
      BY <1>11, <1>12 DEF Asking
    <3>4. \A x \in 1 .. Len(todo'[p]) : <<me'[p][1], todo'[p][x]>> \in Ranks
      BY <1>6, <1>11, <3>1
    <3> QED BY <3>1, <3>2, <3>3, <3>4 DEF Looking, Asking
  <2>2. Client(p)'
    BY <1>11, <1>12 DEF Client, Trying
  <2>3. Father(p)'
    <3>1. ASSUME NEW y \in kids(p)'
          PROVE  conn'[y] # NoConn /\ conn'[y].from = p /\ p \in conn'[y].open /\ Named(y)'
      <4>1. CASE y = k
        BY <1>3, <1>7, <1>8, <4>1, NoConnection DEF Named
      <4>2. CASE y # k
        <5>1. y \in kids(p)
          BY <1>10, <3>1, <4>2
        <5>2. y \in Conns /\ Live(y) /\ conn[y].from = p /\ p \in conn[y].open /\ Named(y)
          BY <1>2, <5>1, KidsAre DEF Wired, Father
        <5> QED BY <1>9, <4>2, <5>2 DEF Live, Named
      <4> QED BY <4>1, <4>2
    <3> QED BY <3>1 DEF Father, Live, kids
  <2>4. Waiting(p)'
    BY <1>1, <1>2, <1>3, <1>9, WaitersAre, QueueStays DEF Wired
  <2>5. Child(p)'
    <3>1. CASE p[2] = Server
      BY <3>1 DEF Child, HasParent
    <3>2. CASE p[2] # Server
      <4>1. HasParent(p) /\ pc[p] \in Placed /\ pc'[p] \in Placed
        BY <1>1, <1>4, <1>11, <1>12, <3>2 DEF Placed, Connected
      <4>2. conn'[fd[p]] = conn[fd[p]]
        BY <1>2, <1>9, <4>1, Apart, SMTT(30)
      <4> QED BY <1>1, <1>2, <4>1, <4>2, ParentStays DEF Wired
    <3> QED BY <3>1, <3>2
  <2> QED BY <2>1, <2>2, <2>3, <2>4, <2>5 DEF Wired
<1>17. Wired(r)'
  <2>1. /\ pc'[r] = pc[r] /\ s'[r] = s[r] /\ todo'[r] = todo[r] /\ child_fd'[r] = child_fd[r]
        /\ me'[r] = me[r] /\ fd'[r] = fd[r] /\ backlog'[r] = backlog[r]
    BY <1>5, <1>11 DEF Idle
  <2>2. Father(r) /\ Waiting(r) /\ Child(r)
    BY <1>5 DEF OInv, Wired
  <2>3. k \notin kids(r)
    BY <1>3, <2>2 DEF Father
  <2>4. Trying(r) => s[r] # k
    BY <1>3, <1>5, Tested
  <2>5. Waiting(r)'
    <3>1. k \notin ToSet(backlog[r])
      BY <1>1, <2>2 DEF Waiting
    <3> QED BY <1>2, <1>5, <1>9, <2>1, <2>2, <3>1, WaitersAre, QueueStays
  <2>6. Child(r)'
    <3>1. CASE HasParent(r) /\ fd[r] = k
      <4>1. /\ k \notin ToSet(backlog'[r]) /\ pc[r] \notin {"shake_server", "ids"}
        BY <1>1, <2>1, <2>2, <3>1 DEF Child
      <4>2. d # NoConn /\ d.to = r /\ r \in d.open /\ Named(k)'
        BY <1>7, <1>8, <2>2, <3>1, NoConnection DEF Named, Child
      <4> QED BY <1>3, <2>1, <3>1, <4>1, <4>2, SMTT(30) DEF Child, Live
    <3>2. CASE ~(HasParent(r) /\ fd[r] = k)
      <4>1. HasParent(r) => conn'[fd[r]] = conn[fd[r]] /\ fd[r] \notin ToSet(backlog'[r])
        BY <1>5, <1>9, <2>1, <3>2, Apart
      <4> QED BY <1>5, <2>1, <4>1, SameParent
    <3> QED BY <3>1, <3>2
  <2> QED BY <1>1, <1>3, <1>5, <1>9, <2>1, <2>3, <2>4, <2>5, <2>6, OtherStays
<1> QED BY <1>1, <1>5, <1>13, <1>14, <1>15, <1>16, <1>17, PairMoved

\* c is a connection as p has made it to q
Fresh(c, p, q) == /\ c \in Connections /\ c.from = p /\ c.to = q /\ c.open = {p, q} /\ c.met = FALSE
                  /\ c.up = <<>> /\ c.down = <<>> /\ c.table = NoTable

LEMMA NewIsFresh ==
  ASSUME NEW p \in Procs, NEW q \in Ranks
  PROVE  Fresh(NewConn(p, q), p, q)
<1>1. <<>> \in Seq(Words) /\ q \in Procs
  BY DEF Ranks
<1> QED BY <1>1 DEF NewConn, Connections, NoTable, Fresh

\* p has connected to r, and waits in its queue
LEMMA Connects ==
  ASSUME OInv, NEW p \in Procs, NEW r \in Procs, NEW k \in Free, pc[p] = "scan",
         r[2] = Head(todo[p]), Listening(r), nprocs' = nprocs,
         conn' = [conn EXCEPT ![k] = NewConn(p, r)],
         backlog' = [backlog EXCEPT ![r] = Append(@, k)],
         s' = [s EXCEPT ![p] = k], pc' = [pc EXCEPT ![p] = "shake_client"],
         UNCHANGED <<fd, todo, child_fd, me>>
  PROVE  OInv'
<1>2. Typed /\ Wired(p) /\ Wired(r) /\ \A y \in Conns : Ends(y) /\ Remembered(y)
  BY DEF OInv
<1>3. k \in Conns /\ ~Live(k)
  <2>1. k \in Conns /\ conn[k].open = {}
    BY DEF Free, Conns
  <2> QED BY <1>2, <2>1 DEF Ends
<1>4. r # p /\ r \in Ranks
  <2>1. r # p
    BY DEF Listening
  <2>2. todo[p] # <<>> /\ \A x \in 1 .. Len(todo[p]) : <<me[p][1], todo[p][x]>> \in Ranks
    BY <1>2 DEF Wired, Looking, Asking
  <2>3. Head(todo[p]) = todo[p][1] /\ 1 \in 1 .. Len(todo[p])
    <3>1. todo[p] \in Seq(Int)
      BY <1>2 DEF Typed
    <3> QED BY <2>2, <3>1, TodoTail
  <2>4. <<me[p][1], r[2]>> \in Ranks
    BY <2>2, <2>3
  <2> QED BY <2>1, <2>4 DEF Ranks
<1> PICK d : d = NewConn(p, r)
  OBVIOUS
<1>5. /\ d \in Connections /\ d # NoConn /\ d.from = p /\ d.to = r /\ d.open = {p, r}
      /\ d.met = FALSE /\ d.up = <<>> /\ d.down = <<>> /\ d.table = NoTable
  <2>1. Fresh(d, p, r)
    BY <1>4, NewIsFresh
  <2> QED BY <2>1, NoConnection DEF Fresh
<1>6. /\ conn' \in [Conns -> Connections \cup {NoConn}] /\ conn'[k] = d
      /\ \A y \in Conns : y # k => conn'[y] = conn[y]
  <2>1. conn \in [Conns -> Connections \cup {NoConn}]
    BY <1>2 DEF Typed
  <2>2. conn' = [conn EXCEPT ![k] = d]
    OBVIOUS
  <2> QED BY <1>3, <1>5, <2>1, <2>2
<1>7. /\ backlog[r] \in Seq(Conns) /\ backlog'[r] = Append(backlog[r], k)
      /\ backlog'[r] \in Seq(Conns) /\ ToSet(backlog'[r]) = ToSet(backlog[r]) \cup {k}
      /\ IsInjective(backlog[r]) /\ k \notin ToSet(backlog[r]) => IsInjective(backlog'[r])
  <2>1. backlog[r] \in Seq(Conns) /\ backlog'[r] = Append(backlog[r], k)
    BY <1>2 DEF Typed
  <2> QED BY <1>3, <2>1, QueueGrows
<1>8. /\ pc'[p] = "shake_client" /\ s'[p] = k
      /\ \A q \in Procs : /\ q # p => pc'[q] = pc[q] /\ s'[q] = s[q]
                          /\ q # r => backlog'[q] = backlog[q]
                          /\ fd'[q] = fd[q] /\ todo'[q] = todo[q] /\ child_fd'[q] = child_fd[q]
                          /\ me'[q] = me[q]
  BY <1>2 DEF Typed
<1>9. Typed'
  <2>1. pc' \in [Procs -> {"start", "accept", "served", "gone"} \cup Probing \cup Settled]
    BY <1>2, StringSets DEF Typed
  <2>2. k \in Nat
    BY <1>3 DEF Conns
  <2>3. s' \in [Procs -> Nat] /\ backlog' \in [Procs -> Seq(Conns)]
    BY <1>2, <1>7, <2>2 DEF Typed
  <2> QED BY <1>2, <1>6, <2>1, <2>3, TypedAgain DEF Typed
<1>10. \A y \in Conns : Ends(y)' /\ Remembered(y)'
  <2> SUFFICES ASSUME NEW y \in Conns PROVE Ends(y)' /\ Remembered(y)'
    OBVIOUS
  <2>1. CASE y = k
    BY <1>4, <1>5, <1>6, <2>1 DEF Ends, Remembered, Live, Named
  <2>2. CASE y # k
    <3>1. Onward(y)
      BY <1>2, <1>6, <2>2 DEF Onward, Ends, Live, Named
    <3>2. \A q \in Procs : Faithful(q)
      BY <1>8 DEF Faithful, kids
    <3> QED BY <1>2, <3>1, <3>2, OnwardStays
  <2> QED BY <2>1, <2>2
<1>11. ASSUME NEW q \in Procs
       PROVE  KeepsAll(q)
  <2> SUFFICES ASSUME NEW y \in Conns, Live(y) PROVE Keeps(y, q) \/ q \notin conn[y].open
    BY DEF KeepsAll
  <2>1. conn'[y] = conn[y]
    BY <1>3, <1>6
  <2> QED BY <2>1 DEF Keeps, Live, Named
<1>12. \A q \in Procs \ {p, r} : Idle(q) /\ KeepsAll(q)
  BY <1>8, <1>11 DEF Idle
<1>13. \A q \in Procs : /\ k \notin kids(q) /\ k \notin ToSet(backlog[q])
                        /\ HasParent(q) => fd[q] # k /\ fd[q] \in Conns
                        /\ Trying(q) => s[q] # k
  BY <1>3 DEF OInv, Wired, Father, Waiting, Child, Client
<1>14. Wired(p)'
  <2>1. Looking(p)'
    BY <1>2, <1>8, LookingStays DEF Wired, Looking, Asking
  <2>2. Client(p)'
    <3>1. ~Named(k)'
      BY <1>5, <1>6 DEF Named
    <3>2. d.to[2] = Head(todo'[p])
      BY <1>5
    <3> QED BY <1>3, <1>5, <1>6, <1>8, <3>1, <3>2 DEF Client, Live
  <2>3. Father(p)'
    BY <1>2, <1>6, <1>13, KidsAre, KidsStay DEF Wired
  <2>4. Waiting(p)'
    BY <1>2, <1>4, <1>6, <1>8, <1>13, WaitersAre, QueueStays DEF Wired
  <2>5. Child(p)'
    <3>1. CASE p[2] = Server
      BY <3>1 DEF Child, HasParent
    <3>2. CASE p[2] # Server
      <4>1. HasParent(p) /\ pc[p] \in Placed /\ pc'[p] \in Placed
        BY <1>8, <3>2 DEF Placed, HasParent, Settled
      <4>2. conn'[fd[p]] = conn[fd[p]]
        BY <1>6, <1>13, <4>1
      <4>3. backlog'[p] = backlog[p] /\ fd'[p] = fd[p]
        BY <1>4, <1>8
      <4> QED BY <1>2, <4>1, <4>2, <4>3, ParentStays DEF Wired
    <3> QED BY <3>1, <3>2
  <2> QED BY <2>1, <2>2, <2>3, <2>4, <2>5 DEF Wired
<1>15. Wired(r)'
  <2>1. /\ pc'[r] = pc[r] /\ s'[r] = s[r] /\ todo'[r] = todo[r] /\ child_fd'[r] = child_fd[r]
        /\ me'[r] = me[r] /\ fd'[r] = fd[r]
    BY <1>4, <1>8
  <2>2. Waiting(r)'
    <3>1. Waiting(r)
      BY <1>2 DEF Wired
    <3>2. IsInjective(backlog'[r])
      BY <1>7, <1>13, <3>1 DEF Waiting
    <3>3. ASSUME NEW y \in ToSet(backlog'[r])
          PROVE  /\ conn'[y] # NoConn /\ conn'[y].to = r /\ r \in conn'[y].open /\ ~Named(y)'
                 /\ ~conn'[y].met /\ conn'[y].up = <<>> /\ conn'[y].down = <<>>
      <4>1. CASE y = k
        BY <1>5, <1>6, <4>1 DEF Named
      <4>2. CASE y # k
        <5>1. y \in ToSet(backlog[r])
          BY <1>7, <3>3, <4>2
        <5>2. y \in Conns
          BY <1>2, <5>1, WaitersAre
        <5> QED BY <1>6, <3>1, <4>2, <5>1, <5>2 DEF Waiting, Live, Named
      <4> QED BY <4>1, <4>2
    <3> QED BY <3>2, <3>3 DEF Waiting, Live
  <2>3. Child(r)'
    <3>1. HasParent(r) => conn'[fd[r]] = conn[fd[r]] /\ fd[r] \notin ToSet(backlog'[r])
      BY <1>6, <1>7, <1>13, Apart
    <3> QED BY <2>1, <3>1, SameParent
  <2> QED BY <1>3, <1>6, <1>13, <2>1, <2>2, <2>3, OtherStays
<1> QED BY <1>9, <1>10, <1>12, <1>14, <1>15, PairMoved

LEMMA connectStep ==
  ASSUME OInv, NEW p \in Procs, cobo_connect(p)
  PROVE  OInv'
<1>1. CASE UNCHANGED <<pc, s, conn, backlog>>
  <2>1. UNCHANGED <<nprocs, pc, backlog, fd, s, todo, child_fd, me, conn>>
    BY <1>1 DEF cobo_connect
  <2> QED BY <2>1, Unmoved
<1>2. CASE ~UNCHANGED <<pc, s, conn, backlog>>
  <2>1. PICK r \in At(p, i[p]), k \in Free :
          /\ conn' = [conn EXCEPT ![k] = NewConn(p, r)]
          /\ backlog' = [backlog EXCEPT ![r] = Append(@, k)]
          /\ s' = [s EXCEPT ![p] = k] /\ pc' = [pc EXCEPT ![p] = "shake_client"]
    BY <1>2 DEF cobo_connect
  <2>2. r \in Procs /\ r[2] = Head(todo[p]) /\ Listening(r)
    BY DEF At
  <2>3. pc[p] = "scan" /\ nprocs' = nprocs /\ UNCHANGED <<fd, todo, child_fd, me>>
    BY DEF cobo_connect
  <2> QED BY <2>1, <2>2, <2>3, Connects
<1> QED BY <1>1, <1>2

-----------------------------------------------------------------------------
(* The invariant *)

LEMMA StartsWired == Init => OInv
<1> SUFFICES ASSUME Init PROVE OInv
  OBVIOUS
<1>1. nprocs \in [Jobs -> 0 .. Max0(NAlone, NShared)]
  <2> PICK m : m = Max0(NAlone, NShared)
    OBVIOUS
  <2>1. NAlone \in 0 .. m /\ NShared \in 0 .. m /\ NOther \in 0 .. m /\ 0 \in 0 .. m
    BY CoboOpenAssumption DEF Max0
  <2> QED BY <2>1 DEF Init
<1>2. /\ \A p \in Procs : /\ pc[p] = (IF p[2] = Server THEN "scan" ELSE "start")
                          /\ backlog[p] = <<>> /\ child_fd[p] = <<>> /\ fd[p] = 0 /\ s[p] = 0
                          /\ todo[p] = (IF p[2] = Server THEN <<0>> ELSE <<>>)
                          /\ me[p] = (IF p[2] = Server THEN <<p[1], Server>> ELSE NoRank)
      /\ \A k \in Conns : conn[k] = NoConn
  BY DEF Init, NoRank, Conns
<1>3. Typed
  <2>1. pc \in [Procs -> {"start", "accept", "served", "gone"} \cup Probing \cup Settled]
    BY StringSets DEF Init
  <2>2. /\ backlog \in [Procs -> Seq(Conns)] /\ fd \in [Procs -> Nat] /\ s \in [Procs -> Nat]
        /\ child_fd \in [Procs -> Seq(Conns)]
    BY DEF Init
  <2>3. todo \in [Procs -> Seq(Int)]
    <3>1. <<0>> \in Seq(Int) /\ <<>> \in Seq(Int)
      OBVIOUS
    <3> QED BY <3>1 DEF Init
  <2>4. me \in [Procs -> Procs \cup {NoRank}]
    <3>1. \A p \in Procs : p[2] = Server => <<p[1], Server>> \in Procs
      BY DEF Procs, Ids
    <3> QED BY <3>1 DEF Init, NoRank
  <2>5. conn \in [Conns -> Connections \cup {NoConn}]
    BY DEF Init, Conns
  <2> QED BY <1>1, <2>1, <2>2, <2>3, <2>4, <2>5 DEF Typed
<1>4. \A k \in Conns : Ends(k) /\ Remembered(k)
  BY <1>2 DEF Ends, Remembered, Live
<1>5. ASSUME NEW p \in Procs
      PROVE  Wired(p)
  <2>1. Looking(p)
    <3>1. CASE p[2] = Server
      <4>1. <<p[1], 0>> \in Ranks
        <5>1. p[1] \in Jobs /\ nprocs[p[1]] > 0
          BY DEF Procs, Ids
        <5>2. 0 \in Server .. Max0(NAlone, NShared) - 1
          BY CoboOpenAssumption DEF Max0, Server
        <5> QED BY <5>1, <5>2 DEF Ranks, Procs, Ids, Server
      <4>2. todo[p] = <<0>> /\ me[p][1] = p[1] /\ pc[p] = "scan"
        <5>1. todo[p] = <<0>> /\ me[p] = <<p[1], Server>> /\ pc[p] = "scan"
          BY <1>2, <3>1, Zenon
        <5>2. <<p[1], Server>>[1] = p[1]
          OBVIOUS
        <5> QED BY <5>1, <5>2, Zenon
      <4>3. Len(<<0>>) = 1 /\ <<0>>[1] = 0 /\ <<0>> # <<>>
        OBVIOUS
      <4> QED BY <4>1, <4>2, <4>3 DEF Looking, Asking
    <3>2. CASE p[2] # Server
      <4>1. todo[p] = <<>> /\ pc[p] = "start"
        BY <1>2, <3>2
      <4>2. Len(<<>>) = 0
        OBVIOUS
      <4> QED BY <3>2, <4>1, <4>2 DEF Looking, Asking
    <3> QED BY <3>1, <3>2
  <2>2. Client(p) /\ Child(p)
    <3>1. pc[p] \in {"scan", "start"} /\ (p[2] # Server => pc[p] = "start")
      BY <1>2
    <3> QED BY <3>1, StringSets DEF Client, Trying, Child, HasParent
  <2>3. Father(p) /\ Waiting(p)
    BY <1>2, EmptyQueue DEF Father, Waiting, kids
  <2> QED BY <2>1, <2>2, <2>3 DEF Wired
<1> QED BY <1>3, <1>4, <1>5 DEF OInv

LEMMA StaysWired == OInv /\ [Next]_vars => OInv'
<1> SUFFICES ASSUME OInv, [Next]_vars PROVE OInv'
  OBVIOUS
<1>1. CASE UNCHANGED vars
  BY <1>1, Unmoved DEF vars
<1>2. CASE Next
  <2>1. PICK p \in Procs : Step(p) \/ connect_timeout(p)
    BY <1>2 DEF Next
  <2>2. CASE ShakeSucceeds(p)
    BY <2>2, ClientShakes, ServerShakes DEF ShakeSucceeds, Shaking
  <2>3. CASE bind(p) \/ accept(p) \/ ReadIds(p) \/ ReadAck(p) \/ DropsParent(p) \/ ReadHostlist(p)
    BY <2>3, bindStep, acceptStep, ReadIdsStep, ReadAckStep, DropsParentStep, ReadHostlistStep
  <2>4. CASE HostlistFails(p) \/ GiveUp(p) \/ HostlistNotSent(p) \/ HandshakeFails(p) \/ BarrierFails(p)
    BY <2>4, LosesStep
  <2>5. CASE cobo_connect(p) \/ Rescan(p) \/ connect_timeout(p)
    BY <2>5, connectStep, WaitsStep
  <2>6. CASE ReadReply(p) \/ DropsChild(p) \/ ShakeDrops(p) \/ Reduce(p) \/ Bcast(p)
    BY <2>6, ReadReplyStep, DropsChildStep, ShakeDropsStep, ReduceStep, BcastStep
  <2> QED BY <2>1, <2>2, <2>3, <2>4, <2>5, <2>6 DEF Step
<1> QED BY <1>1, <1>2

LEMMA WiredMeansNotAbandoned == OInv => NotAbandoned
<1> SUFFICES ASSUME OInv, NEW p \in Procs,
                    pc[p] \in {"hostlist", "scan", "shake_client", "reply"} \cup Connected, p[2] # Server
    PROVE  LET c == conn[fd[p]] IN p \in c.open /\ (c.from \in c.open => fd[p] \in kids(c.from))
  BY DEF NotAbandoned
<1>1. pc[p] \in Settled /\ HasParent(p)
  BY StringSets DEF HasParent, Connected
<1> PICK k : k = fd[p]
  OBVIOUS
<1>2. k \in Conns /\ Live(k) /\ p \in conn[k].open /\ Named(k)
  BY <1>1 DEF OInv, Wired, Child
<1>3. ASSUME conn[k].from \in conn[k].open
      PROVE  k \in kids(conn[k].from)
  <2> PICK q : q = conn[k].from
    OBVIOUS
  <2>1. q \in Procs /\ conn[k].to = p /\ q # p
    BY <1>1, <1>2 DEF OInv, Typed, Connections, Live, Wired, Child, Ends
  <2> QED BY <1>2, <1>3 DEF OInv, Remembered
<1> QED BY <1>2, <1>3

-----------------------------------------------------------------------------
(* Two jobs that can be told apart *)

Over == {"bcast", "open"}
Root(j) == <<j, 0>>

\* connection k between a parent and a child
Line(k) == Live(k) => LET c == conn[k] IN
  /\ c.to[2] = 0 <=> c.from[2] = Server
  /\ ~Named(k) => c.up \in {<<>>, <<"reply">>}
  /\ Named(k) =>
       /\ c.table = c.to /\ c.to[1] = c.from[1]
       /\ c.from \notin c.open => pc[c.from] = "gone"
       /\ c.from[2] = Server => pc[c.from] = "served"
       /\ pc[c.from] # "gone" /\ c.up # <<>> => fd[c.to] = k /\ pc[c.to] = "bcast"
       /\ c.from[2] # Server /\ pc[c.from] \in Over => fd[c.to] = k /\ pc[c.to] \in Over

\* p is what it has been told to be, and only that
Ranked(p) ==
  /\ me[p] \in {p, NoRank} /\ (p[2] = Server \/ pc[p] \in Placed => me[p] = p)
  /\ pc[p] = "reply" => conn[s[p]].to[1] = p[1]

\* the words of the parent, before p is placed
Addressed(p) == LET c == conn[fd[p]] IN
  /\ pc[p] = "ack" /\ Named(fd[p]) => c.up = <<>> /\ c.down = <<"ack", "hostlist">>
  /\ pc[p] = "hostlist" => c.up = <<>> /\ c.down = <<"hostlist">>

\* the children p has, and those it still looks for
Split(C, K, T) == /\ Len(K) + Len(T) = Len(C)
                  /\ \A x \in 1 .. Len(T) : T[x] = C[Len(K) + x]
                  /\ \A x \in 1 .. Len(K) : conn[K[x]].to[2] = C[x]

Reared(p) ==
  /\ p[2] = Server /\ pc[p] \in Asking => todo[p] = <<0>>
  /\ p[2] # Server /\ pc[p] \notin Placed => child_fd[p] = <<>>
  /\ p[2] # Server /\ pc[p] \in Placed => Split(Children(p[2], nprocs[p[1]]), child_fd[p], todo[p])
  /\ pc[p] \in Connected => todo[p] = <<>>

\* the words of the barrier between p and its parent
Word(p) == pc[p] \in Placed /\ p[2] # Server =>
  LET c == conn[fd[p]]
      above == pc[c.from]
  IN
  /\ p[2] = 0 => pc[p] # "bcast"
  /\ p[2] = 0 \/ pc[p] \notin Over => c.up = <<>> /\ c.down = <<>>
  /\ pc[p] = "bcast" =>
       \/ c.up = <<"max">> /\ c.down = <<>> /\ above \notin Over
       \/ c.up = <<>> /\ c.down = <<>> /\ above \in {"bcast", "gone"}
       \/ c.up = <<>> /\ c.down = <<"go">> /\ above = "open"
  /\ pc[p] = "open" /\ p[2] # 0 => c.up = <<>> /\ c.down = <<>> /\ above = "open"

Rooted(p) == pc[p] = "open" => pc[Root(p[1])] = "open"

Sound(p) == Ranked(p) /\ Addressed(p) /\ Reared(p) /\ Word(p) /\ Rooted(p)

BInv == OInv /\ (\A k \in Conns : Line(k)) /\ \A p \in Procs : Sound(p)

SameEnds == \A k \in Conns : Live(k) /\ Live(k)' =>
              conn'[k].from = conn[k].from /\ conn'[k].to = conn[k].to

Still(q) == /\ pc'[q] = pc[q] /\ fd'[q] = fd[q] /\ s'[q] = s[q] /\ todo'[q] = todo[q]
            /\ child_fd'[q] = child_fd[q] /\ me'[q] = me[q]

LEMMA PlacedIs ==
  /\ \A w : w \in Placed <=> w \in Asking \/ w \in Connected
  /\ \A w \in {"start", "accept", "served", "gone"} \cup Probing \cup {"hostlist"} : w \notin Placed
  /\ Over \subseteq Connected /\ Connected \subseteq Placed /\ Placed \subseteq Settled
  /\ \A w \in Connected : w \notin Asking
  BY DEF Placed, Asking, Connected, Over, Probing, Settled

LEMMA StillRanked ==
  ASSUME OInv, OInv', NEW q \in Procs, Ranked(q), Still(q), SameEnds, nprocs' = nprocs
  PROVE  Ranked(q)'
<1>1. ASSUME pc[q] = "reply"
      PROVE  conn'[s'[q]].to[1] = q[1]
  <2>1. Trying(q) /\ Trying(q)'
    BY <1>1 DEF Trying, Still
  <2>2. s[q] \in Conns /\ Live(s[q])
    BY <2>1, Tested
  <2>3. Client(q)'
    BY SameProcs DEF OInv, Wired
  <2>4. conn'[s[q]] # NoConn
    BY <2>1, <2>3 DEF Client, Live, Still
  <2>5. conn'[s[q]].to = conn[s[q]].to
    BY <2>2, <2>4 DEF SameEnds, Live
  <2> QED BY <1>1, <2>5 DEF Ranked, Still
<1> QED BY <1>1 DEF Ranked, Still

LEMMA StillReared ==
  ASSUME OInv, OInv', NEW q \in Procs, Reared(q), SameEnds, nprocs' = nprocs,
         child_fd'[q] = child_fd[q], todo'[q] = todo[q],
         pc'[q] \in Asking => pc[q] \in Asking,
         pc'[q] \in Placed <=> pc[q] \in Placed,
         pc'[q] \in Connected => pc[q] \in Connected
  PROVE  Reared(q)'
<1> PICK cf, td, C : cf = child_fd[q] /\ td = todo[q] /\ C = Children(q[2], nprocs[q[1]])
  OBVIOUS
<1>1. ASSUME NEW x \in 1 .. Len(cf)
      PROVE  conn'[cf[x]].to = conn[cf[x]].to
  <2>0. Typed /\ Father(q) /\ Father(q)'
    BY SameProcs DEF OInv, Wired
  <2>1. cf[x] \in kids(q) /\ cf[x] \in ToSet(child_fd'[q])
    <3>1. cf \in Seq(Conns)
      BY <2>0 DEF Typed
    <3>2. x \in DOMAIN cf
      BY <3>1
    <3> QED BY <3>2 DEF kids, ToSet
  <2>2. cf[x] \in Conns /\ Live(cf[x])
    BY <2>0, <2>1, KidsAre DEF Father
  <2>3. conn'[cf[x]] # NoConn
    BY <2>0, <2>1 DEF Father, kids, Live
  <2> QED BY <2>2, <2>3 DEF SameEnds, Live
<1>2. Split(C, cf, td) => Split(C, cf, td)'
  BY <1>1 DEF Split
<1>3. /\ child_fd'[q] = cf /\ todo'[q] = td /\ Children(q[2], nprocs[q[1]])' = C
      /\ Split(Children(q[2], nprocs[q[1]]), child_fd[q], todo[q])' <=> Split(C, cf, td)'
  BY DEF Split
<1> QED BY <1>2, <1>3 DEF Reared

\* the connection of a daemon to its parent
LEMMA HasLine ==
  ASSUME OInv, NEW q \in Procs, HasParent(q)
  PROVE  /\ fd[q] \in Conns /\ Live(fd[q]) /\ conn[fd[q]] \in Connections
         /\ conn[fd[q]].to = q /\ q \in conn[fd[q]].open
         /\ conn[fd[q]].from \in Procs /\ conn[fd[q]].from # q
         /\ pc[q] \in Settled => Named(fd[q])
<1>1. Typed /\ Child(q)
  BY DEF OInv, Wired
<1>2. /\ fd[q] \in Conns /\ Live(fd[q]) /\ conn[fd[q]].to = q /\ q \in conn[fd[q]].open
      /\ pc[q] \in Settled => Named(fd[q])
  BY <1>1 DEF Child
<1>3. conn[fd[q]] \in Connections
  BY <1>1, <1>2 DEF Typed, Live
<1>4. conn[fd[q]].from \in Procs
  BY <1>3 DEF Connections
<1> QED BY <1>2, <1>3, <1>4 DEF OInv, Ends

LEMMA RootIs ==
  ASSUME NEW q \in Procs
  PROVE  Root(q[1]) \in Ranks /\ Root(q[1])[1] = q[1] /\ Root(q[1])[2] = 0
<1>1. q[1] \in Jobs /\ nprocs[q[1]] > 0
  BY DEF Procs, Ids
<1>2. 0 \in Server .. Max0(NAlone, NShared) - 1
  BY CoboOpenAssumption DEF Max0, Server
<1> QED BY <1>1, <1>2 DEF Ranks, Procs, Ids, Server, Root

\* whom a process that looks for a child will find
LEMMA LooksBelow ==
  ASSUME OInv, NEW p \in Procs, Reared(p), pc[p] \in Asking
  PROVE  todo[p] # <<>> /\ (Head(todo[p]) = 0 <=> p[2] = Server)
<1>1. todo[p] # <<>> /\ todo[p] \in Seq(Int)
  BY DEF OInv, Typed, Wired, Looking
<1>2. CASE p[2] = Server
  <2>1. todo[p] = <<0>>
    BY <1>2 DEF Reared
  <2>2. Head(<<0>>) = 0
    OBVIOUS
  <2> QED BY <1>1, <1>2, <2>1, <2>2
<1>3. CASE p[2] # Server
  <2> PICK td, C, n : /\ td = todo[p] /\ C = Children(p[2], nprocs[p[1]]) /\ n = Len(child_fd[p])
    OBVIOUS
  <2>1. /\ n + Len(td) = Len(C) /\ \A x \in 1 .. Len(td) : td[x] = C[n + x]
    BY <1>3, PlacedIs DEF Reared, Split
  <2>2. Head(td) = td[1] /\ 1 \in 1 .. Len(td)
    BY <1>1, TodoTail
  <2>3. n \in Nat
    <3>1. child_fd[p] \in Seq(Conns)
      BY DEF OInv, Typed
    <3> QED BY <3>1
  <2>4. \A x \in 1 .. Len(C) : C[x] # 0
    <3> PICK r, m : r = p[2] /\ m = nprocs[p[1]]
      OBVIOUS
    <3>1. m \in Nat \ {0} /\ r \in 0 .. m - 1
      <4>1. p \in Ranks /\ Typed
        BY <1>3 DEF OInv, Ranks
      <4> QED BY <4>1, RanksAre
    <3>2. \A x \in 1 .. Len(Children(r, m)) : Children(r, m)[x] \in 1 .. m - 1
      BY <3>1, ChildrenType
    <3>3. C = Children(r, m)
      OBVIOUS
    <3>4. \A y \in 1 .. m - 1 : y # 0
      OBVIOUS
    <3> QED BY <3>2, <3>3, <3>4
  <2> PICK l, g : l = Len(td) /\ g = Len(C)
    OBVIOUS
  <2>5. l \in Nat
    BY <1>1
  <2>8. n + l = g /\ 1 \in 1 .. l
    BY <2>1, <2>2
  <2>6. n + 1 \in 1 .. g
    <3>1. \A a, b \in Nat : 1 \in 1 .. b => a + 1 \in 1 .. a + b
      OBVIOUS
    <3> QED BY <2>3, <2>5, <2>8, <3>1, Zenon
  <2>7. td[1] = C[n + 1]
    BY <2>1, <2>2
  <2> QED BY <1>1, <1>3, <2>2, <2>4, <2>6, <2>7
<1> QED BY <1>2, <1>3

\* k is as before, but for one word less on its way down
ReadDown(k) == LET c == conn[k]
                   d == conn'[k]
               IN
  /\ d # NoConn /\ d.from = c.from /\ d.to = c.to /\ d.open = c.open /\ d.table = c.table
  /\ d.up = c.up /\ d.down = Tail(c.down)

\* p moves while it has no children, or looks for them, and leaves the lines alone
Quiet(p) ==
  /\ nprocs' = nprocs /\ me' = me /\ todo' = todo /\ child_fd' = child_fd
  /\ \A q \in Procs \ {p} : Still(q)
  /\ SameEnds
  /\ \A k \in Conns : Live(k) /\ Named(k) =>
       \/ conn'[k] = conn[k]
       \/ k = fd[p] /\ pc[p] = "ack" /\ pc'[p] = "hostlist" /\ ReadDown(k)
  /\ \A k \in Conns : conn'[k] # NoConn =>
       \/ /\ Live(k) /\ (Named(k)' => Named(k))
          /\ ~Named(k)' => conn'[k].up \in {conn[k].up, <<>>, <<"reply">>}
       \/ /\ ~Live(k) /\ ~Named(k)' /\ pc[p] = "scan"
          /\ conn'[k].from = p /\ conn'[k].to[2] = Head(todo[p]) /\ conn'[k].up = <<>>
  /\ {pc[p], pc'[p]} \cap (Connected \cup {"gone", "served"}) = {}
  /\ pc[p] \in Asking <=> pc'[p] \in Asking
  /\ pc[p] \in Asking => fd'[p] = fd[p]
  /\ pc'[p] = "hostlist" => pc[p] = "ack" /\ fd'[p] = fd[p] /\ ReadDown(fd[p])
  /\ pc'[p] = "ack" => conn'[fd'[p]].table = NoTable
  /\ pc'[p] = "reply" => conn'[s'[p]].to[1] = p[1]

LEMMA QuietLines ==
  ASSUME BInv, OInv', NEW p \in Procs, Quiet(p), NEW k \in Conns
  PROVE  Line(k)'
<1> SUFFICES ASSUME conn'[k] # NoConn PROVE Line(k)'
  BY DEF Line, Live
<1> PICK c, d : c = conn[k] /\ d = conn'[k]
  OBVIOUS
<1>1. /\ \/ /\ Live(k) /\ (Named(k)' => Named(k))
            /\ ~Named(k)' => d.up \in {c.up, <<>>, <<"reply">>}
         \/ /\ ~Live(k) /\ ~Named(k)' /\ pc[p] = "scan"
            /\ d.from = p /\ d.to[2] = Head(todo[p]) /\ d.up = <<>>
      /\ SameEnds /\ nprocs' = nprocs /\ \A q \in Procs \ {p} : Still(q)
      /\ pc[p] \notin Connected \cup {"gone", "served"} /\ pc'[p] \notin Connected \cup {"gone", "served"}
  BY DEF Quiet
<1>2. CASE ~Live(k)
  <2>1. ~Named(k)' /\ pc[p] = "scan" /\ d.from = p /\ d.to[2] = Head(todo[p]) /\ d.up = <<>>
    BY <1>1, <1>2
  <2>2. Head(todo[p]) = 0 <=> p[2] = Server
    BY <2>1, LooksBelow DEF BInv, Sound, Asking
  <2> QED BY <2>1, <2>2 DEF Line
<1>3. CASE Live(k)
  <2>1. d.from = c.from /\ d.to = c.to
    BY <1>1, <1>3 DEF SameEnds, Live
  <2>2. c.to[2] = 0 <=> c.from[2] = Server
    BY <1>3 DEF BInv, Line
  <2>3. c \in Connections
    BY <1>3 DEF BInv, OInv, Typed, Live
  <2>4. c.from \in Procs /\ c.to \in Procs
    BY <2>3 DEF Connections, Ranks
  <2>5. CASE ~Named(k)'
    <3>1. ~Named(k)
      <4>1. Named(k) => \/ d = c
                        \/ d.table = c.table
        BY <1>3 DEF Quiet, ReadDown
      <4> QED BY <2>5, <4>1 DEF Named
    <3>2. d.up \in {<<>>, <<"reply">>}
      BY <1>1, <1>3, <2>5, <3>1 DEF BInv, Line
    <3> QED BY <2>1, <2>2, <2>5, <3>2 DEF Line
  <2>6. CASE Named(k)'
    <3>1. Named(k)
      BY <1>1, <1>3, <2>6
    <3>2. d.table = c.table /\ d.open = c.open /\ d.up = c.up
      BY <1>3, <3>1 DEF Quiet, ReadDown
    <3>3. /\ c.table = c.to /\ c.to[1] = c.from[1]
          /\ c.from \notin c.open => pc[c.from] = "gone"
          /\ c.from[2] = Server => pc[c.from] = "served"
          /\ pc[c.from] # "gone" /\ c.up # <<>> => fd[c.to] = k /\ pc[c.to] = "bcast"
          /\ c.from[2] # Server /\ pc[c.from] \in Over => fd[c.to] = k /\ pc[c.to] \in Over
      BY <1>3, <3>1 DEF BInv, Line
    <3> PICK f, t : f = c.from /\ t = c.to
      OBVIOUS
    <3>4. /\ f \in Procs /\ t \in Procs
          /\ f # p => pc'[f] = pc[f]
          /\ t # p => pc'[t] = pc[t] /\ fd'[t] = fd[t]
      BY <1>1, <2>4 DEF Still
    <3>5. "bcast" \in Connected /\ Over \subseteq Connected
      BY DEF Connected, Over
    <3>6. /\ f \notin c.open => pc'[f] = "gone"
          /\ f[2] = Server => pc'[f] = "served"
      BY <1>1, <3>3, <3>4
    <3>7. pc'[f] # "gone" /\ c.up # <<>> => fd'[t] = k /\ pc'[t] = "bcast"
      BY <1>1, <3>3, <3>4, <3>5
    <3>8. f[2] # Server /\ pc'[f] \in Over => fd'[t] = k /\ pc'[t] \in Over
      BY <1>1, <3>3, <3>4, <3>5
    <3> QED BY <2>1, <2>2, <2>6, <3>2, <3>3, <3>6, <3>7, <3>8 DEF Line
  <2> QED BY <2>5, <2>6
<1> QED BY <1>2, <1>3

LEMMA QuietOthers ==
  ASSUME BInv, OInv', NEW p \in Procs, Quiet(p), NEW q \in Procs, q # p
  PROVE  Sound(q)'
<1>1. OInv /\ Sound(q) /\ Still(q) /\ SameEnds /\ nprocs' = nprocs
  BY DEF BInv, Quiet
<1>2. Ranked(q)'
  BY <1>1, StillRanked DEF Sound
<1>3. Reared(q)'
  <2>1. Reared(q) /\ child_fd'[q] = child_fd[q] /\ todo'[q] = todo[q] /\ pc'[q] = pc[q]
    BY <1>1 DEF Sound, Still
  <2> QED BY <1>1, <2>1, StillReared
<1> PICK k : k = fd[q]
  OBVIOUS
<1>4. ASSUME HasParent(q), Named(k)
      PROVE  conn'[k] = conn[k]
  <2>1. k \in Conns /\ Live(k) /\ conn[k].to = q
    BY <1>1, <1>4, HasLine
  <2>2. pc[p] = "ack" => fd[p] # k
    <3>1. pc[p] = "ack" => HasParent(p)
      BY <1>1, IsDaemon DEF Probing, Asking
    <3> QED BY <1>1, <2>1, <3>1, HasLine
  <2> QED BY <1>4, <2>1, <2>2 DEF Quiet
<1>5. Addressed(q)'
  <2>1. ASSUME pc[q] \in {"ack", "hostlist"}, pc[q] = "hostlist" \/ Named(k)'
        PROVE  conn'[k] = conn[k] /\ Named(k)
    <3>1. HasParent(q)
      BY <1>1, <2>1, IsDaemon DEF Probing, Asking
    <3>2. k \in Conns /\ Live(k) /\ (pc[q] = "hostlist" => Named(k))
      BY <1>1, <3>1, HasLine, StringSets
    <3>3. Named(k)
      <4>1. CASE pc[q] = "hostlist"
        BY <3>2, <4>1
      <4>2. CASE Named(k)'
        <5>1. Child(q)' /\ HasParent(q)'
          BY <1>1, <3>1, SameProcs DEF OInv, Wired, HasParent, Still
        <5>2. conn'[k] # NoConn
          BY <1>1, <5>1 DEF Child, Still, Live
        <5> QED BY <3>2, <4>2, <5>2 DEF Quiet
      <4> QED BY <2>1, <4>1, <4>2
    <3> QED BY <1>4, <3>1, <3>3
  <2> QED BY <1>1, <2>1 DEF Addressed, Sound, Still, Named
<1>6. Word(q)'
  <2> SUFFICES ASSUME pc[q] \in Placed, q[2] # Server PROVE Word(q)'
    BY <1>1 DEF Word, Still
  <2>1. HasParent(q) /\ Named(k) /\ k \in Conns
    BY <1>1, PlacedIs, HasLine DEF HasParent
  <2>2. conn'[k] = conn[k]
    BY <1>4, <2>1
  <2> PICK f : f = conn[k].from
    OBVIOUS
  <2>3. f \in Procs
    BY <1>1, <2>1, HasLine
  <2>4. f # p => pc'[f] = pc[f]
    BY <2>3 DEF Quiet, Still
  <2>5. {pc[p], pc'[p]} \cap {"bcast", "open", "gone"} = {}
    BY DEF Quiet, Connected
  <2>6. /\ pc'[f] \in Over <=> pc[f] \in Over
        /\ pc'[f] \in {"bcast", "gone"} <=> pc[f] \in {"bcast", "gone"}
        /\ pc'[f] = "open" <=> pc[f] = "open"
    BY <2>4, <2>5 DEF Over
  <2> QED BY <1>1, <2>2, <2>6 DEF Word, Sound, Still
<1>7. Rooted(q)'
  <2> SUFFICES ASSUME pc[q] = "open" PROVE pc'[Root(q[1])] = "open"
    BY <1>1 DEF Rooted, Still, Root
  <2>1. pc[Root(q[1])] = "open" /\ Root(q[1]) \in Procs
    BY <1>1, RootIs DEF Sound, Rooted, Ranks
  <2>2. Root(q[1]) # p
    BY <2>1 DEF Quiet, Connected
  <2> QED BY <2>1, <2>2 DEF Quiet, Still
<1> QED BY <1>2, <1>3, <1>5, <1>6, <1>7 DEF Sound

LEMMA QuietSelf ==
  ASSUME BInv, OInv', NEW p \in Procs, Quiet(p)
  PROVE  Sound(p)'
<1>1. /\ OInv /\ Sound(p) /\ SameEnds /\ nprocs' = nprocs /\ me' = me /\ todo' = todo
      /\ child_fd' = child_fd
  BY DEF BInv, Quiet
<1>2. /\ pc[p] \notin Connected /\ pc'[p] \notin Connected
      /\ pc'[p] \in Placed <=> pc[p] \in Placed
      /\ pc'[p] \in Placed => pc'[p] \in Asking /\ pc[p] \in Asking
  BY PlacedIs DEF Quiet
<1>3. Ranked(p)'
  <2>1. pc'[p] = "reply" => conn'[s'[p]].to[1] = p[1]
    BY DEF Quiet
  <2> QED BY <1>1, <1>2, <2>1 DEF Ranked, Sound, NoRank
<1>4. Reared(p)'
  <2>1. pc'[p] \in Asking => pc[p] \in Asking
    BY DEF Quiet
  <2> QED BY <1>1, <1>2, <2>1, StillReared DEF Sound
<1>5. Addressed(p)'
  <2>1. pc'[p] = "ack" => conn'[fd'[p]].table = NoTable
    BY DEF Quiet
  <2>2. ASSUME pc'[p] = "hostlist"
        PROVE  conn'[fd'[p]].up = <<>> /\ conn'[fd'[p]].down = <<"hostlist">>
    <3> PICK k : k = fd[p]
      OBVIOUS
    <3>1. pc[p] = "ack" /\ fd'[p] = k /\ ReadDown(k)
      BY <2>2 DEF Quiet
    <3>2. HasParent(p)
      BY <1>1, <3>1, IsDaemon DEF Probing, Asking
    <3>3. Named(k)
      <4>1. Child(p)' /\ HasParent(p)'
        BY <1>1, <2>2, <3>2, SameProcs, StringSets DEF OInv, Wired, HasParent
      <4>2. Named(fd[p])'
        BY <2>2, <3>1, <4>1, StringSets DEF Child, Named
      <4> QED BY <3>1, <4>2 DEF Named, ReadDown
    <3>4. conn[k].up = <<>> /\ conn[k].down = <<"ack", "hostlist">>
      BY <1>1, <3>1, <3>3 DEF Sound, Addressed
    <3>5. Tail(<<"ack", "hostlist">>) = <<"hostlist">>
      OBVIOUS
    <3> QED BY <3>1, <3>4, <3>5 DEF ReadDown
  <2> QED BY <2>1, <2>2 DEF Addressed, Named
<1>6. Word(p)'
  <2> SUFFICES ASSUME pc'[p] \in Placed, p[2] # Server PROVE Word(p)'
    BY DEF Word
  <2> PICK k : k = fd[p]
    OBVIOUS
  <2>1. pc[p] \in Asking /\ fd'[p] = k /\ pc[p] \in Placed
    BY <1>2 DEF Quiet
  <2>2. HasParent(p) /\ k \in Conns /\ Live(k) /\ Named(k)
    BY <1>1, <2>1, PlacedIs, HasLine DEF HasParent
  <2>3. conn'[k] = conn[k]
    BY <2>1, <2>2 DEF Quiet, Asking
  <2>4. {pc[p], pc'[p]} \cap {"bcast", "open"} = {}
    BY <1>2 DEF Connected
  <2>5. conn[k].up = <<>> /\ conn[k].down = <<>>
    BY <1>1, <2>1, <2>4 DEF Word, Sound, Over
  <2> QED BY <2>1, <2>3, <2>4, <2>5 DEF Word
<1>7. Rooted(p)'
  BY <1>2 DEF Rooted, Connected
<1> QED BY <1>3, <1>4, <1>5, <1>6, <1>7 DEF Sound

LEMMA QuietStep ==
  ASSUME BInv, OInv', NEW p \in Procs, Quiet(p)
  PROVE  BInv'
<1>1. Procs' = Procs /\ Conns' = Conns
  BY SameProcs DEF Conns, Quiet
<1> QED BY <1>1, QuietLines, QuietOthers, QuietSelf DEF BInv

LEMMA ShutLike ==
  ASSUME NEW cs \in [Conns -> Connections \cup {NoConn}], NEW p, NEW K, conn' = Shut(cs, p, K),
         NEW k \in Conns
  PROVE  /\ k \notin K => conn'[k] = cs[k]
         /\ conn'[k] # NoConn =>
              /\ cs[k] # NoConn /\ conn'[k].from = cs[k].from /\ conn'[k].to = cs[k].to
              /\ conn'[k].table = cs[k].table /\ conn'[k].up = cs[k].up /\ conn'[k].down = cs[k].down
              /\ conn'[k].open \in {cs[k].open, cs[k].open \ {p}}
<1> PICK c, d : c = cs[k] /\ d = Shut(cs, p, K)[k] /\ d = conn'[k]
  OBVIOUS
<1>1. c \in Connections \cup {NoConn}
  OBVIOUS
<1>2. /\ k \notin K => d = c
      /\ k \in K /\ c.open \subseteq {p} => d = NoConn
      /\ k \in K /\ ~(c.open \subseteq {p}) =>
           /\ c \in Connections /\ d \in Connections
           /\ d.from = c.from /\ d.to = c.to /\ d.open = c.open \ {p}
           /\ d.met = c.met /\ d.up = c.up /\ d.down = c.down /\ d.table = c.table
  BY <1>1, ShutAt
<1> QED BY <1>2, NoConnection

\* no line but x is touched, and nothing gets a rank
Untouched(x) ==
  /\ SameEnds
  /\ \A k \in Conns : Live(k) /\ Named(k) /\ k # x => conn'[k] = conn[k]
  /\ \A k \in Conns : conn'[k] # NoConn =>
       /\ Live(k) /\ (Named(k)' => Named(k))
       /\ conn'[k].up \in {conn[k].up, <<>>, <<"reply">>}

LEMMA ShutUntouched ==
  ASSUME NEW cs \in [Conns -> Connections \cup {NoConn}], NEW p, NEW K, conn' = Shut(cs, p, K), NEW x,
         \A k \in Conns : cs[k] # NoConn =>
           /\ Live(k) /\ cs[k].from = conn[k].from /\ cs[k].to = conn[k].to /\ cs[k].table = conn[k].table
           /\ cs[k].up \in {conn[k].up, <<>>, <<"reply">>},
         \A k \in Conns : Live(k) /\ Named(k) /\ k # x => k \notin K /\ cs[k] = conn[k]
  PROVE  Untouched(x)
<1>1. ASSUME NEW k \in Conns, conn'[k] # NoConn
      PROVE  /\ Live(k) /\ (Named(k)' => Named(k)) /\ conn'[k].up \in {conn[k].up, <<>>, <<"reply">>}
             /\ conn'[k].from = conn[k].from /\ conn'[k].to = conn[k].to
  BY <1>1, ShutLike DEF Named
<1>2. ASSUME NEW k \in Conns, Live(k), Named(k), k # x
      PROVE  conn'[k] = conn[k]
  BY <1>2, ShutLike
<1> QED BY <1>1, <1>2 DEF Untouched, SameEnds, Live

LEMMA ConnUntouched ==
  ASSUME conn' = conn PROVE \A x : Untouched(x)
  BY DEF Untouched, SameEnds, Live, Named

LEMMA EasyQuiet ==
  ASSUME NEW p \in Procs, nprocs' = nprocs, me' = me, todo' = todo, child_fd' = child_fd,
         \A q \in Procs \ {p} : Still(q),
         Untouched(0),
         {pc[p], pc'[p]} \cap (Connected \cup {"gone", "served"}) = {},
         pc[p] \in Asking <=> pc'[p] \in Asking,
         pc[p] \in Asking => fd'[p] = fd[p],
         pc'[p] \notin {"hostlist"},
         pc'[p] = "ack" => conn'[fd'[p]].table = NoTable,
         pc'[p] = "reply" => conn'[s'[p]].to[1] = p[1]
  PROVE  Quiet(p)
<1>1. 0 \notin Conns
  BY DEF Conns
<1> QED BY <1>1 DEF Quiet, Untouched

LEMMA bindQuiet ==
  ASSUME OInv, NEW p \in Procs, bind(p), ~Gone(p)
  PROVE  Quiet(p)
<1>1. /\ pc[p] = "start" /\ pc' = [pc EXCEPT ![p] = "accept"]
      /\ UNCHANGED <<nprocs, backlog, fd, s, todo, child_fd, me, conn>>
  BY DEF bind
<1>2. pc'[p] = "accept" /\ \A q \in Procs \ {p} : Still(q)
  BY <1>1 DEF OInv, Typed, Still
<1>3. Untouched(0)
  BY <1>1, ConnUntouched
<1> QED BY <1>1, <1>2, <1>3, EasyQuiet DEF Connected, Asking

LEMMA acceptQuiet ==
  ASSUME OInv, NEW p \in Procs, accept(p)
  PROVE  Quiet(p)
<1>1. /\ pc[p] = "accept" /\ pc' = [pc EXCEPT ![p] = "shake_server"]
      /\ fd' = [fd EXCEPT ![p] = Head(backlog[p])]
      /\ UNCHANGED <<nprocs, s, todo, child_fd, me, conn>>
  BY DEF accept
<1>2. pc'[p] = "shake_server" /\ \A q \in Procs \ {p} : Still(q)
  BY <1>1 DEF OInv, Typed, Still
<1>3. Untouched(0)
  BY <1>1, ConnUntouched
<1> QED BY <1>1, <1>2, <1>3, EasyQuiet DEF Connected, Asking

LEMMA WaitsQuiet ==
  ASSUME OInv, NEW p \in Procs, pc[p] = "scan",
         UNCHANGED <<nprocs, pc, backlog, fd, s, todo, child_fd, me, conn>>
  PROVE  Quiet(p)
<1>1. pc'[p] = "scan" /\ \A q \in Procs \ {p} : Still(q)
  BY DEF Still
<1>2. Untouched(0)
  BY ConnUntouched
<1> QED BY <1>1, <1>2, EasyQuiet DEF Connected, Asking

\* p closes a connection without a rank, and is in w from now on
LEMMA ShutQuiet ==
  ASSUME OInv, NEW p \in Procs, nprocs' = nprocs, me' = me, todo' = todo, child_fd' = child_fd,
         NEW x \in Conns, ~Named(x), Live(x),
         NEW cs, cs = conn \/ cs = Talked(x), conn' = Shut(cs, p, {x}),
         pc[p] \notin Connected \cup {"gone", "served"}, pc'[p] \in {"scan", "accept"},
         pc[p] \in Asking <=> pc'[p] \in Asking,
         pc[p] \in Asking => fd'[p] = fd[p],
         \A q \in Procs \ {p} : Still(q)
  PROVE  Quiet(p)
<1>1. cs \in [Conns -> Connections \cup {NoConn}]
  BY Talking DEF OInv, Typed
<1>2. ASSUME NEW k \in Conns
      PROVE  /\ cs[k] # NoConn =>
                  /\ Live(k) /\ cs[k].from = conn[k].from /\ cs[k].to = conn[k].to
                  /\ cs[k].table = conn[k].table /\ cs[k].up \in {conn[k].up, <<>>, <<"reply">>}
             /\ k # x => cs[k] = conn[k]
  <2>1. CASE cs = conn
    BY <2>1 DEF Live
  <2>2. CASE cs = Talked(x)
    <3>1. /\ \A y \in Conns : y # x => cs[y] = conn[y]
          /\ cs[x].from = conn[x].from /\ cs[x].to = conn[x].to /\ cs[x].open = conn[x].open
          /\ cs[x].table = conn[x].table /\ cs[x].up = conn[x].up /\ cs[x].down = conn[x].down
      BY <2>2, Talking DEF OInv
    <3> QED BY <3>1 DEF Live
  <2> QED BY <2>1, <2>2
<1>3. \A k \in Conns : Live(k) /\ Named(k) /\ k # 0 => k \notin {x} /\ cs[k] = conn[k]
  BY <1>2
<1>4. Untouched(0)
  BY <1>1, <1>2, <1>3, ShutUntouched
<1>5. /\ {pc[p], pc'[p]} \cap (Connected \cup {"gone", "served"}) = {}
      /\ pc'[p] \notin {"hostlist", "ack", "reply"}
  BY DEF Connected
<1> QED BY <1>4, <1>5, EasyQuiet

LEMMA DropsParentQuiet ==
  ASSUME BInv, NEW p \in Procs, DropsParent(p)
  PROVE  Quiet(p)
<1>1. /\ pc[p] \in {"ids", "ack"} /\ pc' = [pc EXCEPT ![p] = "accept"] /\ conn[fd[p]].down = <<>>
      /\ fd' = [fd EXCEPT ![p] = 0] /\ conn' = Shut(conn, p, {fd[p]})
      /\ UNCHANGED <<nprocs, backlog, s, todo, child_fd, me>>
  BY DEF DropsParent, Continue
<1>2. pc'[p] = "accept" /\ \A q \in Procs \ {p} : Still(q)
  BY <1>1 DEF BInv, OInv, Typed, Still
<1>3. HasParent(p) /\ OInv
  BY <1>1, IsDaemon DEF Probing, Asking, BInv
<1>4. fd[p] \in Conns /\ Live(fd[p])
  BY <1>3, HasLine
<1>5. ~Named(fd[p])
  <2>1. CASE pc[p] = "ids"
    BY <1>3, <2>1 DEF OInv, Wired, Child
  <2>2. CASE pc[p] = "ack"
    <3>1. Named(fd[p]) => conn[fd[p]].down = <<"ack", "hostlist">>
      BY <2>2 DEF BInv, Sound, Addressed
    <3>2. <<"ack", "hostlist">> # <<>>
      OBVIOUS
    <3> QED BY <1>1, <3>1, <3>2
  <2> QED BY <1>1, <2>1, <2>2
<1> QED BY <1>1, <1>2, <1>3, <1>4, <1>5, ShutQuiet DEF Connected, Asking

LEMMA DropsChildQuiet ==
  ASSUME OInv, NEW p \in Procs, DropsChild(p)
  PROVE  Quiet(p)
<1>1. /\ pc[p] = "reply" /\ nprocs' = nprocs /\ conn' = Shut(conn, p, {s[p]})
      /\ s' = [s EXCEPT ![p] = 0]
      /\ pc' = [pc EXCEPT ![p] = "scan"] /\ UNCHANGED <<backlog, fd, todo, child_fd, me>>
  BY DEF DropsChild, TestFailed
<1>2. pc'[p] = "scan" /\ \A q \in Procs \ {p} : Still(q)
  BY <1>1 DEF OInv, Typed, Still
<1>3. s[p] \in Conns /\ Live(s[p]) /\ ~Named(s[p])
  BY <1>1, Tested DEF Trying
<1> QED BY <1>1, <1>2, <1>3, ShutQuiet DEF Connected, Asking

LEMMA ShakeDropsQuiet ==
  ASSUME OInv, NEW p \in Procs, ShakeDrops(p)
  PROVE  Quiet(p)
<1> PICK k, cs : k = Shaken(p) /\ cs = Talked(k)
  OBVIOUS
<1>1. /\ Shaking(p) /\ conn' = Shut(cs, p, {k})
      /\ UNCHANGED <<nprocs, backlog, todo, child_fd, me>>
      /\ \/ /\ pc[p] = "shake_client" /\ s' = [s EXCEPT ![p] = 0]
            /\ pc' = [pc EXCEPT ![p] = "scan"] /\ fd' = fd
         \/ /\ pc[p] = "shake_server" /\ fd' = [fd EXCEPT ![p] = 0]
            /\ pc' = [pc EXCEPT ![p] = "accept"] /\ s' = s
  BY DEF ShakeDrops, Talked
<1>2. k \in Conns /\ Live(k) /\ ~Named(k)
  BY <1>1, InHand
<1>3. CASE pc[p] = "shake_client"
  <2>1. pc'[p] = "scan" /\ fd' = fd /\ \A q \in Procs \ {p} : Still(q)
    BY <1>1, <1>3 DEF OInv, Typed, Still
  <2> QED BY <1>1, <1>2, <1>3, <2>1, ShutQuiet DEF Connected, Asking
<1>4. CASE pc[p] = "shake_server"
  <2>1. pc'[p] = "accept" /\ \A q \in Procs \ {p} : Still(q)
    BY <1>1, <1>4 DEF OInv, Typed, Still
  <2> QED BY <1>1, <1>2, <1>4, <2>1, ShutQuiet DEF Connected, Asking
<1> QED BY <1>1, <1>3, <1>4

LEMMA OneUntouched ==
  ASSUME NEW x \in Conns, Live(x), ~Named(x), \A y \in Conns : y # x => conn'[y] = conn[y],
         conn'[x].from = conn[x].from, conn'[x].to = conn[x].to, conn'[x].table = conn[x].table,
         conn'[x].up \in {conn[x].up, <<>>, <<"reply">>}
  PROVE  Untouched(0)
<1>1. SameEnds
  BY DEF SameEnds, Live
<1>2. \A k \in Conns : Live(k) /\ Named(k) => conn'[k] = conn[k]
  OBVIOUS
<1>3. ASSUME NEW k \in Conns, conn'[k] # NoConn
      PROVE  Live(k) /\ (Named(k)' => Named(k)) /\ conn'[k].up \in {conn[k].up, <<>>, <<"reply">>}
  BY <1>3 DEF Live, Named
<1> QED BY <1>1, <1>2, <1>3 DEF Untouched

LEMMA ReadIdsQuiet ==
  ASSUME OInv, NEW p \in Procs, ReadIds(p)
  PROVE  Quiet(p)
<1> PICK k : k = fd[p]
  OBVIOUS
<1>1. /\ pc[p] = "ids" /\ pc' = [pc EXCEPT ![p] = "ack"] /\ conn[k].down # <<>>
      /\ conn' = [conn EXCEPT ![k].down = Tail(@), ![k].up = Append(@, "reply")]
      /\ UNCHANGED <<nprocs, backlog, fd, s, todo, child_fd, me>>
  BY DEF ReadIds
<1>2. Typed /\ Wired(p)
  BY DEF OInv
<1>3. p[2] # Server /\ HasParent(p)
  BY <1>1, IsDaemon DEF Asking, Probing
<1>4. k \in Conns /\ Live(k) /\ ~Named(k) /\ conn[k].up = <<>>
  BY <1>1, <1>2, <1>3 DEF Wired, Child
<1>5. /\ conn'[k].from = conn[k].from /\ conn'[k].to = conn[k].to /\ conn'[k].table = conn[k].table
      /\ conn'[k].up = <<"reply">>
      /\ \A y \in Conns : y # k => conn'[y] = conn[y]
  <2> PICK c, d : c = conn[k] /\ d = conn'[k]
    OBVIOUS
  <2>0. conn \in [Conns -> Connections \cup {NoConn}]
    BY <1>2 DEF Typed
  <2>1. c \in Connections
    BY <2>0, <1>4 DEF Live
  <2>2. d = [c EXCEPT !.down = Tail(c.down), !.up = Append(c.up, "reply")]
    BY <1>1, <1>4, <2>0
  <2>3. Append(<<>>, "reply") = <<"reply">>
    OBVIOUS
  <2>4. d.from = c.from /\ d.to = c.to /\ d.table = c.table /\ d.up = <<"reply">>
    BY <1>4, <2>1, <2>2, <2>3 DEF Connections
  <2>5. \A y \in Conns : y # k => conn'[y] = conn[y]
    BY <1>1, <2>0
  <2> QED BY <2>4, <2>5
<1>6. pc'[p] = "ack" /\ fd'[p] = k /\ \A q \in Procs \ {p} : Still(q)
  BY <1>1, <1>2 DEF Typed, Still
<1>7. Untouched(0)
  BY <1>4, <1>5, OneUntouched
<1>8. conn'[fd'[p]].table = NoTable
  BY <1>4, <1>5, <1>6 DEF Named
<1> QED BY <1>1, <1>6, <1>7, <1>8, EasyQuiet DEF Connected, Asking

LEMMA ReadAckQuiet ==
  ASSUME OInv, NEW p \in Procs, ReadAck(p)
  PROVE  Quiet(p)
<1> PICK x, W : x = fd[p] /\ W = ToSet(backlog[p])
  OBVIOUS
<1> PICK cs : cs = WordRead(x)
  OBVIOUS
<1>1. /\ pc[p] = "ack" /\ pc' = [pc EXCEPT ![p] = "hostlist"] /\ conn[x].down # <<>>
      /\ conn' = Shut(cs, p, W)
      /\ UNCHANGED <<nprocs, fd, s, todo, child_fd, me>>
  BY DEF ReadAck, WordRead
<1>2. Typed /\ Wired(p)
  BY DEF OInv
<1>3. p[2] # Server /\ HasParent(p)
  BY <1>1, IsDaemon DEF Asking, Probing
<1>4. x \in Conns /\ Live(x) /\ x \notin W /\ Named(x)
  BY <1>1, <1>2, <1>3 DEF Wired, Child
<1>5. /\ cs \in [Conns -> Connections \cup {NoConn}] /\ cs[x] \in Connections
      /\ \A y \in Conns : y # x => cs[y] = conn[y]
      /\ cs[x].from = conn[x].from /\ cs[x].to = conn[x].to /\ cs[x].open = conn[x].open
      /\ cs[x].table = conn[x].table
      /\ cs[x].up = conn[x].up /\ cs[x].down = Tail(conn[x].down)
  BY <1>1, <1>2, <1>4, OneWordRead
<1>6. pc'[p] = "hostlist" /\ fd'[p] = x /\ \A q \in Procs \ {p} : Still(q)
  BY <1>1, <1>2 DEF Typed, Still
<1>7. Untouched(x)
  <2>1. \A k \in Conns : cs[k] # NoConn =>
           /\ Live(k) /\ cs[k].from = conn[k].from /\ cs[k].to = conn[k].to /\ cs[k].table = conn[k].table
           /\ cs[k].up \in {conn[k].up, <<>>, <<"reply">>}
    BY <1>4, <1>5 DEF Live
  <2>2. \A k \in Conns : Live(k) /\ Named(k) /\ k # x => k \notin W /\ cs[k] = conn[k]
    BY <1>2, <1>5 DEF Wired, Waiting
  <2> QED BY <1>1, <1>5, <2>1, <2>2, ShutUntouched
<1>8. ReadDown(x)
  <2>1. conn'[x] = cs[x]
    BY <1>1, <1>4, <1>5, ShutLike
  <2> QED BY <1>5, <2>1, NoConnection DEF ReadDown
<1>9. /\ \A k \in Conns : Live(k) /\ Named(k) =>
           \/ conn'[k] = conn[k]
           \/ k = fd[p] /\ pc[p] = "ack" /\ pc'[p] = "hostlist" /\ ReadDown(k)
      /\ \A k \in Conns : conn'[k] # NoConn =>
           /\ Live(k) /\ (Named(k)' => Named(k))
           /\ conn'[k].up \in {conn[k].up, <<>>, <<"reply">>}
      /\ SameEnds
  BY <1>1, <1>6, <1>7, <1>8 DEF Untouched
<1>10. /\ {pc[p], pc'[p]} \cap (Connected \cup {"gone", "served"}) = {}
       /\ pc[p] \notin Asking /\ pc'[p] \notin Asking
       /\ pc'[p] = "hostlist" => pc[p] = "ack" /\ fd'[p] = fd[p] /\ ReadDown(fd[p])
       /\ pc'[p] # "ack" /\ pc'[p] # "reply"
  BY <1>1, <1>6, <1>8 DEF Connected, Asking
<1> QED BY <1>1, <1>6, <1>9, <1>10 DEF Quiet

LEMMA ServerShakesQuiet ==
  ASSUME OInv, NEW p \in Procs, ShakeSucceeds(p), pc[p] = "shake_server"
  PROVE  Quiet(p)
<1> PICK k : k = Shaken(p)
  OBVIOUS
<1>1. /\ Shaking(p) /\ pc' = [pc EXCEPT ![p] = "ids"]
      /\ conn' = [conn EXCEPT ![k].met = TRUE, ![k].down = @]
      /\ UNCHANGED <<nprocs, backlog, fd, s, todo, child_fd, me>>
  BY DEF ShakeSucceeds
<1>2. k \in Conns /\ Live(k) /\ conn[k] \in Connections /\ ~Named(k)
  BY <1>1, InHand
<1>3. Typed
  BY DEF OInv
<1>5. /\ conn'[k].from = conn[k].from /\ conn'[k].to = conn[k].to /\ conn'[k].table = conn[k].table
      /\ conn'[k].up = conn[k].up
      /\ \A y \in Conns : y # k => conn'[y] = conn[y]
  <2> PICK c, d : c = conn[k] /\ d = conn'[k]
    OBVIOUS
  <2>0. conn \in [Conns -> Connections \cup {NoConn}]
    BY <1>3 DEF Typed
  <2>2. d = [c EXCEPT !.met = TRUE, !.down = c.down]
    BY <1>1, <1>2, <2>0
  <2>4. d.from = c.from /\ d.to = c.to /\ d.table = c.table /\ d.up = c.up
    BY <1>2, <2>2 DEF Connections
  <2>5. \A y \in Conns : y # k => conn'[y] = conn[y]
    BY <1>1, <2>0
  <2> QED BY <2>4, <2>5
<1>6. pc'[p] = "ids" /\ \A q \in Procs \ {p} : Still(q)
  BY <1>1, <1>3 DEF Typed, Still
<1>7. Untouched(0)
  BY <1>2, <1>5, OneUntouched
<1> QED BY <1>1, <1>6, <1>7, EasyQuiet DEF Connected, Asking

LEMMA ClientShakesQuiet ==
  ASSUME SameSession = FALSE, OInv, NEW p \in Procs, ShakeSucceeds(p), pc[p] = "shake_client"
  PROVE  Quiet(p)
<1> PICK k : k = Shaken(p)
  OBVIOUS
<1>1. /\ Shaking(p) /\ SessionsAgree(k) /\ pc' = [pc EXCEPT ![p] = "reply"]
      /\ conn' = [conn EXCEPT ![k].met = TRUE, ![k].down = <<"ids">>]
      /\ UNCHANGED <<nprocs, backlog, fd, s, todo, child_fd, me>>
  BY DEF ShakeSucceeds
<1>2. k \in Conns /\ Live(k) /\ conn[k] \in Connections /\ ~Named(k) /\ Trying(p) /\ k = s[p]
  BY <1>1, InHand
<1>3. Typed
  BY DEF OInv
<1>5. /\ conn'[k].from = conn[k].from /\ conn'[k].to = conn[k].to /\ conn'[k].table = conn[k].table
      /\ conn'[k].up = conn[k].up
      /\ \A y \in Conns : y # k => conn'[y] = conn[y]
  <2> PICK c, d : c = conn[k] /\ d = conn'[k]
    OBVIOUS
  <2>0. conn \in [Conns -> Connections \cup {NoConn}]
    BY <1>3 DEF Typed
  <2>2. d = [c EXCEPT !.met = TRUE, !.down = <<"ids">>]
    BY <1>1, <1>2, <2>0
  <2>4. d.from = c.from /\ d.to = c.to /\ d.table = c.table /\ d.up = c.up
    BY <1>2, <2>2 DEF Connections
  <2>5. \A y \in Conns : y # k => conn'[y] = conn[y]
    BY <1>1, <2>0
  <2> QED BY <2>4, <2>5
<1>6. pc'[p] = "reply" /\ s'[p] = k /\ \A q \in Procs \ {p} : Still(q)
  BY <1>1, <1>2, <1>3 DEF Typed, Still
<1>7. Untouched(0)
  BY <1>2, <1>5, OneUntouched
<1>8. conn'[s'[p]].to[1] = p[1]
  <2>1. conn[k].from = p
    BY <1>2, Tested
  <2>2. p[1] = conn[k].to[1]
    BY <1>1, <2>1 DEF SessionsAgree, Session
  <2> QED BY <1>5, <1>6, <2>2
<1> QED BY <1>1, <1>6, <1>7, <1>8, EasyQuiet DEF Connected, Asking

LEMMA connectQuiet ==
  ASSUME OInv, NEW p \in Procs, cobo_connect(p)
  PROVE  Quiet(p)
<1>0. pc[p] = "scan" /\ UNCHANGED <<nprocs, fd, todo, child_fd, me>> /\ Typed
  BY DEF cobo_connect, OInv
<1>1. CASE UNCHANGED <<pc, s, conn, backlog>>
  BY <1>0, <1>1, WaitsQuiet
<1>2. CASE ~UNCHANGED <<pc, s, conn, backlog>>
  <2>1. PICK r \in At(p, i[p]), k \in Free :
          /\ conn' = [conn EXCEPT ![k] = NewConn(p, r)]
          /\ s' = [s EXCEPT ![p] = k] /\ pc' = [pc EXCEPT ![p] = "shake_client"]
    BY <1>2 DEF cobo_connect
  <2>2. r \in Procs /\ r[2] = Head(todo[p]) /\ Listening(r)
    BY DEF At
  <2>3. k \in Conns /\ ~Live(k)
    <3>1. k \in Conns /\ conn[k].open = {}
      BY DEF Free, Conns
    <3> QED BY <3>1 DEF OInv, Ends, Live
  <2>4. r \in Ranks
    <3>1. r[2] # Server
      BY <2>2, IsDaemon DEF Listening, Asking
    <3> QED BY <2>2, <3>1 DEF Ranks
  <2>5. Fresh(conn'[k], p, r) /\ \A y \in Conns : y # k => conn'[y] = conn[y]
    <3>1. Fresh(NewConn(p, r), p, r)
      BY <2>4, NewIsFresh
    <3>2. conn'[k] = NewConn(p, r) /\ \A y \in Conns : y # k => conn'[y] = conn[y]
      BY <1>0, <2>1, <2>3 DEF Typed
    <3> QED BY <3>1, <3>2
  <2>6. pc'[p] = "shake_client" /\ \A q \in Procs \ {p} : Still(q)
    BY <1>0, <2>1 DEF Typed, Still
  <2>7. SameEnds
    BY <2>3, <2>5 DEF SameEnds, Live
  <2>8. \A x \in Conns : Live(x) /\ Named(x) => conn'[x] = conn[x]
    BY <2>3, <2>5
  <2>9. ASSUME NEW x \in Conns, conn'[x] # NoConn
        PROVE  \/ /\ Live(x) /\ (Named(x)' => Named(x))
                  /\ ~Named(x)' => conn'[x].up \in {conn[x].up, <<>>, <<"reply">>}
               \/ /\ ~Live(x) /\ ~Named(x)' /\ pc[p] = "scan"
                  /\ conn'[x].from = p /\ conn'[x].to[2] = Head(todo[p]) /\ conn'[x].up = <<>>
    <3>1. CASE x = k
      BY <1>0, <2>2, <2>3, <2>5, <3>1 DEF Fresh, Named
    <3>2. CASE x # k
      BY <2>5, <2>9, <3>2 DEF Live, Named
    <3> QED BY <3>1, <3>2
  <2>10. /\ {pc[p], pc'[p]} \cap (Connected \cup {"gone", "served"}) = {}
         /\ pc[p] \in Asking /\ pc'[p] \in Asking
         /\ pc'[p] # "hostlist" /\ pc'[p] # "ack" /\ pc'[p] # "reply"
    BY <1>0, <2>6 DEF Connected, Asking
  <2> QED BY <1>0, <2>6, <2>7, <2>8, <2>9, <2>10 DEF Quiet
<1> QED BY <1>1, <1>2

\* the steps that leave the lines alone
LEMMA QuietSteps ==
  ASSUME SameSession = FALSE, BInv, NEW p \in Procs,
         \/ bind(p) /\ ~Gone(p)
         \/ accept(p) \/ ReadIds(p) \/ ReadAck(p) \/ DropsParent(p) \/ cobo_connect(p) \/ Rescan(p)
         \/ DropsChild(p) \/ ShakeSucceeds(p) \/ ShakeDrops(p) \/ connect_timeout(p)
  PROVE  Quiet(p)
<1>1. OInv
  BY DEF BInv
<1>2. CASE Rescan(p) \/ connect_timeout(p)
  <2>1. pc[p] = "scan" /\ UNCHANGED <<nprocs, pc, backlog, fd, s, todo, child_fd, me, conn>>
    BY <1>2 DEF Rescan, connect_timeout
  <2> QED BY <1>1, <2>1, WaitsQuiet
<1>3. CASE ShakeSucceeds(p)
  <2>1. pc[p] = "shake_client" \/ pc[p] = "shake_server"
    BY <1>3 DEF ShakeSucceeds, Shaking
  <2> QED BY <1>1, <1>3, <2>1, ServerShakesQuiet, ClientShakesQuiet
<1> QED BY <1>1, <1>2, <1>3, bindQuiet, acceptQuiet, ReadIdsQuiet, ReadAckQuiet, DropsParentQuiet,
           connectQuiet, DropsChildQuiet, ShakeDropsQuiet

\* connection k still exists, and the same is under way
Alike(k) == LET c == conn[k]
                d == conn'[k]
            IN
  d # NoConn /\ d.from = c.from /\ d.to = c.to /\ d.table = c.table /\ d.up = c.up /\ d.down = c.down

\* f does not reach the barrier, nor lose its way there
Steady(f) == /\ pc[f] \notin Over => pc'[f] \notin Over
             /\ pc[f] \in {"bcast", "gone"} => pc'[f] \in {"bcast", "gone"}
             /\ pc[f] = "open" => pc'[f] = "open"

LEMMA StillSound ==
  ASSUME BInv, OInv', NEW q \in Procs, Still(q), SameEnds, nprocs' = nprocs,
         HasParent(q) => Alike(fd[q]),
         HasParent(q) /\ pc[q] \in Placed => Steady(conn[fd[q]].from),
         \A r \in Procs : pc[r] = "open" => pc'[r] = "open"
  PROVE  Sound(q)'
<1>1. OInv /\ Sound(q)
  BY DEF BInv
<1>2. Ranked(q)'
  BY <1>1, StillRanked DEF Sound
<1>3. Reared(q)'
  <2>1. Reared(q) /\ child_fd'[q] = child_fd[q] /\ todo'[q] = todo[q] /\ pc'[q] = pc[q]
    BY <1>1 DEF Sound, Still
  <2> QED BY <1>1, <2>1, StillReared
<1> PICK k : k = fd[q]
  OBVIOUS
<1>4. Addressed(q)'
  <2> SUFFICES ASSUME pc[q] \in {"ack", "hostlist"} PROVE Addressed(q)'
    BY DEF Addressed, Still
  <2>1. HasParent(q)
    BY <1>1, IsDaemon DEF Probing, Asking
  <2> QED BY <1>1, <2>1 DEF Addressed, Sound, Still, Named, Alike
<1>5. Word(q)'
  <2> SUFFICES ASSUME pc[q] \in Placed, q[2] # Server PROVE Word(q)'
    BY DEF Word, Still
  <2>1. HasParent(q)
    BY PlacedIs DEF HasParent
  <2> PICK f : f = conn[k].from
    OBVIOUS
  <2>2. Steady(f) /\ Alike(k)
    BY <2>1
  <2> QED BY <1>1, <2>2 DEF Word, Sound, Still, Steady, Alike
<1>6. Rooted(q)'
  <2>1. pc[q] = "open" => pc[Root(q[1])] = "open" /\ Root(q[1]) \in Procs
    BY <1>1, RootIs DEF Sound, Rooted, Ranks
  <2> QED BY <2>1 DEF Rooted, Still, Root
<1> QED BY <1>2, <1>3, <1>4, <1>5, <1>6 DEF Sound

\* a line whose ends have done nothing the other end would have to know of
LEMMA LineStays ==
  ASSUME BInv, NEW k \in Conns, Live(k), NEW c, c = conn[k], NEW d, d = conn'[k],
         d.from = c.from, d.to = c.to, d.table = c.table, d.up = c.up,
         c.from \in c.open /\ c.from \notin d.open => pc'[c.from] = "gone",
         pc[c.from] \in {"gone", "served"} => pc'[c.from] = pc[c.from],
         Named(k) /\ pc'[c.from] \in Over => pc[c.from] \in Over,
         Named(k) /\ pc[c.from] # "gone" /\ fd[c.to] = k /\ pc[c.to] \in Over =>
           fd'[c.to] = k /\ pc'[c.to] \in Over /\ (c.up # <<>> => pc'[c.to] = "bcast")
  PROVE  Line(k)'
<1> PICK f, t : f = c.from /\ t = c.to
  OBVIOUS
<1>1. /\ t[2] = 0 <=> f[2] = Server
      /\ ~Named(k) => c.up \in {<<>>, <<"reply">>}
      /\ Named(k) =>
           /\ c.table = t /\ t[1] = f[1]
           /\ f \notin c.open => pc[f] = "gone"
           /\ f[2] = Server => pc[f] = "served"
           /\ pc[f] # "gone" /\ c.up # <<>> => fd[t] = k /\ pc[t] = "bcast"
           /\ f[2] # Server /\ pc[f] \in Over => fd[t] = k /\ pc[t] \in Over
  BY DEF BInv, Line
<1>2. Named(k)' <=> Named(k)
  BY DEF Named
<1>3. Named(k) =>
       /\ f \notin d.open => pc'[f] = "gone"
       /\ f[2] = Server => pc'[f] = "served"
       /\ pc'[f] # "gone" /\ c.up # <<>> => fd'[t] = k /\ pc'[t] = "bcast"
       /\ f[2] # Server /\ pc'[f] \in Over => fd'[t] = k /\ pc'[t] \in Over
  BY <1>1 DEF Over
<1> QED BY <1>1, <1>2, <1>3 DEF Line

LEMMA GoneSound ==
  ASSUME BInv, OInv', NEW p \in Procs, Gone(p), pc[p] \notin {"open", "served", "gone"},
         pc[p] = "bcast" => conn[fd[p]].open = {p}
  PROVE  BInv'
<1>1. /\ pc' = [pc EXCEPT ![p] = "gone"] /\ conn' = Shut(conn, p, EndsOf(p))
      /\ fd' = [fd EXCEPT ![p] = 0] /\ s' = [s EXCEPT ![p] = 0] /\ todo' = [todo EXCEPT ![p] = <<>>]
      /\ child_fd' = [child_fd EXCEPT ![p] = <<>>] /\ UNCHANGED <<nprocs, me>>
  BY DEF Gone
<1>2. OInv /\ Typed /\ Sound(p)
  BY DEF BInv, OInv
<1>3. /\ pc'[p] = "gone" /\ child_fd'[p] = <<>>
      /\ \A q \in Procs \ {p} : Still(q)
  BY <1>1, <1>2 DEF Typed, Still
<1>4. ASSUME NEW k \in Conns, conn'[k] # NoConn
      PROVE  /\ Live(k) /\ Alike(k) /\ conn'[k].open \in {conn[k].open, conn[k].open \ {p}}
  <2>1. conn \in [Conns -> Connections \cup {NoConn}]
    BY <1>2 DEF Typed
  <2> QED BY <1>1, <1>4, <2>1, ShutLike DEF Alike, Live
<1>5. SameEnds
  BY <1>4 DEF SameEnds, Alike, Live
<1>6. \A f \in Procs : /\ Steady(f) /\ (pc'[f] \in Over => pc[f] \in Over)
                       /\ pc[f] \in {"gone", "served"} => pc'[f] = pc[f]
  BY <1>3 DEF Steady, Still, Over
<1>7. ASSUME NEW k \in Conns
      PROVE  Line(k)'
  <2> SUFFICES ASSUME conn'[k] # NoConn PROVE Line(k)'
    BY DEF Line, Live
  <2> PICK c, d : c = conn[k] /\ d = conn'[k]
    OBVIOUS
  <2>1. Live(k) /\ Alike(k) /\ d.open \in {c.open, c.open \ {p}}
    BY <1>4
  <2>2. c.from \in Procs /\ c.to \in Procs
    <3>1. c \in Connections
      BY <1>2, <2>1 DEF Typed, Live
    <3> QED BY <3>1 DEF Connections, Ranks
  <2>3. c.from \in c.open /\ c.from \notin d.open => pc'[c.from] = "gone"
    BY <1>3, <2>1
  <2>4. ASSUME Named(k), pc[c.from] # "gone", fd[c.to] = k, pc[c.to] \in Over
        PROVE  fd'[c.to] = k /\ pc'[c.to] = pc[c.to]
    <3>1. CASE c.to = p
      <4>1. pc[p] = "bcast"
        BY <2>4, <3>1 DEF Over
      <4>2. c.open = {p}
        BY <2>4, <3>1, <4>1
      <4>3. c.from # c.to
        BY <1>2, <2>1 DEF OInv, Ends
      <4>4. pc[c.from] = "gone"
        BY <2>1, <2>4, <3>1, <4>2, <4>3 DEF BInv, Line
      <4> QED BY <2>4, <4>4
    <3>2. CASE c.to # p
      BY <1>3, <2>2, <2>4, <3>2 DEF Still
    <3> QED BY <3>1, <3>2
  <2>5. Named(k) /\ pc[c.from] # "gone" /\ c.up # <<>> => pc[c.to] = "bcast"
    BY <2>1 DEF BInv, Line
  <2>6. Named(k) /\ pc[c.from] # "gone" /\ fd[c.to] = k /\ pc[c.to] \in Over =>
          fd'[c.to] = k /\ pc'[c.to] \in Over /\ (c.up # <<>> => pc'[c.to] = "bcast")
    BY <2>4, <2>5
  <2>7. d.from = c.from /\ d.to = c.to /\ d.table = c.table /\ d.up = c.up
    BY <2>1 DEF Alike
  <2> QED BY <1>6, <2>1, <2>2, <2>3, <2>6, <2>7, LineStays
<1>8. ASSUME NEW q \in Procs, q # p
      PROVE  Sound(q)'
  <2>1. Still(q)
    BY <1>3, <1>8
  <2>2. ASSUME HasParent(q)
        PROVE  Alike(fd[q]) /\ Steady(conn[fd[q]].from)
    <3>1. fd[q] \in Conns /\ conn[fd[q]].from \in Procs
      BY <1>2, <2>2, HasLine
    <3>2. conn'[fd[q]] # NoConn
      <4>1. Child(q)' /\ HasParent(q)'
        BY <1>1, <2>1, <2>2, SameProcs DEF OInv, Wired, HasParent, Still
      <4> QED BY <2>1, <4>1 DEF Child, Still, Live
    <3> QED BY <1>4, <1>6, <3>1, <3>2
  <2>3. \A r \in Procs : pc[r] = "open" => pc'[r] = "open"
    BY <1>6 DEF Steady
  <2> QED BY <1>1, <1>5, <2>1, <2>2, <2>3, StillSound
<1>9. Sound(p)'
  <2>1. "gone" \notin Placed /\ "gone" \notin Asking /\ "gone" \notin Connected
    BY PlacedIs DEF Asking, Connected
  <2>2. Ranked(p)'
    BY <1>1, <1>2, <1>3, <2>1 DEF Sound, Ranked, NoRank
  <2>3. Reared(p)'
    BY <1>3, <2>1 DEF Reared
  <2> QED BY <1>3, <2>1, <2>2, <2>3 DEF Sound, Addressed, Word, Rooted
<1>10. Procs' = Procs /\ Conns' = Conns
  BY <1>1, SameProcs DEF Conns
<1> QED BY <1>7, <1>8, <1>9, <1>10 DEF BInv

\* the steps in which a process goes
LEMMA LosesSound ==
  ASSUME BInv, OInv', NEW p \in Procs,
         \/ bind(p) /\ Gone(p)
         \/ HostlistFails(p) \/ GiveUp(p) \/ HostlistNotSent(p) \/ HandshakeFails(p) \/ BarrierFails(p)
  PROVE  BInv'
<1>1. /\ Gone(p) /\ pc[p] \in {"start", "hostlist", "scan", "reply", "shake_client", "shake_server",
                               "reduce", "bcast"}
      /\ pc[p] = "bcast" => conn[fd[p]].open = {p}
  BY DEF bind, HostlistFails, GiveUp, HostlistNotSent, HandshakeFails, BarrierFails, Shaking, PeerClosed
<1> QED BY <1>1, GoneSound

LEMMA ReadHostlistSound ==
  ASSUME BInv, OInv', NEW p \in Procs, ReadHostlist(p)
  PROVE  BInv'
<1> PICK x, t : x = fd[p] /\ t = conn[x].table
  OBVIOUS
<1> PICK cs, n : cs = WordRead(x) /\ n = Children(t[2], nprocs[t[1]])
  OBVIOUS
<1>1. /\ pc[p] = "hostlist" /\ pc' = [pc EXCEPT ![p] = AfterChild(p, n)] /\ conn[x].down # <<>>
      /\ conn' = cs /\ me' = [me EXCEPT ![p] = t] /\ todo' = [todo EXCEPT ![p] = n]
      /\ UNCHANGED <<nprocs, backlog, fd, s, child_fd>>
  BY DEF ReadHostlist, WordRead
<1>2. OInv /\ Typed /\ Wired(p) /\ Sound(p)
  BY DEF BInv, OInv
<1>3. p[2] # Server /\ HasParent(p)
  BY <1>1, <1>2, IsDaemon DEF Asking, Probing
<1>4. x \in Conns /\ Live(x) /\ conn[x].to = p /\ Named(x)
  BY <1>2, <1>3, <1>1, HasLine, StringSets
<1>5. /\ cs[x] \in Connections /\ \A y \in Conns : y # x => cs[y] = conn[y]
      /\ cs[x].from = conn[x].from /\ cs[x].to = conn[x].to /\ cs[x].open = conn[x].open
      /\ cs[x].table = conn[x].table
      /\ cs[x].up = conn[x].up /\ cs[x].down = Tail(conn[x].down)
  BY <1>1, <1>2, <1>4, OneWordRead
<1>6. t = p
  BY <1>4 DEF BInv, Line
<1>7. /\ pc'[p] = IF n # <<>> THEN "scan" ELSE "reduce"
      /\ me'[p] = p /\ todo'[p] = n /\ \A q \in Procs \ {p} : Still(q)
  BY <1>1, <1>2, <1>3, <1>6 DEF Typed, Still, AfterChild
<1>8. SameEnds
  BY <1>1, <1>4, <1>5 DEF SameEnds, Live
<1>9. \A f \in Procs : /\ Steady(f) /\ (pc'[f] \in Over => pc[f] \in Over)
                       /\ pc[f] \in {"gone", "served"} => pc'[f] = pc[f]
  BY <1>1, <1>7 DEF Steady, Still, Over
<1>10. ASSUME NEW k \in Conns
       PROVE  Line(k)'
  <2> SUFFICES ASSUME conn'[k] # NoConn PROVE Line(k)'
    BY DEF Line, Live
  <2> PICK c, d : c = conn[k] /\ d = conn'[k]
    OBVIOUS
  <2>1. Live(k) /\ d.from = c.from /\ d.to = c.to /\ d.table = c.table /\ d.up = c.up /\ d.open = c.open
    BY <1>1, <1>4, <1>5 DEF Live
  <2>2. c.from \in Procs /\ c.to \in Procs
    <3>1. c \in Connections
      BY <1>2, <2>1 DEF Typed, Live
    <3> QED BY <3>1 DEF Connections, Ranks
  <2>3. pc[c.to] \in Over => fd'[c.to] = fd[c.to] /\ pc'[c.to] = pc[c.to]
    BY <1>1, <1>7, <2>2 DEF Over, Still
  <2>4. Named(k) /\ pc[c.from] # "gone" /\ c.up # <<>> => pc[c.to] = "bcast"
    BY <2>1 DEF BInv, Line
  <2>5. Named(k) /\ pc[c.from] # "gone" /\ fd[c.to] = k /\ pc[c.to] \in Over =>
          fd'[c.to] = k /\ pc'[c.to] \in Over /\ (c.up # <<>> => pc'[c.to] = "bcast")
    BY <2>3, <2>4, SMTT(30)
  <2> QED BY <1>9, <2>1, <2>2, <2>5, LineStays
<1>11. ASSUME NEW q \in Procs, q # p
       PROVE  Sound(q)'
  <2>1. Still(q)
    BY <1>7, <1>11
  <2>2. ASSUME HasParent(q)
        PROVE  Alike(fd[q]) /\ Steady(conn[fd[q]].from)
    <3>1. fd[q] \in Conns /\ Live(fd[q]) /\ conn[fd[q]].to = q /\ conn[fd[q]].from \in Procs
      BY <1>2, <2>2, HasLine
    <3>2. conn'[fd[q]] = conn[fd[q]]
      BY <1>1, <1>4, <1>5, <1>11, <3>1
    <3> QED BY <1>9, <3>1, <3>2 DEF Alike, Live
  <2> QED BY <1>1, <1>8, <1>9, <2>1, <2>2, StillSound, Zenon DEF Steady
<1>12. Sound(p)'
  <2>1. pc'[p] \in {"scan", "reduce"} /\ "scan" \notin Over /\ "reduce" \notin Over
    BY <1>7 DEF Over
  <2>2. Ranked(p)'
    BY <1>7, <2>1 DEF Ranked
  <2>3. child_fd'[p] = <<>>
    BY <1>1, <1>2, <1>3, PlacedIs DEF Sound, Reared
  <2>4. n = Children(p[2], nprocs[p[1]])' /\ Split(n, <<>>, n)'
    <3>1. n = Children(p[2], nprocs[p[1]])' /\ n \in Seq(Int)
      BY <1>1, <1>6, <1>7 DEF OInv, Typed
    <3>2. \A m \in Nat : 0 + m = m
      OBVIOUS
    <3>3. Len(<<>>) = 0 /\ Len(n) \in Nat /\ 1 .. 0 = {}
      BY <3>1
    <3>4. \A y \in 1 .. Len(n) : 0 + y = y
      BY <3>3
    <3> QED BY <3>1, <3>2, <3>3, <3>4 DEF Split
  <2>5. Reared(p)'
    BY <1>3, <1>7, <2>1, <2>3, <2>4 DEF Reared, Connected
  <2>6. Word(p)'
    <3>1. conn[x].up = <<>> /\ conn[x].down = <<"hostlist">>
      BY <1>1, <1>2 DEF Sound, Addressed
    <3>2. Tail(<<"hostlist">>) = <<>>
      OBVIOUS
    <3>3. conn'[fd'[p]].up = <<>> /\ conn'[fd'[p]].down = <<>>
      BY <1>1, <1>5, <3>1, <3>2
    <3> QED BY <2>1, <3>3 DEF Word
  <2> QED BY <2>1, <2>2, <2>5, <2>6 DEF Sound, Addressed, Rooted
<1>13. Procs' = Procs /\ Conns' = Conns
  BY <1>1, SameProcs DEF Conns
<1> QED BY <1>10, <1>11, <1>12, <1>13 DEF BInv

\* K children, and those in T still to come, make C
Listed(C, K, T) == Len(K) + Len(T) = Len(C) /\ \A x \in 1 .. Len(T) : T[x] = C[Len(K) + x]
\* L is K and k, which stands for h
Longer(C, L, K, k, h) == \A x \in 1 .. Len(L) : \/ x \in 1 .. Len(K) /\ L[x] = K[x]
                                                \/ L[x] = k /\ h = C[x]

LEMMA OneMoreChild ==
  ASSUME NEW C, NEW K \in Seq(Conns), NEW T \in Seq(Int), T # <<>>, NEW k \in Conns,
         Listed(C, K, T)
  PROVE  /\ Listed(C, Append(K, k), Tail(T))
         /\ Longer(C, Append(K, k), K, k, Head(T))
<1> PICK a, b, U : a = Len(K) /\ b = Len(T) /\ U = Tail(T)
  OBVIOUS
<1>1. a \in Nat /\ b \in Nat /\ b # 0 /\ U \in Seq(Int) /\ Len(U) = b - 1
      /\ Head(T) = T[1] /\ 1 \in 1 .. b
      /\ \A x \in 1 .. b - 1 : U[x] = T[x + 1] /\ x + 1 \in 1 .. b
  OBVIOUS
<1>2. Len(Append(K, k)) = a + 1
  OBVIOUS
<1>3. \A x \in 1 .. a : Append(K, k)[x] = K[x]
  OBVIOUS
<1>4. Append(K, k)[a + 1] = k
  OBVIOUS
<1>5. \A x \in 1 .. b - 1 : a + (x + 1) = a + 1 + x
  BY <1>1
<1>6. a + b = Len(C) /\ \A x \in 1 .. b : T[x] = C[a + x]
  BY DEF Listed
<1>7. \A x \in 1 .. b - 1 : U[x] = C[a + 1 + x]
  BY <1>1, <1>5, <1>6
<1>8. a + 1 + (b - 1) = a + b
  BY <1>1
<1>9. \A x \in 1 .. a + 1 : x \in 1 .. a \/ x = a + 1
  <2>1. \A m \in Nat : \A x \in 1 .. m + 1 : x \in 1 .. m \/ x = m + 1
    OBVIOUS
  <2> QED BY <1>1, <2>1, Zenon
<1>10. Head(T) = C[a + 1]
  BY <1>1, <1>6
<1>11. Listed(C, Append(K, k), U)
  BY <1>1, <1>2, <1>6, <1>7, <1>8 DEF Listed
<1>12. Longer(C, Append(K, k), K, k, Head(T))
  BY <1>2, <1>3, <1>4, <1>9, <1>10 DEF Longer
<1> QED BY <1>11, <1>12

LEMMA ReadReplySound ==
  ASSUME BInv, OInv', NEW p \in Procs, ReadReply(p)
  PROVE  BInv'
<1> PICK k, r : k = s[p] /\ r = conn[k].to
  OBVIOUS
<1> PICK t, n : t = <<me[p][1], Head(todo[p])>> /\ n = Tail(todo[p])
  OBVIOUS
<1>1. /\ pc[p] = "reply" /\ conn[k].up # <<>> /\ pc' = [pc EXCEPT ![p] = AfterChild(p, n)]
      /\ conn' = [conn EXCEPT ![k].up = Tail(@), ![k].down = @ \o <<"ack", "hostlist">>, ![k].table = t]
      /\ child_fd' = [child_fd EXCEPT ![p] = Append(@, k)] /\ todo' = [todo EXCEPT ![p] = n]
      /\ UNCHANGED <<nprocs, backlog, fd, me>> /\ s' = [s EXCEPT ![p] = 0]
  BY DEF ReadReply
<1>2. /\ OInv /\ Typed /\ Wired(p) /\ Sound(p) /\ Trying(p) /\ \A y \in Conns : Ends(y)
  BY <1>1 DEF BInv, OInv, Trying
<1>3. /\ k \in Conns /\ Live(k) /\ conn[k] \in Connections /\ conn[k].from = p /\ p \in conn[k].open
      /\ ~Named(k) /\ todo[p] # <<>> /\ conn[k].to[2] = Head(todo[p]) /\ k \notin kids(p)
  BY <1>2, Tested, Apart DEF Wired, Client
<1>4. /\ p[2] # Server => HasParent(p) /\ fd[p] # k
      /\ r \in Procs /\ r # p
  <2>1. r \in Ranks
    BY <1>3 DEF Connections
  <2> QED BY <1>2, <1>3, <2>1, Tested, Apart DEF Ends, Ranks
<1>5. t = r
  <2>1. r[1] = p[1] /\ me[p] = p
    BY <1>1, <1>2, PlacedIs DEF Sound, Ranked, Placed
  <2>2. r = <<r[1], r[2]>>
    BY <1>4 DEF Procs, Ids
  <2> QED BY <1>3, <2>1, <2>2
<1>6. conn[k].up = <<"reply">>
  BY <1>1, <1>3 DEF BInv, Line
<1> PICK c, d : c = conn[k] /\ d = conn'[k]
  OBVIOUS
<1>7. /\ d \in Connections /\ d.from = c.from /\ d.to = c.to /\ d.open = c.open /\ d.table = r
      /\ d.up = <<>> /\ d.down = c.down \o <<"ack", "hostlist">>
  <2> PICK w, v : w = c.down \o <<"ack", "hostlist">> /\ v = Tail(c.up)
    OBVIOUS
  <2>1. d = [c EXCEPT !.up = v, !.down = w, !.table = t]
    BY <1>1, <1>2, <1>3 DEF Typed
  <2>2. c.down \in Seq(Words) /\ c.up = <<"reply">>
    BY <1>6, <1>3 DEF Connections
  <2>3. <<"ack", "hostlist">> \in Seq(Words)
    BY DEF Words
  <2>4. w \in Seq(Words)
    BY <2>2, <2>3
  <2>6. v = <<>> /\ v \in Seq(Words)
    <3>1. Tail(<<"reply">>) = <<>>
      OBVIOUS
    <3> QED BY <2>2, <3>1
  <2>5. c \in Connections /\ r \in Ranks
    BY <1>3 DEF Connections
  <2> QED BY <1>5, <2>1, <2>4, <2>5, <2>6 DEF Connections
<1>8. \A y \in Conns : y # k => conn'[y] = conn[y]
  BY <1>1, <1>2 DEF Typed
<1>9. /\ pc'[p] = AfterChild(p, n) /\ todo'[p] = n /\ child_fd'[p] = Append(child_fd[p], k)
      /\ \A q \in Procs \ {p} : Still(q)
  BY <1>1, <1>2 DEF Typed, Still
<1>10. /\ n # <<>> => AfterChild(p, n) = "scan"
       /\ n = <<>> /\ p[2] = Server => AfterChild(p, n) = "served"
       /\ n = <<>> /\ p[2] # Server => AfterChild(p, n) = "reduce"
  BY DEF AfterChild
<1>11. p[2] = Server => n = <<>>
  <2>1. p[2] = Server => todo[p] = <<0>>
    BY <1>1, <1>2 DEF Sound, Reared, Asking
  <2>2. Tail(<<0>>) = <<>>
    OBVIOUS
  <2> QED BY <2>1, <2>2
<1>12. SameEnds
  BY <1>3, <1>7, <1>8 DEF SameEnds, Live
<1>13. \A f \in Procs : /\ Steady(f) /\ (pc'[f] \in Over => pc[f] \in Over)
                        /\ pc[f] \in {"gone", "served"} => pc'[f] = pc[f]
  BY <1>1, <1>9, <1>10 DEF Steady, Still, Over
<1>14. Named(k)'
  <2>1. r[1] # "none"
    BY <1>4 DEF Procs, Ids, Jobs
  <2> QED BY <1>7, <2>1 DEF Named, NoTable
<1>15. Line(k)'
  <2>1. r[2] = 0 <=> p[2] = Server
    BY <1>3 DEF BInv, Line
  <2>2. r[1] = p[1]
    BY <1>1, <1>2 DEF Sound, Ranked
  <2>3. p[2] = Server => pc'[p] = "served"
    BY <1>9, <1>10, <1>11
  <2>4. pc'[p] \notin Over
    BY <1>9, <1>10 DEF Over
  <2> QED BY <1>3, <1>7, <1>14, <2>1, <2>2, <2>3, <2>4 DEF Line
<1>16. ASSUME NEW y \in Conns, y # k
       PROVE  Line(y)'
  <2> SUFFICES ASSUME conn'[y] # NoConn PROVE Line(y)'
    BY DEF Line, Live
  <2> PICK e : e = conn[y]
    OBVIOUS
  <2>1. Live(y) /\ conn'[y] = e
    BY <1>8, <1>16 DEF Live
  <2>2. e.from \in Procs /\ e.to \in Procs
    <3>1. e \in Connections
      BY <1>2, <2>1 DEF Typed, Live
    <3> QED BY <3>1 DEF Connections, Ranks
  <2>3. pc[e.to] \in Over => fd'[e.to] = fd[e.to] /\ pc'[e.to] = pc[e.to]
    BY <1>1, <1>9, <2>2 DEF Over, Still
  <2>4. Named(y) /\ pc[e.from] # "gone" /\ e.up # <<>> => pc[e.to] = "bcast"
    BY <2>1 DEF BInv, Line
  <2>5. Named(y) /\ pc[e.from] # "gone" /\ fd[e.to] = y /\ pc[e.to] \in Over =>
          fd'[e.to] = y /\ pc'[e.to] \in Over /\ (e.up # <<>> => pc'[e.to] = "bcast")
    BY <2>3, <2>4
  <2> QED BY <1>13, <2>1, <2>2, <2>5, LineStays
<1>17. ASSUME NEW q \in Procs, q # p, ~(HasParent(q) /\ fd[q] = k)
       PROVE  Sound(q)'
  <2>1. Still(q)
    BY <1>9, <1>17
  <2>2. ASSUME HasParent(q)
        PROVE  Alike(fd[q]) /\ Steady(conn[fd[q]].from)
    <3>1. fd[q] \in Conns /\ Live(fd[q]) /\ conn[fd[q]].from \in Procs
      BY <1>2, <2>2, HasLine
    <3>2. conn'[fd[q]] = conn[fd[q]]
      BY <1>8, <1>17, <2>2, <3>1
    <3> QED BY <1>13, <3>1, <3>2 DEF Alike, Live
  <2> QED BY <1>1, <1>12, <1>13, <2>1, <2>2, StillSound DEF Steady
<1>18. ASSUME NEW q \in Procs, q # p, HasParent(q), fd[q] = k
       PROVE  Sound(q)'
  <2>1. Still(q) /\ Sound(q) /\ Child(q)
    BY <1>2, <1>9, <1>18 DEF BInv, OInv, Wired
  <2>2. pc[q] = "ack" /\ c.down = <<>>
    <3>1. pc[q] \in Probing
      BY <1>3, <1>18, HasLine, <1>2 DEF HasParent
    <3>2. pc[q] \notin {"shake_server", "ids"}
      BY <1>1, <1>18, <2>1 DEF Child
    <3> QED BY <1>3, <1>18, <2>1, <3>1, <3>2 DEF Child, Probing
  <2>3. pc'[q] = "ack" /\ "ack" \notin Placed /\ fd'[q] = k
    BY <1>18, <2>1, <2>2, PlacedIs DEF Still, Probing
  <2>4. Ranked(q)'
    BY <1>1, <1>2, <1>12, <2>1, StillRanked DEF Sound
  <2>5. Reared(q)'
    <3>1. Reared(q) /\ child_fd'[q] = child_fd[q] /\ todo'[q] = todo[q] /\ pc'[q] = pc[q]
      BY <2>1 DEF Sound, Still
    <3> QED BY <1>1, <1>2, <1>12, <3>1, StillReared
  <2>6. Addressed(q)'
    <3>1. <<>> \o <<"ack", "hostlist">> = <<"ack", "hostlist">>
      OBVIOUS
    <3>2. d.up = <<>> /\ d.down = <<"ack", "hostlist">>
      BY <1>7, <2>2, <3>1
    <3> QED BY <2>3, <3>2 DEF Addressed
  <2> QED BY <2>3, <2>4, <2>5, <2>6 DEF Sound, Word, Rooted
<1>19. Reared(p)'
  <2> PICK cf, td, C : cf = child_fd[p] /\ td = todo[p] /\ C = Children(p[2], nprocs[p[1]])
    OBVIOUS
  <2>1. CASE p[2] = Server
    BY <1>9, <1>10, <1>11, <2>1 DEF Reared, Asking, Connected
  <2>2. CASE p[2] # Server
    <3>1. Split(C, cf, td)
      BY <1>1, <1>2, <2>2, PlacedIs DEF Sound, Reared, Placed
    <3>2. cf \in Seq(Conns) /\ td \in Seq(Int) /\ td # <<>>
      BY <1>2, <1>3 DEF Typed
    <3> PICK K, T : K = Append(cf, k) /\ T = Tail(td)
      OBVIOUS
    <3>3. /\ Len(K) + Len(T) = Len(C)
          /\ \A x \in 1 .. Len(T) : T[x] = C[Len(K) + x]
          /\ \A x \in 1 .. Len(K) : \/ x \in 1 .. Len(cf) /\ K[x] = cf[x]
                                    \/ K[x] = k /\ Head(td) = C[x]
      <4>1. Listed(C, cf, td)
        BY <3>1 DEF Split, Listed
      <4>2. Listed(C, K, T) /\ Longer(C, K, cf, k, Head(td))
        BY <1>3, <3>2, <4>1, OneMoreChild
      <4> QED BY <4>2 DEF Listed, Longer
    <3>4. ASSUME NEW x \in 1 .. Len(K)
          PROVE  conn'[K[x]].to[2] = C[x]
      <4>1. CASE x \in 1 .. Len(cf) /\ K[x] = cf[x]
        <5>1. conn[cf[x]].to[2] = C[x]
          BY <3>1, <4>1 DEF Split
        <5>2. cf[x] \in kids(p)
          <6>1. x \in DOMAIN cf
            BY <3>2, <4>1
          <6> QED BY <6>1 DEF kids, ToSet
        <5>3. cf[x] \in Conns
          BY <1>2, <5>2, KidsAre
        <5>4. conn'[cf[x]] = conn[cf[x]]
          BY <1>3, <1>8, <5>2, <5>3
        <5> QED BY <4>1, <5>1, <5>4
      <4>2. CASE K[x] = k /\ Head(td) = C[x]
        <5>1. d.to[2] = Head(td)
          BY <1>3, <1>7
        <5> QED BY <4>2, <5>1
      <4> QED BY <3>3, <4>1, <4>2
    <3>5. Split(C, K, T)'
      BY <3>3, <3>4 DEF Split
    <3>6. Children(p[2], nprocs[p[1]])' = C /\ child_fd'[p] = K /\ todo'[p] = T
      BY <1>1, <1>9
    <3>7. pc'[p] \in Connected => T = <<>>
      BY <1>9, <1>10 DEF Connected
    <3>8. pc'[p] \in Placed
      BY <1>9, <1>10, <2>2 DEF Placed, Connected
    <3>9. Split(Children(p[2], nprocs[p[1]]), child_fd[p], todo[p])' <=> Split(C, K, T)'
      BY <3>6 DEF Split
    <3> QED BY <2>2, <3>5, <3>6, <3>7, <3>8, <3>9 DEF Reared
  <2> QED BY <2>1, <2>2
<1>20. Sound(p)'
  <2>1. /\ pc'[p] \in {"scan", "served", "reduce"} /\ pc'[p] \notin Over
        /\ pc'[p] \notin {"ack", "hostlist", "open", "bcast", "reply"}
    BY <1>9, <1>10 DEF Over
  <2>2. Ranked(p)'
    <3>1. pc[p] \in Placed
      BY <1>1 DEF Placed
    <3> QED BY <1>1, <1>2, <2>1, <3>1 DEF Sound, Ranked, NoRank
  <2>3. Word(p)'
    <3> SUFFICES ASSUME p[2] # Server PROVE Word(p)'
      BY DEF Word
    <3>1. conn[fd[p]].up = <<>> /\ conn[fd[p]].down = <<>>
      BY <1>1, <1>2 DEF Sound, Word, Placed, Over
    <3>2. conn'[fd'[p]] = conn[fd[p]]
      BY <1>1, <1>2, <1>4, <1>8, HasLine
    <3> QED BY <2>1, <3>1, <3>2 DEF Word
  <2> QED BY <1>19, <2>1, <2>2, <2>3 DEF Sound, Addressed, Rooted
<1>21. Procs' = Procs /\ Conns' = Conns
  BY <1>1, SameProcs DEF Conns
<1> QED BY <1>15, <1>16, <1>17, <1>18, <1>20, <1>21 DEF BInv

\* the result goes down
Lowered(d, c) == Like(d, c) /\ d.down = Append(c.down, "go") /\ d.up = c.up

LEMMA TellChild ==
  ASSUME NEW cs, NEW K, NEW k \in Conns, k \in K, NEW c, c = cs[k], c \in Connections,
         NEW ds, ds = Tell(cs, K, "down", "go"), NEW d, d = ds[k]
  PROVE  Lowered(d, c)
<1>1. d = [c EXCEPT !.down = Append(c.down, "go")]
  BY DEF Tell, Conns
<1>2. Append(c.down, "go") \in Seq(Words)
  BY DEF Connections, Words
<1> QED BY <1>1, <1>2 DEF Connections, Like, Lowered

\* the maximum goes up by connection x
ToParent(cs, x) == Tell(cs, {x}, "up", "max")

Raised(d, c) == Like(d, c) /\ d.up = Append(c.up, "max") /\ d.down = c.down

LEMMA TellParent ==
  ASSUME NEW cs, NEW x \in Conns, NEW c, c = cs[x], c \in Connections,
         NEW ds, ds = ToParent(cs, x), NEW d, d = ds[x]
  PROVE  Raised(d, c)
<1>1. d = [c EXCEPT !.up = Append(c.up, "max")]
  BY DEF ToParent, Tell, Conns
<1>2. Append(c.up, "max") \in Seq(Words)
  BY DEF Connections, Words
<1> QED BY <1>1, <1>2 DEF Connections, Like, Raised

\* the child at the other end of connection k
LEMMA KidIs ==
  ASSUME BInv, NEW p \in Procs, pc[p] \in Connected, NEW k \in kids(p),
         conn[k].up # <<>> \/ pc[p] \in Over
  PROVE  LET q == conn[k].to IN
         /\ k \in Conns /\ Live(k) /\ Named(k) /\ conn[k] \in Connections
         /\ conn[k].from = p /\ p \in conn[k].open
         /\ q \in Procs /\ q # p /\ q[2] # Server /\ q[2] # 0
         /\ HasParent(q) /\ fd[q] = k /\ pc[q] \in Over /\ (conn[k].up # <<>> => pc[q] = "bcast")
<1>1. OInv /\ Typed /\ Wired(p)
  BY DEF BInv, OInv
<1>2. /\ k \in Conns /\ Live(k) /\ Named(k) /\ conn[k] \in Connections
      /\ conn[k].from = p /\ p \in conn[k].open /\ p[2] # Server
  BY <1>1, Lined DEF Wired, Father
<1>3. conn[k].to \in Ranks
  BY <1>2 DEF Connections
<1>4. conn[k].to # p
  BY <1>1, <1>2 DEF OInv, Ends
<1> PICK q : q = conn[k].to
  OBVIOUS
<1>5. pc[p] # "gone"
  BY DEF Connected
<1>6. /\ q[2] # 0 /\ fd[q] = k /\ pc[q] \in Over /\ (conn[k].up # <<>> => pc[q] = "bcast")
  <2>1. /\ q[2] = 0 <=> p[2] = Server
        /\ conn[k].up # <<>> => fd[q] = k /\ pc[q] = "bcast"
        /\ pc[p] \in Over => fd[q] = k /\ pc[q] \in Over
    BY <1>2, <1>5 DEF BInv, Line
  <2> QED BY <1>2, <2>1 DEF Over
<1>7. HasParent(q)
  BY <1>3, <1>6, PlacedIs DEF HasParent, Ranks
<1> QED BY <1>2, <1>3, <1>4, <1>6, <1>7 DEF Ranks

\* p is the parent of nobody but its children
LEMMA KidsOnly ==
  ASSUME BInv, NEW p \in Procs, pc[p] # "gone", NEW k \in Conns, Live(k), Named(k), conn[k].from = p
  PROVE  k \in kids(p)
<1>1. p \in conn[k].open
  BY DEF BInv, Line
<1> QED BY <1>1 DEF BInv, OInv, Remembered

\* a line that p, which enters the barrier, has not written to
LEMMA LineBeside ==
  ASSUME BInv, NEW p \in Procs, pc[p] = "reduce", \A q \in Procs \ {p} : Still(q),
         NEW k \in Conns, Live(k), k \notin kids(p), conn'[k] = conn[k]
  PROVE  Line(k)'
<1> PICK c : c = conn[k]
  OBVIOUS
<1>1. c.from \in Procs /\ c.to \in Procs
  <2>1. c \in Connections
    BY DEF BInv, OInv, Typed, Live
  <2> QED BY <2>1 DEF Connections, Ranks
<1>2. Named(k) => c.from # p
  BY KidsOnly
<1>3. pc[c.from] \in {"gone", "served"} => pc'[c.from] = pc[c.from]
  BY <1>1 DEF Still
<1>4. Named(k) /\ pc'[c.from] \in Over => pc[c.from] \in Over
  BY <1>1, <1>2 DEF Still
<1>5. pc[c.to] \in Over => fd'[c.to] = fd[c.to] /\ pc'[c.to] = pc[c.to]
  BY <1>1 DEF Still, Over
<1>6. Named(k) /\ pc[c.from] # "gone" /\ c.up # <<>> => pc[c.to] = "bcast"
  BY DEF BInv, Line
<1>7. Named(k) /\ pc[c.from] # "gone" /\ fd[c.to] = k /\ pc[c.to] \in Over =>
        fd'[c.to] = k /\ pc'[c.to] \in Over /\ (c.up # <<>> => pc'[c.to] = "bcast")
  BY <1>5, <1>6
<1> QED BY <1>3, <1>4, <1>7, LineStays

\* a child q that has waited in the barrier
LEMMA KidSound ==
  ASSUME BInv, OInv', NEW p \in Procs, pc'[p] \in Over, nprocs' = nprocs, SameEnds,
         NEW q \in Procs, Still(q), pc[q] = "bcast", HasParent(q), conn[fd[q]].from = p,
         q[2] # 0, NEW d, d = conn'[fd[q]], d.from = p, d.up = <<>>,
         d.down = IF pc'[p] = "open" THEN <<"go">> ELSE <<>>
  PROVE  Sound(q)'
<1>1. OInv /\ Sound(q)
  BY DEF BInv
<1>2. Ranked(q)'
  BY <1>1, StillRanked DEF Sound
<1>3. Reared(q)'
  <2>1. Reared(q) /\ child_fd'[q] = child_fd[q] /\ todo'[q] = todo[q] /\ pc'[q] = pc[q]
    BY <1>1 DEF Sound, Still
  <2> QED BY <1>1, <2>1, StillReared
<1>4. pc'[q] = "bcast" /\ fd'[q] = fd[q]
  BY DEF Still
<1>5. Word(q)'
  <2>1. pc'[p] = "open" \/ pc'[p] = "bcast"
    BY DEF Over
  <2>2. "bcast" \in Over
    BY DEF Over
  <2> QED BY <1>4, <2>1, <2>2 DEF Word
<1> QED BY <1>2, <1>3, <1>4, <1>5 DEF Sound, Addressed, Rooted

LEMMA ReduceWrites ==
  ASSUME BInv, NEW p \in Procs, Reduce(p)
  PROVE  /\ pc[p] = "reduce" /\ me[p] = p
         /\ pc' = [pc EXCEPT ![p] = IF p[2] = 0 THEN "open" ELSE "bcast"]
         /\ UNCHANGED <<nprocs, backlog, fd, s, todo, child_fd, me>>
         /\ \A k \in kids(p) : conn[k].up # <<>>
         /\ \A k \in Conns : \/ conn'[k] = conn[k] /\ k \notin kids(p) /\ (k # fd[p] \/ p[2] = 0)
                             \/ k = fd[p] /\ p[2] # 0
                             \/ k \in kids(p)
         /\ \A k \in kids(p) : /\ Like(conn'[k], conn[k]) /\ conn'[k].up = <<>>
                               /\ conn'[k].down = IF p[2] = 0 THEN <<"go">> ELSE <<>>
         /\ p[2] # 0 => /\ Like(conn'[fd[p]], conn[fd[p]])
                        /\ conn[fd[p]].up = <<>> /\ conn[fd[p]].down = <<>>
                        /\ conn'[fd[p]].up = <<"max">> /\ conn'[fd[p]].down = <<>>
<1> PICK hs : hs = HeardFrom(p)
  OBVIOUS
<1>0. OInv /\ Sound(p) /\ Typed
  BY DEF BInv, OInv
<1>1. /\ pc[p] = "reduce" /\ \A k \in kids(p) : conn[k].up # <<>>
      /\ UNCHANGED <<nprocs, backlog, fd, s, todo, child_fd, me>>
      /\ IF me[p][2] = 0
         THEN conn' = Tell(hs, kids(p), "down", "go") /\ pc' = [pc EXCEPT ![p] = "open"]
         ELSE conn' = Tell(hs, {fd[p]}, "up", "max") /\ pc' = [pc EXCEPT ![p] = "bcast"]
  BY DEF Reduce, HeardFrom
<1>2. pc[p] \in Connected /\ pc[p] \in Placed /\ pc[p] \notin Over
  BY <1>1 DEF Connected, Placed, Over
<1>3. me[p] = p /\ p[2] # Server /\ HasParent(p) /\ fd[p] \in Conns /\ fd[p] \notin kids(p)
  BY <1>0, <1>2, Lined DEF Sound, Ranked
<1>4. /\ hs \in [Conns -> Connections \cup {NoConn}]
      /\ \A k \in Conns : /\ k \notin kids(p) => hs[k] = conn[k]
                          /\ k \in kids(p) => /\ Like(hs[k], conn[k]) /\ hs[k].down = conn[k].down
                                              /\ hs[k].up = Tail(conn[k].up)
  BY <1>0, <1>1, <1>2, Hearing
<1>5. ASSUME NEW k \in kids(p)
      PROVE  k \in Conns /\ Like(hs[k], conn[k]) /\ hs[k].up = <<>> /\ hs[k].down = <<>>
  <2> PICK q : q = conn[k].to
    OBVIOUS
  <2>1. /\ k \in Conns /\ q \in Procs /\ q[2] # Server /\ q[2] # 0
        /\ fd[q] = k /\ pc[q] = "bcast"
    BY <1>1, <1>2, KidIs
  <2>2. conn[k].up = <<"max">> /\ conn[k].down = <<>>
    <3>1. Word(q) /\ pc[q] \in Placed
      BY <2>1, PlacedIs DEF BInv, Sound, Over
    <3> QED BY <1>1, <2>1, <3>1 DEF Word
  <2>3. Tail(<<"max">>) = <<>>
    OBVIOUS
  <2> QED BY <1>4, <2>1, <2>2, <2>3
<1>6. "max" \in Words /\ "go" \in Words /\ "up" \in Fields /\ "down" \in Fields
  BY DEF Words, Fields
<1>7. CASE p[2] = 0
  <2>1. conn' = Tell(hs, kids(p), "down", "go") /\ pc' = [pc EXCEPT ![p] = "open"]
    BY <1>1, <1>3, <1>7
  <2>2. \A k \in Conns : k \notin kids(p) => conn'[k] = conn[k]
    BY <1>4, <1>6, <2>1, TellAt
  <2>3. ASSUME NEW k \in kids(p)
        PROVE  Like(conn'[k], conn[k]) /\ conn'[k].up = <<>> /\ conn'[k].down = <<"go">>
    <3> PICK c, d : c = hs[k] /\ d = conn'[k]
      OBVIOUS
    <3>1. c \in Connections /\ k \in Conns /\ c.up = <<>> /\ c.down = <<>>
      BY <1>5 DEF Like
    <3>2. Like(d, c) /\ d.down = Append(c.down, "go") /\ d.up = c.up
      <4>1. Lowered(d, c)
        BY <2>1, <3>1, TellChild
      <4> QED BY <4>1 DEF Lowered
    <3>3. Append(<<>>, "go") = <<"go">>
      OBVIOUS
    <3> QED BY <1>5, <3>1, <3>2, <3>3, LikeLike
  <2> QED BY <1>1, <1>3, <1>7, <2>1, <2>2, <2>3
<1>8. CASE p[2] # 0
  <2>1. conn' = Tell(hs, {fd[p]}, "up", "max") /\ pc' = [pc EXCEPT ![p] = "bcast"]
    BY <1>1, <1>3, <1>8
  <2>2. \A k \in Conns : k # fd[p] => conn'[k] = hs[k]
    BY <1>6, <2>1, TellAt
  <2>3. /\ Like(conn'[fd[p]], conn[fd[p]])
        /\ conn[fd[p]].up = <<>> /\ conn[fd[p]].down = <<>>
        /\ conn'[fd[p]].up = <<"max">> /\ conn'[fd[p]].down = <<>>
    <3> PICK x : x = fd[p]
      OBVIOUS
    <3> PICK c, d : c = hs[x] /\ d = conn'[x]
      OBVIOUS
    <3>1. x \in Conns /\ c = conn[x] /\ c \in Connections
      BY <1>0, <1>2, <1>3, <1>4, Lined
    <3>2. c.up = <<>> /\ c.down = <<>>
      BY <1>0, <1>2, <1>3, <3>1 DEF Sound, Word
    <3>3. Like(d, c) /\ d.up = Append(c.up, "max") /\ d.down = c.down
      <4>1. conn' = ToParent(hs, x)
        BY <2>1 DEF ToParent
      <4>2. Raised(d, c)
        BY <3>1, <4>1, TellParent
      <4> QED BY <4>2 DEF Raised
    <3>4. Append(<<>>, "max") = <<"max">>
      OBVIOUS
    <3> QED BY <3>1, <3>2, <3>3, <3>4
  <2>4. \A k \in kids(p) : Like(conn'[k], conn[k]) /\ conn'[k].up = <<>> /\ conn'[k].down = <<>>
    BY <1>3, <1>5, <2>2
  <2>5. \A k \in Conns : k # fd[p] /\ k \notin kids(p) => conn'[k] = conn[k]
    BY <1>4, <2>2
  <2> QED BY <1>1, <1>3, <1>8, <2>1, <2>3, <2>4, <2>5
<1> QED BY <1>7, <1>8

LEMMA ReduceSound ==
  ASSUME BInv, OInv', NEW p \in Procs, Reduce(p)
  PROVE  BInv'
<1>1. /\ pc[p] = "reduce" /\ me[p] = p
      /\ pc' = [pc EXCEPT ![p] = IF p[2] = 0 THEN "open" ELSE "bcast"]
      /\ UNCHANGED <<nprocs, backlog, fd, s, todo, child_fd, me>>
      /\ \A k \in kids(p) : conn[k].up # <<>>
  BY ReduceWrites
<1>2. /\ \A k \in Conns : \/ conn'[k] = conn[k] /\ k \notin kids(p) /\ (k # fd[p] \/ p[2] = 0)
                          \/ k = fd[p] /\ p[2] # 0
                          \/ k \in kids(p)
      /\ \A k \in kids(p) : /\ Like(conn'[k], conn[k]) /\ conn'[k].up = <<>>
                            /\ conn'[k].down = IF p[2] = 0 THEN <<"go">> ELSE <<>>
      /\ p[2] # 0 => /\ Like(conn'[fd[p]], conn[fd[p]])
                     /\ conn[fd[p]].up = <<>> /\ conn[fd[p]].down = <<>>
                     /\ conn'[fd[p]].up = <<"max">> /\ conn'[fd[p]].down = <<>>
  BY ReduceWrites
<1>3. OInv /\ Typed /\ Sound(p) /\ pc[p] \in Connected /\ pc[p] \notin Over
  BY <1>1 DEF BInv, OInv, Connected, Over
<1>4. /\ p[2] # Server /\ HasParent(p) /\ fd[p] \in Conns /\ fd[p] \notin kids(p)
      /\ \A k \in kids(p) \cup {fd[p]} : k \in Conns /\ Live(k) /\ Named(k) /\ conn[k] \in Connections
  BY <1>3, Lined
<1>5. /\ pc'[p] = (IF p[2] = 0 THEN "open" ELSE "bcast") /\ pc'[p] \in Over
      /\ \A q \in Procs \ {p} : Still(q)
  BY <1>1, <1>3 DEF Typed, Still, Over
<1>6. SameEnds
  BY <1>2 DEF SameEnds, Like, Live
<1>7. \A k \in kids(p) : LET q == conn[k].to IN
         /\ conn[k].from = p /\ p \in conn[k].open
         /\ q \in Procs /\ q # p /\ q[2] # Server /\ q[2] # 0
         /\ HasParent(q) /\ fd[q] = k /\ pc[q] = "bcast"
  BY <1>1, <1>3, KidIs
<1>8. ASSUME NEW k \in Conns
      PROVE  Line(k)'
  <2> SUFFICES ASSUME conn'[k] # NoConn PROVE Line(k)'
    BY DEF Line, Live
  <2> PICK c, d : c = conn[k] /\ d = conn'[k]
    OBVIOUS
  <2>1. CASE k \in kids(p)
    <3> PICK q : q = c.to
      OBVIOUS
    <3>1. /\ Named(k) /\ Live(k) /\ c.from = p /\ p \in c.open /\ q \in Procs /\ q # p /\ q[2] # 0
          /\ fd[q] = k /\ pc[q] = "bcast"
      BY <1>4, <1>7, <2>1
    <3>2. d.from = p /\ d.to = q /\ d.open = c.open /\ d.table = c.table /\ d.up = <<>>
      BY <1>2, <2>1, <3>1 DEF Like
    <3>3. c.table = q /\ q[1] = p[1]
      BY <3>1 DEF BInv, Line
    <3>4. fd'[q] = k /\ pc'[q] \in Over /\ Named(k)'
      BY <1>5, <3>1, <3>2 DEF Still, Over, Named
    <3> QED BY <1>4, <3>1, <3>2, <3>3, <3>4 DEF Line
  <2>2. CASE k = fd[p] /\ p[2] # 0
    <3> PICK f : f = c.from
      OBVIOUS
    <3>1. c.to = p /\ f \in Procs /\ f # p /\ Live(k) /\ Named(k)
      BY <1>3, <1>4, <2>2, HasLine
    <3>2. d.from = f /\ d.to = p /\ d.open = c.open /\ d.table = c.table /\ Named(k)'
      BY <1>2, <2>2, <3>1 DEF Like, Named
    <3>3. /\ p[2] = 0 <=> f[2] = Server
          /\ c.table = p /\ p[1] = f[1]
          /\ f \notin c.open => pc[f] = "gone"
          /\ f[2] = Server => pc[f] = "served"
      BY <3>1 DEF BInv, Line
    <3>4. pc'[f] = pc[f] /\ fd'[p] = k /\ pc'[p] = "bcast" /\ "bcast" \in Over
      BY <1>1, <1>5, <2>2, <3>1 DEF Still, Over
    <3> QED BY <3>2, <3>3, <3>4 DEF Line
  <2>3. CASE conn'[k] = conn[k] /\ k \notin kids(p)
    <3>1. Live(k)
      BY <2>3 DEF Live
    <3> QED BY <1>1, <1>5, <2>3, <3>1, LineBeside
  <2> QED BY <1>2, <2>1, <2>2, <2>3
<1>9. \A r \in Procs : pc[r] = "open" => pc'[r] = "open"
  BY <1>1, <1>5 DEF Still
<1>10. ASSUME NEW q \in Procs, q # p
       PROVE  Sound(q)'
  <2>1. Still(q)
    BY <1>5, <1>10
  <2>2. CASE HasParent(q) /\ fd[q] \in kids(p)
    <3> PICK k : k = fd[q]
      OBVIOUS
    <3>1. k \in kids(p) /\ conn[k].to = q
      BY <1>3, <2>2, HasLine
    <3>2. conn[k].from = p /\ q[2] # 0 /\ pc[q] = "bcast"
      BY <1>7, <3>1
    <3>3. /\ conn'[k].from = p /\ conn'[k].up = <<>>
          /\ conn'[k].down = IF pc'[p] = "open" THEN <<"go">> ELSE <<>>
      BY <1>2, <1>5, <3>1, <3>2 DEF Like
    <3> QED BY <1>1, <1>5, <1>6, <2>1, <2>2, <3>2, <3>3, KidSound
  <2>3. CASE ~(HasParent(q) /\ fd[q] \in kids(p))
    <3>1. ASSUME HasParent(q)
          PROVE  Alike(fd[q]) /\ (pc[q] \in Placed => Steady(conn[fd[q]].from))
      <4> PICK k, f : k = fd[q] /\ f = conn[k].from
        OBVIOUS
      <4>1. /\ k \in Conns /\ Live(k) /\ conn[k].to = q /\ f \in Procs
            /\ pc[q] \in Settled => Named(k)
        BY <1>3, <3>1, HasLine
      <4>2. k # fd[p]
        BY <1>3, <1>4, <1>10, <4>1, HasLine
      <4>3. conn'[k] = conn[k]
        BY <1>2, <2>3, <3>1, <4>1, <4>2
      <4>4. pc[q] \in Placed => f # p
        <5>1. pc[p] # "gone"
          BY <1>1
        <5> QED BY <2>3, <3>1, <4>1, <5>1, KidsOnly, PlacedIs
      <4>5. pc[q] \in Placed => Steady(f)
        BY <1>5, <4>1, <4>4 DEF Steady, Still
      <4> QED BY <4>1, <4>3, <4>5 DEF Alike, Live
    <3> QED BY <1>1, <1>6, <1>9, <2>1, <3>1, StillSound
  <2> QED BY <2>2, <2>3
<1>11. Sound(p)'
  <2>1. Ranked(p)'
    BY <1>1, <1>5 DEF Ranked, Over
  <2>2. Reared(p)'
    <3>1. Reared(p) /\ child_fd'[p] = child_fd[p] /\ todo'[p] = todo[p]
      BY <1>1, <1>3 DEF Sound
    <3>2. pc'[p] \in Connected /\ pc'[p] \notin Asking /\ pc'[p] \in Placed /\ pc[p] \in Placed
      BY <1>3, <1>5, PlacedIs
    <3> QED BY <1>1, <1>3, <1>6, <3>1, <3>2, StillReared
  <2>3. Word(p)'
    <3> PICK x, f : x = fd[p] /\ f = conn[x].from
      OBVIOUS
    <3>1. x \in Conns /\ Live(x) /\ Named(x) /\ f \in Procs /\ f # p /\ conn[x].to = p /\ fd'[p] = x
      BY <1>1, <1>3, <1>4, HasLine
    <3>2. CASE p[2] = 0
      <4>1. conn'[x] = conn[x]
        BY <1>2, <1>4, <3>1, <3>2
      <4>2. conn[x].up = <<>> /\ conn[x].down = <<>>
        BY <1>3, <1>4, <3>2, PlacedIs DEF Sound, Word
      <4> QED BY <1>5, <3>1, <3>2, <4>1, <4>2 DEF Word
    <3>3. CASE p[2] # 0
      <4>1. conn'[x].from = f /\ conn'[x].up = <<"max">> /\ conn'[x].down = <<>>
        BY <1>2, <3>1, <3>3 DEF Like
      <4>2. pc'[f] \notin Over
        <5>1. f[2] # Server
          BY <3>1, <3>3 DEF BInv, Line
        <5>2. pc[f] \notin Over
          BY <1>3, <3>1, <5>1 DEF BInv, Line
        <5> QED BY <1>5, <3>1, <5>2 DEF Still
      <4>3. pc'[p] = "bcast" /\ "bcast" \in Over
        BY <1>5, <3>3 DEF Over
      <4> QED BY <3>1, <3>3, <4>1, <4>2, <4>3 DEF Word
    <3> QED BY <3>2, <3>3
  <2>4. Rooted(p)'
    <3>1. pc'[p] = "open" => p[2] = 0
      BY <1>5
    <3>2. p[2] = 0 => Root(p[1]) = p
      BY DEF Root, Procs, Ids
    <3> QED BY <3>1, <3>2 DEF Rooted, Root
  <2> QED BY <1>5, <2>1, <2>2, <2>3, <2>4 DEF Sound, Addressed, Over
<1>12. Procs' = Procs /\ Conns' = Conns
  BY <1>1, SameProcs DEF Conns
<1> QED BY <1>8, <1>10, <1>11, <1>12 DEF BInv

LEMMA BcastWrites ==
  ASSUME BInv, NEW p \in Procs, Bcast(p)
  PROVE  /\ pc[p] = "bcast" /\ pc' = [pc EXCEPT ![p] = "open"] /\ p[2] # 0
         /\ UNCHANGED <<nprocs, backlog, fd, s, todo, child_fd, me>>
         /\ \A k \in Conns : \/ conn'[k] = conn[k] /\ k \notin kids(p) /\ k # fd[p]
                             \/ k = fd[p]
                             \/ k \in kids(p)
         /\ \A k \in kids(p) : /\ Like(conn'[k], conn[k]) /\ conn[k].up = <<>>
                               /\ conn'[k].up = <<>> /\ conn'[k].down = <<"go">>
                               /\ pc[conn[k].to] = "bcast"
         /\ Like(conn'[fd[p]], conn[fd[p]]) /\ conn[fd[p]].up = <<>>
         /\ conn'[fd[p]].up = <<>> /\ conn'[fd[p]].down = <<>>
         /\ pc[conn[fd[p]].from] = "open"
<1> PICK x : x = fd[p]
  OBVIOUS
<1> PICK cs : cs = WordRead(x)
  OBVIOUS
<1>0. OInv /\ Sound(p) /\ Typed
  BY DEF BInv, OInv
<1>1. /\ pc[p] = "bcast" /\ conn[x].down # <<>> /\ conn' = Tell(cs, kids(p), "down", "go")
      /\ pc' = [pc EXCEPT ![p] = "open"] /\ UNCHANGED <<nprocs, backlog, fd, s, todo, child_fd, me>>
  BY DEF Bcast, WordRead
<1>2. pc[p] \in Connected /\ pc[p] \in Placed /\ pc[p] \in Over
  BY <1>1 DEF Connected, Placed, Over
<1>3. /\ p[2] # Server /\ HasParent(p) /\ x \in Conns /\ x \notin kids(p) /\ Live(x)
      /\ conn[x] \in Connections
  BY <1>0, <1>2, Lined
<1>4. conn[x].up = <<>> /\ conn[x].down = <<"go">> /\ pc[conn[x].from] = "open" /\ p[2] # 0
  BY <1>0, <1>1, <1>2, <1>3 DEF Sound, Word
<1>5. /\ cs \in [Conns -> Connections \cup {NoConn}] /\ cs[x] \in Connections
      /\ \A y \in Conns : y # x => cs[y] = conn[y]
      /\ cs[x].from = conn[x].from /\ cs[x].to = conn[x].to /\ cs[x].open = conn[x].open
      /\ cs[x].table = conn[x].table
      /\ cs[x].up = conn[x].up /\ cs[x].down = Tail(conn[x].down)
  BY <1>0, <1>1, <1>3, OneWordRead
<1>6. "go" \in Words /\ "down" \in Fields
  BY DEF Words, Fields
<1>7. \A k \in Conns : k \notin kids(p) => conn'[k] = cs[k]
  BY <1>1, <1>6, TellAt
<1>8. Like(conn'[x], conn[x]) /\ conn'[x].up = <<>> /\ conn'[x].down = <<>>
  <2>1. conn'[x] = cs[x]
    BY <1>3, <1>7
  <2>2. Tail(<<"go">>) = <<>>
    OBVIOUS
  <2> QED BY <1>3, <1>4, <1>5, <2>1, <2>2 DEF Like
<1>9. ASSUME NEW k \in kids(p)
      PROVE  /\ Like(conn'[k], conn[k]) /\ conn[k].up = <<>>
             /\ conn'[k].up = <<>> /\ conn'[k].down = <<"go">>
             /\ pc[conn[k].to] = "bcast"
  <2> PICK q : q = conn[k].to
    OBVIOUS
  <2>1. /\ k \in Conns /\ q \in Procs /\ q[2] # Server /\ q[2] # 0 /\ conn[k].from = p
        /\ fd[q] = k /\ pc[q] \in Over /\ conn[k] \in Connections
    BY <1>1, <1>2, KidIs
  <2>2. Word(q) /\ pc[q] \in Placed
    BY <2>1, PlacedIs DEF BInv, Sound
  <2>3. pc[q] = "bcast"
    BY <1>1, <2>1, <2>2 DEF Word, Over
  <2>4. conn[k].up = <<>> /\ conn[k].down = <<>>
    BY <1>1, <1>2, <2>1, <2>2, <2>3 DEF Word
  <2> PICK c, d : c = cs[k] /\ d = conn'[k]
    OBVIOUS
  <2>5. c = conn[k]
    BY <1>3, <1>5, <2>1
  <2>6. Like(d, c) /\ d.down = Append(c.down, "go") /\ d.up = c.up
    <3>1. c \in Connections /\ k \in Conns
      BY <2>1, <2>5
    <3>2. Lowered(d, c)
      BY <1>1, <3>1, TellChild
    <3> QED BY <3>2 DEF Lowered
  <2>7. Append(<<>>, "go") = <<"go">>
    OBVIOUS
  <2> QED BY <2>3, <2>4, <2>5, <2>6, <2>7
<1>10. \A k \in Conns : k \notin kids(p) /\ k # x => conn'[k] = conn[k]
  BY <1>5, <1>7
<1> QED BY <1>1, <1>4, <1>8, <1>9, <1>10

LEMMA BcastSound ==
  ASSUME BInv, OInv', NEW p \in Procs, Bcast(p)
  PROVE  BInv'
<1>1. /\ pc[p] = "bcast" /\ pc' = [pc EXCEPT ![p] = "open"] /\ p[2] # 0
      /\ UNCHANGED <<nprocs, backlog, fd, s, todo, child_fd, me>>
  BY BcastWrites
<1>2. /\ \A k \in Conns : \/ conn'[k] = conn[k] /\ k \notin kids(p) /\ k # fd[p]
                          \/ k = fd[p]
                          \/ k \in kids(p)
      /\ \A k \in kids(p) : /\ Like(conn'[k], conn[k]) /\ conn[k].up = <<>>
                            /\ conn'[k].up = <<>> /\ conn'[k].down = <<"go">>
                            /\ pc[conn[k].to] = "bcast"
      /\ Like(conn'[fd[p]], conn[fd[p]]) /\ conn[fd[p]].up = <<>>
      /\ conn'[fd[p]].up = <<>> /\ conn'[fd[p]].down = <<>>
      /\ pc[conn[fd[p]].from] = "open"
  BY BcastWrites
<1>3. OInv /\ Typed /\ Sound(p) /\ pc[p] \in Connected /\ pc[p] \in Over
  BY <1>1 DEF BInv, OInv, Connected, Over
<1>4. /\ p[2] # Server /\ HasParent(p) /\ fd[p] \in Conns /\ fd[p] \notin kids(p)
      /\ \A k \in kids(p) \cup {fd[p]} : k \in Conns /\ Live(k) /\ Named(k) /\ conn[k] \in Connections
  BY <1>3, Lined
<1>5. pc'[p] = "open" /\ pc'[p] \in Over /\ \A q \in Procs \ {p} : Still(q)
  BY <1>1, <1>3 DEF Typed, Still, Over
<1>6. SameEnds
  BY <1>2 DEF SameEnds, Like, Live
<1>7. \A k \in kids(p) : LET q == conn[k].to IN
         /\ conn[k].from = p /\ q \in Procs /\ q # p /\ q[2] # Server /\ q[2] # 0
         /\ HasParent(q) /\ fd[q] = k
  BY <1>3, KidIs
<1>8. ASSUME NEW k \in Conns
      PROVE  Line(k)'
  <2> SUFFICES ASSUME conn'[k] # NoConn PROVE Line(k)'
    BY DEF Line, Live
  <2> PICK c, d : c = conn[k] /\ d = conn'[k]
    OBVIOUS
  <2>1. /\ Live(k) /\ d.from = c.from /\ d.to = c.to /\ d.table = c.table /\ d.up = c.up
        /\ d.open = c.open
    BY <1>2, <1>4 DEF Like, Live
  <2>2. c.from \in Procs /\ c.to \in Procs
    <3>1. c \in Connections
      BY <1>3, <2>1 DEF Typed, Live
    <3> QED BY <3>1 DEF Connections, Ranks
  <2>3. pc[c.from] \in {"gone", "served"} => pc'[c.from] = pc[c.from]
    BY <1>1, <1>5, <2>2 DEF Still
  <2>4. pc'[c.from] \in Over => pc[c.from] \in Over
    BY <1>3, <1>5, <2>2 DEF Still
  <2>5. pc[c.to] \in Over => fd'[c.to] = fd[c.to] /\ pc'[c.to] \in Over
    BY <1>1, <1>5, <2>2 DEF Still
  <2>6. Named(k) /\ pc[c.from] # "gone" /\ c.up # <<>> => fd[c.to] = k /\ pc[c.to] = "bcast"
    BY <2>1 DEF BInv, Line
  <2>7. c.up # <<>> /\ fd[c.to] = k => c.to # p
    BY <1>2
  <2>8. Named(k) /\ pc[c.from] # "gone" /\ fd[c.to] = k /\ pc[c.to] \in Over =>
          fd'[c.to] = k /\ pc'[c.to] \in Over /\ (c.up # <<>> => pc'[c.to] = "bcast")
    BY <1>5, <2>2, <2>5, <2>6, <2>7 DEF Still
  <2> QED BY <2>1, <2>3, <2>4, <2>8, LineStays
<1>9. \A r \in Procs : pc[r] = "open" => pc'[r] = "open"
  BY <1>1, <1>5 DEF Still
<1>10. ASSUME NEW q \in Procs, q # p
       PROVE  Sound(q)'
  <2>1. Still(q)
    BY <1>5, <1>10
  <2>2. CASE HasParent(q) /\ fd[q] \in kids(p)
    <3> PICK k : k = fd[q]
      OBVIOUS
    <3>1. k \in kids(p) /\ conn[k].to = q
      BY <1>3, <2>2, HasLine
    <3>2. conn[k].from = p /\ q[2] # 0 /\ pc[q] = "bcast"
      BY <1>2, <1>7, <3>1
    <3>3. /\ conn'[k].from = p /\ conn'[k].up = <<>>
          /\ conn'[k].down = IF pc'[p] = "open" THEN <<"go">> ELSE <<>>
      BY <1>2, <1>5, <3>1, <3>2 DEF Like
    <3> QED BY <1>1, <1>5, <1>6, <2>1, <2>2, <3>2, <3>3, KidSound
  <2>3. CASE ~(HasParent(q) /\ fd[q] \in kids(p))
    <3>1. ASSUME HasParent(q)
          PROVE  Alike(fd[q]) /\ (pc[q] \in Placed => Steady(conn[fd[q]].from))
      <4> PICK k, f : k = fd[q] /\ f = conn[k].from
        OBVIOUS
      <4>1. /\ k \in Conns /\ Live(k) /\ conn[k].to = q /\ f \in Procs
            /\ pc[q] \in Settled => Named(k)
        BY <1>3, <3>1, HasLine
      <4>2. k # fd[p]
        BY <1>3, <1>4, <1>10, <4>1, HasLine
      <4>3. conn'[k] = conn[k]
        BY <1>2, <2>3, <3>1, <4>1, <4>2
      <4>4. pc[q] \in Placed => f # p
        <5>1. pc[p] # "gone"
          BY <1>1
        <5> QED BY <2>3, <3>1, <4>1, <5>1, KidsOnly, PlacedIs
      <4>5. pc[q] \in Placed => Steady(f)
        BY <1>5, <4>1, <4>4 DEF Steady, Still
      <4> QED BY <4>1, <4>3, <4>5 DEF Alike, Live
    <3> QED BY <1>1, <1>6, <1>9, <2>1, <3>1, StillSound
  <2> QED BY <2>2, <2>3
<1>11. Sound(p)'
  <2> PICK x, f : x = fd[p] /\ f = conn[x].from
    OBVIOUS
  <2>0. x \in Conns /\ Live(x) /\ Named(x) /\ f \in Procs /\ f # p /\ conn[x].to = p /\ fd'[p] = x
    BY <1>1, <1>3, <1>4, HasLine
  <2>1. Ranked(p)'
    BY <1>1, <1>3, <1>5, PlacedIs DEF Sound, Ranked
  <2>2. Reared(p)'
    <3>1. Reared(p) /\ child_fd'[p] = child_fd[p] /\ todo'[p] = todo[p]
      BY <1>1, <1>3 DEF Sound
    <3>2. pc'[p] \in Connected /\ pc'[p] \notin Asking /\ pc'[p] \in Placed /\ pc[p] \in Placed
      BY <1>3, <1>5, PlacedIs
    <3> QED BY <1>1, <1>3, <1>6, <3>1, <3>2, StillReared
  <2>3. Word(p)'
    <3>1. conn'[x].from = f /\ conn'[x].up = <<>> /\ conn'[x].down = <<>>
      BY <1>2, <2>0 DEF Like
    <3>2. pc'[f] = "open"
      BY <1>2, <1>5, <2>0 DEF Still
    <3> QED BY <1>1, <1>5, <2>0, <3>1, <3>2 DEF Word
  <2>4. Rooted(p)'
    <3>1. p[1] = f[1]
      <4>1. conn[x].table = conn[x].to /\ conn[x].to[1] = conn[x].from[1]
        BY <2>0 DEF BInv, Line
      <4> QED BY <2>0, <4>1
    <3>2. pc[Root(f[1])] = "open" /\ Root(f[1]) \in Procs
      BY <1>2, <2>0, RootIs DEF BInv, Sound, Rooted, Ranks
    <3>3. pc'[Root(p[1])] = "open"
      BY <1>9, <3>1, <3>2
    <3> QED BY <3>3 DEF Rooted, Root
  <2> QED BY <1>5, <2>1, <2>2, <2>3, <2>4 DEF Sound, Addressed
<1>12. Procs' = Procs /\ Conns' = Conns
  BY <1>1, SameProcs DEF Conns
<1> QED BY <1>8, <1>10, <1>11, <1>12 DEF BInv

-----------------------------------------------------------------------------
(* Two jobs that can be told apart: the invariant, and what follows from it *)

LEMMA StartsSound == Init => BInv
<1> SUFFICES ASSUME Init PROVE BInv
  OBVIOUS
<1>1. OInv
  BY StartsWired
<1>2. /\ \A p \in Procs : /\ pc[p] = (IF p[2] = Server THEN "scan" ELSE "start")
                          /\ child_fd[p] = <<>>
                          /\ todo[p] = (IF p[2] = Server THEN <<0>> ELSE <<>>)
                          /\ me[p] = (IF p[2] = Server THEN <<p[1], Server>> ELSE NoRank)
      /\ \A k \in Conns : conn[k] = NoConn
  BY DEF Init, NoRank, Conns
<1>3. \A k \in Conns : Line(k)
  BY <1>2 DEF Line, Live
<1>4. ASSUME NEW p \in Procs
      PROVE  Sound(p)
  <2>1. pc[p] \in {"scan", "start"} /\ (p[2] # Server => pc[p] = "start") /\ "start" \notin Placed
    BY <1>2, PlacedIs
  <2>2. Ranked(p)
    <3>1. p = <<p[1], p[2]>>
      BY DEF Procs, Ids
    <3>2. CASE p[2] = Server
      BY <1>2, <2>1, <3>1, <3>2 DEF Ranked
    <3>3. CASE p[2] # Server
      BY <1>2, <2>1, <3>3 DEF Ranked
    <3> QED BY <3>2, <3>3
  <2>3. Reared(p)
    BY <1>2, <2>1 DEF Reared, Connected
  <2> QED BY <2>1, <2>2, <2>3 DEF Sound, Addressed, Word, Rooted
<1> QED BY <1>1, <1>3, <1>4 DEF BInv

LEMMA NoMove ==
  ASSUME BInv, UNCHANGED vars
  PROVE  BInv'
<1>1. /\ nprocs' = nprocs /\ pc' = pc /\ fd' = fd /\ s' = s /\ todo' = todo /\ child_fd' = child_fd
      /\ me' = me /\ conn' = conn /\ backlog' = backlog
  BY DEF vars
<1>2. OInv'
  BY <1>1, Unmoved DEF BInv
<1>3. Procs' = Procs /\ Conns' = Conns
  BY <1>1, SameProcs DEF Conns
<1>4. \A q \in Procs : Still(q) /\ Steady(conn[fd[q]].from)
  BY <1>1 DEF Still, Steady
<1>5. SameEnds
  BY <1>1 DEF SameEnds
<1>6. \A q \in Procs : HasParent(q) => Alike(fd[q])
  BY <1>1, HasLine DEF Alike, Live, BInv
<1>7. \A q \in Procs : Sound(q)'
  BY <1>1, <1>2, <1>4, <1>5, <1>6, StillSound
<1>8. ASSUME NEW k \in Conns
      PROVE  Line(k)'
  BY <1>1 DEF BInv, Line, Live, Named
<1> QED BY <1>2, <1>3, <1>7, <1>8 DEF BInv

LEMMA StaysSound ==
  ASSUME SameSession = FALSE, BInv, [Next]_vars
  PROVE  BInv'
<1>1. OInv'
  BY StaysWired DEF BInv
<1>2. CASE UNCHANGED vars
  BY <1>2, NoMove
<1>3. ASSUME NEW p \in Procs, Step(p) \/ connect_timeout(p)
      PROVE  BInv'
  <2>1. CASE \/ bind(p) /\ ~Gone(p)
             \/ accept(p) \/ ReadIds(p) \/ ReadAck(p) \/ DropsParent(p) \/ cobo_connect(p) \/ Rescan(p)
             \/ DropsChild(p) \/ ShakeSucceeds(p) \/ ShakeDrops(p) \/ connect_timeout(p)
    <3>1. Quiet(p)
      BY <2>1, QuietSteps
    <3> QED BY <1>1, <3>1, QuietStep
  <2>2. CASE \/ bind(p) /\ Gone(p)
             \/ HostlistFails(p) \/ GiveUp(p) \/ HostlistNotSent(p) \/ HandshakeFails(p) \/ BarrierFails(p)
    BY <1>1, <2>2, LosesSound
  <2>3. CASE ReadHostlist(p)
    BY <1>1, <2>3, ReadHostlistSound
  <2>4. CASE ReadReply(p)
    BY <1>1, <2>4, ReadReplySound
  <2>5. CASE Reduce(p)
    BY <1>1, <2>5, ReduceSound
  <2>6. CASE Bcast(p)
    BY <1>1, <2>6, BcastSound
  <2> QED BY <1>3, <2>1, <2>2, <2>3, <2>4, <2>5, <2>6 DEF Step
<1> QED BY <1>2, <1>3 DEF Next

LEMMA SoundMeansRanked == BInv => RankOfItsHost
<1>1. NoRank[1] = "none"
  BY DEF NoRank
<1> QED BY <1>1 DEF BInv, Sound, Ranked, RankOfItsHost

\* all the children of a daemon that has left the barrier below are there
LEMMA ChildrenAreOver ==
  ASSUME BInv, NEW p \in Procs, p[2] # Server, pc[p] \in Over,
         NEW C, C = Children(p[2], nprocs[p[1]]), NEW x \in 1 .. Len(C)
  PROVE  <<p[1], C[x]>> \in Procs /\ pc[<<p[1], C[x]>>] \in Over
<1>1. OInv /\ Typed /\ Sound(p) /\ pc[p] \in Connected
  BY PlacedIs DEF BInv, OInv
<1> PICK cf : cf = child_fd[p]
  OBVIOUS
<1>2. cf \in Seq(Conns) /\ Split(C, cf, <<>>)
  BY <1>1, PlacedIs DEF Typed, Sound, Reared
<1>3. x \in 1 .. Len(cf)
  <2>1. Len(cf) + Len(<<>>) = Len(C) /\ Len(<<>>) = 0 /\ Len(cf) \in Nat
    BY <1>2 DEF Split
  <2>2. Len(cf) = Len(C)
    BY <2>1
  <2> QED BY <2>2
<1> PICK k, q : k = cf[x] /\ q = conn[k].to
  OBVIOUS
<1>4. q[2] = C[x]
  BY <1>2, <1>3 DEF Split
<1>5. k \in kids(p)
  <2>1. x \in DOMAIN cf
    BY <1>2, <1>3
  <2> QED BY <2>1 DEF kids, ToSet
<1>6. k \in Conns /\ Live(k) /\ Named(k) /\ conn[k].from = p /\ q \in Procs /\ pc[q] \in Over
  BY <1>1, <1>5, KidIs
<1>7. q[1] = p[1]
  BY <1>6 DEF BInv, Line
<1>8. q = <<p[1], C[x]>>
  <2>1. q = <<q[1], q[2]>>
    BY <1>6 DEF Procs, Ids
  <2> QED BY <1>4, <1>7, <2>1
<1> QED BY <1>6, <1>8

\* once a daemon has returned, all those of the job have been in the barrier
LEMMA AllOver ==
  ASSUME BInv, NEW p \in Procs, pc[p] = "open", NEW q \in Procs, q[1] = p[1], q[2] # Server
  PROVE  pc[q] \in Over
<1> PICK j, n : j = p[1] /\ n = nprocs[j]
  OBVIOUS
<1> PICK S : S = {r \in 0 .. n - 1 : pc[<<j, r>>] \in Over}
  OBVIOUS
<1>1. OInv /\ Typed
  BY DEF BInv, OInv
<1>2. pc[<<j, 0>>] = "open" /\ <<j, 0>> \in Ranks
  BY RootIs DEF BInv, Sound, Rooted, Root
<1>3. n \in Nat \ {0} /\ \A r \in 0 .. n - 1 : <<j, r>> \in Ranks
  <2>1. <<j, 0>>[1] = j
    OBVIOUS
  <2> QED BY <1>1, <1>2, <2>1, RanksAre
<1>4. 0 \in S
  BY <1>2, <1>3 DEF Over
<1>5. ASSUME NEW r \in 0 .. n - 1, r \in S, NEW x \in 1 .. Len(Children(r, n))
      PROVE  Children(r, n)[x] \in S
  <2> PICK C, b : C = Children(r, n) /\ b = <<j, r>>
    OBVIOUS
  <2>1. b \in Procs /\ b[1] = j /\ b[2] = r /\ b[2] # Server /\ pc[b] \in Over
    BY <1>3, <1>5 DEF Ranks
  <2>2. C = Children(b[2], nprocs[b[1]])
    BY <2>1
  <2>3. pc[<<b[1], C[x]>>] \in Over
    BY <1>5, <2>1, <2>2, ChildrenAreOver
  <2>4. C[x] \in 1 .. n - 1
    BY <1>3, <1>5, ChildrenType
  <2>5. \A m \in Nat : 1 .. m - 1 \subseteq 0 .. m - 1
    OBVIOUS
  <2> QED BY <1>3, <2>1, <2>3, <2>4, <2>5
<1>6. 0 .. n - 1 \subseteq S
  BY <1>3, <1>4, <1>5, TreeCovers
<1>7. q = <<j, q[2]>> /\ q[2] \in 0 .. n - 1
  <2>1. q \in Ranks
    BY DEF Ranks
  <2>2. q[2] \in Nat /\ q[2] < n
    BY <1>1, <2>1, RanksAre
  <2>3. q = <<q[1], q[2]>>
    BY DEF Procs, Ids
  <2> QED BY <1>3, <2>2, <2>3
<1> QED BY <1>6, <1>7

LEMMA SoundMeansComplete == BInv => OpenMeansComplete
<1> SUFFICES ASSUME BInv, NEW j \in Jobs, NEW o \in Daemons(j), pc[o] = "open", NEW p \in Daemons(j)
             PROVE  /\ pc[p] \in Connected
                    /\ LET c == conn[fd[p]] IN
                       /\ c.to = p /\ c.open = {c.from, p}
                       /\ c.from[2] = Server <=> p[2] = 0
                       /\ c.from[2] # Server =>
                            \E n \in DOMAIN child_fd[c.from] :
                              /\ child_fd[c.from][n] = fd[p]
                              /\ Children(c.from[2], nprocs[j])[n] = p[2]
  BY DEF OpenMeansComplete
<1>1. OInv /\ Typed /\ p \in Procs /\ p[1] = j /\ p[2] # Server /\ o \in Procs /\ o[1] = j
  BY DEF BInv, OInv, Daemons
<1>2. pc[p] \in Over /\ pc[p] \in Connected /\ HasParent(p)
  BY <1>1, AllOver, PlacedIs DEF HasParent
<1> PICK k, f : k = fd[p] /\ f = conn[k].from
  OBVIOUS
<1>3. k \in Conns /\ Live(k) /\ Named(k) /\ conn[k].to = p /\ p \in conn[k].open /\ f \in Procs /\ f # p
  BY <1>1, <1>2, HasLine, PlacedIs
<1>4. /\ p[2] = 0 <=> f[2] = Server
      /\ p[1] = f[1]
      /\ f \notin conn[k].open => pc[f] = "gone"
      /\ f[2] = Server => pc[f] = "served"
  BY <1>3 DEF BInv, Line
<1>5. f[2] # Server => pc[f] \in Over
  BY <1>1, <1>3, <1>4, AllOver
<1>6. pc[f] # "gone"
  BY <1>4, <1>5 DEF Over
<1>7. conn[k].open = {f, p}
  BY <1>1, <1>3, <1>4, <1>6 DEF OInv, Ends
<1>8. ASSUME f[2] # Server
      PROVE  \E n \in DOMAIN child_fd[f] : /\ child_fd[f][n] = k
                                           /\ Children(f[2], nprocs[j])[n] = p[2]
  <2> PICK C, cf, td : C = Children(f[2], nprocs[j]) /\ cf = child_fd[f] /\ td = todo[f]
    OBVIOUS
  <2>1. k \in kids(f)
    BY <1>3, <1>6, KidsOnly
  <2>2. PICK n \in DOMAIN cf : cf[n] = k
    BY <2>1 DEF kids, ToSet
  <2>3. cf \in Seq(Conns) /\ n \in 1 .. Len(cf)
    <3>1. cf \in Seq(Conns)
      BY <1>1, <1>3 DEF Typed
    <3>2. DOMAIN cf = 1 .. Len(cf)
      BY <3>1
    <3> QED BY <2>2, <3>1, <3>2
  <2>4. Split(C, cf, td)
    BY <1>1, <1>3, <1>4, <1>5, <1>8, PlacedIs DEF BInv, Sound, Reared
  <2>5. conn[k].to[2] = C[n]
    <3>1. \A x \in 1 .. Len(cf) : conn[cf[x]].to[2] = C[x]
      BY <2>4 DEF Split
    <3>2. conn[cf[n]].to[2] = C[n]
      BY <2>3, <3>1
    <3> QED BY <2>2, <3>2, SMTT(30)
  <2> QED BY <1>3, <2>2, <2>5
<1> QED BY <1>2, <1>3, <1>4, <1>7, <1>8

-----------------------------------------------------------------------------
(* The theorems *)

(***************************************************************************)
(* A daemon that has waited for its parent's acknowledgement               *)
(* (cobo_open_tree: have_parent) holds a connection that its parent also   *)
(* counts among its children, as long as the parent is there.  It holds of *)
(* every number of daemons, ports, connections and timeouts, and of two    *)
(* jobs that share their hosts, even when they have the same session id.   *)
(***************************************************************************)
THEOREM NeverAbandoned == Spec => []NotAbandoned
<1>1. Init => OInv
  BY StartsWired
<1>2. OInv /\ [Next]_vars => OInv'
  BY StaysWired
<1>3. OInv => NotAbandoned
  BY WiredMeansNotAbandoned
<1> QED BY <1>1, <1>2, <1>3, PTL DEF Spec

(***************************************************************************)
(* cobo_open_tree reads the rank of its own host, sent by its own job, when *)
(* the two jobs have session ids of their own: the handshake then keeps the *)
(* connectors of the other job away.                                        *)
(***************************************************************************)
THEOREM OwnRank == ASSUME SameSession = FALSE PROVE Spec => []RankOfItsHost
<1>1. Init => BInv
  BY StartsSound
<1>2. BInv /\ [Next]_vars => BInv'
  BY StaysSound
<1>3. BInv => RankOfItsHost
  BY SoundMeansRanked
<1> QED BY <1>1, <1>2, <1>3, PTL DEF Spec

(***************************************************************************)
(* When one daemon returns from cobo_open, all those of its job have gone   *)
(* through the first half of the barrier, and the tree of                   *)
(* cobo_compute_children is complete: parent and child hold the same        *)
(* connection, open at both ends, and the child sits where its parent's     *)
(* table has it.                                                            *)
(***************************************************************************)
THEOREM CompleteTree == ASSUME SameSession = FALSE PROVE Spec => []OpenMeansComplete
<1>1. Init => BInv
  BY StartsSound
<1>2. BInv /\ [Next]_vars => BInv'
  BY StaysSound
<1>3. BInv => OpenMeansComplete
  BY SoundMeansComplete
<1> QED BY <1>1, <1>2, <1>3, PTL DEF Spec
=============================================================================
