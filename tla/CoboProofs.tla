----------------------------- MODULE CoboProofs -----------------------------
(***************************************************************************)
(* Proofs about Cobo: for every number of daemons and every program of     *)
(* collectives the tree over byte streams implements Collectives, and a    *)
(* daemon that closes the tree leaves nothing unread.                      *)
(*                                                                         *)
(* Each direction of a connection carries at most one message in a         *)
(* cobo_*_tree call, so all that a rank ever writes to another is one      *)
(* stream, fixed by the program: the messages of its calls, one after the  *)
(* other.  The heart is Flow: what is on the way is the stretch of that    *)
(* stream between the place where the writer is and the place where the    *)
(* reader is.  A rank that has read a message to its end therefore has     *)
(* the data of that very call, and its writer has been in the call.        *)
(***************************************************************************)
EXTENDS Cobo, TLAPS, WellFoundedInduction

-----------------------------------------------------------------------------
(* Induction over the naturals, by a smallest counterexample *)

\* a set of naturals that is not empty has a least element
LEMMA Least ==
  ASSUME NEW T, T \subseteq Nat, T # {}
  PROVE  \E m \in T : \A n \in T : m <= n
<1> DEFINE R == OpToRel(<, Nat)
<1>1. IsWellFoundedOn(R, Nat)
  BY NatLessThanWellFounded
<1>2. \A m \in T : \A n \in T : n < m => <<n, m>> \in R
  BY DEF OpToRel
<1> HIDE DEF R
<1>3. PICK m \in T : \A n \in T : <<n, m>> \notin R
  BY <1>1, WFMin, Zenon
<1>4. \A n \in T : ~(n < m)
  BY <1>2, <1>3, Zenon
<1> QED BY <1>4

-----------------------------------------------------------------------------
(* The children of cobo_compute_children *)

Mid(l, h) == (h - l) \div 2 + ((h - l) % 2) + l

\* the middle of an interval lies in it, and both halves are shorter
LEMMA MidBounds ==
  ASSUME NEW n \in Nat, NEW l \in 0 .. n, NEW h \in -1 .. n, h - l > 0
  PROVE  /\ Mid(l, h) \in 0 .. n /\ Mid(l, h) - 1 \in -1 .. n
         /\ l < Mid(l, h) /\ Mid(l, h) <= h
         /\ h - Mid(l, h) < h - l /\ Mid(l, h) - 1 - l < h - l
  BY SMTT(30) DEF Mid

\* a child that answers for the ranks up to h
Kid(m, h) == [rank |-> m, incl |-> h - m + 1]
KidSet == [rank : Int, incl : Int]

\* one iteration of the loop, when f is what the later ones find
Iteration(f, r, l, h) ==
  IF h - l <= 0 THEN <<>>
  ELSE (IF l = r THEN <<Kid(Mid(l, h), h)>> ELSE <<>>)
       \o (IF Mid(l, h) <= r THEN f[Mid(l, h), h] ELSE f[l, Mid(l, h) - 1])

Loop(f, r, n) == f = [x \in (0 .. n) \X (-1 .. n) |-> Iteration(f, r, x[1], x[2])]

Walk(r, n) == CHOOSE f : Loop(f, r, n)

\* f is right for the intervals of at most d + 1 ranks
Right(f, r, n, d) == \A l \in 0 .. n, h \in -1 .. n : h - l <= d => f[l, h] = Iteration(f, r, l, h)

\* sequences of ranks, whatever the walk
Walks(n) == [(0 .. n) \X (-1 .. n) -> Seq(KidSet)]

LEMMA WalkAt ==
  ASSUME NEW n, NEW f \in Walks(n), NEW l \in 0 .. n, NEW h \in -1 .. n
  PROVE  f[l, h] \in Seq(KidSet)
<1>1. <<l, h>> \in (0 .. n) \X (-1 .. n)
  BY Zenon
<1> DEFINE x == <<l, h>>
<1>2. f[x] \in Seq(KidSet)
  <2> HIDE DEF x
  <2>1. x \in (0 .. n) \X (-1 .. n)
    BY <1>1, Zenon DEF x
  <2> QED BY <2>1, Zenon DEF Walks
<1> QED BY <1>2

LEMMA IterationFits ==
  ASSUME NEW n \in Nat, NEW r, NEW f \in Walks(n), NEW l \in 0 .. n, NEW h \in -1 .. n
  PROVE  Iteration(f, r, l, h) \in Seq(KidSet)
<1>1. CASE h - l <= 0
  BY <1>1 DEF Iteration
<1>2. CASE h - l > 0
  <2>1. PICK m : m = Mid(l, h)
    OBVIOUS
  <2>2. m \in 0 .. n /\ m - 1 \in -1 .. n /\ m \in Int
    BY <1>2, <2>1, MidBounds
  <2>3. f[m, h] \in Seq(KidSet) /\ f[l, m - 1] \in Seq(KidSet)
    BY <2>2, WalkAt, Zenon
  <2>4. PICK a, b : a = f[m, h] /\ b = f[l, m - 1]
    OBVIOUS
  <2>5. Iteration(f, r, l, h) = (IF l = r THEN <<Kid(m, h)>> ELSE <<>>) \o (IF m <= r THEN a ELSE b)
    <3>1. ~(h - l <= 0)
      BY <1>2
    <3> QED BY <3>1, <2>1, <2>4, Zenon DEF Iteration
  <2>6. a \in Seq(KidSet) /\ b \in Seq(KidSet)
    BY <2>3, <2>4, Zenon
  <2>7. (IF l = r THEN <<Kid(m, h)>> ELSE <<>>) \o (IF m <= r THEN a ELSE b) \in Seq(KidSet)
    <3>1. Kid(m, h) \in KidSet
      BY <2>2 DEF Kid, KidSet
    <3> HIDE DEF KidSet
    <3> QED BY <2>6, <3>1
  <2> QED BY <2>5, <2>7, Zenon
<1> QED BY <1>1, <1>2

Agree(f, g, n, d) == \A l \in 0 .. n, h \in -1 .. n : h - l < d => f[l, h] = g[l, h]

\* an iteration looks at shorter intervals only
LEMMA IterationLooksBelow ==
  ASSUME NEW n \in Nat, NEW r, NEW f, NEW g, NEW l \in 0 .. n, NEW h \in -1 .. n,
         Agree(f, g, n, h - l)
  PROVE  Iteration(f, r, l, h) = Iteration(g, r, l, h)
<1>1. CASE ~(h - l > 0)
  <2>1. h - l <= 0
    BY <1>1
  <2> QED BY <2>1 DEF Iteration
<1>2. CASE h - l > 0
  <2>1. PICK m : m = Mid(l, h)
    OBVIOUS
  <2>2. m \in 0 .. n /\ m - 1 \in -1 .. n /\ h - m < h - l /\ m - 1 - l < h - l
    BY <1>2, <2>1, MidBounds
  <2>3. f[m, h] = g[m, h] /\ f[l, m - 1] = g[l, m - 1]
    BY <2>2, Zenon DEF Agree
  <2> QED BY <2>1, <2>3, Zenon DEF Iteration
<1> QED BY <1>1, <1>2, Zenon

LEMMA LongerIntervals ==
  ASSUME NEW n \in Nat, NEW r, NEW d \in Nat, NEW f \in Walks(n), Right(f, r, n, d)
  PROVE  \E g \in Walks(n) : Right(g, r, n, d + 1)
<1> DEFINE g == [x \in (0 .. n) \X (-1 .. n) |->
                   IF x[2] - x[1] = d + 1 THEN Iteration(f, r, x[1], x[2]) ELSE f[x[1], x[2]]]
<1>1. \A l \in 0 .. n, h \in -1 .. n :
        g[l, h] = IF h - l = d + 1 THEN Iteration(f, r, l, h) ELSE f[l, h]
  OBVIOUS
<1>2. g \in Walks(n)
  <2>1. ASSUME NEW x \in (0 .. n) \X (-1 .. n)
        PROVE  g[x] \in Seq(KidSet)
    <3>1. PICK l \in 0 .. n, h \in -1 .. n : x = <<l, h>>
      OBVIOUS
    <3>2. g[l, h] \in Seq(KidSet)
      BY <1>1, WalkAt, IterationFits, Zenon
    <3> HIDE DEF g
    <3> QED BY <3>1, <3>2, Zenon
  <2> QED BY <2>1 DEF Walks
<1> HIDE DEF g
<1>3. ASSUME NEW l \in 0 .. n, NEW h \in -1 .. n, h - l <= d + 1
      PROVE  g[l, h] = Iteration(g, r, l, h)
  <2>1. \A l2 \in 0 .. n, h2 \in -1 .. n : h2 - l2 < h - l => h2 - l2 # d + 1
    BY <1>3
  <2>2. Agree(f, g, n, h - l)
    BY <1>1, <2>1, Zenon DEF Agree
  <2>5. Iteration(f, r, l, h) = Iteration(g, r, l, h)
    BY <2>2, IterationLooksBelow
  <2>3. CASE h - l = d + 1
    BY <1>1, <2>5, <2>3, Zenon
  <2>4. CASE h - l # d + 1
    <3>1. h - l <= d
      BY <1>3, <2>4
    <3>2. f[l, h] = Iteration(f, r, l, h)
      BY <3>1, Zenon DEF Right
    <3> QED BY <1>1, <2>5, <2>4, <3>2, Zenon
  <2> QED BY <2>3, <2>4
<1>4. Right(g, r, n, d + 1)
  BY <1>3 DEF Right
<1> QED BY <1>2, <1>4

\* the loop of cobo_compute_children ends, for every interval
LEMMA WalkExists ==
  ASSUME NEW n \in Nat, NEW r
  PROVE  \E f \in Walks(n) : Loop(f, r, n)
<1> DEFINE T == {d \in Nat : ~\E f \in Walks(n) : Right(f, r, n, d)}
<1>1. T = {}
  <2> SUFFICES ASSUME T # {} PROVE FALSE
    OBVIOUS
  <2>1. PICK d \in T : \A e \in T : d <= e
    BY Least
  <2>2. CASE d = 0
    <3> DEFINE f == [x \in (0 .. n) \X (-1 .. n) |-> <<>>]
    <3>1. f \in Walks(n)
      BY DEF Walks
    <3>2. Right(f, r, n, 0)
      BY DEF Right, Iteration
    <3> QED BY <2>1, <2>2, <3>1, <3>2
  <2>3. CASE d # 0
    <3>1. d - 1 \in Nat /\ d - 1 \notin T /\ d - 1 + 1 = d
      BY <2>1, <2>3
    <3>2. PICK f \in Walks(n) : Right(f, r, n, d - 1)
      BY <3>1
    <3>3. \E g \in Walks(n) : Right(g, r, n, d - 1 + 1)
      BY <3>1, <3>2, LongerIntervals
    <3> QED BY <2>1, <3>1, <3>3
  <2> QED BY <2>2, <2>3
<1>2. PICK f \in Walks(n) : Right(f, r, n, n)
  BY <1>1
<1>3. \A l \in 0 .. n, h \in -1 .. n : h - l <= n
  OBVIOUS
<1>4. \A l \in 0 .. n, h \in -1 .. n : f[l, h] = Iteration(f, r, l, h)
  BY <1>2, <1>3, Zenon DEF Right
<1>5. Loop(f, r, n)
  <2>1. PICK g : g = f
    OBVIOUS
  <2>2. ASSUME NEW x \in (0 .. n) \X (-1 .. n)
        PROVE  f[x] = Iteration(g, r, x[1], x[2])
    <3>1. PICK l \in 0 .. n, h \in -1 .. n : x = <<l, h>>
      OBVIOUS
    <3>2. x[1] = l /\ x[2] = h
      BY <3>1
    <3> QED BY <1>4, <2>1, <3>1, <3>2, Zenon
  <2>3. f = [x \in (0 .. n) \X (-1 .. n) |-> f[x]]
    BY DEF Walks
  <2>4. f = [x \in (0 .. n) \X (-1 .. n) |-> Iteration(g, r, x[1], x[2])]
    BY <2>2, <2>3, Zenon
  <2> QED BY <2>1, <2>4, Zenon DEF Loop
<1> QED BY <1>5

Obeys(f, r, l, h) == f[l, h] = Iteration(f, r, l, h)

LEMMA LoopAt ==
  ASSUME NEW n, NEW r, NEW f, Loop(f, r, n), NEW l \in 0 .. n, NEW h \in -1 .. n
  PROVE  Obeys(f, r, l, h)
<1>1. PICK x : x = <<l, h>>
  OBVIOUS
<1>2. x \in (0 .. n) \X (-1 .. n) /\ x[1] = l /\ x[2] = h
  BY <1>1
<1>3. f[x] = Iteration(f, r, x[1], x[2])
  <2>1. PICK g : g = f
    OBVIOUS
  <2>2. f = [y \in (0 .. n) \X (-1 .. n) |-> Iteration(g, r, y[1], y[2])]
    BY <2>1, Zenon DEF Loop
  <2>3. f[x] = Iteration(g, r, x[1], x[2])
    BY <2>2, <1>2, Zenon
  <2> QED BY <2>1, <2>3, Zenon
<1> QED BY <1>1, <1>2, <1>3, Zenon DEF Obeys

\* and in one way only
LEMMA WalkIsUnique ==
  ASSUME NEW n \in Nat, NEW r, NEW f, NEW g, Loop(f, r, n), Loop(g, r, n)
  PROVE  f = g
<1> DEFINE T == {d \in Nat : ~Agree(f, g, n, d)}
<1>1. T = {}
  <2> SUFFICES ASSUME T # {} PROVE FALSE
    OBVIOUS
  <2>1. PICK d \in T : \A e \in T : d <= e
    BY Least
  <2>2. ASSUME NEW l \in 0 .. n, NEW h \in -1 .. n, h - l < d
        PROVE  f[l, h] = g[l, h]
    <3>1. Iteration(f, r, l, h) = Iteration(g, r, l, h)
      <4>1. CASE h - l <= 0
        BY <4>1 DEF Iteration
      <4>2. CASE ~(h - l <= 0)
        <5>1. h - l \in Nat /\ h - l \notin T
          BY <2>1, <2>2, <4>2
        <5> QED BY <5>1, IterationLooksBelow
      <4> QED BY <4>1, <4>2
    <3>2. Obeys(f, r, l, h) /\ Obeys(g, r, l, h)
      BY LoopAt
    <3> QED BY <3>1, <3>2, Zenon DEF Obeys
  <2> QED BY <2>1, <2>2 DEF Agree
<1>2. \A l \in 0 .. n, h \in -1 .. n : h - l < n + 1
  OBVIOUS
<1>3. \A l \in 0 .. n, h \in -1 .. n : f[l, h] = g[l, h]
  <2>1. Agree(f, g, n, n + 1)
    BY <1>1
  <2> QED BY <2>1, <1>2, Zenon DEF Agree
<1>4. ASSUME NEW x \in (0 .. n) \X (-1 .. n)
      PROVE  Iteration(f, r, x[1], x[2]) = Iteration(g, r, x[1], x[2])
  <2>1. x[1] \in 0 .. n /\ x[2] \in -1 .. n
    OBVIOUS
  <2>2. Obeys(f, r, x[1], x[2]) /\ Obeys(g, r, x[1], x[2])
    BY <2>1, LoopAt
  <2>3. f[x[1], x[2]] = g[x[1], x[2]]
    BY <1>3, <2>1, Zenon
  <2> QED BY <2>2, <2>3, Zenon DEF Obeys
<1>5. [x \in (0 .. n) \X (-1 .. n) |-> Iteration(f, r, x[1], x[2])]
      = [x \in (0 .. n) \X (-1 .. n) |-> Iteration(g, r, x[1], x[2])]
  BY <1>4, Zenon
<1> QED BY <1>5, Zenon DEF Loop

LEMMA WalkLoops ==
  ASSUME NEW n \in Nat, NEW r
  PROVE  Walk(r, n) \in Walks(n) /\ Loop(Walk(r, n), r, n)
<1>1. PICK f \in Walks(n) : Loop(f, r, n)
  BY WalkExists
<1>2. Loop(Walk(r, n), r, n)
  BY <1>1, Zenon DEF Walk
<1>3. Walk(r, n) = f
  BY <1>1, <1>2, WalkIsUnique, Zenon
<1> QED BY <1>1, <1>2, <1>3, Zenon

\* what the model takes for the loop is it
LEMMA BisectWalks ==
  ASSUME NEW r
  PROVE  Bisect(r) = Walk(r, N)[0, N - 1]
BY Zenon DEF Bisect, Walk, Loop, Iteration, Mid, Kid

-----------------------------------------------------------------------------
(* The tree *)

\* the children q of r, the last one next to r, answer for r + 1 to e
Tiles(q, r, e) ==
  /\ q \in Seq(KidSet)
  /\ \A i \in 1 .. Len(q) : r < q[i].rank /\ q[i].rank <= e /\ q[i].incl > 0
  /\ \A i \in 1 .. Len(q) - 1 : q[i + 1].rank + q[i + 1].incl = q[i].rank
  /\ Len(q) = 0 => e = r
  /\ Len(q) > 0 => q[1].rank + q[1].incl = e + 1 /\ q[Len(q)].rank = r + 1

WalkOf(r, l, h) == Walk(r, N)[l, h]

\* in the walks over l .. h every rank answers for itself to e[r], and every
\* rank but l has one parent
Grown(l, h, e) ==
  /\ e \in [l .. h -> l .. h] /\ e[l] = h
  /\ \A r \in l .. h : Tiles(WalkOf(r, l, h), r, e[r])
  /\ \A p \in l .. h : \A i \in 1 .. Len(WalkOf(p, l, h)) :
       WalkOf(p, l, h)[i].incl = e[WalkOf(p, l, h)[i].rank] - WalkOf(p, l, h)[i].rank + 1
  /\ \A c \in l + 1 .. h : \E p \in l .. h : \E i \in 1 .. Len(WalkOf(p, l, h)) : WalkOf(p, l, h)[i].rank = c
  /\ \A p, q \in l .. h : \A i \in 1 .. Len(WalkOf(p, l, h)), j \in 1 .. Len(WalkOf(q, l, h)) :
       WalkOf(p, l, h)[i].rank = WalkOf(q, l, h)[j].rank => p = q /\ i = j

LEMMA WalkStep ==
  ASSUME NEW r, NEW l \in 0 .. N, NEW h \in -1 .. N
  PROVE  WalkOf(r, l, h) = Iteration(Walk(r, N), r, l, h) /\ WalkOf(r, l, h) \in Seq(KidSet)
<1>1. N \in Nat
  BY CoboAssumption
<1>2. Loop(Walk(r, N), r, N) /\ Walk(r, N) \in Walks(N)
  BY <1>1, WalkLoops
<1>3. Obeys(Walk(r, N), r, l, h)
  BY <1>2, LoopAt
<1>4. Walk(r, N)[l, h] \in Seq(KidSet)
  BY <1>2, WalkAt, Zenon
<1> QED BY <1>3, <1>4, Zenon DEF Obeys, WalkOf

\* a rank alone has no children
LEMMA WalkOfOne ==
  ASSUME NEW r, NEW l \in 0 .. N - 1
  PROVE  WalkOf(r, l, l) = <<>>
<1>1. l \in 0 .. N /\ l \in -1 .. N /\ l - l <= 0
  BY CoboAssumption
<1> QED BY <1>1, WalkStep DEF Iteration

\* the halves of an interval
LEMMA WalkHalves ==
  ASSUME NEW l \in 0 .. N - 1, NEW h \in 0 .. N - 1, l < h, NEW m, m = Mid(l, h)
  PROVE  /\ m \in 0 .. N - 1 /\ l < m /\ m <= h
         /\ WalkOf(l, l, h) = <<Kid(m, h)>> \o WalkOf(l, l, m - 1)
         /\ \A r \in l + 1 .. m - 1 : WalkOf(r, l, h) = WalkOf(r, l, m - 1)
         /\ \A r \in m .. h : WalkOf(r, l, h) = WalkOf(r, m, h)
<1>1. l \in 0 .. N /\ h \in -1 .. N /\ h - l > 0 /\ N \in Nat /\ ~(h - l <= 0)
  BY CoboAssumption
<1>2. m \in Int /\ l < m /\ m <= h
  BY <1>1, MidBounds
<1>3. ASSUME NEW r
      PROVE  WalkOf(r, l, h) = (IF l = r THEN <<Kid(m, h)>> ELSE <<>>)
                            \o (IF m <= r THEN WalkOf(r, m, h) ELSE WalkOf(r, l, m - 1))
  <2>1. WalkOf(r, l, h) = Iteration(Walk(r, N), r, l, h)
    BY <1>1, WalkStep
  <2> QED BY <1>1, <2>1, Zenon DEF Iteration, WalkOf
<1>4. ASSUME NEW r PROVE WalkOf(r, m, h) \in Seq(KidSet) /\ WalkOf(r, l, m - 1) \in Seq(KidSet)
  <2>1. m \in 0 .. N /\ m - 1 \in -1 .. N
    BY <1>1, <1>2
  <2> QED BY <1>1, <2>1, WalkStep
<1>5. WalkOf(l, l, h) = <<Kid(m, h)>> \o WalkOf(l, l, m - 1)
  <2>1. ~(m <= l)
    BY <1>2
  <2> QED BY <1>3, <2>1, Zenon
<1>6. ASSUME NEW r \in l + 1 .. m - 1 PROVE WalkOf(r, l, h) = WalkOf(r, l, m - 1)
  <2>1. l # r /\ ~(m <= r)
    BY <1>2
  <2>2. WalkOf(r, l, h) = <<>> \o WalkOf(r, l, m - 1)
    BY <1>3, <2>1, Zenon
  <2>3. WalkOf(r, l, m - 1) \in Seq(KidSet)
    BY <1>4
  <2> HIDE DEF KidSet
  <2> QED BY <2>2, <2>3
<1>7. ASSUME NEW r \in m .. h PROVE WalkOf(r, l, h) = WalkOf(r, m, h)
  <2>1. l # r /\ m <= r
    BY <1>2
  <2>2. WalkOf(r, l, h) = <<>> \o WalkOf(r, m, h)
    BY <1>3, <2>1, Zenon
  <2>3. WalkOf(r, m, h) \in Seq(KidSet)
    BY <1>4
  <2> QED BY <2>2, <2>3
<1>8. m \in 0 .. N - 1
  BY <1>2, CoboAssumption
<1> QED BY <1>2, <1>5, <1>6, <1>7, <1>8, Zenon

\* the children found in the left half, and the middle before them
LEMMA TilesOfBoth ==
  ASSUME NEW l \in Int, NEW m \in Int, NEW h \in Int, l < m, m <= h,
         NEW q, Tiles(q, l, m - 1)
  PROVE  Tiles(<<Kid(m, h)>> \o q, l, h)
<1> DEFINE w == <<Kid(m, h)>> \o q
<1>1. Kid(m, h) \in KidSet /\ Kid(m, h).rank = m /\ Kid(m, h).incl = h - m + 1
  BY DEF Kid, KidSet
<1>2. q \in Seq(KidSet) /\ Len(q) \in Nat
  BY DEF Tiles
<1>3. /\ w \in Seq(KidSet) /\ Len(w) = Len(q) + 1 /\ w[1] = Kid(m, h)
      /\ \A i \in 1 .. Len(q) : w[i + 1] = q[i]
  <2> HIDE DEF KidSet
  <2> QED BY <1>1, <1>2
<1> HIDE DEF w
<1>4. \A i \in 1 .. Len(q) : q[i] \in KidSet
  BY <1>2
<1>5. \A i \in 1 .. Len(q) : q[i].rank \in Int /\ q[i].incl \in Int
  BY <1>4 DEF KidSet
<1>6. ASSUME NEW i \in 1 .. Len(w)
      PROVE  l < w[i].rank /\ w[i].rank <= h /\ w[i].incl > 0
  <2>1. CASE i = 1
    BY <1>1, <1>3, <2>1
  <2>2. CASE i # 1
    <3>1. i - 1 \in 1 .. Len(q) /\ (i - 1) + 1 = i
      BY <1>2, <1>3, <2>2
    <3>2. w[i] = q[i - 1]
      BY <1>3, <3>1
    <3>3. l < q[i - 1].rank /\ q[i - 1].rank <= m - 1 /\ q[i - 1].incl > 0
      BY <3>1 DEF Tiles
    <3> QED BY <1>5, <3>1, <3>2, <3>3
  <2> QED BY <2>1, <2>2
<1>7. ASSUME NEW i \in 1 .. Len(w) - 1
      PROVE  w[i + 1].rank + w[i + 1].incl = w[i].rank
  <2>1. i \in 1 .. Len(q) /\ w[i + 1] = q[i]
    BY <1>2, <1>3
  <2>2. CASE i = 1
    <3>1. q[1].rank + q[1].incl = m
      BY <1>5, <2>1, <2>2 DEF Tiles
    <3> QED BY <1>1, <1>3, <2>1, <2>2, <3>1
  <2>3. CASE i # 1
    <3>1. i - 1 \in 1 .. Len(q) - 1 /\ i - 1 \in 1 .. Len(q) /\ (i - 1) + 1 = i
      BY <1>2, <2>1, <2>3
    <3>2. w[i] = q[i - 1]
      BY <1>3, <3>1
    <3>3. q[(i - 1) + 1].rank + q[(i - 1) + 1].incl = q[i - 1].rank
      BY <3>1 DEF Tiles
    <3> QED BY <2>1, <3>1, <3>2, <3>3
  <2> QED BY <2>2, <2>3
<1>8. w[Len(w)].rank = l + 1
  <2>1. CASE Len(q) = 0
    BY <1>1, <1>3, <2>1 DEF Tiles
  <2>2. CASE Len(q) # 0
    <3>1. w[Len(w)] = q[Len(q)]
      BY <1>2, <1>3, <2>2
    <3> QED BY <1>2, <3>1, <2>2 DEF Tiles
  <2> QED BY <2>1, <2>2
<1>9. w[1].rank + w[1].incl = h + 1
  BY <1>1, <1>3
<1>10. Tiles(w, l, h)
  BY <1>2, <1>3, <1>6, <1>7, <1>8, <1>9 DEF Tiles
<1> QED BY <1>10 DEF w

LEMMA GrownOfOne ==
  ASSUME NEW l \in 0 .. N - 1
  PROVE  \E e : Grown(l, l, e)
<1> DEFINE e == [r \in l .. l |-> l]
<1>1. \A r \in l .. l : r = l
  OBVIOUS
<1>2. WalkOf(l, l, l) = <<>>
  BY WalkOfOne
<1>3. Tiles(<<>>, l, l)
  BY DEF Tiles
<1>4. e \in [l .. l -> l .. l] /\ e[l] = l
  OBVIOUS
<1> HIDE DEF e
<1>5. \A r \in l .. l : Tiles(WalkOf(r, l, l), r, e[r]) /\ Len(WalkOf(r, l, l)) = 0
  BY <1>1, <1>2, <1>3, <1>4
<1>6. l + 1 .. l = {}
  OBVIOUS
<1>7. Grown(l, l, e)
  BY <1>4, <1>5, <1>6 DEF Grown
<1> QED BY <1>7

\* the ranks and sizes of children that tile an interval
LEMMA TiledRanks ==
  ASSUME NEW r \in Int, NEW e \in Int, NEW q, Tiles(q, r, e), NEW i \in 1 .. Len(q)
  PROVE  q[i].rank \in r + 1 .. e /\ q[i].incl \in Nat \ {0}
<1>1. q[i] \in KidSet
  BY DEF Tiles
<1>2. q[i].rank \in Int /\ q[i].incl \in Int
  BY <1>1 DEF KidSet
<1>3. r < q[i].rank /\ q[i].rank <= e /\ q[i].incl > 0
  BY DEF Tiles
<1> QED BY <1>2, <1>3

\* a tree from the trees of the halves
LEMMA GrownOfHalves ==
  ASSUME NEW l \in 0 .. N - 1, NEW h \in 0 .. N - 1, l < h, NEW m, m = Mid(l, h),
         NEW e1, Grown(l, m - 1, e1), NEW e2, Grown(m, h, e2)
  PROVE  \E e : Grown(l, h, e)
<1> DEFINE e == [r \in l .. h |-> IF r = l THEN h ELSE IF r < m THEN e1[r] ELSE e2[r]]
           W(r) == WalkOf(r, l, h)
           L(r) == WalkOf(r, l, m - 1)
           R(r) == WalkOf(r, m, h)
<1>1. /\ m \in 0 .. N - 1 /\ l < m /\ m <= h
      /\ W(l) = <<Kid(m, h)>> \o L(l)
      /\ \A r \in l + 1 .. m - 1 : W(r) = L(r)
      /\ \A r \in m .. h : W(r) = R(r)
  BY WalkHalves
<1>0. N \in Nat /\ l \in Nat /\ m \in Nat /\ h \in Nat
  <2>1. N \in Nat
    BY CoboAssumption
  <2> QED BY <2>1, <1>1
<1> USE <1>0
<1>2. /\ e1 \in [l .. m - 1 -> l .. m - 1] /\ e1[l] = m - 1
      /\ e2 \in [m .. h -> m .. h] /\ e2[m] = h
  BY DEF Grown
<1>3. /\ e \in [l .. h -> l .. h] /\ e[l] = h
      /\ \A r \in l + 1 .. m - 1 : e[r] = e1[r]
      /\ \A r \in m .. h : e[r] = e2[r]
  <2>1. \A r \in l .. h : r # l => (IF r < m THEN r \in l .. m - 1 ELSE r \in m .. h)
    OBVIOUS
  <2>2. /\ \A r \in l .. m - 1 : e1[r] \in l .. h
        /\ \A r \in m .. h : e2[r] \in l .. h
    <3>1. \A x \in l .. m - 1 : x \in l .. h
      BY <1>1
    <3>2. \A x \in m .. h : x \in l .. h
      BY <1>1
    <3> QED BY <3>1, <3>2, <1>2
  <2>3. e \in [l .. h -> l .. h]
    <3>1. \A r \in l .. h : (IF r = l THEN h ELSE IF r < m THEN e1[r] ELSE e2[r]) \in l .. h
      BY <2>1, <2>2, <1>1
    <3> QED BY <3>1
  <2>4. l \in l .. h
    BY <1>1
  <2>5. e[l] = h
    BY <2>4
  <2>6. \A r \in l + 1 .. m - 1 : r \in l .. h /\ r # l /\ r < m
    BY <1>1
  <2>7. \A r \in m .. h : r \in l .. h /\ r # l /\ ~(r < m)
    BY <1>1
  <2> QED BY <2>3, <2>5, <2>6, <2>7
<1> HIDE DEF e
<1>4. ASSUME NEW r \in l .. m - 1 PROVE Tiles(L(r), r, e1[r]) /\ e1[r] \in l .. m - 1
  BY <1>2 DEF Grown
<1>5. ASSUME NEW r \in m .. h PROVE Tiles(R(r), r, e2[r]) /\ e2[r] \in m .. h
  BY <1>2 DEF Grown
<1>6. Tiles(W(l), l, h)
  <2>1. Tiles(L(l), l, m - 1)
    BY <1>1, <1>2, <1>4
  <2> HIDE DEF L, W
  <2> QED BY <1>1, <2>1, TilesOfBoth
<1>7. ASSUME NEW r \in l .. h PROVE Tiles(W(r), r, e[r])
  <2>1. CASE r = l
    BY <1>3, <1>6, <2>1
  <2>2. CASE r \in l + 1 .. m - 1
    <3>1. r \in l .. m - 1
      BY <1>1, <2>2
    <3> QED BY <1>1, <1>3, <1>4, <2>2, <3>1
  <2>3. CASE r \in m .. h
    BY <1>1, <1>3, <1>5, <2>3
  <2> QED BY <1>1, <2>1, <2>2, <2>3
\* a child of W(p) is the middle, or a child in one of the halves
<1>8. ASSUME NEW p \in l .. h, NEW i \in 1 .. Len(W(p))
      PROVE  \/ p = l /\ i = 1 /\ W(p)[i] = Kid(m, h)
             \/ p = l /\ i > 1 /\ i - 1 \in 1 .. Len(L(p)) /\ W(p)[i] = L(p)[i - 1]
             \/ p \in l + 1 .. m - 1 /\ i \in 1 .. Len(L(p)) /\ W(p)[i] = L(p)[i]
             \/ p \in m .. h /\ i \in 1 .. Len(R(p)) /\ W(p)[i] = R(p)[i]
  <2>1. CASE p = l
    <3>1. l \in l .. m - 1
      BY <1>1
    <3>2. L(l) \in Seq(KidSet)
      BY <3>1, <1>4 DEF Tiles
    <3> HIDE DEF L, W
    <3>3. Len(W(l)) = Len(L(l)) + 1 /\ W(l)[1] = Kid(m, h)
          /\ \A j \in 2 .. Len(L(l)) + 1 : W(l)[j] = L(l)[j - 1]
      BY <1>1, <3>2
    <3>4. Len(L(l)) \in Nat
      BY <3>2
    <3> QED BY <2>1, <3>3, <3>4
  <2>2. CASE p \in l + 1 .. m - 1
    BY <1>1, <2>2
  <2>3. CASE p \in m .. h
    BY <1>1, <2>3
  <2> QED BY <1>1, <2>1, <2>2, <2>3
<1>9. Kid(m, h).rank = m /\ Kid(m, h).incl = h - m + 1
  BY DEF Kid
<1>10. ASSUME NEW p \in l .. m - 1, NEW i \in 1 .. Len(L(p))
       PROVE  L(p)[i].rank \in l + 1 .. m - 1 /\ L(p)[i].rank \in p + 1 .. m - 1
  <2>1. Tiles(L(p), p, e1[p]) /\ e1[p] \in l .. m - 1
    BY <1>4
  <2>2. L(p)[i].rank \in p + 1 .. e1[p]
    BY <2>1, TiledRanks
  <2> HIDE DEF L
  <2> QED BY <2>1, <2>2
<1>11. ASSUME NEW p \in m .. h, NEW i \in 1 .. Len(R(p))
       PROVE  R(p)[i].rank \in m + 1 .. h
  <2>1. Tiles(R(p), p, e2[p]) /\ e2[p] \in m .. h
    BY <1>5
  <2>2. R(p)[i].rank \in p + 1 .. e2[p]
    BY <2>1, TiledRanks
  <2> HIDE DEF R
  <2> QED BY <2>1, <2>2
<1>12. \A p \in l .. m - 1 : \A i \in 1 .. Len(L(p)) : L(p)[i].incl = e1[L(p)[i].rank] - L(p)[i].rank + 1
  BY DEF Grown
<1>13. \A p \in m .. h : \A i \in 1 .. Len(R(p)) : R(p)[i].incl = e2[R(p)[i].rank] - R(p)[i].rank + 1
  BY DEF Grown
<1>14. \A p, q \in l .. m - 1 : \A i \in 1 .. Len(L(p)), j \in 1 .. Len(L(q)) :
         L(p)[i].rank = L(q)[j].rank => p = q /\ i = j
  BY DEF Grown
<1>15. \A p, q \in m .. h : \A i \in 1 .. Len(R(p)), j \in 1 .. Len(R(q)) :
         R(p)[i].rank = R(q)[j].rank => p = q /\ i = j
  BY DEF Grown
<1>16. \A c \in l + 1 .. m - 1 : \E p \in l .. m - 1 : \E i \in 1 .. Len(L(p)) : L(p)[i].rank = c
  BY DEF Grown
<1>17. \A c \in m + 1 .. h : \E p \in m .. h : \E i \in 1 .. Len(R(p)) : R(p)[i].rank = c
  BY DEF Grown
<1>18. ASSUME NEW p \in l .. h, NEW i \in 1 .. Len(W(p))
       PROVE  W(p)[i].incl = e[W(p)[i].rank] - W(p)[i].rank + 1
  <2> USE <1>8
  <2>1. CASE p = l /\ i = 1 /\ W(p)[i] = Kid(m, h)
    <3>1. m \in m .. h
      BY <1>1
    <3>2. e[m] = h
      BY <3>1, <1>2, <1>3
    <3> QED BY <2>1, <1>9, <3>2
  <2>2. ASSUME NEW j \in 1 .. Len(L(p)), W(p)[i] = L(p)[j], p \in l .. m - 1
        PROVE  W(p)[i].incl = e[W(p)[i].rank] - W(p)[i].rank + 1
    <3>1. L(p)[j].rank \in l + 1 .. m - 1
      BY <2>2, <1>10
    <3>2. e[L(p)[j].rank] = e1[L(p)[j].rank]
      BY <3>1, <1>3
    <3> QED BY <2>2, <3>2, <1>12
  <2>3. CASE p \in m .. h /\ i \in 1 .. Len(R(p)) /\ W(p)[i] = R(p)[i]
    <3>1. R(p)[i].rank \in m .. h
      BY <2>3, <1>11, <1>1
    <3>2. e[R(p)[i].rank] = e2[R(p)[i].rank]
      BY <3>1, <1>3
    <3> QED BY <2>3, <3>2, <1>13
  <2>4. l \in l .. m - 1 /\ l + 1 .. m - 1 \subseteq l .. m - 1
    BY <1>1
  <2> HIDE DEF W, L, R
  <2> QED BY <2>1, <2>2, <2>3, <2>4
<1>19. ASSUME NEW c \in l + 1 .. h
       PROVE  \E p \in l .. h : \E i \in 1 .. Len(W(p)) : W(p)[i].rank = c
  <2>1. CASE c = m
    <3>1. l \in l .. m - 1
      BY <1>1
    <3>2. L(l) \in Seq(KidSet)
      BY <3>1, <1>4 DEF Tiles
    <3>3. l \in l .. h /\ 1 \in 1 .. Len(W(l)) /\ W(l)[1] = Kid(m, h)
      <4> HIDE DEF L, W
      <4> QED BY <1>1, <3>2
    <3> QED BY <1>9, <2>1, <3>3
  <2>2. CASE c \in l + 1 .. m - 1
    <3>0. PICK p \in l .. m - 1 : \E i \in 1 .. Len(L(p)) : L(p)[i].rank = c
      BY <2>2, <1>16
    <3>1. PICK i \in 1 .. Len(L(p)) : L(p)[i].rank = c
      BY <3>0
    <3>2. p \in l .. h
      BY <1>1
    <3>3. CASE p = l
      <4>1. L(l) \in Seq(KidSet)
        BY <3>3, <1>4 DEF Tiles
      <4>2. i + 1 \in 1 .. Len(W(l)) /\ W(l)[i + 1] = L(l)[i]
        <5> HIDE DEF L, W
        <5> QED BY <1>1, <4>1, <3>3
      <4> QED BY <3>1, <3>2, <3>3, <4>2
    <3>4. CASE p # l
      <4>1. W(p) = L(p)
        BY <1>1, <3>4
      <4> QED BY <3>1, <3>2, <4>1
    <3> QED BY <3>3, <3>4
  <2>3. CASE c \in m + 1 .. h
    <3>0. PICK p \in m .. h : \E i \in 1 .. Len(R(p)) : R(p)[i].rank = c
      BY <2>3, <1>17
    <3>1. PICK i \in 1 .. Len(R(p)) : R(p)[i].rank = c
      BY <3>0
    <3>2. p \in l .. h /\ W(p) = R(p)
      BY <1>1
    <3> QED BY <3>1, <3>2
  <2> QED BY <1>1, <2>1, <2>2, <2>3
\* the rank of a child says in which half it was found
<1>20. ASSUME NEW p \in l .. h, NEW i \in 1 .. Len(W(p))
       PROVE  \/ /\ W(p)[i].rank < m /\ p \in l .. m - 1
                 /\ \E j \in 1 .. Len(L(p)) : W(p)[i].rank = L(p)[j].rank /\ i = (IF p = l THEN j + 1 ELSE j)
              \/ W(p)[i].rank = m /\ p = l /\ i = 1
              \/ W(p)[i].rank > m /\ p \in m .. h /\ i \in 1 .. Len(R(p)) /\ W(p)[i] = R(p)[i]
  <2>1. CASE p = l /\ i = 1 /\ W(p)[i] = Kid(m, h)
    BY <1>1, <1>9, <2>1
  <2>2. CASE p = l /\ i > 1 /\ i - 1 \in 1 .. Len(L(p)) /\ W(p)[i] = L(p)[i - 1]
    <3>1. L(p)[i - 1].rank < m /\ p \in l .. m - 1 /\ L(p)[i - 1].rank \in Int
      BY <1>1, <1>10, <2>2
    <3> QED BY <1>1, <2>2, <3>1
  <2>3. CASE p \in l + 1 .. m - 1 /\ i \in 1 .. Len(L(p)) /\ W(p)[i] = L(p)[i]
    <3>1. p \in l .. m - 1 /\ p # l
      BY <1>1, <2>3
    <3>2. L(p)[i].rank < m /\ L(p)[i].rank \in Int
      BY <1>1, <1>10, <2>3, <3>1
    <3> QED BY <1>1, <2>3, <3>1, <3>2
  <2>4. CASE p \in m .. h /\ i \in 1 .. Len(R(p)) /\ W(p)[i] = R(p)[i]
    <3>1. R(p)[i].rank > m /\ R(p)[i].rank \in Int
      BY <1>1, <1>11, <2>4
    <3> QED BY <1>1, <2>4, <3>1
  <2> QED BY <1>8, <2>1, <2>2, <2>3, <2>4
<1>21. ASSUME NEW p \in l .. h, NEW q \in l .. h, NEW i \in 1 .. Len(W(p)), NEW j \in 1 .. Len(W(q)),
              W(p)[i].rank = W(q)[j].rank
       PROVE  p = q /\ i = j
  <2>0. W(p)[i].rank \in Int
    <3>1. e[p] \in Int
      BY <1>3
    <3> QED BY <3>1, <1>7, TiledRanks
  <2>8. W(q)[j].rank \in Int
    BY <2>0, <1>21
  <2>1. CASE W(p)[i].rank < m
    <3>0. ~(W(p)[i].rank = m) /\ ~(W(p)[i].rank > m)
      BY <2>0, <2>1
    <3>1. p \in l .. m - 1 /\ \E i1 \in 1 .. Len(L(p)) : W(p)[i].rank = L(p)[i1].rank /\ i = (IF p = l THEN i1 + 1 ELSE i1)
      BY <1>20, <3>0, Zenon
    <3>5. q \in l .. m - 1 /\ \E j1 \in 1 .. Len(L(q)) : W(q)[j].rank = L(q)[j1].rank /\ j = (IF q = l THEN j1 + 1 ELSE j1)
      BY <1>20, <1>21, <3>0, Zenon
    <3>2. PICK i1 \in 1 .. Len(L(p)) : W(p)[i].rank = L(p)[i1].rank /\ i = (IF p = l THEN i1 + 1 ELSE i1)
      BY <3>1
    <3>3. PICK j1 \in 1 .. Len(L(q)) : W(q)[j].rank = L(q)[j1].rank /\ j = (IF q = l THEN j1 + 1 ELSE j1)
      BY <3>5
    <3>6. L(p)[i1].rank = L(q)[j1].rank
      BY <1>21, <3>2, <3>3, Zenon
    <3>7. \A x \in 1 .. Len(L(p)), y \in 1 .. Len(L(q)) : L(p)[x].rank = L(q)[y].rank => p = q /\ x = y
      BY <1>14, <3>1, <3>5
    <3>4. p = q /\ i1 = j1
      BY <3>6, <3>7, Zenon
    <3> QED BY <3>2, <3>3, <3>4, Zenon
  <2>2. CASE W(p)[i].rank = m
    <3>0. ~(W(p)[i].rank < m) /\ ~(W(p)[i].rank > m)
      BY <2>0, <2>2
    <3>1. ~(W(q)[j].rank < m) /\ ~(W(q)[j].rank > m)
      BY <1>21, <3>0, Zenon
    <3>2. p = l /\ i = 1
      BY <1>20, <3>0, Zenon
    <3>3. q = l /\ j = 1
      BY <1>20, <3>1, Zenon
    <3> QED BY <3>2, <3>3
  <2>3. CASE W(p)[i].rank > m
    <3>0. ~(W(p)[i].rank < m) /\ ~(W(p)[i].rank = m)
      BY <2>0, <2>3
    <3>4. ~(W(q)[j].rank < m) /\ ~(W(q)[j].rank = m)
      BY <1>21, <3>0, Zenon
    <3>5. p \in m .. h /\ i \in 1 .. Len(R(p)) /\ W(p)[i] = R(p)[i]
      BY <1>20, <3>0, Zenon
    <3>6. q \in m .. h /\ j \in 1 .. Len(R(q)) /\ W(q)[j] = R(q)[j]
      BY <1>20, <3>4, Zenon
    <3>2. R(p)[i].rank = R(q)[j].rank
      BY <1>21, <3>5, <3>6, Zenon
    <3>7. \A x \in 1 .. Len(R(p)), y \in 1 .. Len(R(q)) : R(p)[x].rank = R(q)[y].rank => p = q /\ x = y
      BY <1>15, <3>5, <3>6
    <3> QED BY <3>5, <3>6, <3>2, <3>7, Zenon
  <2>4. W(p)[i].rank < m \/ W(p)[i].rank = m \/ W(p)[i].rank > m
    <3>1. PICK z \in Int : z = W(p)[i].rank
      BY <2>0
    <3>2. z < m \/ z = m \/ z > m
      BY <1>1
    <3> QED BY <3>1, <3>2, Zenon
  <2> QED BY <2>1, <2>2, <2>3, <2>4, Zenon
<1>22. Grown(l, h, e)
  BY <1>3, <1>7, <1>18, <1>19, <1>21 DEF Grown
<1> QED BY <1>22

\* the walks over all ranks make a tree
LEMMA TreeGrows == \E e : Grown(0, N - 1, e)
<1> DEFINE Bad(d) == \E l \in 0 .. N - 1, h \in 0 .. N - 1 : h - l = d /\ ~\E e : Grown(l, h, e)
           T == {d \in Nat : Bad(d)}
<1>0. N \in Nat
  BY CoboAssumption
<1> USE <1>0
<1>1. T = {}
  <2> SUFFICES ASSUME T # {} PROVE FALSE
    OBVIOUS
  <2>1. PICK d \in T : \A x \in T : d <= x
    BY Least
  <2>2. PICK l \in 0 .. N - 1, h \in 0 .. N - 1 : h - l = d /\ ~\E e : Grown(l, h, e)
    BY <2>1
  <2>3. d \in Nat /\ d # 0
    <3>1. SUFFICES l # h
      BY <2>1, <2>2
    <3> QED BY <2>2, GrownOfOne
  <2>4. PICK m : m = Mid(l, h)
    OBVIOUS
  <2>5. m \in 0 .. N - 1 /\ l < m /\ m <= h
    <3>1. l < h
      BY <2>2, <2>3
    <3> QED BY <2>4, <3>1, WalkHalves
  <2>6. \A a \in 0 .. N - 1, b \in 0 .. N - 1 : a <= b /\ b - a < d => \E e : Grown(a, b, e)
    <3> SUFFICES ASSUME NEW a \in 0 .. N - 1, NEW b \in 0 .. N - 1, a <= b, b - a < d,
                        ~\E e : Grown(a, b, e)
                 PROVE  FALSE
      OBVIOUS
    <3>1. b - a \in Nat /\ Bad(b - a)
      OBVIOUS
    <3>2. d <= b - a
      BY <2>1, <3>1
    <3> QED BY <2>3, <3>2
  <2>7. (\E e : Grown(l, m - 1, e)) /\ (\E e : Grown(m, h, e))
    BY <2>2, <2>3, <2>5, <2>6
  <2>8. l < h
    BY <2>2, <2>3
  <2>9. PICK e1 : Grown(l, m - 1, e1)
    BY <2>7
  <2>10. PICK e2 : Grown(m, h, e2)
    BY <2>7
  <2>11. \E e : Grown(l, h, e)
    BY <2>4, <2>8, <2>9, <2>10, GrownOfHalves
  <2> QED BY <2>2, <2>11
<1>2. 0 \in 0 .. N - 1 /\ N - 1 \in 0 .. N - 1 /\ N - 1 \in Nat
  BY CoboAssumption
<1>3. ~Bad(N - 1)
  BY <1>1, <1>2
<1> QED BY <1>2, <1>3


-----------------------------------------------------------------------------
(* What the tree is, for those who use it *)

Kids(r) == Len(child[r])
Nth(r, i) == child[r][i].rank

\* the ranks r answers for are r .. r + Own(r) - 1
Own(r) == Below(r, 1) + 1
Sub(r) == r .. r + Own(r) - 1

Summed(f, r) == f = [j \in 1 .. Kids(r) + 1 |-> IF j > Kids(r) THEN 0 ELSE child[r][j].incl + f[j + 1]]

LEMMA BelowIsSum ==
  ASSUME NEW r, NEW i
  PROVE  Below(r, i) = (CHOOSE f : Summed(f, r))[i]
BY Zenon DEF Below, Summed, Kids

\* f adds up g from the last
Adds(f, g, n) == f = [j \in 1 .. n + 1 |-> IF j > n THEN 0 ELSE g[j] + f[j + 1]]

\* the sum, from the last child upwards
LEMMA SumIsUnique ==
  ASSUME NEW n \in Nat, NEW g, NEW f, NEW h,
         Adds(f, g, n), Adds(h, g, n)
  PROVE  f = h
<1> DEFINE T == {d \in 0 .. n : f[n + 1 - d] # h[n + 1 - d]}
<1>1. T = {}
  <2> SUFFICES ASSUME T # {} PROVE FALSE
    OBVIOUS
  <2>0. T \subseteq Nat
    OBVIOUS
  <2>1. PICK d \in T : \A x \in T : d <= x
    BY <2>0, Least
  <2>2. \A j \in 1 .. n + 1 : f[j] = (IF j > n THEN 0 ELSE g[j] + f[j + 1])
                              /\ h[j] = (IF j > n THEN 0 ELSE g[j] + h[j + 1])
    BY DEF Adds
  <2>3. CASE d = 0
    <3>1. n + 1 \in 1 .. n + 1 /\ n + 1 > n
      OBVIOUS
    <3>2. f[n + 1] = h[n + 1]
      BY <2>2, <3>1
    <3>3. n + 1 - d = n + 1
      BY <2>3
    <3> QED BY <2>1, <3>2, <3>3
  <2>4. CASE d # 0
    <3>1. d \in 1 .. n
      BY <2>4
    <3>2. d - 1 \in 0 .. n /\ n + 1 - (d - 1) = (n + 1 - d) + 1 /\ n + 1 - d \in 1 .. n + 1
      BY <3>1
    <3>3. f[n + 1 - (d - 1)] = h[n + 1 - (d - 1)]
      <4>1. d - 1 \notin T
        <5>1. ~(d <= d - 1)
          BY <3>1
        <5> HIDE DEF T
        <5> QED BY <2>1, <5>1
      <4> QED BY <3>2, <4>1
    <3>4. ~(n + 1 - d > n)
      BY <3>1
    <3>5. f[n + 1 - d] = g[n + 1 - d] + f[(n + 1 - d) + 1] /\ h[n + 1 - d] = g[n + 1 - d] + h[(n + 1 - d) + 1]
      BY <2>2, <3>2, <3>4
    <3> QED BY <2>1, <3>2, <3>3, <3>5
  <2> QED BY <2>3, <2>4
<1>2. \A j \in 1 .. n + 1 : n + 1 - j \in 0 .. n /\ n + 1 - (n + 1 - j) = j
  OBVIOUS
<1>3. \A j \in 1 .. n + 1 : f[j] = h[j]
  <2> TAKE j \in 1 .. n + 1
  <2>1. n + 1 - j \notin T
    BY <1>1
  <2> QED BY <1>2, <2>1
<1>4. \A j \in 1 .. n + 1 : (IF j > n THEN 0 ELSE g[j] + f[j + 1]) = (IF j > n THEN 0 ELSE g[j] + h[j + 1])
  <2> TAKE j \in 1 .. n + 1
  <2>1. CASE j > n
    BY <2>1
  <2>2. CASE ~(j > n)
    <3>1. j + 1 \in 1 .. n + 1
      BY <2>2
    <3> QED BY <1>3, <3>1
  <2> QED BY <2>1, <2>2
<1> QED BY <1>4 DEF Adds

\* what Below adds up to in a tree whose ranks answer for themselves to e[r]
LEMMA BelowOfGrown ==
  ASSUME NEW r \in Ranks, NEW e \in Ranks, Tiles(child[r], r, e)
  PROVE  /\ \A i \in 1 .. Kids(r) : Below(r, i) = Nth(r, i) + child[r][i].incl - r - 1
         /\ Below(r, Kids(r) + 1) = 0
         /\ Below(r, 1) = e - r
<1>0. N \in Nat /\ r \in Nat /\ e \in Nat
  BY CoboAssumption DEF Ranks, Promise!Ranks
<1> DEFINE n == Kids(r)
           c == child[r]
           h == [j \in 1 .. n + 1 |-> IF j > n THEN 0 ELSE c[j].rank + c[j].incl - r - 1]
           g == [j \in 1 .. n |-> c[j].incl]
<1>1. n \in Nat /\ \A i \in 1 .. n : c[i].rank \in Int /\ c[i].incl \in Int
  <2>1. \A i \in 1 .. n : c[i] \in KidSet
    BY DEF Tiles, Kids
  <2> QED BY <2>1 DEF KidSet, Tiles, Kids
<1>2. \A i \in 1 .. n - 1 : c[i + 1].rank + c[i + 1].incl = c[i].rank
  BY DEF Tiles, Kids
<1>3. n > 0 => c[1].rank + c[1].incl = e + 1 /\ c[n].rank = r + 1
  BY DEF Tiles, Kids
<1>4. n = 0 => e = r
  BY DEF Tiles, Kids
<1> HIDE DEF n, c
<1>14. \A j \in 1 .. n + 1 : h[j] = (IF j > n THEN 0 ELSE c[j].rank + c[j].incl - r - 1)
  BY <1>1
<1>15. h = [j \in 1 .. n + 1 |-> h[j]]
  OBVIOUS
<1> HIDE DEF h
<1>5. ASSUME NEW j \in 1 .. n + 1 PROVE h[j] = IF j > n THEN 0 ELSE c[j].incl + h[j + 1]
  <2>1. CASE j > n
    BY <1>14, <2>1
  <2>2. CASE j = n
    <3>1. h[j] = c[n].rank + c[n].incl - r - 1 /\ h[j + 1] = 0
      BY <1>1, <1>14, <2>2
    <3>2. c[n].rank = r + 1 /\ c[n].incl \in Int
      BY <1>1, <1>3, <2>2
    <3> QED BY <1>0, <1>1, <2>2, <3>1, <3>2
  <2>3. CASE j < n
    <3>1. h[j] = c[j].rank + c[j].incl - r - 1 /\ h[j + 1] = c[j + 1].rank + c[j + 1].incl - r - 1
      BY <1>1, <1>14, <2>3
    <3>2. c[j + 1].rank + c[j + 1].incl = c[j].rank
      BY <1>1, <1>2, <2>3
    <3>3. c[j].rank \in Int /\ c[j].incl \in Int
      BY <1>1, <2>3
    <3> QED BY <1>0, <1>1, <2>3, <3>1, <3>2, <3>3
  <2> QED BY <1>1, <2>1, <2>2, <2>3
<1>6. h = [j \in 1 .. n + 1 |-> IF j > n THEN 0 ELSE c[j].incl + h[j + 1]]
  <2>1. PICK k : k = h
    OBVIOUS
  <2>2. \A j \in 1 .. n + 1 : h[j] = IF j > n THEN 0 ELSE c[j].incl + k[j + 1]
    BY <1>5, <2>1
  <2>4. h = [j \in 1 .. n + 1 |-> IF j > n THEN 0 ELSE c[j].incl + k[j + 1]]
    BY <2>2, <1>15, Zenon
  <2> QED BY <2>1, <2>4
<1>7. Summed(h, r)
  BY <1>6 DEF Summed, n, c
<1>8. ASSUME NEW f, Summed(f, r) PROVE f = h
  <2>1. Adds(f, g, n)
    <3>1. f = [j \in 1 .. n + 1 |-> IF j > n THEN 0 ELSE c[j].incl + f[j + 1]]
      BY <1>8 DEF Summed, n, c
    <3>2. PICK k : k = f
      OBVIOUS
    <3>3. \A j \in 1 .. n + 1 : ~(j > n) => g[j] = c[j].incl
      BY <1>1
    <3> HIDE DEF g
    <3>4. [j \in 1 .. n + 1 |-> IF j > n THEN 0 ELSE c[j].incl + k[j + 1]]
          = [j \in 1 .. n + 1 |-> IF j > n THEN 0 ELSE g[j] + k[j + 1]]
      BY <3>3
    <3> QED BY <3>1, <3>2, <3>4, Zenon DEF Adds
  <2>2. Adds(h, g, n)
    <3>2. PICK k : k = h
      OBVIOUS
    <3>3. \A j \in 1 .. n + 1 : ~(j > n) => g[j] = c[j].incl
      BY <1>1
    <3> HIDE DEF g
    <3>4. [j \in 1 .. n + 1 |-> IF j > n THEN 0 ELSE c[j].incl + k[j + 1]]
          = [j \in 1 .. n + 1 |-> IF j > n THEN 0 ELSE g[j] + k[j + 1]]
      BY <3>3
    <3> QED BY <1>6, <3>2, <3>4, Zenon DEF Adds
  <2> HIDE DEF g
  <2> QED BY <1>1, <2>1, <2>2, SumIsUnique, Zenon
<1>9. (CHOOSE f : Summed(f, r)) = h
  <2>1. Summed(CHOOSE f : Summed(f, r), r)
    BY <1>7, Zenon
  <2> QED BY <2>1, <1>8, Zenon
<1>10. \A i : Below(r, i) = h[i]
  BY <1>9, BelowIsSum, Zenon
<1>11. \A i \in 1 .. n : Below(r, i) = c[i].rank + c[i].incl - r - 1
  BY <1>10, <1>1, <1>14
<1>12. Below(r, n + 1) = 0
  BY <1>10, <1>1, <1>14
<1>13. Below(r, 1) = e - r
  <2>1. CASE n = 0
    BY <1>12, <1>4, <1>0, <2>1
  <2>2. CASE n # 0
    <3>1. c[1].rank \in Int /\ c[1].incl \in Int /\ 1 \in 1 .. n
      BY <1>1, <2>2
    <3> QED BY <1>11, <1>3, <1>0, <1>1, <2>2, <3>1
  <2> QED BY <2>1, <2>2
<1> QED BY <1>11, <1>12, <1>13 DEF n, c, Nth

LEMMA RankIsNat == N \in Nat /\ N > 0 /\ Ranks = 0 .. N - 1 /\ 0 \in Ranks /\ \A r \in Ranks : r \in Nat
BY CoboAssumption DEF Ranks, Promise!Ranks

LEMMA ChildIsWalk ==
  ASSUME NEW r \in Ranks
  PROVE  child[r] = WalkOf(r, 0, N - 1)
BY BisectWalks DEF child, WalkOf

\* the children of a rank answer for the ranks after it, one after the other
LEMMA ChildrenTile ==
  \E e \in [Ranks -> Ranks] : e[0] = N - 1 /\ \A r \in Ranks : Tiles(child[r], r, e[r]) /\ Own(r) = e[r] - r + 1
<1>1. PICK e : Grown(0, N - 1, e)
  BY TreeGrows
<1>2. e \in [Ranks -> Ranks] /\ e[0] = N - 1
  BY <1>1, RankIsNat DEF Grown
<1>3. ASSUME NEW r \in Ranks PROVE Tiles(child[r], r, e[r])
  <2>1. Tiles(WalkOf(r, 0, N - 1), r, e[r])
    BY <1>1, RankIsNat DEF Grown
  <2> QED BY <2>1, ChildIsWalk
<1>4. ASSUME NEW r \in Ranks PROVE Own(r) = e[r] - r + 1
  <2>1. e[r] \in Ranks
    BY <1>2
  <2>2. Below(r, 1) = e[r] - r
    BY <2>1, <1>3, BelowOfGrown
  <2> QED BY <2>2 DEF Own
<1> QED BY <1>2, <1>3, <1>4

\* a rank answers for itself and for no rank beyond the last
LEMMA OwnFits ==
  ASSUME NEW r \in Ranks
  PROVE  Own(r) \in Nat \ {0} /\ r + Own(r) <= N
<1>1. PICK e \in [Ranks -> Ranks] : \A q \in Ranks : Tiles(child[q], q, e[q]) /\ Own(q) = e[q] - q + 1
  BY ChildrenTile
<1>2. Own(r) = e[r] - r + 1 /\ e[r] \in Ranks /\ Tiles(child[r], r, e[r])
  BY <1>1
<1>5. r \in Int /\ e[r] \in Int /\ e[r] <= N - 1 /\ N \in Nat
  BY <1>2, RankIsNat
<1>3. e[r] >= r
  <2>1. CASE Len(child[r]) = 0
    BY <1>2, <2>1, RankIsNat DEF Tiles
  <2>2. CASE Len(child[r]) # 0
    <3>1. Len(child[r]) \in Nat /\ 1 \in 1 .. Len(child[r])
      BY <1>2, <2>2 DEF Tiles
    <3>2. child[r][1].rank \in r + 1 .. e[r]
      BY <3>1, <1>2, <1>5, TiledRanks, Zenon
    <3> QED BY <3>2, <1>5
  <2> QED BY <2>1, <2>2
<1> QED BY <1>2, <1>3, <1>5

\* rank 0 answers for all
LEMMA OwnOfRoot == Own(0) = N
<1>1. PICK e \in [Ranks -> Ranks] : e[0] = N - 1 /\ \A q \in Ranks : Own(q) = e[q] - q + 1
  BY ChildrenTile
<1> QED BY <1>1, RankIsNat

LEMMA KidsIsNat ==
  ASSUME NEW r \in Ranks
  PROVE  Kids(r) \in Nat
BY ChildrenTile DEF Tiles, Kids

\* the tree of cobo_compute_children, by index
LEMMA KidFacts ==
  ASSUME NEW r \in Ranks, NEW i \in 1 .. Kids(r)
  PROVE  /\ Nth(r, i) \in Ranks \ {0} /\ Nth(r, i) > r
         /\ child[r][i].incl = Own(Nth(r, i))
         /\ Below(r, i + 1) \in Nat
         /\ Below(r, i) = Own(Nth(r, i)) + Below(r, i + 1)
         /\ Nth(r, i) = r + 1 + Below(r, i + 1)
<1>1. PICK f : Grown(0, N - 1, f)
  BY TreeGrows
<1>0. N \in Nat /\ r \in Nat /\ Ranks = 0 .. N - 1 /\ Kids(r) \in Nat
  BY RankIsNat, KidsIsNat
<1>2. f \in [Ranks -> Ranks]
  BY <1>1, RankIsNat DEF Grown
<1>3. ASSUME NEW q \in Ranks PROVE Tiles(child[q], q, f[q])
  <2>1. Tiles(WalkOf(q, 0, N - 1), q, f[q])
    BY <1>1, RankIsNat DEF Grown
  <2> QED BY <2>1, ChildIsWalk
<1>4. ASSUME NEW q \in Ranks PROVE Own(q) = f[q] - q + 1
  <2>1. f[q] \in Ranks
    BY <1>2
  <2>2. Below(q, 1) = f[q] - q
    BY <2>1, <1>3, BelowOfGrown
  <2> QED BY <2>2 DEF Own
<1>5. child[r][i].incl = f[Nth(r, i)] - Nth(r, i) + 1
  <2>1. WalkOf(r, 0, N - 1)[i].incl = f[WalkOf(r, 0, N - 1)[i].rank] - WalkOf(r, 0, N - 1)[i].rank + 1
    <3>1. r \in 0 .. N - 1 /\ i \in 1 .. Len(WalkOf(r, 0, N - 1))
      BY RankIsNat, ChildIsWalk DEF Kids
    <3> QED BY <1>1, <3>1 DEF Grown
  <2> QED BY <2>1, ChildIsWalk DEF Nth
<1>6. Nth(r, i) \in r + 1 .. f[r] /\ child[r][i].incl \in Nat \ {0} /\ f[r] \in 0 .. N - 1
  <2>1. f[r] \in Ranks /\ Tiles(child[r], r, f[r])
    BY <1>2, <1>3
  <2> QED BY <2>1, <1>0, TiledRanks DEF Nth, Kids
<1>7. Nth(r, i) \in Ranks \ {0} /\ Nth(r, i) > r /\ Nth(r, i) \in Nat
  BY <1>0, <1>6
<1>8. child[r][i].incl = Own(Nth(r, i))
  BY <1>4, <1>5, <1>7
<1>9. /\ \A j \in 1 .. Kids(r) : Below(r, j) = Nth(r, j) + child[r][j].incl - r - 1
      /\ Below(r, Kids(r) + 1) = 0
  <2>1. f[r] \in Ranks /\ Tiles(child[r], r, f[r])
    BY <1>2, <1>3
  <2> QED BY <2>1, BelowOfGrown
<1>10. Below(r, i) = Nth(r, i) + child[r][i].incl - r - 1
  BY <1>9
<1>11. Nth(r, i) = r + 1 + Below(r, i + 1)
  <2>1. CASE i = Kids(r)
    <3>1. Nth(r, i) = r + 1
      BY <1>3, <1>0, <2>1 DEF Tiles, Kids, Nth
    <3> QED BY <3>1, <1>9, <1>0, <2>1
  <2>2. CASE i # Kids(r)
    <3>1. i \in 1 .. Kids(r) - 1 /\ i + 1 \in 1 .. Kids(r)
      BY <1>0, <2>2
    <3>2. child[r][i + 1].rank + child[r][i + 1].incl = child[r][i].rank
      BY <3>1, <1>3 DEF Tiles, Kids
    <3>3. Below(r, i + 1) = child[r][i + 1].rank + child[r][i + 1].incl - r - 1
      BY <3>1, <1>9 DEF Nth
    <3>4. child[r][i].rank \in Int
      BY <1>7 DEF Nth
    <3>5. child[r][i + 1].rank \in Int /\ child[r][i + 1].incl \in Int
      <4>1. Tiles(child[r], r, f[r]) /\ f[r] \in Int /\ r \in Int
        BY <1>0, <1>2, <1>3
      <4> QED BY <4>1, <3>1, TiledRanks DEF Kids
    <3>6. PICK x \in Int, y \in Int : x = child[r][i + 1].rank /\ y = child[r][i + 1].incl
      BY <3>5
    <3>7. child[r][i].rank = x + y /\ Below(r, i + 1) = x + y - r - 1
      BY <3>2, <3>3, <3>6, Zenon
    <3> QED BY <3>7, <1>0 DEF Nth
  <2> QED BY <2>1, <2>2
<1>12. Below(r, i + 1) \in Nat
  <2>1. Below(r, i + 1) \in Int
    <3>1. CASE i = Kids(r)
      BY <3>1, <1>9
    <3>2. CASE i # Kids(r)
      <4>1. i + 1 \in 1 .. Kids(r)
        BY <1>0, <3>2
      <4>2. Tiles(child[r], r, f[r]) /\ f[r] \in Ranks
        BY <1>2, <1>3
      <4>3. Nth(r, i + 1) \in Int /\ child[r][i + 1].incl \in Int
        BY <4>1, <4>2, <1>0, TiledRanks DEF Nth, Kids
      <4>4. PICK x \in Int, y \in Int : x = Nth(r, i + 1) /\ y = child[r][i + 1].incl
        BY <4>3
      <4>5. Below(r, i + 1) = x + y - r - 1
        BY <4>1, <4>4, <1>9
      <4> QED BY <4>5, <1>0
    <3> QED BY <3>1, <3>2
  <2> QED BY <2>1, <1>11, <1>7, <1>0
<1> QED BY <1>6, <1>7, <1>8, <1>10, <1>11, <1>12, <1>0

LEMMA NoneBelowLast ==
  ASSUME NEW r \in Ranks
  PROVE  Below(r, Kids(r) + 1) = 0
<1>1. PICK e \in [Ranks -> Ranks] : \A q \in Ranks : Tiles(child[q], q, e[q])
  BY ChildrenTile
<1>2. Tiles(child[r], r, e[r]) /\ e[r] \in Ranks
  BY <1>1
<1> QED BY <1>2, BelowOfGrown

\* every rank but 0 has one parent, whose child it is
LEMMA ParentFacts ==
  ASSUME NEW c \in Ranks \ {0}
  PROVE  /\ cobo_parent(c) \in Ranks
         /\ \E i \in 1 .. Kids(cobo_parent(c)) : Nth(cobo_parent(c), i) = c
         /\ \A r \in Ranks : \A i \in 1 .. Kids(r) : Nth(r, i) = c => r = cobo_parent(c)
<1>1. PICK f : Grown(0, N - 1, f)
  BY TreeGrows
<1>2. \A r \in Ranks : child[r] = WalkOf(r, 0, N - 1)
  BY ChildIsWalk
<1>3. Ranks = 0 .. N - 1 /\ c \in 0 + 1 .. N - 1
  BY RankIsNat
<1>4. \E r \in Ranks : \E i \in 1 .. Kids(r) : Nth(r, i) = c
  <2>1. PICK r \in 0 .. N - 1 : \E i \in 1 .. Len(WalkOf(r, 0, N - 1)) : WalkOf(r, 0, N - 1)[i].rank = c
    BY <1>1, <1>3 DEF Grown
  <2>2. r \in Ranks /\ child[r] = WalkOf(r, 0, N - 1)
    BY <1>2, <1>3
  <2> QED BY <2>1, <2>2 DEF Kids, Nth
<1>5. \A q \in Ranks : DOMAIN child[q] = 1 .. Kids(q)
  BY ChildrenTile DEF Tiles, Kids
<1>6. cobo_parent(c) \in Ranks /\ \E i \in DOMAIN child[cobo_parent(c)] : child[cobo_parent(c)][i].rank = c
  <2>1. \E r \in Ranks : \E i \in DOMAIN child[r] : child[r][i].rank = c
    BY <1>4, <1>5 DEF Nth
  <2> QED BY <2>1, Zenon DEF cobo_parent
<1>7. ASSUME NEW p \in Ranks, NEW q \in Ranks, NEW i \in 1 .. Kids(p), NEW j \in 1 .. Kids(q), Nth(p, i) = c, Nth(q, j) = c
      PROVE  p = q
  <2>1. \A x \in 1 .. Len(WalkOf(p, 0, N - 1)), y \in 1 .. Len(WalkOf(q, 0, N - 1)) :
          WalkOf(p, 0, N - 1)[x].rank = WalkOf(q, 0, N - 1)[y].rank => p = q /\ x = y
    BY <1>1, <1>3 DEF Grown
  <2>2. child[p] = WalkOf(p, 0, N - 1) /\ child[q] = WalkOf(q, 0, N - 1)
    BY <1>2
  <2> QED BY <1>7, <2>1, <2>2 DEF Kids, Nth
<1>8. \E i \in 1 .. Kids(cobo_parent(c)) : Nth(cobo_parent(c), i) = c
  BY <1>5, <1>6 DEF Nth
<1> QED BY <1>6, <1>7, <1>8

\* no child comes twice
LEMMA KidsDiffer ==
  ASSUME NEW r \in Ranks, NEW i \in 1 .. Kids(r), NEW j \in 1 .. Kids(r), Nth(r, i) = Nth(r, j)
  PROVE  i = j
<1>1. PICK f : Grown(0, N - 1, f)
  BY TreeGrows
<1>2. child[r] = WalkOf(r, 0, N - 1) /\ r \in 0 .. N - 1
  BY ChildIsWalk, RankIsNat
<1>3. \A x \in 1 .. Len(WalkOf(r, 0, N - 1)), y \in 1 .. Len(WalkOf(r, 0, N - 1)) :
        WalkOf(r, 0, N - 1)[x].rank = WalkOf(r, 0, N - 1)[y].rank => r = r /\ x = y
  BY <1>1, <1>2 DEF Grown
<1> QED BY <1>2, <1>3 DEF Kids, Nth

\* whoever r answers for is r or below one of its children
LEMMA SubIsCovered ==
  ASSUME NEW r \in Ranks, NEW q \in Sub(r), q # r
  PROVE  \E i \in 1 .. Kids(r) : q \in Sub(Nth(r, i))
<1> DEFINE T == {i \in 1 .. Kids(r) : Nth(r, i) <= q}
<1>0. Kids(r) \in Nat /\ r \in Nat /\ Own(r) \in Nat
  BY KidsIsNat, RankIsNat, OwnFits
<1>1. T # {}
  <2>1. Kids(r) # 0
    <3>1. SUFFICES ASSUME Kids(r) = 0 PROVE FALSE
      OBVIOUS
    <3>2. Own(r) = 1
      BY <3>1, NoneBelowLast DEF Own
    <3> QED BY <3>2, <1>0 DEF Sub
  <2>2. Kids(r) \in 1 .. Kids(r)
    BY <2>1, <1>0
  <2>3. Nth(r, Kids(r)) = r + 1
    BY <2>2, KidFacts, NoneBelowLast, <1>0
  <2>4. r + 1 <= q
    BY <1>0 DEF Sub
  <2> QED BY <2>2, <2>3, <2>4
<1>2. PICK i \in T : \A j \in T : i <= j
  <2>1. T \subseteq Nat
    OBVIOUS
  <2> QED BY <1>1, <2>1, Least
<1>3. i \in 1 .. Kids(r) /\ Nth(r, i) <= q /\ Nth(r, i) \in Nat /\ Own(Nth(r, i)) \in Nat
  BY <1>2, KidFacts, RankIsNat, OwnFits
<1>4. q < Nth(r, i) + Own(Nth(r, i))
  <2>1. Below(r, i) = Own(Nth(r, i)) + Below(r, i + 1) /\ Nth(r, i) = r + 1 + Below(r, i + 1) /\ Below(r, i + 1) \in Nat
    BY <1>3, KidFacts
  <2>2. CASE i = 1
    <3>1. q <= r + Below(r, 1) /\ q \in Int
      BY <1>0, <1>3, <2>1, <2>2 DEF Sub, Own
    <3> QED BY <3>1, <2>1, <2>2, <1>0, <1>3
  <2>3. CASE i # 1
    <3>1. i - 1 \in 1 .. Kids(r) /\ (i - 1) + 1 = i
      BY <2>3, <1>0, <1>3
    <3>2. Nth(r, i - 1) = r + 1 + Below(r, i) /\ Nth(r, i - 1) \in Nat
      BY <3>1, KidFacts, RankIsNat
    <3>3. ~(Nth(r, i - 1) <= q)
      <4>1. ~(i <= i - 1)
        BY <1>3
      <4>2. i - 1 \notin T
        <5> HIDE DEF T
        <5> QED BY <4>1, <1>2
      <4> QED BY <3>1, <4>2
    <3>4. q \in Int
      BY <1>0 DEF Sub
    <3> QED BY <2>1, <3>2, <3>3, <3>4, <1>0, <1>3
  <2> QED BY <2>2, <2>3
<1>5. q \in Int
  BY <1>0 DEF Sub
<1>6. q \in Sub(Nth(r, i))
  BY <1>3, <1>4, <1>5 DEF Sub
<1> QED BY <1>3, <1>6

\* the links of the tree
LEMMA LinkFacts ==
  /\ \A r \in Ranks \ {0} : <<r, cobo_parent(r)>> \in Links /\ <<cobo_parent(r), r>> \in Links
  /\ \A r \in Ranks : \A i \in 1 .. Kids(r) : <<r, Nth(r, i)>> \in Links /\ <<Nth(r, i), r>> \in Links
  /\ \A l \in Links : \E a, b \in Ranks : l = <<a, b>> /\ ((a # 0 /\ b = cobo_parent(a)) \/ (b # 0 /\ a = cobo_parent(b)))
<1>1. \A r \in Ranks \ {0} : <<r, cobo_parent(r)>> \in Links /\ <<cobo_parent(r), r>> \in Links
  BY Zenon DEF Links
<1>2. ASSUME NEW r \in Ranks, NEW i \in 1 .. Kids(r)
      PROVE  <<r, Nth(r, i)>> \in Links /\ <<Nth(r, i), r>> \in Links
  <2>1. Nth(r, i) \in Ranks \ {0}
    BY KidFacts
  <2>2. cobo_parent(Nth(r, i)) = r
    BY <2>1, ParentFacts
  <2> QED BY <2>1, <2>2, <1>1
<1>3. ASSUME NEW l \in Links
      PROVE  \E a, b \in Ranks : l = <<a, b>> /\ ((a # 0 /\ b = cobo_parent(a)) \/ (b # 0 /\ a = cobo_parent(b)))
  <2>1. PICK r \in Ranks \ {0} : l = <<r, cobo_parent(r)>> \/ l = <<cobo_parent(r), r>>
    BY DEF Links
  <2>2. cobo_parent(r) \in Ranks
    BY ParentFacts
  <2> QED BY <2>1, <2>2
<1> QED BY <1>1, <1>2, <1>3

-----------------------------------------------------------------------------
(* Stretches of a sequence *)

\* what is in s after the first x elements, up to number y
Cut(s, x, y) == SubSeq(s, x + 1, y)

IsCut(t, S, s, x, y) ==
  t \in Seq(S) /\ Len(t) = y - x /\ \A i \in 1 .. y - x : t[i] = s[x + i]

\* sequences with the same elements are the same
LEMMA SameSeq ==
  ASSUME NEW S, NEW s \in Seq(S), NEW t \in Seq(S), Len(s) = Len(t), \A i \in 1 .. Len(s) : s[i] = t[i]
  PROVE  s = t
OBVIOUS

\* the elements of a stretch
LEMMA CutIs ==
  ASSUME NEW S, NEW s \in Seq(S), NEW x \in Nat, NEW y \in Nat, x <= y, y <= Len(s)
  PROVE  IsCut(Cut(s, x, y), S, s, x, y)
BY DEF Cut, IsCut

\* a stretch is known by its elements
LEMMA IsCutOnce ==
  ASSUME NEW S, NEW s, NEW x \in Nat, NEW y \in Nat, NEW t, NEW u, IsCut(t, S, s, x, y), IsCut(u, S, s, x, y)
  PROVE  t = u
<1>1. t \in Seq(S) /\ u \in Seq(S) /\ Len(t) = y - x /\ Len(u) = y - x
  BY DEF IsCut
<1>2. \A i \in 1 .. y - x : t[i] = u[i]
  BY DEF IsCut
<1> QED BY <1>1, <1>2, SameSeq

\* a stretch of a stretch
LEMMA CutCut ==
  ASSUME NEW S, NEW s \in Seq(S), NEW x \in Nat, NEW y \in Nat, x <= y, y <= Len(s),
         NEW u \in Nat, NEW v \in Nat, u <= v, v <= y - x
  PROVE  Cut(Cut(s, x, y), u, v) = Cut(s, x + u, x + v)
<1>1. PICK t : t = Cut(s, x, y)
  OBVIOUS
<1>2. IsCut(t, S, s, x, y)
  BY <1>1, CutIs, Zenon
<1>3. t \in Seq(S) /\ Len(t) = y - x /\ \A i \in 1 .. y - x : t[i] = s[x + i]
  BY <1>2 DEF IsCut
<1>4. v <= Len(t)
  BY <1>3
<1>5. IsCut(Cut(t, u, v), S, t, u, v)
  BY <1>3, <1>4, CutIs, Zenon
<1>6. IsCut(Cut(s, x + u, x + v), S, s, x + u, x + v)
  <2>1. x + u \in Nat /\ x + v \in Nat /\ x + u <= x + v /\ x + v <= Len(s)
    OBVIOUS
  <2> QED BY <2>1, CutIs, Zenon
<1>7. IsCut(Cut(t, u, v), S, s, x + u, x + v)
  <2> DEFINE w == Cut(t, u, v)
  <2>1. w \in Seq(S) /\ Len(w) = v - u /\ \A i \in 1 .. v - u : w[i] = t[u + i]
    BY <1>5 DEF IsCut
  <2> HIDE DEF w
  <2>2. \A i \in 1 .. v - u : u + i \in 1 .. y - x /\ x + (u + i) = (x + u) + i
    OBVIOUS
  <2>3. \A i \in 1 .. v - u : w[i] = s[(x + u) + i]
    BY <2>1, <2>2, <1>3
  <2>4. (x + v) - (x + u) = v - u
    OBVIOUS
  <2>5. IsCut(w, S, s, x + u, x + v)
    BY <2>1, <2>3, <2>4 DEF IsCut
  <2> QED BY <2>5 DEF w
<1>8. x + u \in Nat /\ x + v \in Nat
  OBVIOUS
<1> QED BY <1>1, <1>6, <1>7, <1>8, IsCutOnce, Zenon

\* two stretches that meet
LEMMA CutJoin ==
  ASSUME NEW S, NEW s \in Seq(S), NEW x \in Nat, NEW y \in Nat, NEW z \in Nat, x <= y, y <= z, z <= Len(s)
  PROVE  Cut(s, x, y) \o Cut(s, y, z) = Cut(s, x, z)
<1> DEFINE a == Cut(s, x, y)
           b == Cut(s, y, z)
<1>0. y <= Len(s) /\ x <= z
  OBVIOUS
<1>1. IsCut(a, S, s, x, y) /\ IsCut(b, S, s, y, z) /\ IsCut(Cut(s, x, z), S, s, x, z)
  BY <1>0, CutIs, Zenon
<1> HIDE DEF a, b
<1>2. /\ a \in Seq(S) /\ Len(a) = y - x /\ \A i \in 1 .. y - x : a[i] = s[x + i]
      /\ b \in Seq(S) /\ Len(b) = z - y /\ \A j \in 1 .. z - y : b[j] = s[y + j]
  BY <1>1 DEF IsCut
<1>3. a \o b \in Seq(S) /\ Len(a \o b) = z - x
  BY <1>2
<1>4. ASSUME NEW i \in 1 .. z - x PROVE (a \o b)[i] = s[x + i]
  <2>1. CASE i <= y - x
    <3>1. i \in 1 .. y - x /\ i \in 1 .. Len(a)
      BY <1>2, <2>1
    <3>2. (a \o b)[i] = a[i]
      BY <3>1, <1>2
    <3> QED BY <1>2, <3>1, <3>2
  <2>2. CASE ~(i <= y - x)
    <3>1. i - (y - x) \in 1 .. z - y /\ y + (i - (y - x)) = x + i
      BY <2>2
    <3>2. (a \o b)[i] = b[i - (y - x)]
      BY <1>2, <2>2
    <3> QED BY <3>1, <3>2, <1>2
  <2> QED BY <2>1, <2>2
<1>5. IsCut(a \o b, S, s, x, z)
  BY <1>3, <1>4 DEF IsCut
<1>6. a \o b = Cut(s, x, z)
  BY <1>1, <1>5, IsCutOnce, Zenon
<1> QED BY <1>6 DEF a, b

LEMMA CutAll ==
  ASSUME NEW S, NEW s \in Seq(S)
  PROVE  Cut(s, 0, Len(s)) = s
BY DEF Cut

LEMMA CutNone ==
  ASSUME NEW S, NEW s \in Seq(S), NEW x \in Nat, x <= Len(s)
  PROVE  Cut(s, x, x) = <<>>
BY DEF Cut

LEMMA CutFirst ==
  ASSUME NEW S, NEW s \in Seq(S), NEW x \in Nat, NEW y \in Nat, x < y, y <= Len(s)
  PROVE  /\ Cut(s, x, y) # <<>> /\ Head(Cut(s, x, y)) = s[x + 1]
         /\ Tail(Cut(s, x, y)) = Cut(s, x + 1, y)
<1> DEFINE t == Cut(s, x, y)
<1>0. x <= y /\ x + 1 \in Nat /\ x + 1 <= y
  OBVIOUS
<1>1. IsCut(t, S, s, x, y) /\ IsCut(Cut(s, x + 1, y), S, s, x + 1, y)
  BY <1>0, CutIs, Zenon
<1> HIDE DEF t
<1>2. t \in Seq(S) /\ Len(t) = y - x /\ \A i \in 1 .. y - x : t[i] = s[x + i]
  BY <1>1 DEF IsCut
<1>3. t # <<>> /\ Head(t) = s[x + 1]
  BY <1>2
<1>4. Tail(t) \in Seq(S) /\ Len(Tail(t)) = y - (x + 1) /\ \A i \in 1 .. y - (x + 1) : Tail(t)[i] = t[i + 1]
  BY <1>2, <1>3
<1>5. \A i \in 1 .. y - (x + 1) : i + 1 \in 1 .. y - x /\ x + (i + 1) = (x + 1) + i
  OBVIOUS
<1>6. \A i \in 1 .. y - (x + 1) : Tail(t)[i] = s[(x + 1) + i]
  BY <1>2, <1>4, <1>5
<1>7. IsCut(Tail(t), S, s, x + 1, y)
  BY <1>4, <1>6 DEF IsCut
<1>8. Tail(t) = Cut(s, x + 1, y)
  BY <1>0, <1>1, <1>7, IsCutOnce, Zenon
<1> QED BY <1>3, <1>8 DEF t

\* the first of two joined sequences, and the second
LEMMA CutOfJoin ==
  ASSUME NEW S, NEW s \in Seq(S), NEW t \in Seq(S)
  PROVE  /\ s \o t \in Seq(S) /\ Len(s \o t) = Len(s) + Len(t)
         /\ \A x \in 0 .. Len(s), y \in 0 .. Len(s) : x <= y => Cut(s \o t, x, y) = Cut(s, x, y)
         /\ Cut(s \o t, Len(s), Len(s) + Len(t)) = t
<1> DEFINE w == s \o t
<1>1. /\ w \in Seq(S) /\ Len(w) = Len(s) + Len(t)
      /\ \A i \in 1 .. Len(s) : w[i] = s[i]
      /\ \A j \in 1 .. Len(t) : w[Len(s) + j] = t[j]
  OBVIOUS
<1> HIDE DEF w
<1>2. ASSUME NEW x \in 0 .. Len(s), NEW y \in 0 .. Len(s), x <= y PROVE Cut(w, x, y) = Cut(s, x, y)
  <2>0. x \in Nat /\ y \in Nat /\ y <= Len(s) /\ y <= Len(w)
    BY <1>1
  <2>1. IsCut(Cut(w, x, y), S, w, x, y) /\ IsCut(Cut(s, x, y), S, s, x, y)
    BY <2>0, <1>1, <1>2, CutIs, Zenon
  <2>2. \A i \in 1 .. y - x : x + i \in 1 .. Len(s)
    OBVIOUS
  <2>3. \A i \in 1 .. y - x : w[x + i] = s[x + i]
    BY <2>2, <1>1
  <2>4. IsCut(Cut(s, x, y), S, w, x, y)
    BY <2>1, <2>3 DEF IsCut
  <2> QED BY <2>0, <2>1, <2>4, IsCutOnce, Zenon
<1>3. Cut(w, Len(s), Len(s) + Len(t)) = t
  <2>1. Len(s) \in Nat /\ Len(s) + Len(t) \in Nat /\ Len(s) <= Len(s) + Len(t) /\ Len(s) + Len(t) <= Len(w)
    BY <1>1
  <2>2. IsCut(Cut(w, Len(s), Len(s) + Len(t)), S, w, Len(s), Len(s) + Len(t))
    BY <2>1, <1>1, CutIs, Zenon
  <2>3. (Len(s) + Len(t)) - Len(s) = Len(t)
    OBVIOUS
  <2>4. IsCut(t, S, w, Len(s), Len(s) + Len(t))
    BY <2>3, <1>1 DEF IsCut
  <2> QED BY <2>1, <2>2, <2>4, IsCutOnce, Zenon
<1> QED BY <1>1, <1>2, <1>3 DEF w

LEMMA CutLeft ==
  ASSUME NEW S, NEW s \in Seq(S), NEW t \in Seq(S), NEW x \in 0 .. Len(s), NEW y \in 0 .. Len(s), x <= y
  PROVE  Cut(s \o t, x, y) = Cut(s, x, y)
<1>1. \A u \in 0 .. Len(s), v \in 0 .. Len(s) : u <= v => Cut(s \o t, u, v) = Cut(s, u, v)
  BY CutOfJoin
<1> QED BY <1>1

LEMMA CutRight ==
  ASSUME NEW S, NEW s \in Seq(S), NEW t \in Seq(S)
  PROVE  Cut(s \o t, Len(s), Len(s) + Len(t)) = t
BY CutOfJoin

\* w is s and then t
Joined(w, S, s, t) ==
  /\ w \in Seq(S) /\ Len(w) = Len(s) + Len(t)
  /\ \A i \in 1 .. Len(s) : w[i] = s[i]
  /\ \A j \in 1 .. Len(t) : w[Len(s) + j] = t[j]

\* the elements of two sequences, one after the other
LEMMA JoinIs ==
  ASSUME NEW S, NEW s \in Seq(S), NEW t \in Seq(S)
  PROVE  Joined(s \o t, S, s, t)
BY DEF Joined

\* w is s, of n elements, and one more at the end or before it
OneAfter(w, S, s, n, e) == w \in Seq(S) /\ Len(w) = n + 1 /\ (\A i \in 1 .. n : w[i] = s[i]) /\ w[n + 1] = e
OneFirst(w, S, s, n, e) == w \in Seq(S) /\ Len(w) = n + 1 /\ (\A i \in 1 .. n : w[1 + i] = s[i]) /\ w[1] = e

LEMMA JoinOne ==
  ASSUME NEW S, NEW s \in Seq(S), NEW t \in Seq(S), NEW n \in Nat, Len(s) = n, Len(t) = 1
  PROVE  OneAfter(s \o t, S, s, n, t[1]) /\ OneFirst(t \o s, S, s, n, t[1])
<1>1. PICK a : a = s \o t
  OBVIOUS
<1>2. PICK b : b = t \o s
  OBVIOUS
<1>3. Joined(a, S, s, t) /\ Joined(b, S, t, s)
  BY <1>1, <1>2, JoinIs, Zenon
<1>5. OneAfter(a, S, s, n, t[1])
  BY <1>3 DEF Joined, OneAfter
<1>6. OneFirst(b, S, s, n, t[1])
  BY <1>3 DEF Joined, OneFirst
<1> QED BY <1>1, <1>2, <1>5, <1>6, Zenon


-----------------------------------------------------------------------------
(* The words on the wire.  The cobo_*_tree calls of all collectives are    *)
(* numbered: stage s of call k is number 4 * k + s.                        *)

At(k, s) == 4 * k + s
CallOf(j) == (j - 1) \div 4
StageOf(j) == ((j - 1) % 4) + 1
End == At(MaxOps + 1, 1)

Programs == [1 .. MaxOps -> Ops]

\* cobo_*_tree call number j is made
Made(p, j) == CallOf(j) \in 1 .. MaxOps /\ StageOf(j) <= Len(Stages(p[CallOf(j)]))
KindOf(p, j) == Stages(p[CallOf(j)])[StageOf(j)]
Upwards == {"reduce", "gather"}

\* sendcount
Count(op, s) == IF op = "allgather_str" /\ s >= 3 THEN Promise!MaxStr ELSE 1

\* the maximum of ranks r to r + n - 1
Longest(r, n) == IF n > 1 \/ r % 2 = 1 THEN 2 ELSE 1

\* what ranks r to r + n - 1 contribute, rank after rank
Cell(op, k, r, y, c) == IF op = "allgather_str" THEN Promise!Padded(k, r, c)[y] ELSE Promise!Item(k, r)
Gathered(op, k, r, n, c) == [i \in 1 .. c * n |-> Cell(op, k, r + ((i - 1) \div c), ((i - 1) % c) + 1, c)]

\* the data of ranks r to r + n - 1 on the way to the root
UpData(op, k, s, r, n) ==
  IF Stages(op)[s] = "reduce" THEN <<IF op = "barrier" THEN 1 ELSE Longest(r, n)>>
  ELSE Gathered(op, k, r, n, Count(op, s))

\* the data for rank r and those below
DownData(op, k, s, r) ==
  CASE op = "barrier" -> <<1>>
    [] op = "bcast" -> <<Promise!RootItem(k, 0)>>
    [] op = "scatter" -> [i \in 1 .. Own(r) |-> Promise!RootItem(k, r + i - 1)]
    [] op = "allgather" -> Gathered(op, k, 0, N, 1)
    [] op = "allgather_str" -> IF s = 2 THEN <<Promise!MaxStr>> ELSE Gathered(op, k, 0, N, Promise!MaxStr)

\* what a writes to b in number j
Msg(p, a, b, j) ==
  IF ~Made(p, j) THEN <<>>
  ELSE IF KindOf(p, j) \in Upwards
  THEN IF a # 0 /\ b = cobo_parent(a) THEN UpData(p[CallOf(j)], CallOf(j), StageOf(j), a, Own(a)) ELSE <<>>
  ELSE IF b # 0 /\ a = cobo_parent(b) THEN DownData(p[CallOf(j)], CallOf(j), StageOf(j), b) ELSE <<>>

\* from a call and its stage to the number and back
LEMMA AtIs ==
  ASSUME NEW k \in Nat, NEW s \in 1 .. 4
  PROVE  /\ At(k, s) \in Nat /\ CallOf(At(k, s)) = k /\ StageOf(At(k, s)) = s
         /\ k <= MaxOps => At(k, s) < End
BY CoboAssumption DEF At, CallOf, StageOf, End

LEMMA AtNext ==
  ASSUME NEW k \in Nat, NEW s \in 1 .. 4
  PROVE  /\ s < 4 => At(k, s) + 1 = At(k, s + 1)
         /\ At(k, 4) + 1 = At(k + 1, 1)
         /\ \A j \in 1 .. 4 : j <= s => At(k, j) <= At(k, s)
BY DEF At

AllOps == {"barrier", "bcast", "gather", "scatter", "allgather", "allgather_str"}

\* the tables of the collectives
LEMMA StagesAre ==
  /\ Stages("barrier") = <<"reduce", "bcast">>
  /\ Stages("bcast") = <<"bcast">>
  /\ Stages("gather") = <<"gather">>
  /\ Stages("scatter") = <<"scatter">>
  /\ Stages("allgather") = <<"gather", "bcast">>
  /\ Stages("allgather_str") = <<"reduce", "bcast", "gather", "bcast">>
BY DEF Stages

\* which cobo_*_tree stage s of a collective is
LEMMA StageCases ==
  ASSUME NEW op \in AllOps, NEW s \in 1 .. Len(Stages(op))
  PROVE  \/ op = "barrier" /\ s = 1 /\ Stages(op)[s] = "reduce" /\ Len(Stages(op)) = 2
         \/ op = "barrier" /\ s = 2 /\ Stages(op)[s] = "bcast" /\ Len(Stages(op)) = 2
         \/ op = "bcast" /\ s = 1 /\ Stages(op)[s] = "bcast" /\ Len(Stages(op)) = 1
         \/ op = "gather" /\ s = 1 /\ Stages(op)[s] = "gather" /\ Len(Stages(op)) = 1
         \/ op = "scatter" /\ s = 1 /\ Stages(op)[s] = "scatter" /\ Len(Stages(op)) = 1
         \/ op = "allgather" /\ s = 1 /\ Stages(op)[s] = "gather" /\ Len(Stages(op)) = 2
         \/ op = "allgather" /\ s = 2 /\ Stages(op)[s] = "bcast" /\ Len(Stages(op)) = 2
         \/ op = "allgather_str" /\ s = 1 /\ Stages(op)[s] = "reduce" /\ Len(Stages(op)) = 4
         \/ op = "allgather_str" /\ s = 2 /\ Stages(op)[s] = "bcast" /\ Len(Stages(op)) = 4
         \/ op = "allgather_str" /\ s = 3 /\ Stages(op)[s] = "gather" /\ Len(Stages(op)) = 4
         \/ op = "allgather_str" /\ s = 4 /\ Stages(op)[s] = "bcast" /\ Len(Stages(op)) = 4
<1>1. CASE op = "barrier"
  <2>1. Len(Stages(op)) = 2 /\ Stages(op)[1] = "reduce" /\ Stages(op)[2] = "bcast"
    BY <1>1, StagesAre
  <2>2. s = 1 \/ s = 2
    BY <2>1
  <2> QED BY <1>1, <2>1, <2>2, Zenon
<1>2. CASE op = "bcast"
  <2>1. Len(Stages(op)) = 1 /\ Stages(op)[1] = "bcast"
    BY <1>2, StagesAre
  <2>2. s = 1
    BY <2>1
  <2> QED BY <1>2, <2>1, <2>2, Zenon
<1>3. CASE op = "gather"
  <2>1. Len(Stages(op)) = 1 /\ Stages(op)[1] = "gather"
    BY <1>3, StagesAre
  <2>2. s = 1
    BY <2>1
  <2> QED BY <1>3, <2>1, <2>2, Zenon
<1>4. CASE op = "scatter"
  <2>1. Len(Stages(op)) = 1 /\ Stages(op)[1] = "scatter"
    BY <1>4, StagesAre
  <2>2. s = 1
    BY <2>1
  <2> QED BY <1>4, <2>1, <2>2, Zenon
<1>5. CASE op = "allgather"
  <2>1. Len(Stages(op)) = 2 /\ Stages(op)[1] = "gather" /\ Stages(op)[2] = "bcast"
    BY <1>5, StagesAre
  <2>2. s = 1 \/ s = 2
    BY <2>1
  <2> QED BY <1>5, <2>1, <2>2, Zenon
<1>6. CASE op = "allgather_str"
  <2>1. Len(Stages(op)) = 4 /\ Stages(op)[1] = "reduce" /\ Stages(op)[2] = "bcast"
        /\ Stages(op)[3] = "gather" /\ Stages(op)[4] = "bcast"
    BY <1>6, StagesAre
  <2>2. s = 1 \/ s = 2 \/ s = 3 \/ s = 4
    BY <2>1
  <2> QED BY <1>6, <2>1, <2>2, Zenon
<1> QED BY <1>1, <1>2, <1>3, <1>4, <1>5, <1>6 DEF AllOps

\* a collective has up to four cobo_*_tree calls
LEMMA StagesFit ==
  ASSUME NEW op \in AllOps
  PROVE  Len(Stages(op)) \in 1 .. 4
BY StagesAre DEF AllOps

LEMMA OpsAreKnown ==
  ASSUME NEW p \in Programs, NEW k \in 1 .. MaxOps
  PROVE  p[k] \in AllOps
BY CoboAssumption DEF Programs, AllOps

\* stage s of call k is made
LEMMA MadeAt ==
  ASSUME NEW p \in Programs, NEW k \in 1 .. MaxOps, NEW s \in 1 .. Len(Stages(p[k]))
  PROVE  /\ s \in 1 .. 4 /\ k \in Nat /\ At(k, s) \in 0 .. End /\ At(k, s) < End
         /\ CallOf(At(k, s)) = k /\ StageOf(At(k, s)) = s
         /\ Made(p, At(k, s)) /\ KindOf(p, At(k, s)) = Stages(p[k])[s]
<1>1. Len(Stages(p[k])) \in 1 .. 4 /\ MaxOps \in Nat
  BY OpsAreKnown, StagesFit, CoboAssumption
<1>2. s \in 1 .. 4 /\ k \in Nat /\ k <= MaxOps
  <2>1. PICK n \in 1 .. 4 : n = Len(Stages(p[k]))
    BY <1>1
  <2>2. s \in 1 .. n
    BY <2>1, Zenon
  <2>3. k \in Nat /\ k <= MaxOps
    BY <1>1
  <2> QED BY <2>2, <2>3
<1>3. At(k, s) \in Nat /\ CallOf(At(k, s)) = k /\ StageOf(At(k, s)) = s /\ At(k, s) < End
  BY <1>2, AtIs
<1>4. End \in Nat
  BY CoboAssumption DEF End, At
<1> QED BY <1>2, <1>3, <1>4 DEF Made, KindOf

\* a number is that of a call
LEMMA NumberIsCall ==
  ASSUME NEW p \in Programs, NEW j \in Nat, Made(p, j)
  PROVE  /\ CallOf(j) \in 1 .. MaxOps /\ StageOf(j) \in 1 .. Len(Stages(p[CallOf(j)]))
         /\ j = At(CallOf(j), StageOf(j))
<1>1. CallOf(j) \in 1 .. MaxOps /\ StageOf(j) <= Len(Stages(p[CallOf(j)]))
  BY DEF Made
<1>2. Len(Stages(p[CallOf(j)])) \in 1 .. 4
  BY <1>1, OpsAreKnown, StagesFit
<1>3. j >= 5
  <2>1. CallOf(j) >= 1
    BY <1>1, CoboAssumption
  <2> QED BY <2>1 DEF CallOf
<1>4. StageOf(j) \in 1 .. 4 /\ j = At(CallOf(j), StageOf(j))
  BY <1>3 DEF StageOf, CallOf, At
<1> QED BY <1>1, <1>2, <1>4

-----------------------------------------------------------------------------
(* The data *)

Data == {1, 2, "nul"} \cup {Promise!Item(k, r) : k \in 1 .. MaxOps, r \in Ranks}
          \cup {Promise!RootItem(k, r) : k \in 1 .. MaxOps, r \in Ranks}

LEMMA CountIs ==
  ASSUME NEW op, NEW s
  PROVE  Count(op, s) \in {1, 2} /\ Promise!MaxStr \in {1, 2}
BY RankIsNat DEF Count, Promise!MaxStr

LEMMA CellIsData ==
  ASSUME NEW op, NEW k \in 1 .. MaxOps, NEW r \in Ranks, NEW c \in {1, 2}, NEW y \in 1 .. c
  PROVE  Cell(op, k, r, y, c) \in Data
<1>1. Promise!Item(k, r) \in Data /\ "nul" \in Data
  BY DEF Data
<1>2. Promise!Padded(k, r, c)[y] \in {Promise!Item(k, r), "nul"}
  BY DEF Promise!Padded
<1> QED BY <1>1, <1>2 DEF Cell

\* the contributions of n ranks are n times sendcount items
LEMMA GatheredIs ==
  ASSUME NEW op, NEW k \in 1 .. MaxOps, NEW r \in Nat, NEW n \in Nat, NEW c \in {1, 2}, r + n <= N
  PROVE  Gathered(op, k, r, n, c) \in Seq(Data) /\ Len(Gathered(op, k, r, n, c)) = c * n
<1>1. ASSUME NEW i \in 1 .. c * n PROVE Cell(op, k, r + ((i - 1) \div c), ((i - 1) % c) + 1, c) \in Data
  <2>1. r + ((i - 1) \div c) \in Ranks /\ ((i - 1) % c) + 1 \in 1 .. c
    <3>1. CASE c = 1
      BY <3>1, RankIsNat
    <3>2. CASE c = 2
      BY <3>2, RankIsNat
    <3> QED BY <3>1, <3>2
  <2> QED BY <2>1, CellIsData
<1>2. c * n \in Nat
  OBVIOUS
<1> QED BY <1>1, <1>2 DEF Gathered

\* the contributions of n ranks and of the m after them are those of n + m
Adjoins(op, k, r, n, m, c) == Gathered(op, k, r, n, c) \o Gathered(op, k, r + n, m, c) = Gathered(op, k, r, n + m, c)

LEMMA GatheredJoin ==
  ASSUME NEW op, NEW k \in 1 .. MaxOps, NEW r \in Nat, NEW n \in Nat, NEW m \in Nat, NEW c \in {1, 2}, r + n + m <= N
  PROVE  Adjoins(op, k, r, n, m, c)
<1> DEFINE a == Gathered(op, k, r, n, c)
           b == Gathered(op, k, r + n, m, c)
           w == Gathered(op, k, r, n + m, c)
<1>1. a \in Seq(Data) /\ Len(a) = c * n /\ b \in Seq(Data) /\ Len(b) = c * m /\ w \in Seq(Data) /\ Len(w) = c * (n + m)
  <2>1. r + n <= N /\ (r + n) + m <= N /\ r + (n + m) <= N /\ r + n \in Nat /\ n + m \in Nat /\ N \in Nat
    BY RankIsNat
  <2>2. a \in Seq(Data) /\ Len(a) = c * n
    BY <2>1, GatheredIs
  <2>3. b \in Seq(Data) /\ Len(b) = c * m
    BY <2>1, GatheredIs
  <2>4. w \in Seq(Data) /\ Len(w) = c * (n + m)
    BY <2>1, GatheredIs
  <2> QED BY <2>2, <2>3, <2>4
<1>2. /\ \A i \in 1 .. c * n : a[i] = Cell(op, k, r + ((i - 1) \div c), ((i - 1) % c) + 1, c)
      /\ \A i \in 1 .. c * m : b[i] = Cell(op, k, (r + n) + ((i - 1) \div c), ((i - 1) % c) + 1, c)
      /\ \A i \in 1 .. c * (n + m) : w[i] = Cell(op, k, r + ((i - 1) \div c), ((i - 1) % c) + 1, c)
  BY DEF Gathered
<1> HIDE DEF a, b, w
<1>3. c * n \in Nat /\ c * m \in Nat /\ c * (n + m) = c * n + c * m
  <2>1. CASE c = 1
    BY <2>1
  <2>2. CASE c = 2
    BY <2>2
  <2> QED BY <2>1, <2>2
<1>4. a \o b \in Seq(Data) /\ Len(a \o b) = Len(w)
  <2>1. Joined(a \o b, Data, a, b)
    BY <1>1, JoinIs
  <2> QED BY <2>1, <1>1, <1>3 DEF Joined
<1>5. ASSUME NEW i \in 1 .. Len(w) PROVE (a \o b)[i] = w[i]
  <2>1. CASE i <= c * n
    <3>1. i \in 1 .. c * n /\ i \in 1 .. c * (n + m)
      BY <2>1, <1>1, <1>3
    <3>2. (a \o b)[i] = a[i]
      BY <3>1, <1>1, <1>3
    <3> QED BY <3>1, <3>2, <1>2
  <2>2. CASE ~(i <= c * n)
    <3>0. i \in Nat /\ i \in 1 .. c * (n + m) /\ i - c * n \in 1 .. c * m
      BY <2>2, <1>1, <1>3
    <3>1. (r + n) + ((i - c * n - 1) \div c) = r + ((i - 1) \div c) /\ ((i - c * n - 1) % c) + 1 = ((i - 1) % c) + 1
      <4>1. CASE c = 1
        BY <4>1, <3>0
      <4>2. CASE c = 2
        BY <4>2, <3>0
      <4> QED BY <4>1, <4>2
    <3>2. (a \o b)[i] = b[i - c * n]
      BY <3>0, <2>2, <1>1, <1>3
    <3>3. b[i - c * n] = Cell(op, k, (r + n) + ((i - c * n - 1) \div c), ((i - c * n - 1) % c) + 1, c)
      BY <3>0, <1>2
    <3>4. w[i] = Cell(op, k, r + ((i - 1) \div c), ((i - 1) % c) + 1, c)
      BY <3>0, <1>2
    <3> QED BY <3>1, <3>2, <3>3, <3>4, Zenon
  <2> QED BY <2>1, <2>2
<1>6. a \o b = w
  BY <1>1, <1>4, <1>5, SameSeq
<1> QED BY <1>6 DEF a, b, w, Adjoins



\* the sizes of the messages
UpSize(op, s, n) == IF Stages(op)[s] = "reduce" THEN 1 ELSE Count(op, s) * n
DownSize(op, s, r) == IF op = "scatter" THEN Own(r) ELSE BcastSize(op, s, Count(op, s))

\* the size of what goes to the parent is what both ends compute
LEMMA UpDataIs ==
  ASSUME NEW op \in AllOps, NEW s \in 1 .. Len(Stages(op)), NEW k \in 1 .. MaxOps,
         NEW r \in Nat, NEW n \in Nat \ {0}, r + n <= N
  PROVE  /\ UpData(op, k, s, r, n) \in Seq(Data) /\ Len(UpData(op, k, s, r, n)) = UpSize(op, s, n)
         /\ UpSize(op, s, n) \in Nat \ {0}
<1>1. CASE Stages(op)[s] = "reduce"
  <2>1. UpData(op, k, s, r, n) = <<IF op = "barrier" THEN 1 ELSE Longest(r, n)>>
    BY <1>1 DEF UpData
  <2>2. (IF op = "barrier" THEN 1 ELSE Longest(r, n)) \in Data
    BY DEF Longest, Data
  <2>3. <<IF op = "barrier" THEN 1 ELSE Longest(r, n)>> \in Seq(Data)
        /\ Len(<<IF op = "barrier" THEN 1 ELSE Longest(r, n)>>) = 1
    BY <2>2
  <2>4. UpSize(op, s, n) = 1
    BY <1>1 DEF UpSize
  <2> QED BY <2>1, <2>3, <2>4
<1>2. CASE Stages(op)[s] # "reduce"
  <2>1. PICK c \in {1, 2} : c = Count(op, s)
    BY CountIs
  <2>2. UpData(op, k, s, r, n) = Gathered(op, k, r, n, c)
    BY <1>2, <2>1 DEF UpData
  <2>3. Gathered(op, k, r, n, c) \in Seq(Data) /\ Len(Gathered(op, k, r, n, c)) = c * n
    BY GatheredIs
  <2>4. UpSize(op, s, n) = c * n
    BY <1>2, <2>1 DEF UpSize
  <2>5. c * n \in Nat \ {0}
    OBVIOUS
  <2> QED BY <2>2, <2>3, <2>4, <2>5
<1> QED BY <1>1, <1>2

\* the size of what goes to a child is what both ends compute
LEMMA DownDataIs ==
  ASSUME NEW op \in AllOps, NEW s \in 1 .. Len(Stages(op)), Stages(op)[s] \notin Upwards,
         NEW k \in 1 .. MaxOps, NEW r \in Ranks
  PROVE  /\ DownData(op, k, s, r) \in Seq(Data) /\ Len(DownData(op, k, s, r)) = DownSize(op, s, r)
         /\ DownSize(op, s, r) \in Nat \ {0}
<1>0. N \in Nat /\ N > 0 /\ N \in Nat \ {0} /\ 0 + N <= N /\ 0 \in Nat
  BY RankIsNat
<1>1. CASE op = "barrier"
  <2>1. DownData(op, k, s, r) = <<1>> /\ DownSize(op, s, r) = 1
    BY <1>1 DEF DownData, DownSize, BcastSize
  <2> QED BY <2>1 DEF Data
<1>2. CASE op = "bcast"
  <2>1. DownData(op, k, s, r) = <<Promise!RootItem(k, 0)>> /\ DownSize(op, s, r) = 1
    BY <1>2 DEF DownData, DownSize, BcastSize
  <2>2. Promise!RootItem(k, 0) \in Data
    BY RankIsNat DEF Data
  <2> QED BY <2>1, <2>2
<1>3. CASE op = "scatter"
  <2>1. DownData(op, k, s, r) = [i \in 1 .. Own(r) |-> Promise!RootItem(k, r + i - 1)] /\ DownSize(op, s, r) = Own(r)
    BY <1>3 DEF DownData, DownSize
  <2>2. Own(r) \in Nat \ {0} /\ r + Own(r) <= N /\ r \in Nat
    BY OwnFits, RankIsNat
  <2>3. ASSUME NEW i \in 1 .. Own(r) PROVE Promise!RootItem(k, r + i - 1) \in Data
    <3>1. r + i - 1 \in Ranks
      BY <2>2, RankIsNat
    <3> QED BY <3>1 DEF Data
  <2>4. [i \in 1 .. Own(r) |-> Promise!RootItem(k, r + i - 1)] \in Seq(Data)
        /\ Len([i \in 1 .. Own(r) |-> Promise!RootItem(k, r + i - 1)]) = Own(r)
    BY <2>2, <2>3
  <2> QED BY <2>1, <2>2, <2>4
<1>4. CASE op = "allgather"
  <2>1. DownData(op, k, s, r) = Gathered(op, k, 0, N, 1)
    BY <1>4 DEF DownData
  <2>2. Gathered(op, k, 0, N, 1) \in Seq(Data) /\ Len(Gathered(op, k, 0, N, 1)) = 1 * N
    BY <1>0, GatheredIs
  <2>3. DownSize(op, s, r) = 1 * N
    BY <1>4 DEF DownSize, BcastSize, Count
  <2> QED BY <2>1, <2>2, <2>3, <1>0
<1>5. CASE op = "allgather_str" /\ s = 2
  <2>1. DownData(op, k, s, r) = <<Promise!MaxStr>> /\ DownSize(op, s, r) = 1
    BY <1>5 DEF DownData, DownSize, BcastSize
  <2>2. Promise!MaxStr \in Data
    BY CountIs DEF Data
  <2> QED BY <2>1, <2>2
<1>6. CASE op = "allgather_str" /\ s = 4
  <2>0. PICK c \in {1, 2} : c = Promise!MaxStr
    BY CountIs
  <2>1. DownData(op, k, s, r) = Gathered(op, k, 0, N, c)
    BY <1>6, <2>0 DEF DownData
  <2>2. Gathered(op, k, 0, N, c) \in Seq(Data) /\ Len(Gathered(op, k, 0, N, c)) = c * N
    BY <1>0, GatheredIs
  <2>3. DownSize(op, s, r) = c * N
    BY <1>6, <2>0 DEF DownSize, BcastSize, Count
  <2>4. c * N \in Nat \ {0}
    BY <1>0
  <2> QED BY <2>1, <2>2, <2>3, <2>4
<1> QED BY <1>1, <1>2, <1>3, <1>4, <1>5, <1>6, StageCases, Zenon DEF Upwards

\* on a link of the tree only one end writes in a call, and it writes something
LEMMA MsgUp ==
  ASSUME NEW p \in Programs, NEW j \in Nat, Made(p, j), KindOf(p, j) \in Upwards, NEW a \in Ranks \ {0}
  PROVE  /\ Msg(p, a, cobo_parent(a), j) = UpData(p[CallOf(j)], CallOf(j), StageOf(j), a, Own(a))
         /\ Msg(p, cobo_parent(a), a, j) = <<>>
         /\ Msg(p, a, cobo_parent(a), j) \in Seq(Data)
         /\ Len(Msg(p, a, cobo_parent(a), j)) = UpSize(p[CallOf(j)], StageOf(j), Own(a))
         /\ Len(Msg(p, a, cobo_parent(a), j)) \in Nat \ {0}
<1>1. CallOf(j) \in 1 .. MaxOps /\ StageOf(j) \in 1 .. Len(Stages(p[CallOf(j)])) /\ p[CallOf(j)] \in AllOps
  BY NumberIsCall, OpsAreKnown
<1>2. a \in Nat /\ Own(a) \in Nat \ {0} /\ a + Own(a) <= N
  BY OwnFits, RankIsNat
<1>3. Msg(p, a, cobo_parent(a), j) = UpData(p[CallOf(j)], CallOf(j), StageOf(j), a, Own(a))
  BY Zenon DEF Msg
<1>4. /\ UpData(p[CallOf(j)], CallOf(j), StageOf(j), a, Own(a)) \in Seq(Data)
      /\ Len(UpData(p[CallOf(j)], CallOf(j), StageOf(j), a, Own(a))) = UpSize(p[CallOf(j)], StageOf(j), Own(a))
      /\ UpSize(p[CallOf(j)], StageOf(j), Own(a)) \in Nat \ {0}
  <2>1. PICK op \in AllOps : op = p[CallOf(j)]
    BY <1>1
  <2>2. PICK s \in 1 .. Len(Stages(op)) : s = StageOf(j)
    BY <1>1, <2>1
  <2>3. PICK k \in 1 .. MaxOps : k = CallOf(j)
    BY <1>1
  <2>4. PICK n \in Nat \ {0} : n = Own(a) /\ a + n <= N
    BY <1>2
  <2>5. UpData(op, k, s, a, n) \in Seq(Data) /\ Len(UpData(op, k, s, a, n)) = UpSize(op, s, n) /\ UpSize(op, s, n) \in Nat \ {0}
    BY <1>2, <2>4, UpDataIs
  <2> QED BY <2>1, <2>2, <2>3, <2>4, <2>5
<1>5. ~(cobo_parent(a) # 0 /\ a = cobo_parent(cobo_parent(a)))
  <2> SUFFICES ASSUME cobo_parent(a) # 0, a = cobo_parent(cobo_parent(a)) PROVE FALSE
    OBVIOUS
  <2>1. PICK b : b = cobo_parent(a)
    OBVIOUS
  <2>2. b \in Ranks \ {0} /\ \E i \in 1 .. Kids(b) : Nth(b, i) = a
    BY <2>1, ParentFacts
  <2>3. b < a
    BY <2>2, KidFacts
  <2>4. \E i \in 1 .. Kids(a) : Nth(a, i) = b
    BY <2>1, <2>2, ParentFacts
  <2>5. a < b
    BY <2>4, KidFacts
  <2> QED BY <2>2, <2>3, <2>5, RankIsNat
<1>6. Msg(p, cobo_parent(a), a, j) = <<>>
  BY <1>5, Zenon DEF Msg
<1> QED BY <1>3, <1>4, <1>6

\* on the way down there is a message from every parent to its child, and none back
LEMMA MsgDown ==
  ASSUME NEW p \in Programs, NEW j \in Nat, Made(p, j), KindOf(p, j) \notin Upwards, NEW b \in Ranks \ {0}
  PROVE  /\ Msg(p, cobo_parent(b), b, j) = DownData(p[CallOf(j)], CallOf(j), StageOf(j), b)
         /\ Msg(p, b, cobo_parent(b), j) = <<>>
         /\ Msg(p, cobo_parent(b), b, j) \in Seq(Data)
         /\ Len(Msg(p, cobo_parent(b), b, j)) = DownSize(p[CallOf(j)], StageOf(j), b)
         /\ Len(Msg(p, cobo_parent(b), b, j)) \in Nat \ {0}
<1>1. CallOf(j) \in 1 .. MaxOps /\ StageOf(j) \in 1 .. Len(Stages(p[CallOf(j)])) /\ p[CallOf(j)] \in AllOps
  BY NumberIsCall, OpsAreKnown
<1>2. Stages(p[CallOf(j)])[StageOf(j)] \notin Upwards
  BY DEF KindOf
<1>3. Msg(p, cobo_parent(b), b, j) = DownData(p[CallOf(j)], CallOf(j), StageOf(j), b)
  BY Zenon DEF Msg
<1>4. /\ DownData(p[CallOf(j)], CallOf(j), StageOf(j), b) \in Seq(Data)
      /\ Len(DownData(p[CallOf(j)], CallOf(j), StageOf(j), b)) = DownSize(p[CallOf(j)], StageOf(j), b)
      /\ DownSize(p[CallOf(j)], StageOf(j), b) \in Nat \ {0}
  <2>1. b \in Ranks
    OBVIOUS
  <2> QED BY <1>1, <1>2, <2>1, DownDataIs, Zenon
<1>5. ~(cobo_parent(b) # 0 /\ b = cobo_parent(cobo_parent(b)))
  <2> SUFFICES ASSUME cobo_parent(b) # 0, b = cobo_parent(cobo_parent(b)) PROVE FALSE
    OBVIOUS
  <2>1. PICK a : a = cobo_parent(b)
    OBVIOUS
  <2>2. a \in Ranks \ {0} /\ \E i \in 1 .. Kids(a) : Nth(a, i) = b
    BY <2>1, ParentFacts
  <2>3. a < b
    BY <2>2, KidFacts
  <2>4. \E i \in 1 .. Kids(b) : Nth(b, i) = a
    BY <2>1, <2>2, ParentFacts
  <2>5. b < a
    BY <2>4, KidFacts
  <2> QED BY <2>2, <2>3, <2>5, RankIsNat
<1>6. Msg(p, b, cobo_parent(b), j) = <<>>
  BY <1>5, Zenon DEF Msg
<1> QED BY <1>3, <1>4, <1>6

\* a message consists of items
LEMMA MsgIsData ==
  ASSUME NEW p \in Programs, NEW j \in Nat, NEW a \in Ranks, NEW b \in Ranks
  PROVE  Msg(p, a, b, j) \in Seq(Data)
<1>1. <<>> \in Seq(Data)
  OBVIOUS
<1>2. CASE ~Made(p, j)
  BY <1>1, <1>2 DEF Msg
<1>3. CASE Made(p, j) /\ KindOf(p, j) \in Upwards
  <2>1. CASE a # 0 /\ b = cobo_parent(a)
    BY <1>3, <2>1, MsgUp
  <2>2. CASE ~(a # 0 /\ b = cobo_parent(a))
    BY <1>1, <1>3, <2>2, Zenon DEF Msg
  <2> QED BY <2>1, <2>2
<1>4. CASE Made(p, j) /\ KindOf(p, j) \notin Upwards
  <2>1. CASE b # 0 /\ a = cobo_parent(b)
    BY <1>4, <2>1, MsgDown
  <2>2. CASE ~(b # 0 /\ a = cobo_parent(b))
    BY <1>1, <1>4, <2>2, Zenon DEF Msg
  <2> QED BY <2>1, <2>2
<1> QED BY <1>2, <1>3, <1>4

-----------------------------------------------------------------------------
(* All that a rank ever writes to another, call after call *)

Streams(p, a, b, n) ==
  {f \in [0 .. n -> Seq(Data)] : f[0] = <<>> /\ \A j \in 0 .. n - 1 : f[j + 1] = f[j] \o Msg(p, a, b, j)}

Stream(p, a, b) == CHOOSE f : f \in Streams(p, a, b, End + 1)

\* the items a has for b before number j, and all of them
Offset(p, a, b, j) == Len(Stream(p, a, b)[j])
All(p, a, b) == Stream(p, a, b)[End + 1]

LEMMA EndIsNat == End \in Nat /\ End + 1 \in Nat
BY CoboAssumption DEF End, At

LEMMA StreamGrows ==
  ASSUME NEW p \in Programs, NEW a \in Ranks, NEW b \in Ranks, NEW n \in Nat, NEW f \in Streams(p, a, b, n)
  PROVE  \E g : g \in Streams(p, a, b, n + 1)
<1> DEFINE g == [j \in 0 .. n + 1 |-> IF j = n + 1 THEN f[n] \o Msg(p, a, b, n) ELSE f[j]]
<1>1. f \in [0 .. n -> Seq(Data)] /\ f[0] = <<>> /\ \A j \in 0 .. n - 1 : f[j + 1] = f[j] \o Msg(p, a, b, j)
  BY DEF Streams
<1>2. f[n] \in Seq(Data) /\ Msg(p, a, b, n) \in Seq(Data)
  BY <1>1, MsgIsData
<1>3. f[n] \o Msg(p, a, b, n) \in Seq(Data)
  BY <1>2
<1>4. \A j \in 0 .. n + 1 : (IF j = n + 1 THEN f[n] \o Msg(p, a, b, n) ELSE f[j]) \in Seq(Data)
  <2> TAKE j \in 0 .. n + 1
  <2>1. CASE j = n + 1
    BY <1>3, <2>1
  <2>2. CASE j # n + 1
    <3>1. j \in 0 .. n
      BY <2>2
    <3>2. f[j] \in Seq(Data)
      BY <1>1, <3>1, Zenon
    <3> QED BY <2>2, <3>2, Zenon
  <2> QED BY <2>1, <2>2
<1>5. g \in [0 .. n + 1 -> Seq(Data)]
  BY <1>4
<1>6. g[n + 1] = f[n] \o Msg(p, a, b, n) /\ \A j \in 0 .. n : g[j] = f[j]
  OBVIOUS
<1> HIDE DEF g
<1>7. g[0] = <<>>
  BY <1>1, <1>6
<1>8. ASSUME NEW j \in 0 .. (n + 1) - 1 PROVE g[j + 1] = g[j] \o Msg(p, a, b, j)
  <2>1. CASE j = n
    <3>1. g[n] = f[n]
      BY <1>6
    <3> QED BY <2>1, <3>1, <1>6, Zenon
  <2>2. CASE j # n
    <3>1. j \in 0 .. n - 1 /\ j \in 0 .. n /\ j + 1 \in 0 .. n
      BY <2>2
    <3>2. g[j] = f[j] /\ g[j + 1] = f[j + 1] /\ f[j + 1] = f[j] \o Msg(p, a, b, j)
      BY <3>1, <1>1, <1>6
    <3> QED BY <3>2, Zenon
  <2> QED BY <2>1, <2>2
<1> QED BY <1>5, <1>7, <1>8 DEF Streams

\* all that a rank ever writes to another is determined by the program
LEMMA StreamExists ==
  ASSUME NEW p \in Programs, NEW a \in Ranks, NEW b \in Ranks
  PROVE  Stream(p, a, b) \in Streams(p, a, b, End + 1)
<1> DEFINE T == {n \in Nat : ~\E f : f \in Streams(p, a, b, n)}
<1>1. T = {}
  <2> SUFFICES ASSUME T # {} PROVE FALSE
    OBVIOUS
  <2>1. PICK n \in T : \A x \in T : n <= x
    <3>1. T \subseteq Nat
      OBVIOUS
    <3> QED BY <3>1, Least
  <2>2. CASE n = 0
    <3> DEFINE f == [j \in 0 .. 0 |-> <<>>]
    <3>1. f \in [0 .. 0 -> Seq(Data)] /\ f[0] = <<>>
      OBVIOUS
    <3>2. 0 .. 0 - 1 = {}
      OBVIOUS
    <3> HIDE DEF f
    <3>3. f \in Streams(p, a, b, 0)
      BY <3>1, <3>2 DEF Streams
    <3> QED BY <2>1, <2>2, <3>3
  <2>3. CASE n # 0
    <3>1. n - 1 \in Nat /\ (n - 1) + 1 = n /\ ~(n <= n - 1)
      BY <2>3
    <3>2. n - 1 \notin T
      <4> HIDE DEF T
      <4> QED BY <2>1, <3>1
    <3>3. PICK f : f \in Streams(p, a, b, n - 1)
      BY <3>1, <3>2
    <3>4. \E g : g \in Streams(p, a, b, (n - 1) + 1)
      BY <3>1, <3>3, StreamGrows
    <3> QED BY <2>1, <3>1, <3>4
  <2> QED BY <2>2, <2>3
<1>2. \E f : f \in Streams(p, a, b, End + 1)
  BY <1>1, EndIsNat
<1> QED BY <1>2, Zenon DEF Stream

LEMMA StreamIs ==
  ASSUME NEW p \in Programs, NEW a \in Ranks, NEW b \in Ranks
  PROVE  /\ Stream(p, a, b)[0] = <<>>
         /\ \A j \in 0 .. End + 1 : Stream(p, a, b)[j] \in Seq(Data) /\ Offset(p, a, b, j) \in Nat
         /\ \A j \in 0 .. End : Stream(p, a, b)[j + 1] = Stream(p, a, b)[j] \o Msg(p, a, b, j)
<1>1. PICK f : f = Stream(p, a, b)
  OBVIOUS
<1>2. f \in Streams(p, a, b, End + 1)
  BY <1>1, StreamExists
<1>3. /\ f \in [0 .. End + 1 -> Seq(Data)] /\ f[0] = <<>>
      /\ \A j \in 0 .. (End + 1) - 1 : f[j + 1] = f[j] \o Msg(p, a, b, j)
  BY <1>2 DEF Streams
<1>4. \A j \in 0 .. End : j \in 0 .. (End + 1) - 1
  BY EndIsNat
<1>5. \A j \in 0 .. End + 1 : f[j] \in Seq(Data) /\ Len(f[j]) \in Nat
  BY <1>3
<1>6. \A j \in 0 .. End : f[j + 1] = f[j] \o Msg(p, a, b, j)
  BY <1>3, <1>4, Zenon
<1> QED BY <1>1, <1>3, <1>5, <1>6, Zenon DEF Offset

LEMMA OffsetStep ==
  ASSUME NEW p \in Programs, NEW a \in Ranks, NEW b \in Ranks, NEW j \in 0 .. End
  PROVE  /\ Offset(p, a, b, j) \in Nat /\ Offset(p, a, b, j + 1) \in Nat /\ Len(Msg(p, a, b, j)) \in Nat
         /\ Offset(p, a, b, j + 1) = Offset(p, a, b, j) + Len(Msg(p, a, b, j))
<1>1. PICK f : f = Stream(p, a, b)
  OBVIOUS
<1>2. j \in 0 .. End + 1 /\ j + 1 \in 0 .. End + 1 /\ j \in Nat
  BY EndIsNat
<1>3. f[j] \in Seq(Data) /\ f[j + 1] = f[j] \o Msg(p, a, b, j) /\ Offset(p, a, b, j) \in Nat /\ Offset(p, a, b, j + 1) \in Nat
  BY <1>1, <1>2, StreamIs
<1>4. Msg(p, a, b, j) \in Seq(Data)
  BY <1>2, MsgIsData
<1>5. Len(f[j + 1]) = Len(f[j]) + Len(Msg(p, a, b, j)) /\ Len(Msg(p, a, b, j)) \in Nat
  BY <1>3, <1>4
<1>6. Offset(p, a, b, j) = Len(f[j]) /\ Offset(p, a, b, j + 1) = Len(f[j + 1])
  BY <1>1 DEF Offset
<1> QED BY <1>3, <1>5, <1>6

\* what is written before number j is how all of it begins
LEMMA StreamBegins ==
  ASSUME NEW p \in Programs, NEW a \in Ranks, NEW b \in Ranks, NEW i \in 0 .. End + 1
  PROVE  \A j \in i .. End + 1 : /\ Offset(p, a, b, i) <= Offset(p, a, b, j)
                                  /\ Cut(Stream(p, a, b)[j], 0, Offset(p, a, b, i)) = Stream(p, a, b)[i]
<1>0. End \in Nat /\ i \in Nat
  BY EndIsNat
<1> DEFINE Good(j) == /\ Offset(p, a, b, i) <= Offset(p, a, b, j)
                      /\ Cut(Stream(p, a, b)[j], 0, Offset(p, a, b, i)) = Stream(p, a, b)[i]
           T == {j \in i .. End + 1 : ~Good(j)}
<1>1. T = {}
  <2> SUFFICES ASSUME T # {} PROVE FALSE
    OBVIOUS
  <2>1. PICK j \in T : \A x \in T : j <= x
    <3>1. T \subseteq Nat
      BY <1>0
    <3> QED BY <3>1, Least
  <2>2. j \in i .. End + 1 /\ ~Good(j)
    OBVIOUS
  <2>3. CASE j = i
    <3>1. Stream(p, a, b)[i] \in Seq(Data) /\ Offset(p, a, b, i) \in Nat
      BY StreamIs
    <3>2. Cut(Stream(p, a, b)[i], 0, Offset(p, a, b, i)) = Stream(p, a, b)[i]
      BY <3>1, CutAll, Zenon DEF Offset
    <3> QED BY <2>2, <2>3, <3>1, <3>2
  <2>4. CASE j # i
    <3>1. j - 1 \in i .. End + 1 /\ j - 1 \in 0 .. End /\ (j - 1) + 1 = j /\ ~(j <= j - 1) /\ j - 1 \in Nat /\ j - 1 \in 0 .. End + 1
      BY <1>0, <2>2, <2>4
    <3>2. Good(j - 1)
      <4>1. j - 1 \notin T
        <5> HIDE DEF T
        <5> QED BY <2>1, <3>1
      <4> HIDE DEF Good
      <4> QED BY <3>1, <4>1
    <3>3. PICK s, t, m : s = Stream(p, a, b)[j - 1] /\ t = Stream(p, a, b)[j] /\ m = Msg(p, a, b, j - 1)
      OBVIOUS
    <3>4. s \in Seq(Data) /\ t = s \o m /\ m \in Seq(Data)
      BY <3>1, <3>3, StreamIs, MsgIsData
    <3>5. Offset(p, a, b, i) \in 0 .. Len(s) /\ Len(s) = Offset(p, a, b, j - 1)
      <4>1. Offset(p, a, b, i) \in Nat /\ Offset(p, a, b, i) <= Offset(p, a, b, j - 1) /\ Len(s) = Offset(p, a, b, j - 1)
        BY <3>2, <3>3, StreamIs DEF Offset
      <4>2. Len(s) \in Nat
        BY <3>4
      <4> QED BY <4>1, <4>2
    <3>6. Cut(t, 0, Offset(p, a, b, i)) = Cut(s, 0, Offset(p, a, b, i))
      <4>1. 0 \in 0 .. Len(s) /\ 0 <= Offset(p, a, b, i)
        BY <3>4, <3>5
      <4>2. Cut(s \o m, 0, Offset(p, a, b, i)) = Cut(s, 0, Offset(p, a, b, i))
        BY <3>4, <3>5, <4>1, CutLeft, Zenon
      <4> QED BY <3>4, <3>5, <4>1, <4>2, Zenon
    <3>7. Offset(p, a, b, j - 1) <= Offset(p, a, b, j)
      BY <3>1, OffsetStep
    <3>8. Offset(p, a, b, i) <= Offset(p, a, b, j)
      <4>1. Offset(p, a, b, i) \in Nat /\ Offset(p, a, b, j) \in Nat /\ Offset(p, a, b, j - 1) \in Nat
        <5>1. j \in 0 .. End + 1
          BY <1>0, <2>2
        <5> QED BY <3>1, <5>1, StreamIs
      <4> QED BY <4>1, <3>2, <3>7
    <3>9. Cut(t, 0, Offset(p, a, b, i)) = Stream(p, a, b)[i]
      BY <3>2, <3>3, <3>6, Zenon
    <3> QED BY <2>2, <3>3, <3>8, <3>9, Zenon
  <2> QED BY <2>3, <2>4
<1> QED BY <1>1

\* later numbers begin later
LEMMA OffsetGrows ==
  ASSUME NEW p \in Programs, NEW a \in Ranks, NEW b \in Ranks, NEW i \in 0 .. End + 1, NEW j \in 0 .. End + 1, i <= j
  PROVE  Offset(p, a, b, i) \in Nat /\ Offset(p, a, b, j) \in Nat /\ Offset(p, a, b, i) <= Offset(p, a, b, j)
<1>1. j \in i .. End + 1
  BY EndIsNat
<1> QED BY <1>1, StreamBegins, StreamIs

LEMMA AllIs ==
  ASSUME NEW p \in Programs, NEW a \in Ranks, NEW b \in Ranks
  PROVE  All(p, a, b) \in Seq(Data) /\ Len(All(p, a, b)) = Offset(p, a, b, End + 1) /\ Offset(p, a, b, 0) = 0
<1>1. End + 1 \in 0 .. End + 1
  BY EndIsNat
<1>2. All(p, a, b) \in Seq(Data)
  BY <1>1, StreamIs DEF All
<1>3. Offset(p, a, b, 0) = 0
  BY StreamIs DEF Offset
<1> QED BY <1>2, <1>3 DEF All, Offset

\* the message of number j is where it belongs
LEMMA MsgIsCut ==
  ASSUME NEW p \in Programs, NEW a \in Ranks, NEW b \in Ranks, NEW j \in 0 .. End
  PROVE  Msg(p, a, b, j) = Cut(All(p, a, b), Offset(p, a, b, j), Offset(p, a, b, j + 1))
<1>1. PICK s, t, m, w : s = Stream(p, a, b)[j] /\ t = Stream(p, a, b)[j + 1] /\ m = Msg(p, a, b, j) /\ w = All(p, a, b)
  OBVIOUS
<1>2. j \in 0 .. End + 1 /\ j + 1 \in 0 .. End + 1 /\ j \in Nat /\ End + 1 \in j + 1 .. End + 1
  BY EndIsNat
<1>3. s \in Seq(Data) /\ t = s \o m /\ m \in Seq(Data) /\ w \in Seq(Data)
  BY <1>1, <1>2, StreamIs, MsgIsData, AllIs
<1>4. PICK x, y : x = Offset(p, a, b, j) /\ y = Offset(p, a, b, j + 1)
  OBVIOUS
<1>5. x \in Nat /\ y \in Nat /\ x <= y /\ x = Len(s) /\ y = Len(s) + Len(m) /\ y <= Len(w)
  <2>1. x \in Nat /\ y \in Nat /\ y = x + Len(m) /\ Len(m) \in Nat
    BY <1>1, <1>4, OffsetStep
  <2>2. y <= Len(w)
    BY <1>1, <1>2, <1>4, StreamBegins, AllIs
  <2>3. x = Len(s)
    BY <1>1, <1>4 DEF Offset
  <2> QED BY <2>1, <2>2, <2>3
<1>6. Cut(w, 0, y) = t
  BY <1>1, <1>2, <1>4, StreamBegins DEF All
<1>7. Cut(t, x, y) = m
  <2>1. Cut(s \o m, Len(s), Len(s) + Len(m)) = m
    BY <1>3, CutRight
  <2>2. t = s \o m /\ x = Len(s) /\ y = Len(s) + Len(m)
    BY <1>3, <1>5
  <2> QED BY <2>1, <2>2
<1>8. Cut(Cut(w, 0, y), x, y) = Cut(w, 0 + x, 0 + y)
  <2>1. /\ w \in Seq(Data) /\ 0 \in Nat /\ y \in Nat /\ x \in Nat
        /\ 0 <= y /\ y <= Len(w) /\ x <= y /\ y <= y - 0
    BY <1>3, <1>5
  <2> QED BY <2>1, CutCut
<1>9. 0 + x = x /\ 0 + y = y
  BY <1>5
<1> QED BY <1>1, <1>4, <1>6, <1>7, <1>8, <1>9, Zenon

\* a number that is not made moves nothing
LEMMA OffsetStays ==
  ASSUME NEW p \in Programs, NEW a \in Ranks, NEW b \in Ranks, NEW j \in 0 .. End, ~Made(p, j)
  PROVE  Offset(p, a, b, j + 1) = Offset(p, a, b, j)
<1>1. Msg(p, a, b, j) = <<>>
  BY DEF Msg
<1>2. Len(Msg(p, a, b, j)) = 0
  BY <1>1
<1> QED BY <1>2, OffsetStep

\* the stages after the last one
LEMMA OffsetOfReturn ==
  ASSUME NEW p \in Programs, NEW a \in Ranks, NEW b \in Ranks, NEW k \in 1 .. MaxOps
  PROVE  Offset(p, a, b, At(k, Len(Stages(p[k]))) + 1) = Offset(p, a, b, At(k + 1, 1))
<1> DEFINE O(j) == Offset(p, a, b, j)
<1>1. PICK n \in 1 .. 4 : n = Len(Stages(p[k]))
  BY OpsAreKnown, StagesFit
<1>2. k \in Nat /\ k <= MaxOps /\ MaxOps \in Nat
  BY CoboAssumption
<1>3. ASSUME NEW s \in 1 .. 4, s > n PROVE O(At(k, s) + 1) = O(At(k, s))
  <2>1. CallOf(At(k, s)) = k /\ StageOf(At(k, s)) = s /\ At(k, s) \in Nat /\ At(k, s) < End
    BY <1>2, AtIs
  <2>2. ~(s <= n)
    BY <1>3
  <2>3. ~Made(p, At(k, s))
    BY <1>1, <2>1, <2>2, Zenon DEF Made
  <2>4. At(k, s) \in 0 .. End
    BY <2>1, EndIsNat
  <2> QED BY <2>3, <2>4, OffsetStays
<1>4. At(k, 1) + 1 = At(k, 2) /\ At(k, 2) + 1 = At(k, 3) /\ At(k, 3) + 1 = At(k, 4) /\ At(k, 4) + 1 = At(k + 1, 1)
  BY <1>2 DEF At
<1> HIDE DEF O
<1>5. O(At(k, n) + 1) = O(At(k + 1, 1))
  <2>1. CASE n = 4
    BY <1>4, <2>1
  <2>2. CASE n = 3
    BY <1>3, <1>4, <2>2
  <2>3. CASE n = 2
    BY <1>3, <1>4, <2>3
  <2>4. CASE n = 1
    BY <1>3, <1>4, <2>4
  <2> QED BY <2>1, <2>2, <2>3, <2>4
<1> QED BY <1>1, <1>5 DEF O

-----------------------------------------------------------------------------
(* What a rank does in a cobo_*_tree call *)

Acts == [do : {"read", "write"}, peer : Ranks, n : Nat, off : Nat]

Plan(p, k, s, r) == Script(p[k], s, r, Count(p[k], s))

\* the number of the action with the parent, or the children's first
Before(r) == IF r = 0 THEN 0 ELSE 1

\* the child that is written to as number i, and where its data begin
Turn(op, r, i) == IF op = "scatter" THEN Kids(r) + 1 - i ELSE i
From(op, r, i) == IF op = "scatter" THEN 1 + Below(r, i + 1) ELSE 0

UpPlan(q, op, s, r) ==
  /\ q \in Seq(Acts) /\ Len(q) = Kids(r) + Before(r)
  /\ \A i \in 1 .. Kids(r) : q[i] = Read(Nth(r, Kids(r) + 1 - i), UpSize(op, s, Own(Nth(r, Kids(r) + 1 - i))))
  /\ r # 0 => q[Kids(r) + 1] = Write(cobo_parent(r), UpSize(op, s, Own(r)), 0)

DownPlan(q, op, s, r) ==
  /\ q \in Seq(Acts) /\ Len(q) = Kids(r) + Before(r)
  /\ r # 0 => q[1] = Read(cobo_parent(r), DownSize(op, s, r))
  /\ \A i \in 1 .. Kids(r) :
       q[Before(r) + i] = Write(Nth(r, Turn(op, r, i)), DownSize(op, s, Nth(r, Turn(op, r, i))), From(op, r, Turn(op, r, i)))

LEMMA ActsAre ==
  ASSUME NEW q \in Ranks, NEW n \in Nat, NEW off \in Nat
  PROVE  Read(q, n) \in Acts /\ Write(q, n, off) \in Acts
BY DEF Acts, Read, Write

LEMMA ParentAct ==
  ASSUME NEW r \in Ranks, NEW n \in Nat
  PROVE  /\ ToParent(r, n) \in Seq(Acts) /\ Len(ToParent(r, n)) = Before(r)
         /\ r # 0 => ToParent(r, n)[1] = Write(cobo_parent(r), n, 0)
         /\ FromParent(r, n) \in Seq(Acts) /\ Len(FromParent(r, n)) = Before(r)
         /\ r # 0 => FromParent(r, n)[1] = Read(cobo_parent(r), n)
<1>1. CASE r = 0
  <2>1. ToParent(r, n) = <<>> /\ FromParent(r, n) = <<>> /\ Before(r) = 0
    BY <1>1 DEF ToParent, FromParent, Before
  <2>2. <<>> \in Seq(Acts) /\ Len(<<>>) = 0
    OBVIOUS
  <2> QED BY <1>1, <2>1, <2>2, Zenon
<1>2. CASE r # 0
  <2>1. cobo_parent(r) \in Ranks
    BY <1>2, ParentFacts
  <2>2. Read(cobo_parent(r), n) \in Acts /\ Write(cobo_parent(r), n, 0) \in Acts
    BY <2>1, ActsAre
  <2>3. ToParent(r, n) = <<Write(cobo_parent(r), n, 0)>> /\ FromParent(r, n) = <<Read(cobo_parent(r), n)>> /\ Before(r) = 1
    BY <1>2 DEF ToParent, FromParent, Before
  <2> QED BY <2>2, <2>3
<1> QED BY <1>1, <1>2

\* a list of actions with the children and one with the parent after it
LEMMA ThenParent ==
  ASSUME NEW r \in Ranks, NEW q \in Seq(Acts), NEW w \in Seq(Acts), Len(q) = Kids(r), Len(w) = Before(r)
  PROVE  /\ q \o w \in Seq(Acts) /\ Len(q \o w) = Kids(r) + Before(r)
         /\ \A i \in 1 .. Kids(r) : (q \o w)[i] = q[i]
         /\ r # 0 => (q \o w)[Kids(r) + 1] = w[1]
         /\ w \o q \in Seq(Acts) /\ Len(w \o q) = Kids(r) + Before(r)
         /\ \A i \in 1 .. Kids(r) : (w \o q)[Before(r) + i] = q[i]
         /\ r # 0 => (w \o q)[1] = w[1]
<1>1. Kids(r) \in Nat
  BY KidsIsNat
<1>2. CASE r = 0
  BY <1>1, <1>2 DEF Before
<1>3. CASE r # 0
  <2>1. Len(w) = 1 /\ Before(r) = 1
    BY <1>3 DEF Before
  <2>2. PICK n \in Nat : n = Kids(r)
    BY <1>1
  <2>3. Len(q) = n
    BY <2>2
  <2>4. OneAfter(q \o w, Acts, q, n, w[1]) /\ OneFirst(w \o q, Acts, q, n, w[1])
    BY <2>1, <2>3, JoinOne, Zenon
  <2> QED BY <2>1, <2>2, <2>4 DEF OneAfter, OneFirst
<1> QED BY <1>2, <1>3

\* cobo_reduce and cobo_gather_tree: the children from the last, then the parent
LEMMA PlanUp ==
  ASSUME NEW op \in AllOps, NEW s \in 1 .. Len(Stages(op)), Stages(op)[s] \in Upwards, NEW r \in Ranks
  PROVE  UpPlan(Script(op, s, r, Count(op, s)), op, s, r)
<1> DEFINE n == Kids(r)
<1>0. n \in Nat /\ Own(r) \in Nat /\ \A i \in 1 .. n : Nth(r, i) \in Ranks /\ child[r][i].incl = Own(Nth(r, i)) /\ Own(Nth(r, i)) \in Nat
  BY KidsIsNat, KidFacts, OwnFits
<1>1. PICK c \in {1, 2} : c = Count(op, s)
  BY CountIs
<1>2. \A i \in 1 .. n : n + 1 - i \in 1 .. n
  BY <1>0
<1> DEFINE q == [j \in 1 .. n |-> Read(Nth(r, n + 1 - j), UpSize(op, s, Own(Nth(r, n + 1 - j))))]
           w == ToParent(r, UpSize(op, s, Own(r)))
<1>3. /\ UpSize(op, s, Own(r)) \in Nat
      /\ \A i \in 1 .. n : UpSize(op, s, Own(Nth(r, i))) \in Nat
  BY <1>0, <1>1 DEF UpSize
<1>4. q \in Seq(Acts) /\ Len(q) = n /\ \A i \in 1 .. n : q[i] = Read(Nth(r, n + 1 - i), UpSize(op, s, Own(Nth(r, n + 1 - i))))
  <2>1. \A j \in 1 .. n : Read(Nth(r, n + 1 - j), UpSize(op, s, Own(Nth(r, n + 1 - j)))) \in Acts
    <3> TAKE j \in 1 .. n
    <3>1. Nth(r, n + 1 - j) \in Ranks /\ UpSize(op, s, Own(Nth(r, n + 1 - j))) \in Nat
      BY <1>0, <1>2, <1>3
    <3> QED BY <3>1, ActsAre
  <2> HIDE DEF n
  <2> QED BY <2>1, <1>0
<1>5. /\ w \in Seq(Acts) /\ Len(w) = Before(r)
      /\ r # 0 => w[1] = Write(cobo_parent(r), UpSize(op, s, Own(r)), 0)
  BY <1>3, ParentAct
<1>6. Script(op, s, r, c) = q \o w
  <2>1. CASE Stages(op)[s] = "reduce"
    <3>1. Script(op, s, r, c) = cobo_reduce(r)
      BY <2>1 DEF Script
    <3>2. cobo_reduce(r) = [j \in 1 .. n |-> Read(Nth(r, n + 1 - j), 1)] \o ToParent(r, 1)
      BY DEF cobo_reduce, FromLast, Kids, Nth
    <3>3. \A m : UpSize(op, s, m) = 1
      BY <2>1 DEF UpSize
    <3>4. q = [j \in 1 .. n |-> Read(Nth(r, n + 1 - j), 1)] /\ w = ToParent(r, 1)
      BY <3>3
    <3> QED BY <3>1, <3>2, <3>4, Zenon
  <2>2. CASE Stages(op)[s] = "gather"
    <3>1. Script(op, s, r, c) = cobo_gather_tree(r, c)
      BY <2>2 DEF Script
    <3>2. cobo_gather_tree(r, c) = [j \in 1 .. n |-> Read(Nth(r, n + 1 - j), c * child[r][n + 1 - j].incl)]
                                     \o ToParent(r, c * (Below(r, 1) + 1))
      BY DEF cobo_gather_tree, FromLast, Kids, Nth
    <3>3. \A m : UpSize(op, s, m) = c * m
      BY <1>1, <2>2 DEF UpSize
    <3>4. \A j \in 1 .. n : Read(Nth(r, n + 1 - j), c * child[r][n + 1 - j].incl)
                            = Read(Nth(r, n + 1 - j), UpSize(op, s, Own(Nth(r, n + 1 - j))))
      BY <1>0, <1>2, <3>3
    <3>5. [j \in 1 .. n |-> Read(Nth(r, n + 1 - j), c * child[r][n + 1 - j].incl)] = q
      BY <3>4
    <3>6. w = ToParent(r, c * (Below(r, 1) + 1))
      BY <3>3 DEF Own
    <3> QED BY <3>1, <3>2, <3>5, <3>6, Zenon
  <2> QED BY <2>1, <2>2 DEF Upwards
<1> HIDE DEF q, w
<1>7. /\ q \o w \in Seq(Acts) /\ Len(q \o w) = n + Before(r)
      /\ \A i \in 1 .. n : (q \o w)[i] = q[i]
      /\ r # 0 => (q \o w)[n + 1] = w[1]
  BY <1>4, <1>5, ThenParent
<1>8. \A i \in 1 .. n : (q \o w)[i] = Read(Nth(r, n + 1 - i), UpSize(op, s, Own(Nth(r, n + 1 - i))))
  BY <1>4, <1>7
<1>9. UpPlan(q \o w, op, s, r)
  BY <1>5, <1>7, <1>8 DEF UpPlan
<1> QED BY <1>1, <1>6, <1>9

\* cobo_bcast_tree and cobo_scatter_tree: the parent, then the children
LEMMA PlanDown ==
  ASSUME NEW op \in AllOps, NEW s \in 1 .. Len(Stages(op)), Stages(op)[s] \notin Upwards, NEW r \in Ranks
  PROVE  DownPlan(Script(op, s, r, Count(op, s)), op, s, r)
<1> DEFINE n == Kids(r)
           Own1(i) == Own(Nth(r, i))
<1>0. /\ n \in Nat /\ Own(r) \in Nat
      /\ \A i \in 1 .. n : /\ Nth(r, i) \in Ranks /\ child[r][i].incl = Own(Nth(r, i))
                           /\ Own(Nth(r, i)) \in Nat /\ Below(r, i + 1) \in Nat
  BY KidsIsNat, KidFacts, OwnFits
<1>1. PICK c \in {1, 2} : c = Count(op, s)
  BY CountIs
<1>2. \A i \in 1 .. n : Turn(op, r, i) \in 1 .. n
  BY <1>0 DEF Turn
<1> DEFINE E(i) == Write(Nth(r, Turn(op, r, i)), DownSize(op, s, Nth(r, Turn(op, r, i))), From(op, r, Turn(op, r, i)))
           q == [j \in 1 .. n |-> E(j)]
           w == FromParent(r, DownSize(op, s, r))
<1>3. /\ DownSize(op, s, r) \in Nat
      /\ \A i \in 1 .. n : DownSize(op, s, Nth(r, i)) \in Nat /\ From(op, r, i) \in Nat
  <2>1. \A x \in Ranks : Own(x) \in Nat => DownSize(op, s, x) \in Nat
    BY <1>1, RankIsNat DEF DownSize, BcastSize
  <2> QED BY <2>1, <1>0 DEF From
<1>4. q \in Seq(Acts) /\ Len(q) = n /\ \A i \in 1 .. n : q[i] = E(i)
  <2>1. \A j \in 1 .. n : E(j) \in Acts
    <3> TAKE j \in 1 .. n
    <3>1. PICK i \in 1 .. n : i = Turn(op, r, j)
      BY <1>2
    <3>2. Nth(r, i) \in Ranks /\ DownSize(op, s, Nth(r, i)) \in Nat /\ From(op, r, i) \in Nat
      BY <1>0, <1>3
    <3>3. Write(Nth(r, i), DownSize(op, s, Nth(r, i)), From(op, r, i)) \in Acts
      BY <3>2, ActsAre
    <3> QED BY <3>1, <3>3
  <2> HIDE DEF n, E
  <2> QED BY <2>1, <1>0
<1>5. /\ w \in Seq(Acts) /\ Len(w) = Before(r)
      /\ r # 0 => w[1] = Read(cobo_parent(r), DownSize(op, s, r))
  BY <1>3, ParentAct
<1>6. Script(op, s, r, c) = w \o q
  <2>1. CASE Stages(op)[s] = "bcast"
    <3>0. op # "scatter"
      BY <2>1, StageCases
    <3>1. Script(op, s, r, c) = cobo_bcast_tree(r, BcastSize(op, s, c))
      BY <2>1 DEF Script
    <3>2. cobo_bcast_tree(r, BcastSize(op, s, c))
          = FromParent(r, BcastSize(op, s, c)) \o [i \in 1 .. n |-> Write(Nth(r, i), BcastSize(op, s, c), 0)]
      BY DEF cobo_bcast_tree, Kids, Nth
    <3>3. \A x : DownSize(op, s, x) = BcastSize(op, s, c)
      BY <1>1, <3>0 DEF DownSize
    <3>4. \A j \in 1 .. n : E(j) = Write(Nth(r, j), BcastSize(op, s, c), 0)
      BY <3>0, <3>3 DEF Turn, From
    <3>5. q = [i \in 1 .. n |-> Write(Nth(r, i), BcastSize(op, s, c), 0)]
      <4> HIDE DEF E
      <4> QED BY <3>4
    <3>6. w = FromParent(r, BcastSize(op, s, c))
      BY <3>3
    <3> QED BY <3>1, <3>2, <3>5, <3>6, Zenon
  <2>2. CASE Stages(op)[s] = "scatter"
    <3>0. op = "scatter" /\ s = 1
      BY <2>2, StageCases
    <3>7. c = 1
      BY <1>1, <3>0 DEF Count
    <3>1. Script(op, s, r, c) = cobo_scatter_tree(r, 1)
      BY <2>2, <3>7 DEF Script
    <3>2. cobo_scatter_tree(r, 1)
          = FromParent(r, 1 * (Below(r, 1) + 1))
              \o [j \in 1 .. n |-> Write(Nth(r, n + 1 - j), 1 * child[r][n + 1 - j].incl, 1 * (1 + Below(r, n + 1 - j + 1)))]
      BY DEF cobo_scatter_tree, FromLast, Kids, Nth
    <3>3. \A x : DownSize(op, s, x) = Own(x)
      BY <3>0 DEF DownSize
    <3>4. \A j \in 1 .. n : E(j) = Write(Nth(r, n + 1 - j), 1 * child[r][n + 1 - j].incl, 1 * (1 + Below(r, n + 1 - j + 1)))
      <4> TAKE j \in 1 .. n
      <4>1. PICK i \in 1 .. n : i = n + 1 - j
        BY <1>0
      <4>2. Turn(op, r, j) = i
        BY <3>0, <4>1 DEF Turn
      <4>3. 1 * child[r][i].incl = Own(Nth(r, i)) /\ 1 * (1 + Below(r, i + 1)) = From(op, r, i)
        BY <3>0, <1>0 DEF From
      <4> QED BY <3>3, <4>1, <4>2, <4>3
    <3>5. q = [j \in 1 .. n |-> Write(Nth(r, n + 1 - j), 1 * child[r][n + 1 - j].incl, 1 * (1 + Below(r, n + 1 - j + 1)))]
      <4> HIDE DEF E
      <4> QED BY <3>4
    <3>6. w = FromParent(r, 1 * (Below(r, 1) + 1))
      <4>1. 1 * (Below(r, 1) + 1) = Own(r)
        BY <1>0 DEF Own
      <4> QED BY <3>3, <4>1
    <3> QED BY <3>1, <3>2, <3>5, <3>6, Zenon
  <2>3. Stages(op)[s] = "bcast" \/ Stages(op)[s] = "scatter"
    BY StageCases DEF Upwards
  <2> QED BY <2>1, <2>2, <2>3
<1> HIDE DEF q, w
<1>7. /\ w \o q \in Seq(Acts) /\ Len(w \o q) = n + Before(r)
      /\ \A i \in 1 .. n : (w \o q)[Before(r) + i] = q[i]
      /\ r # 0 => (w \o q)[1] = w[1]
  <2>1. q \in Seq(Acts) /\ w \in Seq(Acts) /\ Len(q) = Kids(r) /\ Len(w) = Before(r)
    BY <1>4, <1>5
  <2> HIDE DEF E
  <2> QED BY <2>1, ThenParent
<1>8. \A i \in 1 .. n : (w \o q)[Before(r) + i] = E(i)
  BY <1>4, <1>7
<1>9. DownPlan(w \o q, op, s, r)
  BY <1>5, <1>7, <1>8 DEF DownPlan
<1> QED BY <1>1, <1>6, <1>9
\* a list of reads and writes, each with a peer of its own, that moves the
\* messages of number j and nothing else
Sound(q, p, r, j) ==
  /\ q \in Seq(Acts)
  /\ \A i \in 1 .. Len(q) :
       /\ <<r, q[i].peer>> \in Links /\ <<q[i].peer, r>> \in Links
       /\ q[i].n \in Nat \ {0}
       /\ q[i].do = "read" => q[i].n = Len(Msg(p, q[i].peer, r, j))
       /\ q[i].do = "write" => q[i].n = Len(Msg(p, r, q[i].peer, j))
  /\ \A i, h \in 1 .. Len(q) : q[i].peer = q[h].peer => i = h
  /\ \A i, h \in 1 .. Len(q) : h < i /\ q[i].do = "read" => q[h].do = "read"
  /\ \A b \in Ranks : Len(Msg(p, r, b, j)) > 0 => \E i \in 1 .. Len(q) : q[i].do = "write" /\ q[i].peer = b
  /\ \A a \in Ranks : Len(Msg(p, a, r, j)) > 0 => \E i \in 1 .. Len(q) : q[i].do = "read" /\ q[i].peer = a

LEMMA ParentBefore ==
  ASSUME NEW c \in Ranks \ {0}
  PROVE  cobo_parent(c) \in Ranks /\ cobo_parent(c) < c /\ \E i \in 1 .. Kids(cobo_parent(c)) : Nth(cobo_parent(c), i) = c
<1>1. cobo_parent(c) \in Ranks
  BY ParentFacts
<1>2. PICK i \in 1 .. Kids(cobo_parent(c)) : Nth(cobo_parent(c), i) = c
  BY ParentFacts
<1>3. Nth(cobo_parent(c), i) > cobo_parent(c)
  BY <1>1, KidFacts
<1> QED BY <1>1, <1>2, <1>3, RankIsNat

LEMMA ChildFacts ==
  ASSUME NEW r \in Ranks, NEW i \in 1 .. Kids(r)
  PROVE  /\ Nth(r, i) \in Ranks \ {0} /\ Nth(r, i) > r /\ cobo_parent(Nth(r, i)) = r
         /\ <<r, Nth(r, i)>> \in Links /\ <<Nth(r, i), r>> \in Links
<1>1. Nth(r, i) \in Ranks \ {0} /\ Nth(r, i) > r
  BY KidFacts
<1>2. \A x \in Ranks : \A y \in 1 .. Kids(x) : Nth(x, y) = Nth(r, i) => x = cobo_parent(Nth(r, i))
  BY <1>1, ParentFacts
<1> QED BY <1>1, <1>2, LinkFacts

\* what a list of actions with these peers does
LEMMA UpIsSound ==
  ASSUME NEW p \in Programs, NEW j \in Nat, Made(p, j), KindOf(p, j) \in Upwards, NEW r \in Ranks,
         NEW q, UpPlan(q, p[CallOf(j)], StageOf(j), r)
  PROVE  Sound(q, p, r, j)
<1> DEFINE op == p[CallOf(j)]
           s == StageOf(j)
<1>1. PICK n \in Nat : n = Kids(r)
  BY KidsIsNat
<1>2. PICK m \in {0, 1} : m = Before(r) /\ (m = 1 <=> r # 0)
  BY DEF Before
<1>3. q \in Seq(Acts) /\ Len(q) = n + m
  BY <1>1, <1>2 DEF UpPlan
<1>4. \A i \in 1 .. n : /\ n + 1 - i \in 1 .. n
                        /\ q[i].do = "read" /\ q[i].peer = Nth(r, n + 1 - i) /\ q[i].n = UpSize(op, s, Own(Nth(r, n + 1 - i)))
  <2> TAKE i \in 1 .. n
  <2>1. n + 1 - i \in 1 .. n
    OBVIOUS
  <2>2. q[i] = Read(Nth(r, n + 1 - i), UpSize(op, s, Own(Nth(r, n + 1 - i))))
    BY <1>1 DEF UpPlan
  <2> QED BY <2>1, <2>2 DEF Read
<1>5. m = 1 => q[n + 1].do = "write" /\ q[n + 1].peer = cobo_parent(r) /\ q[n + 1].n = UpSize(op, s, Own(r))
  BY <1>1, <1>2 DEF UpPlan, Write
<1>6. \A i \in 1 .. n : /\ Nth(r, i) \in Ranks \ {0} /\ Nth(r, i) > r /\ cobo_parent(Nth(r, i)) = r
                        /\ <<r, Nth(r, i)>> \in Links /\ <<Nth(r, i), r>> \in Links
                        /\ UpSize(op, s, Own(Nth(r, i))) = Len(Msg(p, Nth(r, i), r, j))
                        /\ UpSize(op, s, Own(Nth(r, i))) \in Nat \ {0}
  <2> TAKE i \in 1 .. n
  <2>1. PICK c \in Ranks \ {0} : c = Nth(r, i)
    BY <1>1, ChildFacts
  <2>2. c > r /\ cobo_parent(c) = r /\ <<r, c>> \in Links /\ <<c, r>> \in Links
    BY <1>1, <2>1, ChildFacts
  <2>3. Len(Msg(p, c, cobo_parent(c), j)) = UpSize(op, s, Own(c)) /\ Len(Msg(p, c, cobo_parent(c), j)) \in Nat \ {0}
    BY MsgUp
  <2> QED BY <2>1, <2>2, <2>3
<1>7. r # 0 => /\ cobo_parent(r) \in Ranks /\ cobo_parent(r) < r
               /\ <<r, cobo_parent(r)>> \in Links /\ <<cobo_parent(r), r>> \in Links
               /\ UpSize(op, s, Own(r)) = Len(Msg(p, r, cobo_parent(r), j))
               /\ UpSize(op, s, Own(r)) \in Nat \ {0}
  <2> HAVE r # 0
  <2>1. Len(Msg(p, r, cobo_parent(r), j)) = UpSize(op, s, Own(r)) /\ Len(Msg(p, r, cobo_parent(r), j)) \in Nat \ {0}
    BY MsgUp
  <2> QED BY <2>1, ParentBefore, LinkFacts
<1>8. \A i \in 1 .. Len(q) : i \in 1 .. n \/ (i = n + 1 /\ m = 1)
  BY <1>3
<1>9. \A i \in 1 .. Len(q) :
       /\ <<r, q[i].peer>> \in Links /\ <<q[i].peer, r>> \in Links
       /\ q[i].n \in Nat \ {0}
       /\ q[i].do = "read" => q[i].n = Len(Msg(p, q[i].peer, r, j))
       /\ q[i].do = "write" => q[i].n = Len(Msg(p, r, q[i].peer, j))
  <2> TAKE i \in 1 .. Len(q)
  <2>1. CASE i \in 1 .. n
    BY <2>1, <1>4, <1>6
  <2>2. CASE i = n + 1 /\ m = 1
    BY <2>2, <1>2, <1>5, <1>7
  <2> QED BY <1>8, <2>1, <2>2
<1>10. \A i, h \in 1 .. Len(q) : q[i].peer = q[h].peer => i = h
  <2> SUFFICES ASSUME NEW i \in 1 .. Len(q), NEW h \in 1 .. Len(q), q[i].peer = q[h].peer
               PROVE  i = h
    OBVIOUS
  <2>0. r \in Nat
    BY RankIsNat
  <2>1. \A x \in 1 .. Len(q) : x = n + 1 /\ m = 1 => q[x].peer \in Nat /\ q[x].peer < r
    BY <1>2, <1>5, <1>7, RankIsNat
  <2>2. \A x \in 1 .. n : q[x].peer \in Nat /\ q[x].peer > r
    BY <1>4, <1>6, RankIsNat
  <2>3. CASE i \in 1 .. n /\ h \in 1 .. n
    <3>1. Nth(r, n + 1 - i) = Nth(r, n + 1 - h)
      BY <2>3, <1>4
    <3>2. PICK a \in 1 .. n, b \in 1 .. n : a = n + 1 - i /\ b = n + 1 - h
      BY <2>3, <1>4
    <3>3. a = b
      BY <1>1, <3>1, <3>2, KidsDiffer
    <3> QED BY <3>2, <3>3, <2>3
  <2> QED BY <1>8, <2>0, <2>1, <2>2, <2>3
<1>11. \A i, h \in 1 .. Len(q) : h < i /\ q[i].do = "read" => q[h].do = "read"
  BY <1>4, <1>5, <1>8
<1>12. \A b \in Ranks : Len(Msg(p, r, b, j)) > 0 => \E i \in 1 .. Len(q) : q[i].do = "write" /\ q[i].peer = b
  <2> SUFFICES ASSUME NEW b \in Ranks, Len(Msg(p, r, b, j)) > 0
               PROVE  \E i \in 1 .. Len(q) : q[i].do = "write" /\ q[i].peer = b
    OBVIOUS
  <2>1. Msg(p, r, b, j) # <<>>
    OBVIOUS
  <2>2. r # 0 /\ b = cobo_parent(r)
    BY <2>1 DEF Msg
  <2> QED BY <2>2, <1>2, <1>3, <1>5
<1>13. \A a \in Ranks : Len(Msg(p, a, r, j)) > 0 => \E i \in 1 .. Len(q) : q[i].do = "read" /\ q[i].peer = a
  <2> SUFFICES ASSUME NEW a \in Ranks, Len(Msg(p, a, r, j)) > 0
               PROVE  \E i \in 1 .. Len(q) : q[i].do = "read" /\ q[i].peer = a
    OBVIOUS
  <2>1. Msg(p, a, r, j) # <<>>
    OBVIOUS
  <2>2. a # 0 /\ r = cobo_parent(a)
    BY <2>1 DEF Msg
  <2>3. PICK i \in 1 .. n : Nth(r, i) = a
    BY <2>2, <1>1, ParentBefore
  <2>4. PICK h \in 1 .. n : h = n + 1 - i
    BY <1>4
  <2>5. n + 1 - h = i /\ h \in 1 .. Len(q)
    BY <2>4, <1>3
  <2> QED BY <2>3, <2>5, <1>4
<1> QED BY <1>3, <1>9, <1>10, <1>11, <1>12, <1>13 DEF Sound

\* the same for the way down
LEMMA DownIsSound ==
  ASSUME NEW p \in Programs, NEW j \in Nat, Made(p, j), KindOf(p, j) \notin Upwards, NEW r \in Ranks,
         NEW q, DownPlan(q, p[CallOf(j)], StageOf(j), r)
  PROVE  Sound(q, p, r, j)
<1> DEFINE op == p[CallOf(j)]
           s == StageOf(j)
<1>1. PICK n \in Nat : n = Kids(r)
  BY KidsIsNat
<1>2. PICK m \in {0, 1} : m = Before(r) /\ (m = 1 <=> r # 0)
  BY DEF Before
<1>3. q \in Seq(Acts) /\ Len(q) = n + m
  BY <1>1, <1>2 DEF DownPlan
<1> DEFINE T(i) == Turn(op, r, i)
<1>0. /\ \A i \in 1 .. n : T(i) \in 1 .. n /\ T(T(i)) = i
      /\ \A i, h \in 1 .. n : T(i) = T(h) => i = h
  BY <1>1 DEF Turn
<1>4. \A i \in 1 .. n : q[m + i].do = "write" /\ q[m + i].peer = Nth(r, T(i)) /\ q[m + i].n = DownSize(op, s, Nth(r, T(i)))
  <2> TAKE i \in 1 .. n
  <2>1. q[m + i] = Write(Nth(r, T(i)), DownSize(op, s, Nth(r, T(i))), From(op, r, T(i)))
    BY <1>1, <1>2 DEF DownPlan
  <2> QED BY <2>1 DEF Write
<1>5. m = 1 => q[1].do = "read" /\ q[1].peer = cobo_parent(r) /\ q[1].n = DownSize(op, s, r)
  BY <1>1, <1>2 DEF DownPlan, Read
<1> HIDE DEF T
<1>6. \A i \in 1 .. n : /\ Nth(r, i) \in Ranks \ {0} /\ Nth(r, i) > r /\ cobo_parent(Nth(r, i)) = r
                        /\ <<r, Nth(r, i)>> \in Links /\ <<Nth(r, i), r>> \in Links
                        /\ DownSize(op, s, Nth(r, i)) = Len(Msg(p, r, Nth(r, i), j))
                        /\ DownSize(op, s, Nth(r, i)) \in Nat \ {0}
  <2> TAKE i \in 1 .. n
  <2>1. PICK c \in Ranks \ {0} : c = Nth(r, i)
    BY <1>1, ChildFacts
  <2>2. c > r /\ cobo_parent(c) = r /\ <<r, c>> \in Links /\ <<c, r>> \in Links
    BY <1>1, <2>1, ChildFacts
  <2>3. Len(Msg(p, cobo_parent(c), c, j)) = DownSize(op, s, c) /\ Len(Msg(p, cobo_parent(c), c, j)) \in Nat \ {0}
    BY MsgDown
  <2> QED BY <2>1, <2>2, <2>3
<1>7. r # 0 => /\ cobo_parent(r) \in Ranks /\ cobo_parent(r) < r
               /\ <<r, cobo_parent(r)>> \in Links /\ <<cobo_parent(r), r>> \in Links
               /\ DownSize(op, s, r) = Len(Msg(p, cobo_parent(r), r, j))
               /\ DownSize(op, s, r) \in Nat \ {0}
  <2> HAVE r # 0
  <2>1. Len(Msg(p, cobo_parent(r), r, j)) = DownSize(op, s, r) /\ Len(Msg(p, cobo_parent(r), r, j)) \in Nat \ {0}
    BY MsgDown
  <2> QED BY <2>1, ParentBefore, LinkFacts
<1>8. \A i \in 1 .. Len(q) : (i - m \in 1 .. n /\ m + (i - m) = i) \/ (i = 1 /\ m = 1)
  BY <1>3
<1>14. \A i \in 1 .. Len(q) : (\E h \in 1 .. n : i = m + h) \/ (i = 1 /\ m = 1)
  BY <1>8
<1>9. \A i \in 1 .. Len(q) :
       /\ <<r, q[i].peer>> \in Links /\ <<q[i].peer, r>> \in Links
       /\ q[i].n \in Nat \ {0}
       /\ q[i].do = "read" => q[i].n = Len(Msg(p, q[i].peer, r, j))
       /\ q[i].do = "write" => q[i].n = Len(Msg(p, r, q[i].peer, j))
  <2> TAKE i \in 1 .. Len(q)
  <2>1. CASE \E h \in 1 .. n : i = m + h
    <3>1. PICK h \in 1 .. n : i = m + h
      BY <2>1
    <3>2. PICK c \in 1 .. n : c = T(h)
      BY <1>0
    <3>3. q[i].do = "write" /\ q[i].peer = Nth(r, c) /\ q[i].n = DownSize(op, s, Nth(r, c))
      BY <1>4, <3>1, <3>2
    <3> QED BY <3>3, <1>6
  <2>2. CASE i = 1 /\ m = 1
    BY <2>2, <1>2, <1>5, <1>7
  <2> QED BY <1>14, <2>1, <2>2
<1>10. \A i, h \in 1 .. Len(q) : q[i].peer = q[h].peer => i = h
  <2> SUFFICES ASSUME NEW i \in 1 .. Len(q), NEW h \in 1 .. Len(q), q[i].peer = q[h].peer
               PROVE  i = h
    OBVIOUS
  <2>0. r \in Nat
    BY RankIsNat
  <2>1. \A x \in 1 .. Len(q) : x = 1 /\ m = 1 => q[x].peer \in Nat /\ q[x].peer < r
    BY <1>2, <1>5, <1>7, RankIsNat
  <2>2. \A x \in 1 .. n : q[m + x].peer \in Nat /\ q[m + x].peer > r
    <3> TAKE x \in 1 .. n
    <3>1. PICK c \in 1 .. n : c = T(x)
      BY <1>0
    <3> QED BY <3>1, <1>4, <1>6, RankIsNat
  <2>3. ASSUME NEW x \in 1 .. n, NEW y \in 1 .. n, i = m + x, h = m + y
        PROVE  i = h
    <3>1. Nth(r, T(x)) = Nth(r, T(y))
      BY <2>3, <1>4
    <3>2. PICK a \in 1 .. n, b \in 1 .. n : a = T(x) /\ b = T(y)
      BY <1>0
    <3>3. a = b
      BY <1>1, <3>1, <3>2, KidsDiffer
    <3>4. x = y
      BY <1>0, <3>2, <3>3
    <3> QED BY <3>4, <2>3
  <2>4. ASSUME NEW x \in 1 .. n, i = m + x, h = 1, m = 1
        PROVE  FALSE
    <3>1. q[m + x].peer > r /\ q[m + x].peer \in Nat
      BY <2>2
    <3> QED BY <3>1, <2>0, <2>1, <2>4
  <2>5. ASSUME NEW x \in 1 .. n, h = m + x, i = 1, m = 1
        PROVE  FALSE
    <3>1. q[m + x].peer > r /\ q[m + x].peer \in Nat
      BY <2>2
    <3> QED BY <3>1, <2>0, <2>1, <2>5
  <2> QED BY <1>14, <2>3, <2>4, <2>5, Zenon
<1>11. \A i, h \in 1 .. Len(q) : h < i /\ q[i].do = "read" => q[h].do = "read"
  <2> SUFFICES ASSUME NEW i \in 1 .. Len(q), q[i].do = "read"
               PROVE  i = 1
    OBVIOUS
  <2>1. \A x \in 1 .. n : q[m + x].do = "write"
    BY <1>4
  <2> QED BY <1>14, <2>1
<1>12. \A b \in Ranks : Len(Msg(p, r, b, j)) > 0 => \E i \in 1 .. Len(q) : q[i].do = "write" /\ q[i].peer = b
  <2> SUFFICES ASSUME NEW b \in Ranks, Len(Msg(p, r, b, j)) > 0
               PROVE  \E i \in 1 .. Len(q) : q[i].do = "write" /\ q[i].peer = b
    OBVIOUS
  <2>1. Msg(p, r, b, j) # <<>>
    OBVIOUS
  <2>2. b # 0 /\ r = cobo_parent(b)
    BY <2>1 DEF Msg
  <2>3. PICK i \in 1 .. n : Nth(r, i) = b
    BY <2>2, <1>1, ParentBefore
  <2>4. PICK h \in 1 .. n : h = T(i) /\ T(h) = i
    BY <1>0
  <2>5. m + h \in 1 .. Len(q)
    BY <2>4, <1>3
  <2> QED BY <2>3, <2>4, <2>5, <1>4
<1>13. \A a \in Ranks : Len(Msg(p, a, r, j)) > 0 => \E i \in 1 .. Len(q) : q[i].do = "read" /\ q[i].peer = a
  <2> SUFFICES ASSUME NEW a \in Ranks, Len(Msg(p, a, r, j)) > 0
               PROVE  \E i \in 1 .. Len(q) : q[i].do = "read" /\ q[i].peer = a
    OBVIOUS
  <2>1. Msg(p, a, r, j) # <<>>
    OBVIOUS
  <2>2. r # 0 /\ a = cobo_parent(r)
    BY <2>1 DEF Msg
  <2> QED BY <2>2, <1>2, <1>3, <1>5
<1> QED BY <1>3, <1>9, <1>10, <1>11, <1>12, <1>13 DEF Sound

\* each stage of a call moves its messages and nothing else
LEMMA PlanIsSound ==
  ASSUME NEW p \in Programs, NEW k \in 1 .. MaxOps, NEW s \in 1 .. Len(Stages(p[k])), NEW r \in Ranks
  PROVE  Sound(Plan(p, k, s, r), p, r, At(k, s))
<1>1. PICK j \in Nat : j = At(k, s)
  BY MadeAt
<1>2. Made(p, j) /\ KindOf(p, j) = Stages(p[k])[s] /\ CallOf(j) = k /\ StageOf(j) = s
  BY <1>1, MadeAt
<1>3. p[k] \in AllOps
  BY OpsAreKnown
<1>4. CASE Stages(p[k])[s] \in Upwards
  <2>1. UpPlan(Plan(p, k, s, r), p[k], s, r)
    BY <1>3, <1>4, PlanUp DEF Plan
  <2> QED BY <2>1, <1>1, <1>2, <1>4, UpIsSound
<1>5. CASE Stages(p[k])[s] \notin Upwards
  <2>1. DownPlan(Plan(p, k, s, r), p[k], s, r)
    BY <1>3, <1>5, PlanDown DEF Plan
  <2> QED BY <2>1, <1>1, <1>2, <1>5, DownIsSound
<1> QED BY <1>4, <1>5

-----------------------------------------------------------------------------
(* The buffer during a cobo_*_tree call *)

\* the number of ranks whose data r has after x actions on the way up
Covered(r, x) == IF x < Kids(r) THEN 1 + Below(r, Kids(r) + 1 - x) ELSE Own(r)

\* what buffer b of rank r holds after x actions
Holds(op, k, s, r, x, b) ==
  IF Stages(op)[s] \in Upwards THEN b = UpData(op, k, s, r, Covered(r, x))
  ELSE r = 0 \/ x > 0 => b = DownData(op, k, s, r)

\* at first a rank has its own data
LEMMA CoveredFirst ==
  ASSUME NEW r \in Ranks
  PROVE  Covered(r, 0) = 1
<1>1. Kids(r) \in Nat /\ Below(r, Kids(r) + 1) = 0
  BY KidsIsNat, NoneBelowLast
<1>2. CASE Kids(r) > 0
  BY <1>1, <1>2 DEF Covered
<1>3. CASE Kids(r) = 0
  <2>1. Below(r, 1) = 0
    BY <1>1, <1>3
  <2> QED BY <2>1, <1>3 DEF Covered, Own
<1> QED BY <1>1, <1>2, <1>3

\* the child read as number x + 1 answers for the ranks after those covered
LEMMA CoveredStep ==
  ASSUME NEW r \in Ranks, NEW x \in Nat, x < Kids(r), NEW c, c = Nth(r, Kids(r) - x)
  PROVE  /\ c \in Ranks \ {0} /\ cobo_parent(c) = r /\ Own(c) \in Nat \ {0}
         /\ Covered(r, x) \in Nat \ {0} /\ c = r + Covered(r, x) /\ c + Own(c) <= N
         /\ Covered(r, x + 1) = Covered(r, x) + Own(c)
<1>1. PICK n \in Nat : n = Kids(r)
  BY KidsIsNat
<1>2. PICK i \in 1 .. n : i = n - x
  BY <1>1
<1>3. c = Nth(r, i) /\ c \in Ranks \ {0} /\ cobo_parent(c) = r
  BY <1>1, <1>2, ChildFacts
<1>4. Below(r, i + 1) \in Nat /\ Below(r, i) = Own(c) + Below(r, i + 1) /\ c = r + 1 + Below(r, i + 1)
  BY <1>1, <1>3, KidFacts
<1>5. Own(c) \in Nat \ {0} /\ c + Own(c) <= N
  BY <1>3, OwnFits
<1>6. Covered(r, x) = 1 + Below(r, i + 1)
  <2>1. n + 1 - x = i + 1
    BY <1>2
  <2> QED BY <2>1, <1>1 DEF Covered
<1>7. Covered(r, x + 1) = 1 + Below(r, i)
  <2>1. CASE x + 1 < n
    <3>1. n + 1 - (x + 1) = i
      BY <1>2
    <3> QED BY <2>1, <3>1, <1>1 DEF Covered
  <2>2. CASE x + 1 >= n
    <3>1. i = 1
      BY <2>2, <1>2
    <3>2. Covered(r, x + 1) = Below(r, 1) + 1
      BY <2>2, <1>1 DEF Covered, Own
    <3> QED BY <3>1, <3>2, <1>4, <1>5
  <2> QED BY <1>1, <2>1, <2>2
<1>8. r \in Nat
  BY RankIsNat
<1> QED BY <1>3, <1>4, <1>5, <1>6, <1>7, <1>8

\* the data of r to r + n - 1 and of the m ranks after them
LEMMA AbsorbedUp ==
  ASSUME NEW op \in AllOps, NEW s \in 1 .. Len(Stages(op)), Stages(op)[s] \in Upwards, NEW k \in 1 .. MaxOps,
         NEW r \in Ranks, NEW n \in Nat \ {0}, NEW m \in Nat \ {0}, r + n + m <= N
  PROVE  Absorbed(Stages(op)[s], UpData(op, k, s, r, n), UpData(op, k, s, r + n, m)) = UpData(op, k, s, r, n + m)
<1>0. r \in Nat
  BY RankIsNat
<1>1. CASE Stages(op)[s] = "reduce" /\ op = "barrier"
  BY <1>1 DEF Absorbed, UpData
<1>2. CASE Stages(op)[s] = "reduce" /\ op # "barrier"
  <2>1. /\ UpData(op, k, s, r, n) = <<Longest(r, n)>>
        /\ UpData(op, k, s, r + n, m) = <<Longest(r + n, m)>>
        /\ UpData(op, k, s, r, n + m) = <<Longest(r, n + m)>>
    BY <1>2 DEF UpData
  <2>2. Longest(r, n + m) = 2
    BY DEF Longest
  <2>3. Longest(r, n) \in {1, 2} /\ Longest(r + n, m) \in {1, 2} /\ (Longest(r, n) = 2 \/ Longest(r + n, m) = 2)
    <3>1. CASE n > 1 \/ m > 1
      BY <3>1 DEF Longest
    <3>2. CASE n = 1 /\ m = 1
      <4>1. r % 2 = 1 \/ (r + 1) % 2 = 1
        BY <1>0
      <4> QED BY <3>2, <4>1 DEF Longest
    <3> QED BY <3>1, <3>2
  <2> QED BY <1>2, <2>1, <2>2, <2>3 DEF Absorbed
<1>3. CASE Stages(op)[s] = "gather"
  <2>1. PICK c \in {1, 2} : c = Count(op, s)
    BY CountIs
  <2>2. Gathered(op, k, r, n, c) \o Gathered(op, k, r + n, m, c) = Gathered(op, k, r, n + m, c)
    <3>1. n \in Nat /\ m \in Nat
      OBVIOUS
    <3>2. Adjoins(op, k, r, n, m, c)
      BY <1>0, <3>1, GatheredJoin
    <3> QED BY <3>2 DEF Adjoins
  <2> QED BY <1>3, <2>1, <2>2 DEF Absorbed, UpData
<1> QED BY <1>1, <1>2, <1>3 DEF Upwards

\* rank r does action h of stage s of call k, after x others and with buffer b
Doing(p, k, s, r, x, h, b) ==
  /\ p \in Programs /\ k \in 1 .. MaxOps /\ s \in 1 .. Len(Stages(p[k])) /\ r \in Ranks
  /\ x \in Nat /\ x < Len(Plan(p, k, s, r)) /\ h = Plan(p, k, s, r)[x + 1]
  /\ Holds(p[k], k, s, r, x, b)

\* with the message of the call the buffer is as it must be after the action
Gets(p, k, s, r, x, h, b) ==
  Holds(p[k], k, s, r, x + 1, Absorbed(Stages(p[k])[s], b, Msg(p, h.peer, r, At(k, s))))

\* a read adds the data of the child, or brings those of the parent
LEMMA ReadKeeps ==
  ASSUME NEW p, NEW k, NEW s, NEW r, NEW x, NEW h, NEW b, Doing(p, k, s, r, x, h, b), h.do = "read"
  PROVE  Gets(p, k, s, r, x, h, b)
<1> /\ p \in Programs /\ k \in 1 .. MaxOps /\ s \in 1 .. Len(Stages(p[k])) /\ r \in Ranks
    /\ x \in Nat /\ x < Len(Plan(p, k, s, r)) /\ h = Plan(p, k, s, r)[x + 1]
    /\ Holds(p[k], k, s, r, x, b)
  BY DEF Doing
<1> DEFINE op == p[k]
           q == Plan(p, k, s, r)
<1>0. PICK j \in Nat : j = At(k, s)
  BY MadeAt
<1>1. Made(p, j) /\ KindOf(p, j) = Stages(op)[s] /\ CallOf(j) = k /\ StageOf(j) = s
  BY <1>0, MadeAt
<1>2. op \in AllOps
  BY OpsAreKnown
<1>3. PICK n \in Nat : n = Kids(r)
  BY KidsIsNat
<1>4. CASE Stages(op)[s] \in Upwards
  <2>1. UpPlan(q, op, s, r)
    BY <1>2, <1>4, PlanUp DEF Plan
  <2>2. x < n
    <3>1. CASE r = 0
      BY <3>1, <2>1, <1>3 DEF UpPlan, Before
    <3>2. CASE r # 0
      <4>1. Len(q) = n + 1 /\ q[n + 1] = Write(cobo_parent(r), UpSize(op, s, Own(r)), 0)
        BY <3>2, <2>1, <1>3 DEF UpPlan, Before
      <4> QED BY <4>1 DEF Write
    <3> QED BY <3>1, <3>2
  <2>3. PICK c : c = Nth(r, n - x)
    OBVIOUS
  <2>4. h.peer = c
    <3>1. x + 1 \in 1 .. n /\ n + 1 - (x + 1) = n - x
      BY <2>2
    <3>2. h = Read(Nth(r, n + 1 - (x + 1)), UpSize(op, s, Own(Nth(r, n + 1 - (x + 1)))))
      BY <2>1, <3>1, <1>3 DEF UpPlan
    <3> QED BY <3>1, <3>2, <2>3 DEF Read
  <2>5. /\ c \in Ranks \ {0} /\ cobo_parent(c) = r /\ Own(c) \in Nat \ {0}
        /\ Covered(r, x) \in Nat \ {0} /\ c = r + Covered(r, x) /\ c + Own(c) <= N
        /\ Covered(r, x + 1) = Covered(r, x) + Own(c)
    BY <1>3, <2>2, <2>3, CoveredStep
  <2>6. Msg(p, c, r, j) = UpData(op, k, s, c, Own(c))
    <3>0. KindOf(p, j) \in Upwards /\ Made(p, j)
      BY <1>1, <1>4
    <3>1. Msg(p, c, cobo_parent(c), j) = UpData(p[CallOf(j)], CallOf(j), StageOf(j), c, Own(c))
      BY <3>0, <2>5, MsgUp, Zenon
    <3> QED BY <3>1, <2>5, <1>1, Zenon
  <2>7. PICK m \in Nat \ {0}, w \in Nat \ {0} : m = Covered(r, x) /\ w = Own(c)
    BY <2>5
  <2>8. r + m + w <= N
    BY <2>5, <2>7, RankIsNat
  <2>9. Absorbed(Stages(op)[s], UpData(op, k, s, r, m), UpData(op, k, s, r + m, w)) = UpData(op, k, s, r, m + w)
    BY <1>2, <1>4, <2>8, AbsorbedUp
  <2>10. b = UpData(op, k, s, r, m)
    BY <1>4, <2>7 DEF Holds
  <2> QED BY <1>0, <1>4, <2>4, <2>5, <2>6, <2>7, <2>9, <2>10 DEF Holds, Gets
<1>5. CASE Stages(op)[s] \notin Upwards
  <2>1. DownPlan(q, op, s, r)
    BY <1>2, <1>5, PlanDown DEF Plan
  <2>2. PICK m \in {0, 1} : m = Before(r) /\ (m = 1 <=> r # 0)
    BY DEF Before
  <2>3. x + 1 = 1 /\ m = 1
    <3>1. ASSUME NEW i \in 1 .. n
          PROVE  q[m + i].do = "write"
      <4>1. q[m + i] = Write(Nth(r, Turn(op, r, i)), DownSize(op, s, Nth(r, Turn(op, r, i))), From(op, r, Turn(op, r, i)))
        BY <2>1, <2>2, <1>3 DEF DownPlan
      <4> QED BY <4>1 DEF Write
    <3>2. Len(q) = n + m
      BY <2>1, <2>2, <1>3 DEF DownPlan
    <3>3. ASSUME x + 1 - m \in 1 .. n PROVE FALSE
      <4>1. PICK i \in 1 .. n : i = x + 1 - m
        BY <3>3
      <4>2. m + i = x + 1
        BY <4>1
      <4> QED BY <4>2, <3>1
    <3> QED BY <3>2, <3>3
  <2>4. r # 0 /\ h = Read(cobo_parent(r), DownSize(op, s, r))
    BY <2>1, <2>2, <2>3 DEF DownPlan
  <2>5. h.peer = cobo_parent(r)
    BY <2>4 DEF Read
  <2>6. Msg(p, cobo_parent(r), r, j) = DownData(op, k, s, r)
    <3>0. KindOf(p, j) \notin Upwards /\ Made(p, j) /\ r \in Ranks \ {0}
      BY <1>1, <1>5, <2>4
    <3>1. Msg(p, cobo_parent(r), r, j) = DownData(p[CallOf(j)], CallOf(j), StageOf(j), r)
      BY <3>0, MsgDown, Zenon
    <3> QED BY <3>1, <1>1, Zenon
  <2>7. Stages(op)[s] \in {"bcast", "scatter"}
    BY <1>2, <1>5, StageCases DEF Upwards
  <2> QED BY <2>5, <2>6, <2>7, <1>0, <1>5 DEF Holds, Absorbed, Gets
<1> QED BY <1>4, <1>5

\* the bytes of a write
Bytes(h, b) == SubSeq(b, h.off + 1, h.off + h.n)

\* it sends the message of the call and leaves the buffer as it must be
Sends(p, k, s, r, x, h, b) == Holds(p[k], k, s, r, x + 1, b) /\ Bytes(h, b) = Msg(p, r, h.peer, At(k, s))

\* what goes to the parent is all that is covered
LEMMA WriteKeepsUp ==
  ASSUME NEW p, NEW k, NEW s, NEW r, NEW x, NEW h, NEW b, Doing(p, k, s, r, x, h, b), h.do = "write", Stages(p[k])[s] \in Upwards
  PROVE  Sends(p, k, s, r, x, h, b)
<1> /\ p \in Programs /\ k \in 1 .. MaxOps /\ s \in 1 .. Len(Stages(p[k])) /\ r \in Ranks
    /\ x \in Nat /\ x < Len(Plan(p, k, s, r)) /\ h = Plan(p, k, s, r)[x + 1]
    /\ Holds(p[k], k, s, r, x, b)
  BY DEF Doing
<1> DEFINE op == p[k]
           q == Plan(p, k, s, r)
<1>0. PICK j \in Nat : j = At(k, s)
  BY MadeAt
<1>1. Made(p, j) /\ KindOf(p, j) \in Upwards /\ CallOf(j) = k /\ StageOf(j) = s
  BY <1>0, MadeAt
<1>2. op \in AllOps
  BY OpsAreKnown
<1>3. PICK n \in Nat : n = Kids(r)
  BY KidsIsNat
<1>4. PICK m \in {0, 1} : m = Before(r) /\ (m = 1 <=> r # 0)
  BY DEF Before
<1>5. UpPlan(q, op, s, r)
  BY <1>2, PlanUp DEF Plan
<1>6. Len(q) = n + m
  BY <1>3, <1>4, <1>5 DEF UpPlan
<1>7. ASSUME x + 1 \in 1 .. n PROVE FALSE
  <2>1. h = Read(Nth(r, n + 1 - (x + 1)), UpSize(op, s, Own(Nth(r, n + 1 - (x + 1)))))
    BY <1>3, <1>5, <1>7 DEF UpPlan
  <2> QED BY <2>1 DEF Read
<1>8. x = n /\ m = 1
  BY <1>6, <1>7
<1>9. r # 0 /\ h = Write(cobo_parent(r), UpSize(op, s, Own(r)), 0)
  BY <1>3, <1>4, <1>5, <1>8 DEF UpPlan
<1>10. h.peer = cobo_parent(r) /\ h.n = UpSize(op, s, Own(r)) /\ h.off = 0
  BY <1>9 DEF Write
<1>11. r \in Ranks \ {0}
  BY <1>9
<1>12. /\ Msg(p, r, cobo_parent(r), j) = UpData(p[CallOf(j)], CallOf(j), StageOf(j), r, Own(r))
       /\ Msg(p, r, cobo_parent(r), j) \in Seq(Data)
       /\ Len(Msg(p, r, cobo_parent(r), j)) = UpSize(p[CallOf(j)], StageOf(j), Own(r))
  BY <1>1, <1>11, MsgUp, Zenon
<1>13. PICK w \in Seq(Data) : w = Msg(p, r, cobo_parent(r), j)
  BY <1>12
<1>14. w = UpData(op, k, s, r, Own(r)) /\ Len(w) = UpSize(op, s, Own(r))
  BY <1>1, <1>12, <1>13, Zenon
<1>15. Covered(r, x) = Own(r) /\ Covered(r, x + 1) = Own(r)
  BY <1>3, <1>8 DEF Covered
<1>16. b = w
  BY <1>14, <1>15 DEF Holds
<1>17. Holds(op, k, s, r, x + 1, b)
  BY <1>14, <1>15, <1>16 DEF Holds
<1>18. Bytes(h, b) = w
  BY <1>10, <1>14, <1>16 DEF Bytes
<1> QED BY <1>0, <1>10, <1>13, <1>17, <1>18 DEF Sends

\* a child answers for no rank beyond those of its parent
LEMMA ChildEnds ==
  ASSUME NEW r \in Ranks, NEW i \in 1 .. Kids(r)
  PROVE  Nth(r, i) + Own(Nth(r, i)) <= r + Own(r)
<1>1. PICK e \in [Ranks -> Ranks] : \A x \in Ranks : Tiles(child[x], x, e[x]) /\ Own(x) = e[x] - x + 1
  BY ChildrenTile
<1>2. PICK n \in Nat : n = Kids(r) /\ n = Len(child[r])
  BY KidsIsNat DEF Kids
<1>3. PICK y \in Int : y = e[r] /\ Own(r) = y - r + 1
  BY <1>1, RankIsNat
<1>4. r \in Int
  BY RankIsNat
<1>5. child[r][i].incl = Own(Nth(r, i)) /\ Nth(r, i) \in Int /\ Own(Nth(r, i)) \in Int
  <2>1. PICK c \in Ranks : c = Nth(r, i) /\ child[r][i].incl = Own(c)
    BY KidFacts
  <2>2. Own(c) \in Int /\ c \in Int
    BY OwnFits, RankIsNat
  <2> QED BY <2>1, <2>2
<1>6. Tiles(child[r], r, y)
  BY <1>1, <1>3
<1>7. CASE i = 1
  <2>1. Nth(r, 1) + child[r][1].incl = y + 1
    BY <1>2, <1>6, <1>7 DEF Tiles, Nth
  <2> QED BY <2>1, <1>3, <1>4, <1>5, <1>7
<1>8. CASE i # 1
  <2>1. PICK h \in 1 .. n - 1 : h + 1 = i
    BY <1>2, <1>8
  <2>2. Nth(r, h + 1) + child[r][h + 1].incl = Nth(r, h) /\ Nth(r, h) <= y
    BY <1>2, <1>6, <2>1 DEF Tiles, Nth
  <2>3. Nth(r, h) \in Int
    <3>1. h \in 1 .. Kids(r)
      BY <1>2
    <3>2. PICK z \in Ranks : z = Nth(r, h)
      BY <3>1, KidFacts
    <3> QED BY <3>2, RankIsNat
  <2> QED BY <2>1, <2>2, <2>3, <1>3, <1>4, <1>5
<1> QED BY <1>7, <1>8

\* what goes to a child is the part for the child
LEMMA DownPart ==
  ASSUME NEW op \in AllOps, NEW s \in 1 .. Len(Stages(op)), Stages(op)[s] \notin Upwards,
         NEW k \in 1 .. MaxOps, NEW r \in Ranks, NEW i \in 1 .. Kids(r)
  PROVE  SubSeq(DownData(op, k, s, r), From(op, r, i) + 1, From(op, r, i) + DownSize(op, s, Nth(r, i))) = DownData(op, k, s, Nth(r, i))
<1>0. PICK c \in Ranks : c = Nth(r, i)
  BY ChildFacts
<1>1. /\ DownData(op, k, s, r) \in Seq(Data) /\ Len(DownData(op, k, s, r)) = DownSize(op, s, r)
      /\ DownData(op, k, s, c) \in Seq(Data) /\ Len(DownData(op, k, s, c)) = DownSize(op, s, c)
  BY DownDataIs
<1>2. CASE op = "scatter"
  <2>1. PICK n \in Nat, m \in Nat : n = Own(r) /\ m = Own(c)
    BY OwnFits
  <2>2. PICK d \in Nat : d = Below(r, i + 1) /\ c = r + 1 + d
    BY <1>0, KidFacts
  <2>3. c + m <= r + n /\ r \in Nat /\ c \in Nat
    BY <1>0, <2>1, ChildEnds, RankIsNat
  <2>0. PICK a \in Nat, z \in Nat : a = r /\ z = c
    BY <2>3
  <2>7. z = (a + 1) + d /\ z + m <= a + n
    BY <2>0, <2>2, <2>3
  <2>4. (1 + d) + m <= n
    BY <2>7
  <2> DEFINE w == [y \in 1 .. n |-> Promise!RootItem(k, r + y - 1)]
             u == [y \in 1 .. m |-> Promise!RootItem(k, c + y - 1)]
  <2>5. DownData(op, k, s, r) = w /\ DownData(op, k, s, c) = u /\ DownSize(op, s, c) = m /\ From(op, r, i) = 1 + d
    BY <1>2, <2>1, <2>2 DEF DownData, DownSize, From
  <2>6. SubSeq(w, (1 + d) + 1, (1 + d) + m) = u
    <3>1. w \in Seq(Data) /\ Len(w) = n /\ u \in Seq(Data) /\ Len(u) = m
      BY <1>1, <2>1, <2>5 DEF DownSize
    <3>2. PICK v : v = Cut(w, 1 + d, (1 + d) + m)
      OBVIOUS
    <3>3. 1 + d \in Nat /\ (1 + d) + m \in Nat /\ 1 + d <= (1 + d) + m
      OBVIOUS
    <3>4. IsCut(v, Data, w, 1 + d, (1 + d) + m)
      BY <3>1, <3>2, <3>3, <2>4, CutIs
    <3>5. ASSUME NEW y \in 1 .. m PROVE u[y] = w[(1 + d) + y]
      <4>1. (1 + d) + y \in 1 .. n /\ r + ((1 + d) + y) - 1 = c + y - 1
        BY <2>0, <2>7, <2>4
      <4> QED BY <4>1
    <3>6. ((1 + d) + m) - (1 + d) = m
      OBVIOUS
    <3> HIDE DEF w, u
    <3>7. IsCut(u, Data, w, 1 + d, (1 + d) + m)
      BY <3>1, <3>5, <3>6 DEF IsCut
    <3>8. v = u
      BY <3>3, <3>4, <3>7, IsCutOnce
    <3> QED BY <3>2, <3>8 DEF Cut
  <2> QED BY <1>0, <2>5, <2>6
<1>3. CASE op # "scatter"
  <2>1. /\ DownSize(op, s, r) = DownSize(op, s, c) /\ DownData(op, k, s, r) = DownData(op, k, s, c) /\ From(op, r, i) = 0
    BY <1>3 DEF DownSize, DownData, From
  <2>2. PICK w \in Seq(Data) : w = DownData(op, k, s, c)
    BY <1>1
  <2>3. SubSeq(w, 1, Len(w)) = w
    OBVIOUS
  <2> QED BY <1>0, <1>1, <2>1, <2>2, <2>3
<1> QED BY <1>2, <1>3

LEMMA WriteKeepsDown ==
  ASSUME NEW p, NEW k, NEW s, NEW r, NEW x, NEW h, NEW b, Doing(p, k, s, r, x, h, b), h.do = "write", Stages(p[k])[s] \notin Upwards
  PROVE  Sends(p, k, s, r, x, h, b)
<1> /\ p \in Programs /\ k \in 1 .. MaxOps /\ s \in 1 .. Len(Stages(p[k])) /\ r \in Ranks
    /\ x \in Nat /\ x < Len(Plan(p, k, s, r)) /\ h = Plan(p, k, s, r)[x + 1]
    /\ Holds(p[k], k, s, r, x, b)
  BY DEF Doing
<1> DEFINE op == p[k]
           q == Plan(p, k, s, r)
<1>0. PICK j \in Nat : j = At(k, s)
  BY MadeAt
<1>1. Made(p, j) /\ KindOf(p, j) \notin Upwards /\ CallOf(j) = k /\ StageOf(j) = s
  BY <1>0, MadeAt
<1>2. op \in AllOps
  BY OpsAreKnown
<1>3. PICK n \in Nat : n = Kids(r)
  BY KidsIsNat
<1>4. PICK m \in {0, 1} : m = Before(r) /\ (m = 1 <=> r # 0)
  BY DEF Before
<1>5. DownPlan(q, op, s, r)
  BY <1>2, PlanDown DEF Plan
<1>6. Len(q) = n + m
  BY <1>3, <1>4, <1>5 DEF DownPlan
<1>7. ASSUME x < m PROVE FALSE
  <2>1. x + 1 = 1 /\ r # 0
    BY <1>4, <1>7
  <2>2. h = Read(cobo_parent(r), DownSize(op, s, r))
    BY <1>5, <2>1 DEF DownPlan
  <2> QED BY <2>2 DEF Read
<1>8. PICK y \in 1 .. n : x + 1 = m + y
  <2>1. x + 1 - m \in 1 .. n /\ x + 1 = m + (x + 1 - m)
    BY <1>6, <1>7
  <2> QED BY <2>1
<1>9. PICK i \in 1 .. n : i = Turn(op, r, y)
  BY <1>3 DEF Turn
<1>10. h = Write(Nth(r, i), DownSize(op, s, Nth(r, i)), From(op, r, i))
  BY <1>3, <1>4, <1>5, <1>8, <1>9 DEF DownPlan
<1>11. PICK c \in Ranks \ {0} : c = Nth(r, i) /\ cobo_parent(c) = r
  BY <1>3, ChildFacts
<1>12. h.peer = c /\ h.n = DownSize(op, s, c) /\ h.off = From(op, r, i)
  BY <1>10, <1>11 DEF Write
<1>13. r = 0 \/ x > 0
  BY <1>4, <1>8
<1>14. b = DownData(op, k, s, r)
  BY <1>13 DEF Holds
<1>15. Bytes(h, b) = DownData(op, k, s, c)
  <2>1. SubSeq(b, From(op, r, i) + 1, From(op, r, i) + DownSize(op, s, Nth(r, i))) = DownData(op, k, s, Nth(r, i))
    BY <1>2, <1>3, <1>14, DownPart
  <2> QED BY <2>1, <1>11, <1>12 DEF Bytes
<1>16. Msg(p, r, c, j) = DownData(op, k, s, c)
  <2>1. Msg(p, cobo_parent(c), c, j) = DownData(p[CallOf(j)], CallOf(j), StageOf(j), c)
    BY <1>1, MsgDown, Zenon
  <2> QED BY <2>1, <1>1, <1>11, Zenon
<1>17. Holds(op, k, s, r, x + 1, b)
  BY <1>14 DEF Holds
<1> QED BY <1>0, <1>12, <1>15, <1>16, <1>17 DEF Sends

\* a write sends the message of the call and leaves the buffer alone
LEMMA WriteKeeps ==
  ASSUME NEW p, NEW k, NEW s, NEW r, NEW x, NEW h, NEW b, Doing(p, k, s, r, x, h, b), h.do = "write"
  PROVE  Sends(p, k, s, r, x, h, b)
<1>1. CASE Stages(p[k])[s] \in Upwards
  BY <1>1, WriteKeepsUp, Zenon
<1>2. CASE Stages(p[k])[s] \notin Upwards
  BY <1>2, WriteKeepsDown, Zenon
<1> QED BY <1>1, <1>2

-----------------------------------------------------------------------------
(* From one cobo_*_tree call to the next *)

\* rank r has done all of stage s of call k, with buffer b
Through(p, k, s, r, b) ==
  /\ p \in Programs /\ k \in 1 .. MaxOps /\ s \in 1 .. Len(Stages(p[k])) /\ r \in Ranks
  /\ Holds(p[k], k, s, r, Len(Plan(p, k, s, r)), b)

LEMMA PlanLength ==
  ASSUME NEW p \in Programs, NEW k \in 1 .. MaxOps, NEW s \in 1 .. Len(Stages(p[k])), NEW r \in Ranks
  PROVE  Len(Plan(p, k, s, r)) = Kids(r) + Before(r) /\ Kids(r) \in Nat /\ Before(r) \in Nat
<1>1. p[k] \in AllOps
  BY OpsAreKnown
<1>2. CASE Stages(p[k])[s] \in Upwards
  BY <1>1, <1>2, PlanUp, KidsIsNat DEF Plan, UpPlan, Before
<1>3. CASE Stages(p[k])[s] \notin Upwards
  BY <1>1, <1>3, PlanDown, KidsIsNat DEF Plan, DownPlan, Before
<1> QED BY <1>2, <1>3

LEMMA ThroughMeans ==
  ASSUME NEW p, NEW k, NEW s, NEW r, NEW b, Through(p, k, s, r, b)
  PROVE  b = IF Stages(p[k])[s] \in Upwards THEN UpData(p[k], k, s, r, Own(r)) ELSE DownData(p[k], k, s, r)
<1> /\ p \in Programs /\ k \in 1 .. MaxOps /\ s \in 1 .. Len(Stages(p[k])) /\ r \in Ranks
    /\ Holds(p[k], k, s, r, Len(Plan(p, k, s, r)), b)
  BY DEF Through
<1>1. PICK n \in Nat : n = Kids(r)
  BY KidsIsNat
<1>2. PICK x \in Nat : x = Len(Plan(p, k, s, r)) /\ x >= n /\ (r = 0 \/ x > 0)
  BY <1>1, PlanLength DEF Before
<1>3. Covered(r, x) = Own(r)
  BY <1>1, <1>2 DEF Covered
<1> QED BY <1>2, <1>3 DEF Holds

\* what is prepared for the first cobo_*_tree call of a collective
LEMMA FirstLoaded ==
  ASSUME NEW op \in AllOps, NEW k \in 1 .. MaxOps, NEW r \in Ranks, NEW b
  PROVE  Holds(op, k, 1, r, 0, Loaded(op, 1, k, r, 1, b)) /\ Count(op, 1) = 1
<1>0. Covered(r, 0) = 1 /\ Count(op, 1) = 1 /\ r \in Nat
  BY CoveredFirst, RankIsNat DEF Count
<1>1. CASE op = "barrier" \/ op = "allgather_str"
  <2>1. Stages(op)[1] = "reduce"
    BY <1>1, StagesAre
  <2>2. Longest(r, 1) = Promise!StrLen(r)
    BY <1>0 DEF Longest, Promise!StrLen
  <2> QED BY <2>1, <2>2, <1>0, <1>1 DEF Holds, Loaded, UpData, Upwards
<1>2. CASE op = "gather" \/ op = "allgather"
  <2>1. Stages(op)[1] = "gather"
    BY <1>2, StagesAre
  <2>2. Gathered(op, k, r, 1, 1) = <<Promise!Item(k, r)>>
    <3>1. Gathered(op, k, r, 1, 1) = [i \in 1 .. 1 |-> Promise!Item(k, r)]
      <4>1. \A i \in 1 .. 1 : Cell(op, k, r + ((i - 1) \div 1), ((i - 1) % 1) + 1, 1) = Promise!Item(k, r)
        BY <1>0, <1>2 DEF Cell
      <4>2. 1 * 1 = 1
        OBVIOUS
      <4> QED BY <4>1, <4>2 DEF Gathered
    <3> QED BY <3>1
  <2> QED BY <2>1, <2>2, <1>0, <1>2 DEF Holds, Loaded, UpData, Upwards
<1>3. CASE op = "bcast"
  <2>1. Stages(op)[1] = "bcast"
    BY <1>3, StagesAre
  <2>2. Loaded(op, 1, k, r, 1, b) = DownData(op, k, 1, r)
    BY <2>1, <1>3 DEF Loaded, DownData
  <2> QED BY <2>1, <2>2, <1>0 DEF Holds, Upwards
<1>4. CASE op = "scatter"
  <2>1. Stages(op)[1] = "scatter"
    BY <1>4, StagesAre
  <2>2. ASSUME r = 0 PROVE [j \in 1 .. N |-> Promise!RootItem(k, j - 1)] = [i \in 1 .. Own(r) |-> Promise!RootItem(k, r + i - 1)]
    <3>1. Own(r) = N /\ \A i \in 1 .. N : r + i - 1 = i - 1
      BY <2>2, OwnOfRoot
    <3> QED BY <3>1
  <2>3. ASSUME r = 0 PROVE Loaded(op, 1, k, r, 1, b) = DownData(op, k, 1, r)
    <3>1. Loaded(op, 1, k, r, 1, b) = [j \in 1 .. N |-> Promise!RootItem(k, j - 1)]
      BY <2>1, <1>4 DEF Loaded
    <3>2. DownData(op, k, 1, r) = [i \in 1 .. Own(r) |-> Promise!RootItem(k, r + i - 1)]
      BY <1>4 DEF DownData
    <3> QED BY <3>1, <3>2, <2>2, <2>3
  <2> QED BY <2>1, <2>3, <1>0 DEF Holds, Upwards
<1> QED BY <1>0, <1>1, <1>2, <1>3, <1>4 DEF AllOps

\* what the root has after the way up
LEMMA RootHas ==
  ASSUME NEW op \in AllOps, NEW k \in 1 .. MaxOps
  PROVE  /\ op = "barrier" => UpData(op, k, 1, 0, Own(0)) = <<1>>
         /\ op = "allgather" => UpData(op, k, 1, 0, Own(0)) = Gathered(op, k, 0, N, 1)
         /\ op = "allgather_str" => UpData(op, k, 1, 0, Own(0)) = <<Promise!MaxStr>>
         /\ op = "allgather_str" => UpData(op, k, 3, 0, Own(0)) = Gathered(op, k, 0, N, Promise!MaxStr)
<1>1. Own(0) = N /\ N \in Nat
  BY OwnOfRoot, RankIsNat
<1>2. Longest(0, N) = Promise!MaxStr
  <2>1. 0 % 2 # 1
    OBVIOUS
  <2> QED BY <2>1 DEF Longest, Promise!MaxStr
<1> QED BY <1>1, <1>2, StagesAre DEF UpData, Count

\* and for the later ones: sendcount becomes the maximum after the second
LEMMA NextLoaded ==
  ASSUME NEW p, NEW k, NEW s, NEW r, NEW b, Through(p, k, s, r, b), s < Len(Stages(p[k])), NEW t, t = s + 1
  PROVE  /\ (IF p[k] = "allgather_str" /\ s = 2 THEN b[1] ELSE Count(p[k], s)) = Count(p[k], t)
         /\ Holds(p[k], k, t, r, 0, Loaded(p[k], t, k, r, Count(p[k], t), b))
<1> /\ p \in Programs /\ k \in 1 .. MaxOps /\ s \in 1 .. Len(Stages(p[k])) /\ r \in Ranks
  BY DEF Through
<1>1. PICK op \in AllOps : op = p[k]
  BY OpsAreKnown
<1>2. b = IF Stages(op)[s] \in Upwards THEN UpData(op, k, s, r, Own(r)) ELSE DownData(op, k, s, r)
  BY <1>1, ThroughMeans
<1>3. \/ op = "barrier" /\ s = 1 /\ Stages(op)[s] = "reduce" /\ t = 2 /\ Stages(op)[t] = "bcast"
      \/ op = "allgather" /\ s = 1 /\ Stages(op)[s] = "gather" /\ t = 2 /\ Stages(op)[t] = "bcast"
      \/ op = "allgather_str" /\ s = 1 /\ Stages(op)[s] = "reduce" /\ t = 2 /\ Stages(op)[t] = "bcast"
      \/ op = "allgather_str" /\ s = 2 /\ Stages(op)[s] = "bcast" /\ t = 3 /\ Stages(op)[t] = "gather"
      \/ op = "allgather_str" /\ s = 3 /\ Stages(op)[s] = "gather" /\ t = 4 /\ Stages(op)[t] = "bcast"
  <2>1. s \in 1 .. Len(Stages(op)) /\ s < Len(Stages(op))
    BY <1>1
  <2> QED BY <2>1, StageCases, StagesAre
<1>4. CASE t \in {2, 4} /\ Stages(op)[t] = "bcast" /\ op # "bcast"
  <2>1. Loaded(op, t, k, r, Count(op, t), b) = b
    BY <1>4 DEF Loaded
  <2>2. ASSUME r = 0 PROVE b = DownData(op, k, t, r)
    <3>1. b = UpData(op, k, s, 0, Own(0))
      BY <1>2, <1>3, <1>4, <2>2 DEF Upwards
    <3> QED BY <3>1, <1>3, <1>4, RootHas DEF DownData
  <2>3. Holds(op, k, t, r, 0, b)
    BY <2>2, <1>4 DEF Holds, Upwards
  <2>4. (IF op = "allgather_str" /\ s = 2 THEN b[1] ELSE Count(op, s)) = Count(op, t)
    BY <1>3, <1>4 DEF Count
  <2> QED BY <1>1, <2>1, <2>3, <2>4
<1>5. CASE op = "allgather_str" /\ s = 2 /\ Stages(op)[s] = "bcast" /\ t = 3 /\ Stages(op)[t] = "gather"
  <2>1. b = <<Promise!MaxStr>>
    BY <1>2, <1>5 DEF DownData, Upwards
  <2>2. PICK c \in {1, 2} : c = Promise!MaxStr /\ c = Count(op, t)
    BY <1>5, CountIs DEF Count
  <2>3. b[1] = Count(op, t)
    BY <2>1, <2>2
  <2>4. Promise!Padded(k, r, c) = Gathered(op, k, r, 1, c)
    <3>0. c * 1 = c /\ r \in Nat
      BY RankIsNat
    <3>1. \A i \in 1 .. c : Cell(op, k, r + ((i - 1) \div c), ((i - 1) % c) + 1, c) = Promise!Padded(k, r, c)[i]
      <4> TAKE i \in 1 .. c
      <4>1. r + ((i - 1) \div c) = r /\ ((i - 1) % c) + 1 = i
        <5>1. (c = 1 /\ i = 1) \/ (c = 2 /\ i = 1) \/ (c = 2 /\ i = 2)
          OBVIOUS
        <5> QED BY <5>1, <3>0
      <4> QED BY <4>1, <1>5 DEF Cell
    <3>2. Promise!Padded(k, r, c) = [i \in 1 .. c |-> Promise!Padded(k, r, c)[i]]
      BY DEF Promise!Padded
    <3> QED BY <3>0, <3>1, <3>2 DEF Gathered
  <2>5. Loaded(op, t, k, r, c, b) = Gathered(op, k, r, 1, c)
    BY <1>5, <2>4 DEF Loaded
  <2>6. Holds(op, k, t, r, 0, Loaded(op, t, k, r, c, b))
    BY <1>5, <2>2, <2>5, CoveredFirst DEF Holds, UpData, Upwards
  <2> QED BY <1>1, <1>5, <2>2, <2>3, <2>6
<1> QED BY <1>3, <1>4, <1>5

\* when the last one is done the caller has what it is promised
LEMMA LastMeans ==
  ASSUME NEW p, NEW k, NEW s, NEW r, NEW b, Through(p, k, s, r, b), s = Len(Stages(p[k]))
  PROVE  Received(p[k], r, b) = Promise!Result(p[k], k, r)
<1> /\ p \in Programs /\ k \in 1 .. MaxOps /\ s \in 1 .. Len(Stages(p[k])) /\ r \in Ranks
  BY DEF Through
<1>1. PICK op \in AllOps : op = p[k]
  BY OpsAreKnown
<1>2. b = IF Stages(op)[s] \in Upwards THEN UpData(op, k, s, r, Own(r)) ELSE DownData(op, k, s, r)
  BY <1>1, ThroughMeans
<1>3. \/ op = "barrier" /\ s = 2 /\ Stages(op)[s] = "bcast"
      \/ op = "bcast" /\ s = 1 /\ Stages(op)[s] = "bcast"
      \/ op = "gather" /\ s = 1 /\ Stages(op)[s] = "gather"
      \/ op = "scatter" /\ s = 1 /\ Stages(op)[s] = "scatter"
      \/ op = "allgather" /\ s = 2 /\ Stages(op)[s] = "bcast"
      \/ op = "allgather_str" /\ s = 4 /\ Stages(op)[s] = "bcast"
  <2>1. s \in 1 .. Len(Stages(op)) /\ s = Len(Stages(op))
    BY <1>1
  <2>2. CASE op = "barrier"
    <3>1. PICK q : q = <<"reduce", "bcast">>
      OBVIOUS
    <3>2. Stages(op) = q
      BY <2>2, <3>1, StagesAre
    <3>3. Len(q) = 2 /\ q[2] = "bcast"
      BY <3>1
    <3> QED BY <2>1, <2>2, <3>2, <3>3
  <2>3. CASE op = "bcast"
    BY <2>1, <2>3, StagesAre
  <2>4. CASE op = "gather"
    BY <2>1, <2>4, StagesAre
  <2>5. CASE op = "scatter"
    BY <2>1, <2>5, StagesAre
  <2>6. CASE op = "allgather"
    <3>1. PICK q : q = <<"gather", "bcast">>
      OBVIOUS
    <3>2. Stages(op) = q
      BY <2>6, <3>1, StagesAre
    <3>3. Len(q) = 2 /\ q[2] = "bcast"
      BY <3>1
    <3> QED BY <2>1, <2>6, <3>2, <3>3
  <2>7. CASE op = "allgather_str"
    <3>1. PICK q : q = <<"reduce", "bcast", "gather", "bcast">>
      OBVIOUS
    <3>2. Stages(op) = q
      BY <2>7, <3>1, StagesAre
    <3>3. Len(q) = 4 /\ q[4] = "bcast"
      BY <3>1
    <3> QED BY <2>1, <2>7, <3>2, <3>3
  <2> QED BY <2>2, <2>3, <2>4, <2>5, <2>6, <2>7 DEF AllOps
<1>4. op # "allgather_str" => Gathered(op, k, 0, N, 1) = [j \in 1 .. N |-> Promise!Item(k, j - 1)]
  <2> HAVE op # "allgather_str"
  <2>1. 1 * N = N /\ \A i \in 1 .. N : 0 + ((i - 1) \div 1) = i - 1
    BY RankIsNat
  <2>2. \A i \in 1 .. N : Cell(op, k, 0 + ((i - 1) \div 1), ((i - 1) % 1) + 1, 1) = Promise!Item(k, i - 1)
    BY <2>1 DEF Cell
  <2> QED BY <2>1, <2>2 DEF Gathered
<1>5. CASE op = "barrier"
  BY <1>1, <1>5 DEF Received, Promise!Result
<1>6. CASE op = "bcast"
  BY <1>1, <1>2, <1>3, <1>6 DEF Received, Promise!Result, DownData, Upwards
<1>7. CASE op = "gather"
  <2>1. CASE r = 0
    <3>1. b = UpData(op, k, 1, 0, N)
      BY <1>2, <1>3, <1>7, <2>1, OwnOfRoot DEF Upwards
    <3>2. b = Gathered(op, k, 0, N, 1)
      BY <3>1, <1>3, <1>7 DEF UpData, Count
    <3> QED BY <3>2, <2>1, <1>1, <1>4, <1>7 DEF Received, Promise!Result
  <2>2. CASE r # 0
    BY <2>2, <1>1, <1>7 DEF Received, Promise!Result
  <2> QED BY <2>1, <2>2
<1>8. CASE op = "scatter"
  <2>1. b = [i \in 1 .. Own(r) |-> Promise!RootItem(k, r + i - 1)]
    BY <1>2, <1>3, <1>8 DEF DownData, Upwards
  <2>2. 1 \in 1 .. Own(r) /\ r + 1 - 1 = r
    BY OwnFits, RankIsNat
  <2>3. b[1] = Promise!RootItem(k, r)
    BY <2>1, <2>2
  <2> QED BY <2>3, <1>1, <1>8 DEF Received, Promise!Result
<1>9. CASE op = "allgather"
  <2>1. b = Gathered(op, k, 0, N, 1)
    BY <1>2, <1>3, <1>9 DEF DownData, Upwards
  <2> QED BY <2>1, <1>1, <1>4, <1>9 DEF Received, Promise!Result
<1>10. CASE op = "allgather_str"
  <2>1. b = Gathered(op, k, 0, N, Promise!MaxStr)
    <3>1. b = DownData(op, k, 4, r)
      BY <1>2, <1>3, <1>10 DEF Upwards
    <3> QED BY <3>1, <1>10 DEF DownData
  <2>2. Gathered(op, k, 0, N, Promise!MaxStr) = Promise!AllStrings(k)
    <3>1. PICK c \in {1, 2} : c = Promise!MaxStr
      BY CountIs
    <3>2. c * N = N * c
      BY <3>1, RankIsNat
    <3>3. \A i \in 1 .. c * N : 0 + ((i - 1) \div c) = (i - 1) \div c
      <4>1. CASE c = 1
        BY <4>1, RankIsNat
      <4>2. CASE c = 2
        BY <4>2, RankIsNat
      <4> QED BY <4>1, <4>2
    <3> QED BY <3>1, <3>2, <3>3, <1>10 DEF Gathered, Cell, Promise!AllStrings
  <2> QED BY <2>1, <2>2, <1>1, <1>10 DEF Received, Promise!Result
<1> QED BY <1>5, <1>6, <1>7, <1>8, <1>9, <1>10 DEF AllOps

-----------------------------------------------------------------------------
(* Where a rank is: in stage s of call k, after x actions, with n items of *)
(* the next one read or left to write; or, with stage 0, behind call k.    *)

AtHand(q, x, what, b) == x < Len(q) /\ q[x + 1].do = what /\ q[x + 1].peer = b
Ahead(q, x, what, b) == \E i \in x + 1 .. Len(q) : q[i].do = what /\ q[i].peer = b

\* the number of the call it is in, or makes next
Here(k, s) == IF s = 0 THEN At(k + 1, 1) ELSE At(k, s)

\* what a has written to b, and what b has read from a
Written(p, a, b, k, s, x, n) ==
  IF s = 0 THEN Offset(p, a, b, At(k + 1, 1))
  ELSE IF AtHand(Plan(p, k, s, a), x, "write", b) THEN Offset(p, a, b, At(k, s) + 1) - n
  ELSE IF Ahead(Plan(p, k, s, a), x, "write", b) THEN Offset(p, a, b, At(k, s))
  ELSE Offset(p, a, b, At(k, s) + 1)
Taken(p, a, b, k, s, x, n) ==
  IF s = 0 THEN Offset(p, a, b, At(k + 1, 1))
  ELSE IF AtHand(Plan(p, k, s, b), x, "read", a) THEN Offset(p, a, b, At(k, s)) + n
  ELSE IF Ahead(Plan(p, k, s, b), x, "read", a) THEN Offset(p, a, b, At(k, s))
  ELSE Offset(p, a, b, At(k, s) + 1)

\* r has read all it reads in number j
Heard(p, r, k, s, x, j) ==
  \/ Here(k, s) > j
  \/ Here(k, s) = j /\ s > 0 /\ \A i \in x + 1 .. Len(Plan(p, k, s, r)) : Plan(p, k, s, r)[i].do # "read"

\* the places there are within a call
Place(p, r, k, s, x, n) ==
  /\ p \in Programs /\ r \in Ranks /\ k \in 1 .. MaxOps /\ s \in 1 .. Len(Stages(p[k]))
  /\ x \in 0 .. Len(Plan(p, k, s, r)) /\ n \in Nat
  /\ x < Len(Plan(p, k, s, r)) => IF Plan(p, k, s, r)[x + 1].do = "read" THEN n < Plan(p, k, s, r)[x + 1].n
                                  ELSE n > 0 /\ n <= Plan(p, k, s, r)[x + 1].n
Outside(p, r, k, s) == p \in Programs /\ r \in Ranks /\ k \in 0 .. MaxOps /\ s = 0

\* nothing of the next action is done
Fresh(q, x, n) == n = IF x < Len(q) /\ q[x + 1].do = "write" THEN q[x + 1].n ELSE 0

\* the facts about a place that the others follow from
PlaceFacts(p, r, k, s, x, n, j, q, m) ==
  /\ p \in Programs /\ r \in Ranks /\ n \in Nat
  /\ j \in 0 .. End /\ j \in Nat /\ j = At(k, s) /\ j = Here(k, s) /\ s \in 1 .. 4 /\ k \in 1 .. MaxOps
  /\ q \in Seq(Acts) /\ q = Plan(p, k, s, r) /\ m \in Nat /\ m = Len(q) /\ x \in 0 .. m
  /\ Made(p, j) /\ CallOf(j) = k /\ StageOf(j) = s
  /\ Sound(q, p, r, j)
  /\ \A i \in 1 .. m : q[i].peer \in Ranks /\ q[i].do \in {"read", "write"}

\* a place within a call has its number and its list of actions
LEMMA FactsOfPlace ==
  ASSUME NEW p, NEW r, NEW k, NEW s, NEW x, NEW n, Place(p, r, k, s, x, n)
  PROVE  \E j, q, m : PlaceFacts(p, r, k, s, x, n, j, q, m)
<1> /\ p \in Programs /\ r \in Ranks /\ k \in 1 .. MaxOps /\ s \in 1 .. Len(Stages(p[k]))
    /\ x \in 0 .. Len(Plan(p, k, s, r)) /\ n \in Nat
  BY DEF Place
<1>1. PICK j : j = At(k, s)
  OBVIOUS
<1>2. s \in 1 .. 4 /\ j \in 0 .. End /\ Made(p, j) /\ CallOf(j) = k /\ StageOf(j) = s /\ j \in Nat
  BY <1>1, MadeAt, AtIs
<1>3. PICK q : q = Plan(p, k, s, r)
  OBVIOUS
<1>4. Sound(q, p, r, j)
  BY <1>1, <1>3, PlanIsSound
<1>5. q \in Seq(Acts)
  BY <1>4 DEF Sound
<1>6. \A i \in 1 .. Len(q) : q[i].peer \in Ranks /\ q[i].do \in {"read", "write"}
  <2> TAKE i \in 1 .. Len(q)
  <2>1. q[i] \in Acts
    BY <1>5
  <2> QED BY <2>1 DEF Acts
<1>7. Len(q) \in Nat /\ x \in 0 .. Len(q) /\ j = Here(k, s)
  BY <1>1, <1>2, <1>3, <1>5 DEF Here
<1> QED BY <1>1, <1>2, <1>3, <1>4, <1>5, <1>6, <1>7 DEF PlaceFacts

\* an action moves the message of the call
ActIs(q, p, r, j, i) ==
  /\ q[i].peer \in Ranks /\ q[i].n \in Nat \ {0}
  /\ <<r, q[i].peer>> \in Links /\ <<q[i].peer, r>> \in Links
  /\ q[i].do = "read" \/ q[i].do = "write"
  /\ q[i].do = "read" => q[i].n = Len(Msg(p, q[i].peer, r, j))
  /\ q[i].do = "write" => q[i].n = Len(Msg(p, r, q[i].peer, j))
  /\ \A h \in 1 .. Len(q) : q[i].peer = q[h].peer => i = h
  /\ \A h \in 1 .. Len(q) : h < i /\ q[i].do = "read" => q[h].do = "read"

LEMMA ActFacts ==
  ASSUME NEW q, NEW p, NEW r, NEW j, Sound(q, p, r, j), NEW i \in 1 .. Len(q)
  PROVE  ActIs(q, p, r, j, i)
<1>1. q[i] \in Acts
  BY DEF Sound
<1>2. q[i].peer \in Ranks /\ (q[i].do = "read" \/ q[i].do = "write")
  BY <1>1 DEF Acts
<1> QED BY <1>2 DEF Sound, ActIs

\* the offsets before and after the message of a call
Offs(p, a, b, j) ==
  /\ Offset(p, a, b, j) \in Nat /\ Offset(p, a, b, j + 1) \in Nat /\ Len(Msg(p, a, b, j)) \in Nat
  /\ Offset(p, a, b, j + 1) = Offset(p, a, b, j) + Len(Msg(p, a, b, j))

\* a message lies between its offset and the next
LEMMA OffsetsAre ==
  ASSUME NEW p \in Programs, NEW a \in Ranks, NEW b \in Ranks, NEW j \in 0 .. End
  PROVE  Offs(p, a, b, j)
BY OffsetStep DEF Offs

\* with nothing of the next action done it does not matter which is the next
LEMMA FreshWritten ==
  ASSUME NEW p, NEW r, NEW k, NEW s, NEW x, NEW n, Place(p, r, k, s, x, n), Fresh(Plan(p, k, s, r), x, n), NEW b \in Ranks
  PROVE  Written(p, r, b, k, s, x, n) = IF Ahead(Plan(p, k, s, r), x, "write", b) THEN Offset(p, r, b, At(k, s))
                                        ELSE Offset(p, r, b, At(k, s) + 1)
<1>1. PICK j, q, m : PlaceFacts(p, r, k, s, x, n, j, q, m)
  BY FactsOfPlace
<1>2. /\ p \in Programs /\ r \in Ranks /\ n \in Nat /\ j \in 0 .. End /\ j = At(k, s) /\ s \in 1 .. 4
      /\ q = Plan(p, k, s, r) /\ m \in Nat /\ m = Len(q) /\ x \in 0 .. m
  BY <1>1 DEF PlaceFacts
<1>3. Offs(p, r, b, j)
  BY <1>2, OffsetsAre, Zenon
<1>6. PICK u \in Nat, v \in Nat, w \in Nat : u = Offset(p, r, b, j) /\ v = Offset(p, r, b, j + 1) /\ w = Len(Msg(p, r, b, j)) /\ v = u + w
  BY <1>3 DEF Offs
<1>4. CASE AtHand(q, x, "write", b)
  <2>1. x + 1 \in 1 .. m /\ x + 1 \in x + 1 .. Len(q) /\ q[x + 1].do = "write" /\ q[x + 1].peer = b
    BY <1>2, <1>4 DEF AtHand
  <2>2. n = w
    <3>1. x < Len(q) /\ n = q[x + 1].n
      BY <1>2, <2>1 DEF Fresh
    <3>2. PICK i \in 1 .. Len(q) : i = x + 1
      BY <1>2, <2>1
    <3>3. ActIs(q, p, r, j, i)
      BY <1>1, <3>2, ActFacts DEF PlaceFacts
    <3> QED BY <1>6, <2>1, <3>1, <3>2, <3>3 DEF ActIs
  <2>3. Ahead(q, x, "write", b)
    BY <2>1 DEF Ahead
  <2>4. Written(p, r, b, k, s, x, n) = v - n
    <3>1. s # 0
      BY <1>2
    <3>2. Written(p, r, b, k, s, x, n) = Offset(p, r, b, At(k, s) + 1) - n
      BY <1>2, <1>4, <3>1, Zenon DEF Written
    <3> QED BY <1>2, <1>6, <3>2
  <2>5. v - n = u
    BY <1>6, <2>2
  <2> QED BY <1>2, <1>6, <2>3, <2>4, <2>5
<1>5. CASE ~AtHand(q, x, "write", b)
  BY <1>2, <1>5 DEF Written
<1> QED BY <1>4, <1>5

\* the same for what is read
LEMMA FreshTaken ==
  ASSUME NEW p, NEW r, NEW k, NEW s, NEW x, NEW n, Place(p, r, k, s, x, n), Fresh(Plan(p, k, s, r), x, n), NEW a \in Ranks
  PROVE  Taken(p, a, r, k, s, x, n) = IF Ahead(Plan(p, k, s, r), x, "read", a) THEN Offset(p, a, r, At(k, s))
                                      ELSE Offset(p, a, r, At(k, s) + 1)
<1>1. PICK j, q, m : PlaceFacts(p, r, k, s, x, n, j, q, m)
  BY FactsOfPlace
<1>2. /\ p \in Programs /\ r \in Ranks /\ n \in Nat /\ j \in 0 .. End /\ j = At(k, s) /\ s \in 1 .. 4
      /\ q = Plan(p, k, s, r) /\ m \in Nat /\ m = Len(q) /\ x \in 0 .. m
  BY <1>1 DEF PlaceFacts
<1>3. PICK u \in Nat : u = Offset(p, a, r, j)
  BY <1>2, OffsetsAre DEF Offs
<1>4. CASE AtHand(q, x, "read", a)
  <2>1. x + 1 \in x + 1 .. Len(q) /\ q[x + 1].do = "read" /\ q[x + 1].peer = a
    BY <1>2, <1>4 DEF AtHand
  <2>2. n = 0
    BY <1>2, <2>1 DEF Fresh
  <2>3. Ahead(q, x, "read", a)
    BY <2>1 DEF Ahead
  <2>4. Taken(p, a, r, k, s, x, n) = u + n
    BY <1>2, <1>3, <1>4 DEF Taken
  <2> QED BY <1>2, <1>3, <2>2, <2>3, <2>4
<1>5. CASE ~AtHand(q, x, "read", a)
  BY <1>2, <1>5 DEF Taken
<1> QED BY <1>4, <1>5

\* on entering a stage, and with all of it done
LEMMA StartPlace ==
  ASSUME NEW p, NEW r, NEW k, NEW s, NEW n, Place(p, r, k, s, 0, n), Fresh(Plan(p, k, s, r), 0, n), NEW b \in Ranks
  PROVE  /\ Written(p, r, b, k, s, 0, n) = Offset(p, r, b, At(k, s))
         /\ Taken(p, b, r, k, s, 0, n) = Offset(p, b, r, At(k, s))
<1>1. PICK j, q, m : PlaceFacts(p, r, k, s, 0, n, j, q, m)
  BY FactsOfPlace
<1>2. /\ p \in Programs /\ r \in Ranks /\ j \in 0 .. End /\ j = At(k, s)
      /\ q = Plan(p, k, s, r) /\ m \in Nat /\ m = Len(q)
      /\ (Len(Msg(p, r, b, j)) > 0 => \E i \in 1 .. Len(q) : q[i].do = "write" /\ q[i].peer = b)
      /\ (Len(Msg(p, b, r, j)) > 0 => \E i \in 1 .. Len(q) : q[i].do = "read" /\ q[i].peer = b)
  BY <1>1 DEF PlaceFacts, Sound
<1>3. 0 + 1 = 1
  OBVIOUS
<1>4. ~Ahead(q, 0, "write", b) => Offset(p, r, b, j + 1) = Offset(p, r, b, j)
  <2> HAVE ~Ahead(q, 0, "write", b)
  <2>1. ~(Len(Msg(p, r, b, j)) > 0)
    BY <1>2, <1>3 DEF Ahead
  <2> QED BY <2>1, <1>2, OffsetStep
<1>5. ~Ahead(q, 0, "read", b) => Offset(p, b, r, j + 1) = Offset(p, b, r, j)
  <2> HAVE ~Ahead(q, 0, "read", b)
  <2>1. ~(Len(Msg(p, b, r, j)) > 0)
    BY <1>2, <1>3 DEF Ahead
  <2> QED BY <2>1, <1>2, OffsetStep
<1> QED BY <1>2, <1>4, <1>5, FreshWritten, FreshTaken

\* with all actions done all messages of the number are written and read
LEMMA DonePlace ==
  ASSUME NEW p, NEW r, NEW k, NEW s, NEW x, NEW n, Place(p, r, k, s, x, n), x = Len(Plan(p, k, s, r)), NEW b \in Ranks
  PROVE  /\ Written(p, r, b, k, s, x, n) = Offset(p, r, b, At(k, s) + 1)
         /\ Taken(p, b, r, k, s, x, n) = Offset(p, b, r, At(k, s) + 1)
<1>1. PICK j, q, m : PlaceFacts(p, r, k, s, x, n, j, q, m)
  BY FactsOfPlace
<1>2. s # 0 /\ q = Plan(p, k, s, r) /\ m \in Nat /\ m = Len(q) /\ x = m
  BY <1>1 DEF PlaceFacts
<1>3. \A what : ~AtHand(q, x, what, b) /\ ~Ahead(q, x, what, b)
  BY <1>2 DEF AtHand, Ahead
<1> QED BY <1>2, <1>3 DEF Written, Taken

\* wherever a rank is, within what there is to write and to read
LEMMA PlaceRange ==
  ASSUME NEW p, NEW r, NEW k, NEW s, NEW x, NEW n, Place(p, r, k, s, x, n), NEW b \in Ranks
  PROVE  /\ Written(p, r, b, k, s, x, n) \in Nat
         /\ Offset(p, r, b, At(k, s)) <= Written(p, r, b, k, s, x, n)
         /\ Written(p, r, b, k, s, x, n) <= Offset(p, r, b, At(k, s) + 1)
         /\ Taken(p, b, r, k, s, x, n) \in Nat
         /\ Offset(p, b, r, At(k, s)) <= Taken(p, b, r, k, s, x, n)
         /\ Taken(p, b, r, k, s, x, n) <= Offset(p, b, r, At(k, s) + 1)
<1>1. PICK j, q, m : PlaceFacts(p, r, k, s, x, n, j, q, m)
  BY FactsOfPlace
<1>2. /\ p \in Programs /\ r \in Ranks /\ n \in Nat /\ j \in 0 .. End /\ j = At(k, s) /\ s # 0
      /\ q = Plan(p, k, s, r) /\ m \in Nat /\ m = Len(q) /\ x \in 0 .. m
  BY <1>1 DEF PlaceFacts
<1>3. Offs(p, r, b, j) /\ Offs(p, b, r, j)
  BY <1>2, OffsetsAre, Zenon
<1>4. PICK u \in Nat, v \in Nat, w \in Nat : u = Offset(p, r, b, j) /\ v = Offset(p, r, b, j + 1) /\ w = Len(Msg(p, r, b, j)) /\ v = u + w
  BY <1>3 DEF Offs
<1>5. PICK c \in Nat, d \in Nat, e \in Nat : c = Offset(p, b, r, j) /\ d = Offset(p, b, r, j + 1) /\ e = Len(Msg(p, b, r, j)) /\ d = c + e
  BY <1>3 DEF Offs
<1>6. \A what : AtHand(q, x, what, b) => what = q[x + 1].do /\ q[x + 1].peer = b /\ x < m /\ ActIs(q, p, r, j, x + 1)
  <2> SUFFICES ASSUME x < m PROVE ActIs(q, p, r, j, x + 1)
    BY <1>2 DEF AtHand
  <2>1. x + 1 \in 1 .. Len(q)
    BY <1>2
  <2> QED BY <1>1, <2>1, ActFacts DEF PlaceFacts
<1>7. x < m => IF q[x + 1].do = "read" THEN n < q[x + 1].n ELSE n > 0 /\ n <= q[x + 1].n
  BY <1>2 DEF Place
<1>8. AtHand(q, x, "write", b) => n <= w
  <2> HAVE AtHand(q, x, "write", b)
  <2>1. q[x + 1].do = "write" /\ q[x + 1].peer = b /\ x < m /\ ActIs(q, p, r, j, x + 1)
    BY <1>6
  <2>2. q[x + 1].n = w
    BY <2>1, <1>4 DEF ActIs
  <2> QED BY <2>1, <2>2, <1>7
<1>9. AtHand(q, x, "read", b) => n <= e
  <2> HAVE AtHand(q, x, "read", b)
  <2>1. q[x + 1].do = "read" /\ q[x + 1].peer = b /\ x < m /\ ActIs(q, p, r, j, x + 1)
    BY <1>6
  <2>2. q[x + 1].n = e
    BY <2>1, <1>5 DEF ActIs
  <2> QED BY <2>1, <2>2, <1>2, <1>5, <1>7
<1>10. Written(p, r, b, k, s, x, n) = IF AtHand(q, x, "write", b) THEN v - n ELSE IF Ahead(q, x, "write", b) THEN u ELSE v
  <2>1. u = Offset(p, r, b, At(k, s)) /\ v = Offset(p, r, b, At(k, s) + 1) /\ q = Plan(p, k, s, r) /\ s # 0
    BY <1>2, <1>4
  <2> QED BY <2>1 DEF Written
<1>11. Taken(p, b, r, k, s, x, n) = IF AtHand(q, x, "read", b) THEN c + n ELSE IF Ahead(q, x, "read", b) THEN c ELSE d
  <2>1. c = Offset(p, b, r, At(k, s)) /\ d = Offset(p, b, r, At(k, s) + 1) /\ q = Plan(p, k, s, r) /\ s # 0
    BY <1>2, <1>5
  <2>2. CASE AtHand(q, x, "read", b)
    BY <1>2, <1>5, <2>1, <2>2 DEF Taken
  <2>3. CASE ~AtHand(q, x, "read", b)
    BY <2>1, <2>3 DEF Taken
  <2> QED BY <2>2, <2>3
<1>12. Written(p, r, b, k, s, x, n) \in Nat /\ u <= Written(p, r, b, k, s, x, n) /\ Written(p, r, b, k, s, x, n) <= v
  <2>1. CASE AtHand(q, x, "write", b)
    <3>1. n <= w /\ Written(p, r, b, k, s, x, n) = v - n
      BY <2>1, <1>8, <1>10
    <3>2. n \in Nat /\ n <= w /\ v = u + w
      BY <3>1, <1>2, <1>4
    <3>3. v - n \in Nat /\ u <= v - n /\ v - n <= v
      BY <3>2
    <3> QED BY <3>1, <3>3
  <2>2. CASE ~AtHand(q, x, "write", b)
    <3>1. Written(p, r, b, k, s, x, n) = u \/ Written(p, r, b, k, s, x, n) = v
      BY <2>2, <1>10
    <3> QED BY <3>1, <1>4
  <2> QED BY <2>1, <2>2
<1>13. Taken(p, b, r, k, s, x, n) \in Nat /\ c <= Taken(p, b, r, k, s, x, n) /\ Taken(p, b, r, k, s, x, n) <= d
  BY <1>2, <1>5, <1>9, <1>11
<1> QED BY <1>2, <1>4, <1>5, <1>12, <1>13

Somewhere(p, r, k, s, x, n) == Place(p, r, k, s, x, n) \/ Outside(p, r, k, s)

\* between calls a rank is where the next one begins
LEMMA OutsideMeans ==
  ASSUME NEW p, NEW r, NEW k, NEW s, NEW x, NEW n, Outside(p, r, k, s)
  PROVE  /\ p \in Programs /\ r \in Ranks /\ Here(k, s) \in 0 .. End /\ Here(k, s) = At(k + 1, 1) /\ s = 0 /\ k \in 0 .. MaxOps
         /\ \A b \in Ranks : /\ Written(p, r, b, k, s, x, n) = Offset(p, r, b, Here(k, s))
                             /\ Taken(p, b, r, k, s, x, n) = Offset(p, b, r, Here(k, s))
<1>1. k \in Nat /\ MaxOps \in Nat /\ k <= MaxOps
  BY CoboAssumption DEF Outside
<1>2. At(k + 1, 1) \in 0 .. End
  BY <1>1 DEF At, End
<1> QED BY <1>2 DEF Outside, Here, Written, Taken

LEMMA PlaceHere ==
  ASSUME NEW p, NEW r, NEW k, NEW s, NEW x, NEW n, Place(p, r, k, s, x, n)
  PROVE  p \in Programs /\ r \in Ranks /\ Here(k, s) \in 0 .. End /\ Here(k, s) = At(k, s) /\ s # 0 /\ k \in 1 .. MaxOps /\ s \in 1 .. 4
<1>1. PICK j, q, m : PlaceFacts(p, r, k, s, x, n, j, q, m)
  BY FactsOfPlace
<1> QED BY <1>1 DEF PlaceFacts

LEMMA SomewhereFits ==
  ASSUME NEW p, NEW r, NEW k, NEW s, NEW x, NEW n, Somewhere(p, r, k, s, x, n), NEW b \in Ranks
  PROVE  /\ Written(p, r, b, k, s, x, n) \in Nat /\ Written(p, r, b, k, s, x, n) <= Len(All(p, r, b))
         /\ Taken(p, b, r, k, s, x, n) \in Nat /\ Taken(p, b, r, k, s, x, n) <= Len(All(p, b, r))
         /\ Len(All(p, r, b)) \in Nat /\ Len(All(p, b, r)) \in Nat
<1>1. CASE Outside(p, r, k, s)
  <2>1. /\ p \in Programs /\ r \in Ranks /\ Here(k, s) \in 0 .. End
        /\ Written(p, r, b, k, s, x, n) = Offset(p, r, b, Here(k, s))
        /\ Taken(p, b, r, k, s, x, n) = Offset(p, b, r, Here(k, s))
    BY <1>1, OutsideMeans
  <2>2. PICK i \in 0 .. End + 1 : i = Here(k, s) /\ i <= End + 1
    BY <2>1, EndIsNat
  <2>3. End + 1 \in 0 .. End + 1
    BY EndIsNat
  <2>4. /\ Offset(p, r, b, i) \in Nat /\ Offset(p, r, b, End + 1) \in Nat /\ Offset(p, r, b, i) <= Offset(p, r, b, End + 1)
        /\ Offset(p, b, r, i) \in Nat /\ Offset(p, b, r, End + 1) \in Nat /\ Offset(p, b, r, i) <= Offset(p, b, r, End + 1)
    BY <2>1, <2>2, <2>3, OffsetGrows
  <2> QED BY <2>1, <2>2, <2>4, AllIs
<1>2. CASE Place(p, r, k, s, x, n)
  <2>1. p \in Programs /\ r \in Ranks /\ At(k, s) \in 0 .. End
    BY <1>2, PlaceHere
  <2>2. PICK i \in 0 .. End + 1 : i = At(k, s) + 1 /\ i <= End + 1
    BY <2>1, EndIsNat
  <2>3. End + 1 \in 0 .. End + 1
    BY EndIsNat
  <2>4. /\ Offset(p, r, b, i) \in Nat /\ Offset(p, r, b, End + 1) \in Nat /\ Offset(p, r, b, i) <= Offset(p, r, b, End + 1)
        /\ Offset(p, b, r, i) \in Nat /\ Offset(p, b, r, End + 1) \in Nat /\ Offset(p, b, r, i) <= Offset(p, b, r, End + 1)
    BY <2>1, <2>2, <2>3, OffsetGrows
  <2>5. /\ Written(p, r, b, k, s, x, n) \in Nat /\ Written(p, r, b, k, s, x, n) <= Offset(p, r, b, At(k, s) + 1)
        /\ Taken(p, b, r, k, s, x, n) \in Nat /\ Taken(p, b, r, k, s, x, n) <= Offset(p, b, r, At(k, s) + 1)
    BY <1>2, PlaceRange
  <2> QED BY <2>1, <2>2, <2>4, <2>5, AllIs
<1> QED BY <1>1, <1>2 DEF Somewhere

\* who has read all of a number has read all there was to read in it
LEMMA ReaderTook ==
  ASSUME NEW p, NEW r, NEW k, NEW s, NEW x, NEW n, Somewhere(p, r, k, s, x, n), NEW a \in Ranks,
         NEW j \in 0 .. End, Heard(p, r, k, s, x, j)
  PROVE  Taken(p, a, r, k, s, x, n) >= Offset(p, a, r, j + 1)
<1>0. j \in Nat /\ j + 1 \in 0 .. End + 1
  BY EndIsNat
<1>1. CASE Here(k, s) > j
  <2>1. p \in Programs /\ r \in Ranks /\ Here(k, s) \in 0 .. End /\ Taken(p, a, r, k, s, x, n) >= Offset(p, a, r, Here(k, s))
    <3>1. CASE Outside(p, r, k, s)
      <4>1. p \in Programs /\ r \in Ranks /\ Here(k, s) \in 0 .. End /\ Taken(p, a, r, k, s, x, n) = Offset(p, a, r, Here(k, s))
        BY <3>1, OutsideMeans
      <4>2. Offs(p, a, r, Here(k, s))
        BY <4>1, OffsetsAre
      <4> QED BY <4>1, <4>2 DEF Offs
    <3>2. CASE Place(p, r, k, s, x, n)
      BY <3>2, PlaceHere, PlaceRange
    <3> QED BY <3>1, <3>2 DEF Somewhere
  <2>2. PICK i \in 0 .. End + 1 : i = Here(k, s) /\ j + 1 <= i
    BY <1>0, <1>1, <2>1, EndIsNat
  <2>3. Offset(p, a, r, j + 1) \in Nat /\ Offset(p, a, r, i) \in Nat /\ Offset(p, a, r, j + 1) <= Offset(p, a, r, i)
    BY <1>0, <2>1, <2>2, OffsetGrows
  <2>4. Taken(p, a, r, k, s, x, n) \in Nat
    BY SomewhereFits
  <2> QED BY <2>1, <2>2, <2>3, <2>4
<1>2. CASE Here(k, s) = j /\ s > 0 /\ \A i \in x + 1 .. Len(Plan(p, k, s, r)) : Plan(p, k, s, r)[i].do # "read"
  <2>1. Place(p, r, k, s, x, n)
    BY <1>2 DEF Somewhere, Outside
  <2>2. PICK h, q, m : PlaceFacts(p, r, k, s, x, n, h, q, m)
    BY <2>1, FactsOfPlace
  <2>3. h = j /\ j = At(k, s) /\ q = Plan(p, k, s, r) /\ m = Len(q) /\ m \in Nat /\ x \in 0 .. m /\ s # 0 /\ p \in Programs /\ r \in Ranks
    BY <1>2, <2>2 DEF PlaceFacts
  <2>4. ~Ahead(q, x, "read", a)
    BY <1>2, <2>3 DEF Ahead
  <2>5. ~AtHand(q, x, "read", a)
    <3> SUFFICES ASSUME AtHand(q, x, "read", a) PROVE FALSE
      OBVIOUS
    <3>1. x + 1 \in x + 1 .. Len(q)
      BY <2>3 DEF AtHand
    <3> QED BY <3>1, <1>2, <2>3 DEF AtHand
  <2>6. Taken(p, a, r, k, s, x, n) = Offset(p, a, r, j + 1)
    BY <2>3, <2>4, <2>5 DEF Taken
  <2>7. Offs(p, a, r, j)
    BY <2>3, OffsetsAre
  <2> QED BY <2>6, <2>7 DEF Offs
<1> QED BY <1>1, <1>2 DEF Heard

\* who has written its message of a number to the end has read before
LEMMA WriterHeard ==
  ASSUME NEW p, NEW r, NEW k, NEW s, NEW x, NEW n, Somewhere(p, r, k, s, x, n), NEW b \in Ranks,
         NEW j \in 0 .. End, Len(Msg(p, r, b, j)) > 0, Written(p, r, b, k, s, x, n) >= Offset(p, r, b, j + 1)
  PROVE  Heard(p, r, k, s, x, j)
<1>0. p \in Programs /\ r \in Ranks /\ Here(k, s) \in 0 .. End
  BY PlaceHere, OutsideMeans DEF Somewhere
<1>1. Offs(p, r, b, j) /\ Offs(p, r, b, Here(k, s))
  BY <1>0, OffsetsAre
<1>2. PICK u \in Nat, v \in Nat, w \in Nat : u = Offset(p, r, b, j) /\ v = Offset(p, r, b, j + 1) /\ w = Len(Msg(p, r, b, j)) /\ v = u + w /\ w > 0
  BY <1>1 DEF Offs
<1>3. PICK z \in Nat : z = Written(p, r, b, k, s, x, n) /\ z >= v
  BY <1>2, SomewhereFits
<1>4. CASE Here(k, s) > j
  BY <1>4 DEF Heard
<1>5. ASSUME Outside(p, r, k, s), ~(Here(k, s) > j) PROVE FALSE
  <2>1. z = Offset(p, r, b, Here(k, s))
    BY <1>3, <1>5, OutsideMeans
  <2>2. PICK i \in 0 .. End + 1, h \in 0 .. End + 1 : i = Here(k, s) /\ h = j /\ i <= h
    BY <1>0, <1>5, EndIsNat
  <2>3. Offset(p, r, b, i) <= Offset(p, r, b, h)
    BY <1>0, <2>2, OffsetGrows
  <2> QED BY <1>2, <1>3, <2>1, <2>2, <2>3
<1>6. ASSUME Place(p, r, k, s, x, n), Here(k, s) < j PROVE FALSE
  <2>1. Here(k, s) = At(k, s) /\ z <= Offset(p, r, b, At(k, s) + 1)
    BY <1>3, <1>6, PlaceHere, PlaceRange
  <2>2. PICK i \in 0 .. End + 1, h \in 0 .. End + 1 : i = At(k, s) + 1 /\ h = j /\ i <= h
    BY <1>0, <1>6, <2>1, EndIsNat
  <2>3. Offset(p, r, b, i) \in Nat /\ Offset(p, r, b, i) <= Offset(p, r, b, h)
    BY <1>0, <2>2, OffsetGrows
  <2> QED BY <1>2, <1>3, <2>1, <2>2, <2>3
<1>7. CASE Place(p, r, k, s, x, n) /\ Here(k, s) = j
  <2>1. PICK h, q, m : PlaceFacts(p, r, k, s, x, n, h, q, m)
    BY <1>7, FactsOfPlace
  <2>2. /\ h = j /\ j = At(k, s) /\ q = Plan(p, k, s, r) /\ m = Len(q) /\ m \in Nat /\ x \in 0 .. m /\ s > 0 /\ s # 0
        /\ n \in Nat /\ Sound(q, p, r, j)
    BY <1>7, <2>1 DEF PlaceFacts
  <2>3. ~AtHand(q, x, "write", b)
    <3> SUFFICES ASSUME AtHand(q, x, "write", b) PROVE FALSE
      OBVIOUS
    <3>1. Written(p, r, b, k, s, x, n) = v - n
      BY <2>2, <1>2 DEF Written
    <3>2. x < Len(q) /\ q[x + 1].do = "write"
      BY DEF AtHand
    <3>3. n > 0
      BY <1>7, <2>2, <3>2 DEF Place
    <3> QED BY <1>2, <1>3, <2>2, <3>1, <3>3
  <2>4. ~Ahead(q, x, "write", b)
    <3> SUFFICES ASSUME Ahead(q, x, "write", b) PROVE FALSE
      OBVIOUS
    <3>1. Written(p, r, b, k, s, x, n) = u
      BY <2>2, <2>3, <1>2 DEF Written
    <3> QED BY <1>2, <1>3, <3>1
  <2>5. PICK i \in 1 .. Len(q) : q[i].do = "write" /\ q[i].peer = b
    BY <2>2 DEF Sound
  <2>6. i <= x
    BY <2>2, <2>4, <2>5 DEF Ahead
  <2>7. ASSUME NEW g \in x + 1 .. Len(q) PROVE q[g].do # "read"
    <3>1. PICK f \in 1 .. Len(q) : f = g /\ i < f
      BY <2>2, <2>6
    <3>2. ActIs(q, p, r, j, f)
      BY <2>2, ActFacts
    <3> QED BY <2>5, <3>1, <3>2 DEF ActIs
  <2> QED BY <1>7, <2>2, <2>7 DEF Heard
<1>8. Here(k, s) > j \/ Here(k, s) = j \/ Here(k, s) < j
  BY <1>0
<1> QED BY <1>4, <1>5, <1>6, <1>7, <1>8 DEF Somewhere

\* from a place to the next: t items of the next action are read or written,
\* the last of them or not
Goes(p, r, k, s, x, n, y, v, t, what) ==
  /\ Place(p, r, k, s, x, n) /\ x < Len(Plan(p, k, s, r)) /\ Plan(p, k, s, r)[x + 1].do = what /\ t \in Nat
  /\ \/ what = "read" /\ n + t < Plan(p, k, s, r)[x + 1].n /\ y = x /\ v = n + t
     \/ what = "read" /\ n + t = Plan(p, k, s, r)[x + 1].n /\ y = x + 1 /\ Fresh(Plan(p, k, s, r), y, v)
     \/ what = "write" /\ t < n /\ y = x /\ v = n - t
     \/ what = "write" /\ t = n /\ y = x + 1 /\ Fresh(Plan(p, k, s, r), y, v)

LEMMA AheadStep ==
  ASSUME NEW q, NEW x \in Nat, Len(q) \in Nat, x < Len(q), NEW what, NEW b
  PROVE  Ahead(q, x, what, b) <=> AtHand(q, x, what, b) \/ Ahead(q, x + 1, what, b)
<1>1. x + 1 \in x + 1 .. Len(q) /\ (x + 1) + 1 .. Len(q) \subseteq x + 1 .. Len(q)
  OBVIOUS
<1>2. \A i \in x + 1 .. Len(q) : i = x + 1 \/ i \in (x + 1) + 1 .. Len(q)
  OBVIOUS
<1> QED BY <1>1, <1>2 DEF Ahead, AtHand

\* a peer comes once
LEMMA OnlyOnce ==
  ASSUME NEW q, NEW p, NEW r, NEW j, Sound(q, p, r, j), NEW x \in Nat, Len(q) \in Nat, NEW what, NEW b, AtHand(q, x, what, b), NEW how
  PROVE  ~Ahead(q, x + 1, how, b)
<1>1. x + 1 \in 1 .. Len(q) /\ q[x + 1].peer = b
  BY DEF AtHand
<1>2. ActIs(q, p, r, j, x + 1)
  BY <1>1, ActFacts
<1> SUFFICES ASSUME NEW i \in (x + 1) + 1 .. Len(q), q[i].peer = b PROVE FALSE
  BY DEF Ahead
<1>3. i \in 1 .. Len(q) /\ x + 1 # i
  OBVIOUS
<1> QED BY <1>1, <1>2, <1>3 DEF ActIs

\* with an action done and nothing of the next the rank is one place on
LEMMA NextPlace ==
  ASSUME NEW p, NEW r, NEW k, NEW s, NEW x, NEW n, Place(p, r, k, s, x, n), x < Len(Plan(p, k, s, r)),
         NEW v, Fresh(Plan(p, k, s, r), x + 1, v)
  PROVE  Place(p, r, k, s, x + 1, v)
<1>1. PICK j, q, m : PlaceFacts(p, r, k, s, x, n, j, q, m)
  BY FactsOfPlace
<1>2. q = Plan(p, k, s, r) /\ m \in Nat /\ m = Len(q) /\ x \in 0 .. m /\ Sound(q, p, r, j)
  BY <1>1 DEF PlaceFacts
<1>3. x + 1 \in 0 .. Len(q)
  BY <1>2
<1>4. v \in Nat /\ (x + 1 < Len(q) => IF q[x + 1 + 1].do = "read" THEN v < q[x + 1 + 1].n ELSE v > 0 /\ v <= q[x + 1 + 1].n)
  <2>1. CASE x + 1 < Len(q)
    <3>1. x + 1 + 1 \in 1 .. Len(q)
      BY <1>2, <2>1
    <3>2. ActIs(q, p, r, j, x + 1 + 1)
      BY <1>2, <3>1, ActFacts
    <3> QED BY <1>2, <2>1, <3>2 DEF ActIs, Fresh
  <2>2. CASE ~(x + 1 < Len(q))
    BY <1>2, <2>2 DEF Fresh
  <2> QED BY <2>1, <2>2
<1> QED BY <1>2, <1>3, <1>4 DEF Place

\* the others see of it what is read or written, and nothing more
Moved(p, r, k, s, x, n, y, v, t, what) ==
  /\ Place(p, r, k, s, y, v)
  /\ \A b \in Ranks :
       /\ Written(p, r, b, k, s, y, v) =
            Written(p, r, b, k, s, x, n) + (IF what = "write" /\ b = Plan(p, k, s, r)[x + 1].peer THEN t ELSE 0)
       /\ Taken(p, b, r, k, s, y, v) =
            Taken(p, b, r, k, s, x, n) + (IF what = "read" /\ b = Plan(p, k, s, r)[x + 1].peer THEN t ELSE 0)

\* a pass that moves t items moves the count of its connection by t, and no other
LEMMA Going ==
  ASSUME NEW p, NEW r, NEW k, NEW s, NEW x, NEW n, NEW y, NEW v, NEW t, NEW what, Goes(p, r, k, s, x, n, y, v, t, what)
  PROVE  Moved(p, r, k, s, x, n, y, v, t, what)
<1>0. Place(p, r, k, s, x, n) /\ x < Len(Plan(p, k, s, r)) /\ Plan(p, k, s, r)[x + 1].do = what /\ t \in Nat
  BY DEF Goes
<1>1. PICK j, q, m : PlaceFacts(p, r, k, s, x, n, j, q, m)
  BY <1>0, FactsOfPlace
<1>2. /\ p \in Programs /\ r \in Ranks /\ n \in Nat /\ j \in 0 .. End /\ j = At(k, s) /\ s # 0
      /\ q = Plan(p, k, s, r) /\ m \in Nat /\ m = Len(q) /\ x \in 0 .. m /\ x < m /\ x \in Nat /\ Len(q) \in Nat /\ Sound(q, p, r, j)
  BY <1>0, <1>1 DEF PlaceFacts
<1>3. x + 1 \in 1 .. Len(q)
  BY <1>2
<1>4. ActIs(q, p, r, j, x + 1)
  BY <1>2, <1>3, ActFacts
<1>5. PICK c \in Ranks : c = q[x + 1].peer
  BY <1>4 DEF ActIs
<1>6. what \in {"read", "write"} /\ q[x + 1].do = what
  BY <1>0, <1>2, <1>4 DEF ActIs
<1>7. \A how, b : AtHand(q, x, how, b) <=> how = what /\ b = c
  BY <1>2, <1>5, <1>6 DEF AtHand
<1>8. ASSUME NEW b \in Ranks
      PROVE  /\ Written(p, r, b, k, s, x, n) \in Nat /\ Taken(p, b, r, k, s, x, n) \in Nat
             /\ Offset(p, r, b, j) \in Nat /\ Offset(p, r, b, j + 1) \in Nat
             /\ Offset(p, b, r, j) \in Nat /\ Offset(p, b, r, j + 1) \in Nat
  <2>1. Offs(p, r, b, j) /\ Offs(p, b, r, j)
    BY <1>2, OffsetsAre
  <2> QED BY <2>1, <1>0, PlaceRange DEF Offs
<1>9. CASE y = x /\ what = "read" /\ v = n + t /\ n + t < q[x + 1].n
  <2>1. Place(p, r, k, s, y, v)
    <3>1. v \in Nat
      BY <1>0, <1>2, <1>9
    <3> QED BY <3>1, <1>0, <1>2, <1>6, <1>9 DEF Place
  <2>2. ASSUME NEW b \in Ranks PROVE Written(p, r, b, k, s, y, v) = Written(p, r, b, k, s, x, n) + 0
    <3>1. Written(p, r, b, k, s, y, v) = Written(p, r, b, k, s, x, n)
      BY <1>2, <1>7, <1>9 DEF Written
    <3> QED BY <3>1, <1>8
  <2>3. ASSUME NEW b \in Ranks, b # c PROVE Taken(p, b, r, k, s, y, v) = Taken(p, b, r, k, s, x, n) + 0
    <3>1. Taken(p, b, r, k, s, y, v) = Taken(p, b, r, k, s, x, n)
      BY <1>2, <1>7, <1>9, <2>3 DEF Taken
    <3> QED BY <3>1, <1>8
  <2>4. Taken(p, c, r, k, s, y, v) = Taken(p, c, r, k, s, x, n) + t
    <3>1. PICK u \in Nat : u = Offset(p, c, r, j)
      BY <1>8
    <3>2. Taken(p, c, r, k, s, y, v) = u + v /\ Taken(p, c, r, k, s, x, n) = u + n
      BY <1>2, <1>7, <1>9, <3>1 DEF Taken
    <3> QED BY <3>1, <3>2, <1>0, <1>2, <1>9
  <2> QED BY <1>2, <1>5, <1>9, <2>1, <2>2, <2>3, <2>4 DEF Moved
<1>10. CASE y = x /\ what = "write" /\ v = n - t /\ t < n
  <2>1. Place(p, r, k, s, y, v)
    <3>1. v \in Nat /\ v > 0 /\ v <= n
      BY <1>0, <1>2, <1>10
    <3>2. n <= q[x + 1].n /\ q[x + 1].n \in Nat
      BY <1>0, <1>2, <1>4, <1>6, <1>10 DEF Place, ActIs
    <3>3. v <= q[x + 1].n
      BY <1>2, <3>1, <3>2
    <3> QED BY <3>1, <3>3, <1>0, <1>2, <1>6, <1>10 DEF Place
  <2>2. ASSUME NEW b \in Ranks PROVE Taken(p, b, r, k, s, y, v) = Taken(p, b, r, k, s, x, n) + 0
    <3>1. Taken(p, b, r, k, s, y, v) = Taken(p, b, r, k, s, x, n)
      BY <1>2, <1>7, <1>10 DEF Taken
    <3> QED BY <3>1, <1>8
  <2>3. ASSUME NEW b \in Ranks, b # c PROVE Written(p, r, b, k, s, y, v) = Written(p, r, b, k, s, x, n) + 0
    <3>1. Written(p, r, b, k, s, y, v) = Written(p, r, b, k, s, x, n)
      BY <1>2, <1>7, <1>10, <2>3 DEF Written
    <3> QED BY <3>1, <1>8
  <2>4. Written(p, r, c, k, s, y, v) = Written(p, r, c, k, s, x, n) + t
    <3>1. PICK u \in Nat : u = Offset(p, r, c, j + 1)
      BY <1>8
    <3>2. Written(p, r, c, k, s, y, v) = u - v /\ Written(p, r, c, k, s, x, n) = u - n
      BY <1>2, <1>7, <1>10, <3>1 DEF Written
    <3>3. u - v = (u - n) + t
      BY <1>0, <1>2, <1>10
    <3> QED BY <3>2, <3>3
  <2> QED BY <1>2, <1>5, <1>10, <2>1, <2>2, <2>3, <2>4 DEF Moved
<1>11. CASE y = x + 1 /\ Fresh(q, y, v) /\ ((what = "read" /\ n + t = q[x + 1].n) \/ (what = "write" /\ t = n))
  <2>1. Place(p, r, k, s, y, v)
    BY <1>0, <1>2, <1>11, NextPlace
  <2>2. \A b \in Ranks :
          /\ Written(p, r, b, k, s, y, v) = IF Ahead(q, y, "write", b) THEN Offset(p, r, b, j) ELSE Offset(p, r, b, j + 1)
          /\ Taken(p, b, r, k, s, y, v) = IF Ahead(q, y, "read", b) THEN Offset(p, b, r, j) ELSE Offset(p, b, r, j + 1)
    BY <1>2, <1>11, <2>1, FreshWritten, FreshTaken
  <2>3. \A how, b : ~AtHand(q, x, how, b) => (Ahead(q, x, how, b) <=> Ahead(q, y, how, b))
    BY <1>2, <1>11, AheadStep
  <2>4. ASSUME NEW b \in Ranks, ~(what = "write" /\ b = c) PROVE Written(p, r, b, k, s, y, v) = Written(p, r, b, k, s, x, n) + 0
    <3>1. ~AtHand(q, x, "write", b)
      BY <1>7, <2>4
    <3>2. Written(p, r, b, k, s, y, v) = Written(p, r, b, k, s, x, n)
      BY <1>2, <2>2, <2>3, <3>1 DEF Written
    <3> QED BY <3>2, <1>8
  <2>5. ASSUME NEW b \in Ranks, ~(what = "read" /\ b = c) PROVE Taken(p, b, r, k, s, y, v) = Taken(p, b, r, k, s, x, n) + 0
    <3>1. ~AtHand(q, x, "read", b)
      BY <1>7, <2>5
    <3>2. Taken(p, b, r, k, s, y, v) = Taken(p, b, r, k, s, x, n)
      BY <1>2, <2>2, <2>3, <3>1 DEF Taken
    <3> QED BY <3>2, <1>8
  <2>6. AtHand(q, x, what, c) /\ ~Ahead(q, y, what, c)
    <3>1. AtHand(q, x, what, c)
      BY <1>7
    <3> QED BY <3>1, <1>2, <1>11, OnlyOnce
  <2>7. ASSUME what = "write" PROVE Written(p, r, c, k, s, y, v) = Written(p, r, c, k, s, x, n) + t
    <3>1. PICK u \in Nat : u = Offset(p, r, c, j + 1)
      BY <1>8
    <3>2. Written(p, r, c, k, s, y, v) = u
      BY <2>2, <2>6, <2>7, <3>1
    <3>3. Written(p, r, c, k, s, x, n) = u - n
      BY <1>2, <2>6, <2>7, <3>1 DEF Written
    <3>4. t = n
      BY <1>11, <2>7
    <3> QED BY <3>2, <3>3, <3>4, <1>2
  <2>8. ASSUME what = "read" PROVE Taken(p, c, r, k, s, y, v) = Taken(p, c, r, k, s, x, n) + t
    <3>1. Offs(p, c, r, j)
      BY <1>2, OffsetsAre
    <3>2. PICK u \in Nat, z \in Nat, w \in Nat : u = Offset(p, c, r, j) /\ z = Offset(p, c, r, j + 1) /\ w = Len(Msg(p, c, r, j)) /\ z = u + w
      BY <3>1 DEF Offs
    <3>3. Taken(p, c, r, k, s, y, v) = z
      BY <2>2, <2>6, <2>8, <3>2
    <3>4. Taken(p, c, r, k, s, x, n) = u + n
      BY <1>2, <2>6, <2>8, <3>2 DEF Taken
    <3>5. n + t = w
      BY <1>4, <1>5, <1>6, <1>11, <2>8, <3>2 DEF ActIs
    <3>6. z = (u + n) + t
      <4>1. n \in Nat /\ t \in Nat /\ n + t = w /\ z = u + w
        BY <1>0, <1>2, <3>2, <3>5
      <4> QED BY <4>1
    <3> QED BY <3>3, <3>4, <3>6
  <2> QED BY <1>2, <1>5, <1>6, <2>1, <2>4, <2>5, <2>7, <2>8 DEF Moved
<1> QED BY <1>2, <1>9, <1>10, <1>11 DEF Goes

\* from one call to the next nothing is written or read
Stays(p, r, k, s, x, n, k2, s2, y, v) ==
  \A b \in Ranks : /\ Written(p, r, b, k2, s2, y, v) = Written(p, r, b, k, s, x, n)
                   /\ Taken(p, b, r, k2, s2, y, v) = Taken(p, b, r, k, s, x, n)

LEMMA StartFits ==
  ASSUME NEW p \in Programs, NEW r \in Ranks, NEW k \in 1 .. MaxOps, NEW s \in 1 .. Len(Stages(p[k])),
         NEW v, Fresh(Plan(p, k, s, r), 0, v)
  PROVE  Place(p, r, k, s, 0, v)
<1>0. PICK q : q = Plan(p, k, s, r) /\ Sound(q, p, r, At(k, s))
  BY PlanIsSound
<1>1. q = Plan(p, k, s, r) /\ Sound(q, p, r, At(k, s)) /\ Len(q) \in Nat
  <2>1. q \in Seq(Acts)
    BY <1>0 DEF Sound
  <2> QED BY <1>0, <2>1
<1>2. v \in Nat /\ (0 < Len(q) => IF q[0 + 1].do = "read" THEN v < q[0 + 1].n ELSE v > 0 /\ v <= q[0 + 1].n)
  <2>1. CASE 0 < Len(q)
    <3>1. 0 + 1 \in 1 .. Len(q)
      BY <1>1, <2>1
    <3>2. ActIs(q, p, r, At(k, s), 0 + 1)
      BY <1>1, <3>1, ActFacts
    <3> QED BY <1>1, <2>1, <3>2 DEF ActIs, Fresh
  <2>2. CASE ~(0 < Len(q))
    BY <1>1, <2>2 DEF Fresh
  <2> QED BY <2>1, <2>2
<1> QED BY <1>1, <1>2 DEF Place

\* entering a collective
LEMMA CallStays ==
  ASSUME NEW p, NEW r, NEW k, NEW s, Outside(p, r, k, s), k < MaxOps, NEW x, NEW n, NEW v, Fresh(Plan(p, k + 1, 1, r), 0, v)
  PROVE  Place(p, r, k + 1, 1, 0, v) /\ Stays(p, r, k, s, x, n, k + 1, 1, 0, v)
<1>1. p \in Programs /\ r \in Ranks /\ k + 1 \in 1 .. MaxOps /\ s = 0 /\ Here(k, s) = At(k + 1, 1)
  <2>1. p \in Programs /\ r \in Ranks /\ k \in 0 .. MaxOps /\ MaxOps \in Nat /\ s = 0
    BY CoboAssumption DEF Outside
  <2>2. k + 1 \in 1 .. MaxOps
    BY <2>1
  <2> QED BY <2>1, <2>2 DEF Here
<1>2. 1 \in 1 .. Len(Stages(p[k + 1]))
  <2>1. PICK op \in AllOps : op = p[k + 1]
    BY <1>1, OpsAreKnown
  <2>2. PICK m \in 1 .. 4 : m = Len(Stages(op))
    BY StagesFit
  <2>3. 1 \in 1 .. m
    OBVIOUS
  <2> QED BY <2>1, <2>2, <2>3, Zenon
<1>3. Place(p, r, k + 1, 1, 0, v)
  BY <1>1, <1>2, StartFits
<1>4. ASSUME NEW b \in Ranks
      PROVE  /\ Written(p, r, b, k + 1, 1, 0, v) = Written(p, r, b, k, s, x, n)
             /\ Taken(p, b, r, k + 1, 1, 0, v) = Taken(p, b, r, k, s, x, n)
  <2>1. Written(p, r, b, k + 1, 1, 0, v) = Offset(p, r, b, At(k + 1, 1)) /\ Taken(p, b, r, k + 1, 1, 0, v) = Offset(p, b, r, At(k + 1, 1))
    BY <1>3, StartPlace
  <2>2. Written(p, r, b, k, s, x, n) = Offset(p, r, b, Here(k, s)) /\ Taken(p, b, r, k, s, x, n) = Offset(p, b, r, Here(k, s))
    BY OutsideMeans
  <2> QED BY <2>1, <2>2, <1>1
<1> QED BY <1>3, <1>4 DEF Stays

\* entering its next cobo_*_tree call
LEMMA TreeStays ==
  ASSUME NEW p, NEW r, NEW k, NEW s, NEW x, NEW n, Place(p, r, k, s, x, n), x = Len(Plan(p, k, s, r)),
         s < Len(Stages(p[k])), NEW t, t = s + 1, NEW v, Fresh(Plan(p, k, t, r), 0, v)
  PROVE  Place(p, r, k, t, 0, v) /\ Stays(p, r, k, s, x, n, k, t, 0, v)
<1>1. p \in Programs /\ r \in Ranks /\ k \in 1 .. MaxOps /\ s \in 1 .. Len(Stages(p[k])) /\ t \in 1 .. Len(Stages(p[k]))
  BY DEF Place
<1>2. At(k, t) = At(k, s) + 1
  <2>1. s \in Nat /\ k \in Nat
    BY <1>1
  <2> QED BY <2>1 DEF At
<1>3. Place(p, r, k, t, 0, v)
  BY <1>1, StartFits
<1>4. ASSUME NEW b \in Ranks
      PROVE  /\ Written(p, r, b, k, t, 0, v) = Written(p, r, b, k, s, x, n)
             /\ Taken(p, b, r, k, t, 0, v) = Taken(p, b, r, k, s, x, n)
  <2>1. Written(p, r, b, k, t, 0, v) = Offset(p, r, b, At(k, t)) /\ Taken(p, b, r, k, t, 0, v) = Offset(p, b, r, At(k, t))
    BY <1>3, StartPlace
  <2>2. Written(p, r, b, k, s, x, n) = Offset(p, r, b, At(k, s) + 1) /\ Taken(p, b, r, k, s, x, n) = Offset(p, b, r, At(k, s) + 1)
    BY DonePlace
  <2> QED BY <2>1, <2>2, <1>2
<1> QED BY <1>3, <1>4 DEF Stays

\* returning from it
LEMMA ReturnStays ==
  ASSUME NEW p, NEW r, NEW k, NEW s, NEW x, NEW n, Place(p, r, k, s, x, n), x = Len(Plan(p, k, s, r)),
         s = Len(Stages(p[k])), NEW y, NEW v
  PROVE  Outside(p, r, k, 0) /\ Stays(p, r, k, s, x, n, k, 0, y, v)
<1>1. p \in Programs /\ r \in Ranks /\ k \in 1 .. MaxOps /\ MaxOps \in Nat
  BY CoboAssumption DEF Place
<1>2. Outside(p, r, k, 0)
  BY <1>1 DEF Outside
<1>4. ASSUME NEW b \in Ranks
      PROVE  /\ Written(p, r, b, k, 0, y, v) = Written(p, r, b, k, s, x, n)
             /\ Taken(p, b, r, k, 0, y, v) = Taken(p, b, r, k, s, x, n)
  <2>1. Written(p, r, b, k, 0, y, v) = Offset(p, r, b, At(k + 1, 1)) /\ Taken(p, b, r, k, 0, y, v) = Offset(p, b, r, At(k + 1, 1))
    BY DEF Written, Taken
  <2>2. Written(p, r, b, k, s, x, n) = Offset(p, r, b, At(k, s) + 1) /\ Taken(p, b, r, k, s, x, n) = Offset(p, b, r, At(k, s) + 1)
    BY DonePlace
  <2>3. /\ Offset(p, r, b, At(k, Len(Stages(p[k]))) + 1) = Offset(p, r, b, At(k + 1, 1))
        /\ Offset(p, b, r, At(k, Len(Stages(p[k]))) + 1) = Offset(p, b, r, At(k + 1, 1))
    BY <1>1, OffsetOfReturn
  <2> QED BY <2>1, <2>2, <2>3
<1> QED BY <1>2, <1>4 DEF Stays

-----------------------------------------------------------------------------
(* What a rank has in hand: its buffer and what is read or left to write   *)

Text(p, r, k, s, x, u) ==
  x < Len(Plan(p, k, s, r)) =>
    LET h == Plan(p, k, s, r)[x + 1] IN
    IF h.do = "read" THEN u = Cut(Msg(p, h.peer, r, At(k, s)), 0, Len(u))
    ELSE u = Cut(Msg(p, r, h.peer, At(k, s)), h.n - Len(u), h.n)

Local(p, r, k, s, x, q, u, b, c) ==
  /\ Place(p, r, k, s, x, Len(u))
  /\ q = Cut(Plan(p, k, s, r), x, Len(Plan(p, k, s, r))) /\ u \in Seq(Data)
  /\ Text(p, r, k, s, x, u) /\ Holds(p[k], k, s, r, x, b) /\ c = Count(p[k], s)

\* the next action is the first of those left
LEMMA Remaining ==
  ASSUME NEW q \in Seq(Acts), NEW x \in 0 .. Len(q), NEW w, w = Cut(q, x, Len(q))
  PROVE  /\ w \in Seq(Acts) /\ Len(w) = Len(q) - x /\ (w # <<>> <=> x < Len(q))
         /\ x < Len(q) => Head(w) = q[x + 1] /\ Tail(w) = Cut(q, x + 1, Len(q))
<1>0. PICK n \in Nat : n = Len(q)
  OBVIOUS
<1>1. x \in Nat /\ x <= Len(q) /\ Len(q) \in Nat
  BY <1>0
<1>2. IsCut(w, Acts, q, x, n)
  BY <1>0, <1>1, CutIs
<1>3. w \in Seq(Acts) /\ Len(w) = n - x
  BY <1>2 DEF IsCut
<1>4. x < n => w # <<>> /\ Head(w) = q[x + 1] /\ Tail(w) = Cut(q, x + 1, n)
  <2> HAVE x < n
  <2>1. x \in Nat /\ n \in Nat /\ x < n /\ n <= Len(q)
    BY <1>0, <1>1
  <2>2. Cut(q, x, n) # <<>> /\ Head(Cut(q, x, n)) = q[x + 1] /\ Tail(Cut(q, x, n)) = Cut(q, x + 1, n)
    BY <2>1, CutFirst
  <2> QED BY <1>0, <2>2
<1>5. ~(x < n) => w = <<>>
  <2> HAVE ~(x < n)
  <2>1. Len(w) = 0
    BY <1>0, <1>3
  <2> QED BY <2>1, <1>3
<1> QED BY <1>0, <1>1, <1>3, <1>4, <1>5

\* what Prepared puts aside is the message to be written
LEMMA PreparedIs ==
  ASSUME NEW p \in Programs, NEW r \in Ranks, NEW k \in 1 .. MaxOps, NEW s \in 1 .. Len(Stages(p[k])),
         NEW x \in 0 .. Len(Plan(p, k, s, r)), NEW b, Holds(p[k], k, s, r, x, b),
         NEW q, q = Cut(Plan(p, k, s, r), x, Len(Plan(p, k, s, r))), NEW u, u = Prepared(q, b)
  PROVE  u \in Seq(Data) /\ Fresh(Plan(p, k, s, r), x, Len(u)) /\ Text(p, r, k, s, x, u)
<1>1. PICK w : w = Plan(p, k, s, r)
  OBVIOUS
<1>2. PICK j : j = At(k, s)
  OBVIOUS
<1>8. Sound(w, p, r, j)
  BY <1>1, <1>2, PlanIsSound
<1>3. Sound(w, p, r, j) /\ w \in Seq(Acts)
  BY <1>8 DEF Sound
<1>4. PICK m \in Nat : m = Len(w)
  BY <1>3
<1>5. (q # <<>> <=> x < m) /\ (x < m => Head(q) = w[x + 1])
  BY <1>1, <1>3, <1>4, Remaining
<1>6. CASE x < m /\ w[x + 1].do = "write"
  <2>1. x + 1 \in 1 .. Len(w) /\ x \in Nat
    BY <1>1, <1>4, <1>6
  <2>2. ActIs(w, p, r, j, x + 1)
    BY <1>3, <2>1, ActFacts
  <2>3. PICK h : h = w[x + 1]
    OBVIOUS
  <2>4. Doing(p, k, s, r, x, h, b) /\ h.do = "write"
    BY <1>1, <1>4, <1>6, <2>1, <2>3 DEF Doing
  <2>5. Bytes(h, b) = Msg(p, r, h.peer, j)
    BY <1>2, <2>4, WriteKeeps DEF Sends
  <2>6. u = Bytes(h, b)
    BY <1>5, <1>6, <2>3 DEF Prepared, Bytes
  <2>7. h.peer \in Ranks /\ h.n = Len(Msg(p, r, h.peer, j)) /\ j \in Nat
    BY <1>2, <1>6, <2>2, <2>3, MadeAt DEF ActIs
  <2>8. u \in Seq(Data) /\ Len(u) = h.n
    BY <2>5, <2>6, <2>7, MsgIsData
  <2>9. u = Cut(u, h.n - Len(u), h.n)
    BY <2>8, CutAll
  <2>10. Fresh(w, x, Len(u))
    BY <1>4, <1>6, <2>3, <2>8 DEF Fresh
  <2>11. Text(p, r, k, s, x, u)
    BY <1>1, <1>2, <1>6, <2>3, <2>5, <2>6, <2>9 DEF Text
  <2> QED BY <1>1, <2>8, <2>10, <2>11
<1>7. CASE ~(x < m /\ w[x + 1].do = "write")
  <2>1. u = <<>>
    BY <1>5, <1>7 DEF Prepared
  <2>2. u \in Seq(Data) /\ Len(u) = 0
    BY <2>1
  <2>3. Fresh(w, x, Len(u))
    BY <1>4, <1>7, <2>2 DEF Fresh
  <2>4. Text(p, r, k, s, x, u)
    <3> SUFFICES ASSUME x < m PROVE w[x + 1].do = "read" /\ u = Cut(Msg(p, w[x + 1].peer, r, j), 0, Len(u))
      BY <1>1, <1>2, <1>4 DEF Text
    <3>1. x + 1 \in 1 .. Len(w) /\ x \in Nat
      BY <1>1, <1>4
    <3>2. ActIs(w, p, r, j, x + 1)
      BY <1>3, <3>1, ActFacts
    <3>3. w[x + 1].do = "read" /\ w[x + 1].peer \in Ranks
      BY <1>7, <3>2 DEF ActIs
    <3>4. PICK t \in Seq(Data) : t = Msg(p, w[x + 1].peer, r, j)
      <4>1. At(k, s) \in 0 .. End
        BY MadeAt
      <4>2. j \in Nat
        BY <4>1, <1>2, EndIsNat
      <4> QED BY <3>3, <4>2, MsgIsData
    <3>5. Cut(t, 0, 0) = <<>>
      BY CutNone
    <3> QED BY <2>1, <2>2, <3>3, <3>4, <3>5
  <2> QED BY <1>1, <2>2, <2>3, <2>4
<1> QED BY <1>6, <1>7

\* on entering a cobo_*_tree call all is as it must be
LEMMA StartLocal ==
  ASSUME NEW p \in Programs, NEW r \in Ranks, NEW k \in 1 .. MaxOps, NEW s \in 1 .. Len(Stages(p[k])),
         NEW b, Holds(p[k], k, s, r, 0, b), NEW q, q = Plan(p, k, s, r), NEW u, u = Prepared(q, b), NEW c, c = Count(p[k], s)
  PROVE  Local(p, r, k, s, 0, q, u, b, c) /\ Fresh(q, 0, Len(u))
<1>1. q \in Seq(Acts) /\ Len(q) \in Nat
  BY PlanIsSound DEF Sound
<1>2. q = Cut(q, 0, Len(q))
  BY <1>1, CutAll
<1>3. 0 \in 0 .. Len(q)
  BY <1>1
<1>4. u \in Seq(Data) /\ Fresh(Plan(p, k, s, r), 0, Len(u)) /\ Text(p, r, k, s, 0, u)
  BY <1>2, <1>3, PreparedIs
<1>5. Place(p, r, k, s, 0, Len(u))
  BY <1>4, StartFits
<1> QED BY <1>2, <1>4, <1>5 DEF Local

\* and so it is after a completed read or write
LEMMA AdvanceLocal ==
  ASSUME NEW p, NEW r, NEW k, NEW s, NEW x, NEW q, NEW u, NEW b, NEW c, Local(p, r, k, s, x, q, u, b, c), q # <<>>,
         NEW d, Holds(p[k], k, s, r, x + 1, d), NEW v, v = Prepared(Tail(q), d)
  PROVE  Local(p, r, k, s, x + 1, Tail(q), v, d, c) /\ Fresh(Plan(p, k, s, r), x + 1, Len(v))
<1>1. Place(p, r, k, s, x, Len(u)) /\ q = Cut(Plan(p, k, s, r), x, Len(Plan(p, k, s, r))) /\ c = Count(p[k], s)
  BY DEF Local
<1>2. /\ p \in Programs /\ r \in Ranks /\ k \in 1 .. MaxOps /\ s \in 1 .. Len(Stages(p[k]))
      /\ x \in 0 .. Len(Plan(p, k, s, r))
  BY <1>1 DEF Place
<1>3. PICK w \in Seq(Acts) : w = Plan(p, k, s, r)
  BY <1>2, PlanIsSound DEF Sound
<1>4. x < Len(w) /\ Tail(q) = Cut(w, x + 1, Len(w))
  BY <1>1, <1>2, <1>3, Remaining
<1>5. x + 1 \in 0 .. Len(w)
  BY <1>2, <1>3, <1>4
<1>6. v \in Seq(Data) /\ Fresh(w, x + 1, Len(v)) /\ Text(p, r, k, s, x + 1, v)
  BY <1>2, <1>3, <1>4, <1>5, PreparedIs
<1>7. Place(p, r, k, s, x + 1, Len(v))
  BY <1>1, <1>3, <1>4, <1>6, NextPlace
<1> QED BY <1>1, <1>3, <1>4, <1>6, <1>7 DEF Local

-----------------------------------------------------------------------------
(* Reading from a connection and writing to it                             *)

\* taking t elements from the stretch between x and y, and adding those to z
Parted(w, S, f, x, y, t) ==
  /\ w \in Seq(S) /\ Len(w) = y - x /\ x + t <= y
  /\ SubSeq(w, 1, t) = Cut(f, x, x + t) /\ SubSeq(w, t + 1, Len(w)) = Cut(f, x + t, y)

LEMMA TakeFrom ==
  ASSUME NEW S, NEW f \in Seq(S), NEW x \in Nat, NEW y \in Nat, x <= y, y <= Len(f), NEW w, w = Cut(f, x, y), NEW t \in Nat, t <= Len(w)
  PROVE  Parted(w, S, f, x, y, t)
<1>1. IsCut(w, S, f, x, y)
  BY CutIs
<1>2. w \in Seq(S) /\ Len(w) = y - x
  BY <1>1 DEF IsCut
<1>3. PICK m \in Nat : m = y - x /\ t <= m /\ x + m = y
  BY <1>2
<1>4. Cut(Cut(f, x, y), 0, t) = Cut(f, x + 0, x + t)
  BY <1>3, CutCut
<1>5. Cut(Cut(f, x, y), t, m) = Cut(f, x + t, x + m)
  BY <1>3, CutCut
<1>6. Cut(w, 0, t) = SubSeq(w, 1, t) /\ Cut(w, t, m) = SubSeq(w, t + 1, Len(w))
  <2>1. 0 + 1 = 1
    OBVIOUS
  <2> QED BY <2>1, <1>2, <1>3 DEF Cut
<1>7. x + 0 = x /\ x + t <= y
  BY <1>3
<1> QED BY <1>2, <1>3, <1>4, <1>5, <1>6, <1>7 DEF Parted

\* the message of a call as a stretch of all there is
PartOf(p, a, b, j, x, y, o) == Cut(Msg(p, a, b, j), x, y) = Cut(All(p, a, b), o + x, o + y)

LEMMA MsgPart ==
  ASSUME NEW p \in Programs, NEW a \in Ranks, NEW b \in Ranks, NEW j \in 0 .. End,
         NEW x \in Nat, NEW y \in Nat, x <= y, y <= Len(Msg(p, a, b, j)), NEW o, o = Offset(p, a, b, j)
  PROVE  PartOf(p, a, b, j, x, y, o)
<1>1. Offs(p, a, b, j)
  BY OffsetsAre
<1>2. PICK u \in Nat, v \in Nat, w \in Nat : u = Offset(p, a, b, j) /\ v = Offset(p, a, b, j + 1) /\ w = Len(Msg(p, a, b, j)) /\ v = u + w
  BY <1>1 DEF Offs
<1>3. PICK f \in Seq(Data) : f = All(p, a, b) /\ Len(f) = Offset(p, a, b, End + 1)
  BY AllIs
<1>4. v <= Len(f)
  <2>1. j + 1 \in 0 .. End + 1 /\ End + 1 \in 0 .. End + 1 /\ j + 1 <= End + 1
    BY EndIsNat
  <2> QED BY <2>1, <1>2, <1>3, OffsetGrows
<1>5. Msg(p, a, b, j) = Cut(f, u, v)
  BY <1>2, <1>3, MsgIsCut
<1>6. Cut(Cut(f, u, v), x, y) = Cut(f, u + x, u + y)
  <2>1. u <= v /\ y <= v - u
    BY <1>2
  <2> QED BY <2>1, <1>4, CutCut
<1> QED BY <1>2, <1>3, <1>5, <1>6 DEF PartOf

\* what is known of the first of the actions left
First(p, r, k, s, x, q, u, h, j) ==
  /\ p \in Programs /\ r \in Ranks /\ k \in 1 .. MaxOps /\ s \in 1 .. Len(Stages(p[k])) /\ j \in 0 .. End /\ j \in Nat
  /\ j = At(k, s) /\ s # 0 /\ x \in Nat /\ x < Len(Plan(p, k, s, r)) /\ h = Plan(p, k, s, r)[x + 1]
  /\ h.peer \in Ranks /\ <<r, h.peer>> \in Links /\ <<h.peer, r>> \in Links /\ h.n \in Nat
  /\ h.do = "read" \/ h.do = "write"
  /\ h.do = "read" => h.n = Len(Msg(p, h.peer, r, j)) /\ u = Cut(Msg(p, h.peer, r, j), 0, Len(u)) /\ Len(u) < h.n
  /\ h.do = "write" => h.n = Len(Msg(p, r, h.peer, j)) /\ u = Cut(Msg(p, r, h.peer, j), h.n - Len(u), h.n) /\ Len(u) > 0 /\ Len(u) <= h.n
  /\ h.do = "read" => Taken(p, h.peer, r, k, s, x, Len(u)) = Offset(p, h.peer, r, j) + Len(u)
  /\ h.do = "write" => Written(p, r, h.peer, k, s, x, Len(u)) = Offset(p, r, h.peer, j + 1) - Len(u)
  /\ u \in Seq(Data) /\ Len(u) \in Nat

\* the first of the actions left, and what is read or written of it so far
LEMMA FirstIs ==
  ASSUME NEW p, NEW r, NEW k, NEW s, NEW x, NEW q, NEW u, NEW b, NEW c, Local(p, r, k, s, x, q, u, b, c), q # <<>>, NEW h, h = Head(q)
  PROVE  First(p, r, k, s, x, q, u, h, At(k, s))
<1>1. Place(p, r, k, s, x, Len(u)) /\ Text(p, r, k, s, x, u) /\ u \in Seq(Data) /\ q = Cut(Plan(p, k, s, r), x, Len(Plan(p, k, s, r)))
  BY DEF Local
<1>2. PICK j, w, m : PlaceFacts(p, r, k, s, x, Len(u), j, w, m)
  BY <1>1, FactsOfPlace
<1>3. /\ p \in Programs /\ r \in Ranks /\ j \in 0 .. End /\ j \in Nat /\ j = At(k, s) /\ s # 0
      /\ w = Plan(p, k, s, r) /\ m = Len(w) /\ m \in Nat /\ x \in 0 .. m /\ w \in Seq(Acts) /\ Sound(w, p, r, j)
  BY <1>2 DEF PlaceFacts
<1>4. x < m /\ h = w[x + 1] /\ x \in Nat /\ x + 1 \in 1 .. Len(w)
  <2>1. x < m /\ h = w[x + 1]
    BY <1>1, <1>3, Remaining
  <2> QED BY <2>1, <1>3
<1>5. ActIs(w, p, r, j, x + 1)
  BY <1>3, <1>4, ActFacts
<1>6. /\ h.peer \in Ranks /\ <<r, h.peer>> \in Links /\ <<h.peer, r>> \in Links /\ h.n \in Nat
      /\ h.do = "read" \/ h.do = "write"
      /\ h.do = "read" => h.n = Len(Msg(p, h.peer, r, j))
      /\ h.do = "write" => h.n = Len(Msg(p, r, h.peer, j))
  BY <1>4, <1>5 DEF ActIs
<1>7. /\ h.do = "read" => u = Cut(Msg(p, h.peer, r, j), 0, Len(u)) /\ Len(u) < h.n
      /\ h.do = "write" => u = Cut(Msg(p, r, h.peer, j), h.n - Len(u), h.n) /\ Len(u) > 0 /\ Len(u) <= h.n
  BY <1>1, <1>3, <1>4 DEF Text, Place
<1>8. h.do = "read" => Taken(p, h.peer, r, k, s, x, Len(u)) = Offset(p, h.peer, r, j) + Len(u)
  <2> HAVE h.do = "read"
  <2>1. AtHand(w, x, "read", h.peer)
    BY <1>3, <1>4 DEF AtHand
  <2> QED BY <2>1, <1>3 DEF Taken
<1>9. h.do = "write" => Written(p, r, h.peer, k, s, x, Len(u)) = Offset(p, r, h.peer, j + 1) - Len(u)
  <2> HAVE h.do = "write"
  <2>1. AtHand(w, x, "write", h.peer)
    BY <1>3, <1>4 DEF AtHand
  <2> QED BY <2>1, <1>3 DEF Written
<1>10. k \in 1 .. MaxOps /\ s \in 1 .. Len(Stages(p[k])) /\ Len(u) \in Nat
  BY <1>1 DEF Place
<1> QED BY <1>1, <1>3, <1>4, <1>6, <1>7, <1>8, <1>9, <1>10 DEF First

\* it takes t items of what is on the way and has g of them then
Takes(p, r, k, s, x, q, u, h, j, T, W, in, t, g) ==
  /\ First(p, r, k, s, x, q, u, h, j) /\ h.do = "read"
  /\ T = Taken(p, h.peer, r, k, s, x, Len(u)) /\ W \in Nat /\ T <= W /\ W <= Len(All(p, h.peer, r))
  /\ in = Cut(All(p, h.peer, r), T, W) /\ t \in Nat /\ t <= Len(in) /\ t <= h.n - Len(u)
  /\ g = u \o SubSeq(in, 1, t)
HasTaken(p, r, u, h, j, T, W, in, t, g) ==
  /\ T \in Nat /\ T + t <= W /\ Len(in) = W - T
  /\ g \in Seq(Data) /\ Len(g) = Len(u) + t /\ g = Cut(Msg(p, h.peer, r, j), 0, Len(g))
  /\ SubSeq(in, t + 1, Len(in)) = Cut(All(p, h.peer, r), T + t, W)

\* the items taken are the next of the message that is being read
LEMMA ReadGives ==
  ASSUME NEW p, NEW r, NEW k, NEW s, NEW x, NEW q, NEW u, NEW h, NEW j, NEW T, NEW W, NEW in, NEW t, NEW g,
         Takes(p, r, k, s, x, q, u, h, j, T, W, in, t, g)
  PROVE  HasTaken(p, r, u, h, j, T, W, in, t, g)
<1>0. /\ First(p, r, k, s, x, q, u, h, j) /\ h.do = "read"
      /\ T = Taken(p, h.peer, r, k, s, x, Len(u)) /\ W \in Nat /\ T <= W /\ W <= Len(All(p, h.peer, r))
      /\ in = Cut(All(p, h.peer, r), T, W) /\ t \in Nat /\ t <= Len(in) /\ t <= h.n - Len(u)
      /\ g = u \o SubSeq(in, 1, t)
  BY DEF Takes
<1>1. /\ p \in Programs /\ r \in Ranks /\ j \in 0 .. End /\ h.peer \in Ranks
      /\ h.n = Len(Msg(p, h.peer, r, j)) /\ u = Cut(Msg(p, h.peer, r, j), 0, Len(u)) /\ Len(u) < h.n
      /\ Taken(p, h.peer, r, k, s, x, Len(u)) = Offset(p, h.peer, r, j) + Len(u)
      /\ u \in Seq(Data) /\ Len(u) \in Nat /\ h.n \in Nat
  BY <1>0 DEF First
<1>2. PICK f \in Seq(Data) : f = All(p, h.peer, r)
  BY <1>0, <1>1, AllIs
<1>3. PICK o \in Nat : o = Offset(p, h.peer, r, j)
  BY <1>0, <1>1, OffsetsAre DEF Offs
<1>4. PICK n \in Nat : n = Len(u)
  BY <1>0, <1>1
<1>5. T = o + n /\ T \in Nat
  BY <1>0, <1>1, <1>3, <1>4
<1>6. /\ in \in Seq(Data) /\ Len(in) = W - T /\ T + t <= W
      /\ SubSeq(in, 1, t) = Cut(f, T, T + t) /\ SubSeq(in, t + 1, Len(in)) = Cut(f, T + t, W)
  <2>1. T \in Nat /\ T <= W /\ W <= Len(f) /\ in = Cut(f, T, W) /\ t <= Len(in) /\ f \in Seq(Data)
    BY <1>0, <1>2, <1>5
  <2>2. Parted(in, Data, f, T, W, t)
    BY <1>0, <2>1, TakeFrom
  <2> QED BY <1>0, <2>2 DEF Parted
<1>7. n + t <= h.n
  BY <1>0, <1>1, <1>4
<1>8. u = Cut(f, o, T)
  <2>0. 0 \in Nat /\ 0 <= n /\ n <= Len(Msg(p, h.peer, r, j))
    BY <1>0, <1>1, <1>4, <1>7
  <2>3. PartOf(p, h.peer, r, j, 0, n, o)
    BY <1>0, <2>0, <1>1, <1>3, MsgPart
  <2>1. Cut(Msg(p, h.peer, r, j), 0, n) = Cut(f, o + 0, o + n)
    BY <1>0, <2>3, <1>2 DEF PartOf
  <2> QED BY <1>0, <2>1, <1>1, <1>4, <1>5
<1>9. Cut(Msg(p, h.peer, r, j), 0, n + t) = Cut(f, o, T + t)
  <2>0. 0 \in Nat /\ n + t \in Nat /\ 0 <= n + t /\ n + t <= Len(Msg(p, h.peer, r, j))
    BY <1>0, <1>1, <1>7
  <2>3. PartOf(p, h.peer, r, j, 0, n + t, o)
    BY <1>0, <2>0, <1>1, <1>3, MsgPart
  <2>1. Cut(Msg(p, h.peer, r, j), 0, n + t) = Cut(f, o + 0, o + (n + t))
    BY <1>0, <2>3, <1>2 DEF PartOf
  <2>2. o + 0 = o /\ o + (n + t) = T + t
    BY <1>0, <1>5
  <2> QED BY <1>0, <2>1, <2>2
<1>10. Cut(f, o, T) \o Cut(f, T, T + t) = Cut(f, o, T + t)
  <2>1. o <= T /\ T <= T + t /\ T + t <= Len(f) /\ T + t \in Nat
    BY <1>0, <1>2, <1>5, <1>6
  <2>2. PICK z \in Nat : z = T + t
    BY <2>1
  <2>3. Cut(f, o, T) \o Cut(f, T, z) = Cut(f, o, z)
    BY <2>1, <2>2, <1>5, CutJoin
  <2> QED BY <2>2, <2>3
<1>11. g = Cut(Msg(p, h.peer, r, j), 0, n + t)
  BY <1>0, <1>6, <1>8, <1>9, <1>10
<1>12. g \in Seq(Data) /\ Len(g) = n + t
  <2>1. IsCut(Cut(f, o, T + t), Data, f, o, T + t)
    <3>1. o <= T + t /\ T + t <= Len(f) /\ T + t \in Nat
      BY <1>0, <1>2, <1>5, <1>6
    <3> QED BY <1>0, <3>1, CutIs
  <2>2. (T + t) - o = n + t
    BY <1>0, <1>5
  <2> QED BY <1>0, <2>1, <2>2, <1>9, <1>11 DEF IsCut
<1> QED BY <1>0, <1>2, <1>4, <1>5, <1>6, <1>11, <1>12 DEF HasTaken

\* it writes t items of what is left, and v is left then
Puts(p, r, k, s, x, q, u, h, j, T, W, t, v) ==
  /\ First(p, r, k, s, x, q, u, h, j) /\ h.do = "write"
  /\ T \in Nat /\ W = Written(p, r, h.peer, k, s, x, Len(u)) /\ T <= W
  /\ t \in Nat /\ t <= Len(u) /\ v = SubSeq(u, t + 1, Len(u))
HasPut(p, r, u, h, j, T, W, t, v) ==
  /\ W \in Nat /\ W < Offset(p, r, h.peer, j + 1)
  /\ Cut(All(p, r, h.peer), T, W) \o SubSeq(u, 1, t) = Cut(All(p, r, h.peer), T, W + t)
  /\ v \in Seq(Data) /\ Len(v) = Len(u) - t /\ v = Cut(Msg(p, r, h.peer, j), h.n - Len(v), h.n)

\* the items written continue what is on the way
LEMMA WriteGives ==
  ASSUME NEW p, NEW r, NEW k, NEW s, NEW x, NEW q, NEW u, NEW h, NEW j, NEW T, NEW W, NEW t, NEW v,
         Puts(p, r, k, s, x, q, u, h, j, T, W, t, v)
  PROVE  HasPut(p, r, u, h, j, T, W, t, v)
<1>0. /\ First(p, r, k, s, x, q, u, h, j) /\ h.do = "write"
      /\ T \in Nat /\ W = Written(p, r, h.peer, k, s, x, Len(u)) /\ T <= W
      /\ t \in Nat /\ t <= Len(u) /\ v = SubSeq(u, t + 1, Len(u))
  BY DEF Puts
<1>1. /\ p \in Programs /\ r \in Ranks /\ j \in 0 .. End /\ h.peer \in Ranks
      /\ h.n = Len(Msg(p, r, h.peer, j)) /\ u = Cut(Msg(p, r, h.peer, j), h.n - Len(u), h.n) /\ Len(u) > 0 /\ Len(u) <= h.n
      /\ Written(p, r, h.peer, k, s, x, Len(u)) = Offset(p, r, h.peer, j + 1) - Len(u)
      /\ u \in Seq(Data) /\ Len(u) \in Nat /\ h.n \in Nat
  BY <1>0 DEF First
<1>2. PICK f \in Seq(Data) : f = All(p, r, h.peer) /\ Len(f) = Offset(p, r, h.peer, End + 1)
  BY <1>0, <1>1, AllIs
<1>3. Offs(p, r, h.peer, j)
  BY <1>0, <1>1, OffsetsAre
<1>4. PICK n \in Nat, m \in Nat : n = Len(u) /\ m = h.n /\ n > 0 /\ n <= m
  BY <1>0, <1>1
<1>5. PICK o \in Nat, e \in Nat : o = Offset(p, r, h.peer, j) /\ e = Offset(p, r, h.peer, j + 1) /\ e = o + m
  BY <1>0, <1>1, <1>3, <1>4 DEF Offs
<1>14. W = e - n
  BY <1>0, <1>1, <1>4, <1>5
<1>15. PICK d \in Nat : d = m - n /\ m = d + n
  <2>1. m - n \in Nat /\ m = (m - n) + n
    <3>1. n <= m
      BY <1>4
    <3> QED BY <3>1
  <2> QED BY <2>1, Zenon
<1>16. e = o + (d + n)
  BY <1>5, <1>15
<1>6. W \in Nat /\ W = o + d /\ W < e /\ W + n = e /\ W <= e
  BY <1>4, <1>14, <1>16
<1>7. e <= Len(f)
  <2>1. j + 1 \in 0 .. End + 1 /\ End + 1 \in 0 .. End + 1 /\ j + 1 <= End + 1
    BY <1>0, <1>1, EndIsNat
  <2> QED BY <1>0, <2>1, <1>1, <1>2, <1>5, OffsetGrows
<1>8. u = Cut(f, W, e)
  <2>1. d <= m /\ m <= Len(Msg(p, r, h.peer, j))
    BY <1>0, <1>1, <1>4, <1>15
  <2>3. PartOf(p, r, h.peer, j, d, m, o)
    BY <1>0, <2>1, <1>1, <1>5, MsgPart
  <2>2. Cut(Msg(p, r, h.peer, j), d, m) = Cut(f, o + d, o + m)
    BY <1>0, <2>3, <1>2 DEF PartOf
  <2> QED BY <1>0, <2>2, <1>1, <1>4, <1>5, <1>6, <1>15
<1>9. /\ SubSeq(u, 1, t) = Cut(f, W, W + t) /\ SubSeq(u, t + 1, Len(u)) = Cut(f, W + t, e) /\ W + t <= e
  <2>1. f \in Seq(Data) /\ W \in Nat /\ W <= e /\ e <= Len(f) /\ u = Cut(f, W, e) /\ t <= Len(u)
    BY <1>0, <1>6, <1>7, <1>8
  <2>2. Parted(u, Data, f, W, e, t)
    BY <1>0, <2>1, TakeFrom
  <2> QED BY <1>0, <2>2 DEF Parted
<1>10. Cut(f, T, W) \o Cut(f, W, W + t) = Cut(f, T, W + t)
  <2>1. W <= W + t /\ W + t <= Len(f) /\ W + t \in Nat
    BY <1>0, <1>6, <1>7, <1>9
  <2> QED BY <1>0, <2>1, <1>6, CutJoin
<1>11. v = SubSeq(u, t + 1, Len(u))
  BY <1>0
<1>12. v \in Seq(Data) /\ Len(v) = n - t
  <2>1. IsCut(Cut(f, W + t, e), Data, f, W + t, e)
    <3>1. W + t \in Nat
      BY <1>0, <1>6
    <3> QED BY <1>0, <3>1, <1>7, <1>9, CutIs
  <2>2. e - (W + t) = n - t
    BY <1>0, <1>6
  <2> QED BY <1>0, <2>1, <2>2, <1>9, <1>11 DEF IsCut
<1>13. v = Cut(Msg(p, r, h.peer, j), m - (n - t), m)
  <2>4. t <= n
    BY <1>0, <1>4
  <2>7. d + t \in Nat /\ d + t = m - (n - t) /\ d + t <= m
    BY <1>0, <2>4, <1>15
  <2>5. PICK y \in Nat : y = d + t /\ y = m - (n - t) /\ y <= m
    BY <1>0, <2>7
  <2>1. y <= m /\ m <= Len(Msg(p, r, h.peer, j))
    BY <1>0, <2>5, <1>1, <1>4
  <2>6. PartOf(p, r, h.peer, j, y, m, o)
    BY <1>0, <2>1, <1>1, <1>5, MsgPart
  <2>2. Cut(Msg(p, r, h.peer, j), y, m) = Cut(f, o + y, o + m)
    BY <1>0, <2>6, <1>2 DEF PartOf
  <2>3. o + y = W + t
    BY <1>0, <2>5, <1>6
  <2> QED BY <1>0, <2>2, <2>3, <2>5, <1>5, <1>9, <1>11
<1> QED BY <1>0, <1>2, <1>4, <1>5, <1>6, <1>9, <1>10, <1>11, <1>12, <1>13 DEF HasPut


-----------------------------------------------------------------------------
(* The state                                                               *)

Where(r) == Len(Plan(prog, called[r], stage[r], r)) - Len(io[r])

\* what a has written to b, and what b has read of it
Sent(a, b) == Written(prog, a, b, called[a], stage[a], Where(a), Len(part[a]))
Got(a, b) == Taken(prog, a, b, called[b], stage[b], Where(b), Len(part[b]))

HasHeard(r, j) == Heard(prog, r, called[r], stage[r], Where(r), j)

Results == {Promise!Result(op, k, r) : op \in AllOps, k \in 1 .. MaxOps, r \in Ranks}

Types ==
  /\ prog \in Programs /\ called \in [Ranks -> 0 .. MaxOps] /\ stage \in [Ranks -> 0 .. 4]
  /\ st \in [Ranks -> {"up", "closed", "gone"}] /\ deaths \in Nat /\ res \in [Ranks -> Seq(Results)]
  /\ DOMAIN io = Ranks /\ DOMAIN part = Ranks /\ DOMAIN buf = Ranks /\ DOMAIN cnt = Ranks
  /\ chan \in [Links -> Seq(Data)]

\* between calls, or at a place within one
Within(r) ==
  IF stage[r] = 0 THEN io[r] = <<>> /\ Outside(prog, r, called[r], stage[r])
  ELSE Local(prog, r, called[r], stage[r], Where(r), io[r], part[r], buf[r], cnt[r])

Returned(r) == Len(res[r]) = IF stage[r] = 0 THEN called[r] ELSE called[r] - 1
Out(r) == st[r] = "closed" => stage[r] = 0 /\ called[r] = MaxOps

\* whose data the messages of number j bring rank r
Sources(r, j) ==
  IF KindOf(prog, j) \in Upwards THEN Sub(r)
  ELSE IF prog[CallOf(j)] \in {"bcast", "scatter"} THEN {0} ELSE Ranks
\* who has read the messages of a number knows that their sources are in the call
Informed(r, j) == \A q \in Sources(r, j) : called[q] >= CallOf(j)
Knows(r) == \A j \in 0 .. End : Made(prog, j) /\ HasHeard(r, j) => Informed(r, j)

\* what is on the way is the stretch of all there is between the two ends
Flow(a, b) ==
  /\ st[b] # "gone" => Got(a, b) <= Sent(a, b)
  /\ st[b] = "up" => chan[<<a, b>>] = Cut(All(prog, a, b), Got(a, b), Sent(a, b))

Quiet == deaths = 0 => reset = {} /\ \A r \in Ranks : st[r] # "gone"

Inv ==
  /\ Types
  /\ \A r \in Ranks : Within(r) /\ Returned(r) /\ Out(r) /\ Knows(r)
  /\ \A a \in Ranks, b \in Ranks : <<a, b>> \in Links => Flow(a, b)
  /\ Quiet

\* how much of it there is
Fits(r) == \A b \in Ranks : /\ Sent(r, b) \in Nat /\ Sent(r, b) <= Len(All(prog, r, b))
                            /\ Got(b, r) \in Nat /\ Got(b, r) <= Len(All(prog, b, r))
                            /\ Len(All(prog, r, b)) \in Nat /\ Len(All(prog, b, r)) \in Nat
IsSomewhere(r) == Somewhere(prog, r, called[r], stage[r], Where(r), Len(part[r]))

\* a rank has written and read no more than there is
LEMMA WithinFits ==
  ASSUME NEW r \in Ranks, Within(r)
  PROVE  IsSomewhere(r) /\ Fits(r)
<1>1. IsSomewhere(r)
  BY DEF Within, Local, Somewhere, IsSomewhere
<1>2. Fits(r)
  BY <1>1, SomewhereFits DEF Fits, Sent, Got, IsSomewhere
<1> QED BY <1>1, <1>2

\* nothing happens to a rank; nothing the others see of it
Keeps(q) == /\ called'[q] = called[q] /\ stage'[q] = stage[q] /\ io'[q] = io[q] /\ part'[q] = part[q]
            /\ buf'[q] = buf[q] /\ cnt'[q] = cnt[q]
Same(q) == \A b \in Ranks : Sent(q, b)' = Sent(q, b) /\ Got(b, q)' = Got(b, q)

\* a rank that does nothing stays where it is
LEMMA KeptIsSame ==
  ASSUME prog' = prog, NEW q \in Ranks, Keeps(q)
  PROVE  /\ Same(q) /\ (Within(q) => Within(q)')
         /\ \A j \in 0 .. End : HasHeard(q, j)' <=> HasHeard(q, j)
<1>1. Where(q)' = Where(q)
  BY DEF Where, Keeps
<1>2. Same(q)
  BY <1>1 DEF Same, Sent, Got, Keeps
<1>3. Within(q) => Within(q)'
  BY <1>1 DEF Within, Keeps
<1>4. \A j \in 0 .. End : HasHeard(q, j)' <=> HasHeard(q, j)
  BY <1>1 DEF HasHeard, Keeps
<1> QED BY <1>2, <1>3, <1>4

-----------------------------------------------------------------------------
(* From one call to the next                                               *)

\* a rank enters a cobo_*_tree call
Entered(r, k, s, c) ==
  /\ stage'[r] = s /\ cnt'[r] = c /\ io'[r] = Script(prog[k], s, r, c)
  /\ buf'[r] = Loaded(prog[k], s, k, r, c, buf[r]) /\ part'[r] = Prepared(io'[r], buf'[r])
Domains == DOMAIN io' = Ranks /\ DOMAIN part' = Ranks /\ DOMAIN buf' = Ranks /\ DOMAIN cnt' = Ranks /\ DOMAIN stage' = Ranks
Others(r) == \A q \in Ranks : q # r => /\ stage'[q] = stage[q] /\ io'[q] = io[q] /\ part'[q] = part[q]
                                       /\ buf'[q] = buf[q] /\ cnt'[q] = cnt[q]

\* what Begin does to the rank, and to the others
LEMMA BeginIs ==
  ASSUME Types, NEW r \in Ranks, NEW k, NEW s, NEW c, Begin(r, k, s, c)
  PROVE  Entered(r, k, s, c) /\ Domains /\ Others(r)
<1>1. /\ DOMAIN io = Ranks /\ DOMAIN part = Ranks /\ DOMAIN buf = Ranks /\ DOMAIN cnt = Ranks /\ DOMAIN stage = Ranks
  BY DEF Types
<1>2. PICK q : q = Script(prog[k], s, r, c)
  OBVIOUS
<1>3. PICK b : b = Loaded(prog[k], s, k, r, c, buf[r])
  OBVIOUS
<1>4. PICK u : u = Prepared(q, b)
  OBVIOUS
<1>5. /\ stage' = [stage EXCEPT ![r] = s] /\ cnt' = [cnt EXCEPT ![r] = c] /\ io' = [io EXCEPT ![r] = q]
      /\ buf' = [buf EXCEPT ![r] = b] /\ part' = [part EXCEPT ![r] = u]
  BY <1>2, <1>3, <1>4, Zenon DEF Begin
<1>6. Domains /\ Others(r)
  BY <1>1, <1>5 DEF Domains, Others
<1>7. stage'[r] = s /\ cnt'[r] = c /\ io'[r] = q /\ buf'[r] = b /\ part'[r] = u
  BY <1>1, <1>5
<1>8. Entered(r, k, s, c)
  BY <1>2, <1>3, <1>4, <1>7 DEF Entered
<1> QED BY <1>6, <1>8

\* rank r moves, and the others see nothing of it
Silent(r) ==
  /\ Within(r)' /\ Same(r) /\ Others(r) /\ Domains
  /\ prog' = prog /\ st' = st /\ deaths' = deaths /\ chan' = chan /\ reset' = reset

\* the rank enters the next collective
LEMMA CallMoves ==
  ASSUME Types, NEW r \in Ranks, Within(r), Call(r)
  PROVE  /\ Silent(r) /\ stage[r] = 0 /\ stage'[r] = 1 /\ called[r] < MaxOps /\ called'[r] = called[r] + 1
         /\ \A q \in Ranks : q # r => called'[q] = called[q]
         /\ called' \in [Ranks -> 0 .. MaxOps] /\ res' = res /\ Len(prog) = MaxOps
<1>1. PICK k, p : k = called[r] /\ p = prog
  OBVIOUS
<1>2. /\ p \in Programs /\ k \in 0 .. MaxOps /\ MaxOps \in Nat /\ called \in [Ranks -> 0 .. MaxOps]
  BY <1>1, CoboAssumption DEF Types
<1>3. Len(prog) = MaxOps
  <2>1. p \in [1 .. MaxOps -> Ops]
    BY <1>2 DEF Programs
  <2>2. p \in Seq(Ops) /\ Len(p) = MaxOps
    BY <2>1, <1>2
  <2> QED BY <2>2, <1>1
<1>4. /\ stage[r] = 0 /\ k < MaxOps /\ called' = [called EXCEPT ![r] = k + 1] /\ Begin(r, k + 1, 1, 1)
      /\ prog' = p /\ res' = res /\ st' = st /\ deaths' = deaths /\ chan' = chan /\ reset' = reset
  BY <1>1, <1>3 DEF Call
<1>5. called'[r] = k + 1 /\ (\A q \in Ranks : q # r => called'[q] = called[q]) /\ called' \in [Ranks -> 0 .. MaxOps]
  BY <1>2, <1>4
<1>6. Entered(r, k + 1, 1, 1) /\ Domains /\ Others(r)
  BY <1>4, BeginIs
<1>7. Outside(p, r, k, 0)
  BY <1>1, <1>4 DEF Within
<1>8. k + 1 \in 1 .. MaxOps
  BY <1>2, <1>4
<1>9. PICK op \in AllOps : op = p[k + 1]
  BY <1>2, <1>8, OpsAreKnown
<1>10. PICK q, b, u : q = io'[r] /\ b = buf'[r] /\ u = part'[r]
  OBVIOUS
<1>11. Holds(p[k + 1], k + 1, 1, r, 0, b) /\ Count(p[k + 1], 1) = 1
  <2>1. b = Loaded(op, 1, k + 1, r, 1, buf[r])
    BY <1>1, <1>6, <1>9, <1>10 DEF Entered
  <2> QED BY <2>1, <1>8, <1>9, FirstLoaded
<1>12. q = Plan(p, k + 1, 1, r) /\ u = Prepared(q, b)
  BY <1>1, <1>6, <1>10, <1>11 DEF Entered, Plan
<1>13. 1 \in 1 .. Len(Stages(p[k + 1]))
  <2>1. Len(Stages(op)) \in 1 .. 4
    BY StagesFit, Zenon
  <2>2. PICK m \in 1 .. 4 : m = Len(Stages(op))
    BY <2>1
  <2>3. 1 \in 1 .. m
    OBVIOUS
  <2> QED BY <2>2, <2>3, <1>9
<1>14. Local(p, r, k + 1, 1, 0, q, u, b, 1) /\ Fresh(Plan(p, k + 1, 1, r), 0, Len(u))
  BY <1>2, <1>8, <1>11, <1>12, <1>13, StartLocal
<1>15. Where(r)' = 0
  <2>1. Len(q) \in Nat
    BY <1>2, <1>8, <1>12, <1>13, PlanIsSound DEF Sound
  <2>2. Where(r)' = Len(Plan(p, k + 1, 1, r)) - Len(q)
    BY <1>4, <1>5, <1>6, <1>10 DEF Where, Entered
  <2> QED BY <2>1, <2>2, <1>12
<1>16. Within(r)'
  <2>1. stage'[r] = 1 /\ stage'[r] # 0 /\ cnt'[r] = 1
    BY <1>6 DEF Entered
  <2>2. Local(prog', r, called'[r], stage'[r], Where(r)', io'[r], part'[r], buf'[r], cnt'[r])
    BY <2>1, <1>4, <1>5, <1>10, <1>14, <1>15
  <2> QED BY <2>1, <2>2 DEF Within
<1>17. Same(r)
  <2>1. PICK x, n : x = Where(r) /\ n = Len(part[r])
    OBVIOUS
  <2>2. Stays(p, r, k, 0, x, n, k + 1, 1, 0, Len(u))
    BY <1>4, <1>7, <1>14, CallStays
  <2>3. stage'[r] = 1
    BY <1>6 DEF Entered
  <2>4. ASSUME NEW b2 \in Ranks
        PROVE  /\ Sent(r, b2)' = Written(p, r, b2, k + 1, 1, 0, Len(u)) /\ Sent(r, b2) = Written(p, r, b2, k, 0, x, n)
               /\ Got(b2, r)' = Taken(p, b2, r, k + 1, 1, 0, Len(u)) /\ Got(b2, r) = Taken(p, b2, r, k, 0, x, n)
    BY <2>1, <2>3, <1>1, <1>4, <1>5, <1>10, <1>15 DEF Sent, Got
  <2> QED BY <2>2, <2>4 DEF Stays, Same
<1>18. stage'[r] = 1
  BY <1>6 DEF Entered
<1> QED BY <1>1, <1>3, <1>4, <1>5, <1>6, <1>16, <1>17, <1>18 DEF Silent

\* a rank that has done all of a cobo_*_tree call
LEMMA AllDone ==
  ASSUME NEW p, NEW r, NEW k, NEW s, NEW x, NEW q, NEW u, NEW b, NEW c, Local(p, r, k, s, x, q, u, b, c), q = <<>>
  PROVE  x = Len(Plan(p, k, s, r)) /\ Place(p, r, k, s, x, Len(u)) /\ Through(p, k, s, r, b) /\ c = Count(p[k], s)
<1>1. /\ p \in Programs /\ r \in Ranks /\ k \in 1 .. MaxOps /\ s \in 1 .. Len(Stages(p[k])) /\ Place(p, r, k, s, x, Len(u))
      /\ x \in 0 .. Len(Plan(p, k, s, r)) /\ Holds(p[k], k, s, r, x, b) /\ c = Count(p[k], s)
      /\ q = Cut(Plan(p, k, s, r), x, Len(Plan(p, k, s, r)))
  BY DEF Local, Place
<1>2. PICK w \in Seq(Acts) : w = Plan(p, k, s, r)
  BY <1>1, PlanIsSound DEF Sound
<1>3. ~(x < Len(w))
  BY <1>1, <1>2, Remaining
<1>4. x = Len(w)
  BY <1>1, <1>2, <1>3
<1> QED BY <1>1, <1>2, <1>4 DEF Through

\* the rank enters the next cobo_*_tree call of its collective
LEMMA TreeMoves ==
  ASSUME Types, NEW r \in Ranks, Within(r), NextTree(r)
  PROVE  /\ Silent(r) /\ stage[r] # 0 /\ stage'[r] = stage[r] + 1 /\ stage[r] + 1 \in 1 .. 4
         /\ called' = called /\ res' = res
<1>1. PICK k, p, s, x : k = called[r] /\ p = prog /\ s = stage[r] /\ x = Where(r)
  OBVIOUS
<1>2. PICK b, v : b = buf[r] /\ v = part[r]
  OBVIOUS
<1>3. PICK c : c = IF p[k] = "allgather_str" /\ s = 2 THEN b[1] ELSE cnt[r]
  OBVIOUS
<1>4. /\ s # 0 /\ io[r] = <<>> /\ s < Len(Stages(p[k])) /\ Begin(r, k, s + 1, c)
      /\ prog' = prog /\ called' = called /\ res' = res /\ st' = st /\ deaths' = deaths /\ chan' = chan /\ reset' = reset
  <2>1. Begin(r, called[r], stage[r] + 1, IF cur(r) = "allgather_str" /\ stage[r] = 2 THEN buf[r][1] ELSE cnt[r])
    BY DEF NextTree
  <2>2. Begin(r, k, s + 1, c)
    BY <2>1, <1>1, <1>2, <1>3 DEF cur
  <2>3. s # 0 /\ io[r] = <<>> /\ s < Len(Stages(p[k]))
    BY <1>1 DEF NextTree, Busy, cur
  <2>4. prog' = prog /\ called' = called /\ res' = res /\ st' = st /\ deaths' = deaths /\ chan' = chan /\ reset' = reset
    BY DEF NextTree, abstract
  <2> QED BY <2>2, <2>3, <2>4
<1>5. Local(p, r, k, s, x, io[r], v, b, cnt[r])
  BY <1>1, <1>2, <1>4 DEF Within
<1>6. x = Len(Plan(p, k, s, r)) /\ Place(p, r, k, s, x, Len(v)) /\ Through(p, k, s, r, b) /\ cnt[r] = Count(p[k], s)
  BY <1>4, <1>5, AllDone
<1>7. p \in Programs /\ k \in 1 .. MaxOps /\ s \in 1 .. Len(Stages(p[k])) /\ Len(Stages(p[k])) \in 1 .. 4
  <2>1. p \in Programs /\ k \in 1 .. MaxOps /\ s \in 1 .. Len(Stages(p[k]))
    BY <1>6 DEF Through
  <2>2. p[k] \in AllOps
    BY <2>1, OpsAreKnown
  <2>3. Len(Stages(p[k])) \in 1 .. 4
    BY <2>2, StagesFit
  <2> QED BY <2>1, <2>3
<1>8. PICK t : t = s + 1 /\ t \in 1 .. Len(Stages(p[k])) /\ t \in 1 .. 4 /\ t # 0
  <2>1. PICK m \in 1 .. 4 : m = Len(Stages(p[k]))
    BY <1>7
  <2>4. PICK n \in 1 .. m : n = s /\ n < m
    BY <2>1, <1>4, <1>7
  <2>2. s + 1 \in 1 .. m /\ s + 1 \in 1 .. 4 /\ s + 1 # 0
    BY <2>4
  <2>3. s + 1 \in 1 .. Len(Stages(p[k]))
    BY <2>1, <2>2
  <2> QED BY <2>2, <2>3, Zenon
<1>9. /\ c = Count(p[k], t)
      /\ Holds(p[k], k, t, r, 0, Loaded(p[k], t, k, r, Count(p[k], t), b))
  <2>1. /\ (IF p[k] = "allgather_str" /\ s = 2 THEN b[1] ELSE Count(p[k], s)) = Count(p[k], t)
        /\ Holds(p[k], k, t, r, 0, Loaded(p[k], t, k, r, Count(p[k], t), b))
    BY <1>4, <1>6, <1>8, NextLoaded
  <2> QED BY <2>1, <1>3, <1>6
<1>10. Entered(r, k, t, c) /\ Domains /\ Others(r)
  BY <1>4, <1>8, BeginIs
<1>11. PICK q, d, u : q = io'[r] /\ d = buf'[r] /\ u = part'[r]
  OBVIOUS
<1>12. q = Plan(p, k, t, r) /\ u = Prepared(q, d) /\ Holds(p[k], k, t, r, 0, d)
  BY <1>1, <1>2, <1>9, <1>10, <1>11 DEF Entered, Plan
<1>13. Local(p, r, k, t, 0, q, u, d, c) /\ Fresh(q, 0, Len(u))
  BY <1>7, <1>8, <1>9, <1>12, StartLocal
<1>14. stage'[r] = t /\ cnt'[r] = c /\ called'[r] = k
  BY <1>1, <1>4, <1>10 DEF Entered
<1>15. Where(r)' = 0
  <2>1. Len(q) \in Nat
    BY <1>7, <1>8, <1>12, PlanIsSound DEF Sound
  <2>2. Where(r)' = Len(Plan(p, k, t, r)) - Len(q)
    BY <1>1, <1>4, <1>11, <1>14 DEF Where
  <2> QED BY <2>1, <2>2, <1>12
<1>16. Within(r)'
  <2>1. Local(prog', r, called'[r], stage'[r], Where(r)', io'[r], part'[r], buf'[r], cnt'[r]) /\ stage'[r] # 0
    BY <1>1, <1>4, <1>8, <1>11, <1>13, <1>14, <1>15
  <2> QED BY <2>1 DEF Within
<1>17. Same(r)
  <2>1. Fresh(Plan(p, k, t, r), 0, Len(u))
    BY <1>12, <1>13
  <2>2. Stays(p, r, k, s, x, Len(v), k, t, 0, Len(u))
    BY <2>1, <1>4, <1>6, <1>8, TreeStays
  <2>4. ASSUME NEW b2 \in Ranks
        PROVE  /\ Sent(r, b2)' = Written(p, r, b2, k, t, 0, Len(u)) /\ Sent(r, b2) = Written(p, r, b2, k, s, x, Len(v))
               /\ Got(b2, r)' = Taken(p, b2, r, k, t, 0, Len(u)) /\ Got(b2, r) = Taken(p, b2, r, k, s, x, Len(v))
    BY <1>1, <1>2, <1>4, <1>11, <1>14, <1>15 DEF Sent, Got
  <2> QED BY <2>2, <2>4 DEF Stays, Same
<1> QED BY <1>1, <1>4, <1>8, <1>10, <1>14, <1>16, <1>17 DEF Silent

\* the rank returns with what it is promised
LEMMA ReturnMoves ==
  ASSUME Types, NEW r \in Ranks, Within(r), Return(r)
  PROVE  /\ Silent(r) /\ stage[r] # 0 /\ stage'[r] = 0 /\ called' = called
         /\ called[r] \in 1 .. MaxOps /\ stage[r] = Len(Stages(prog[called[r]])) /\ Where(r) = Len(Plan(prog, called[r], stage[r], r))
         /\ res' = [res EXCEPT ![r] = Append(@, Promise!Result(prog[called[r]], called[r], r))]
<1>1. PICK k, p, s, x : k = called[r] /\ p = prog /\ s = stage[r] /\ x = Where(r)
  OBVIOUS
<1>2. PICK b, v : b = buf[r] /\ v = part[r]
  OBVIOUS
<1>3. /\ s # 0 /\ io[r] = <<>> /\ s = Len(Stages(p[k])) /\ stage' = [stage EXCEPT ![r] = 0]
      /\ res' = [res EXCEPT ![r] = Append(@, Received(p[k], r, b))]
      /\ prog' = prog /\ called' = called /\ st' = st /\ deaths' = deaths /\ chan' = chan /\ reset' = reset
      /\ io' = io /\ part' = part /\ buf' = buf /\ cnt' = cnt
  BY <1>1, <1>2 DEF Return, Busy, cur
<1>4. Local(p, r, k, s, x, io[r], v, b, cnt[r])
  BY <1>1, <1>2, <1>3 DEF Within
<1>5. x = Len(Plan(p, k, s, r)) /\ Place(p, r, k, s, x, Len(v)) /\ Through(p, k, s, r, b)
  BY <1>3, <1>4, AllDone
<1>6. k \in 1 .. MaxOps
  BY <1>5 DEF Through
<1>7. Received(p[k], r, b) = Promise!Result(p[k], k, r)
  BY <1>3, <1>5, LastMeans
<1>8. stage'[r] = 0 /\ Others(r) /\ Domains
  BY <1>3 DEF Types, Others, Domains
<1>9. PICK y : y = Where(r)'
  OBVIOUS
<1>10. Outside(p, r, k, 0) /\ Stays(p, r, k, s, x, Len(v), k, 0, y, Len(v))
  BY <1>3, <1>5, ReturnStays
<1>11. Within(r)'
  <2>1. stage'[r] = 0 /\ io'[r] = <<>> /\ Outside(prog', r, called'[r], stage'[r])
    BY <1>1, <1>3, <1>8, <1>10
  <2> QED BY <2>1 DEF Within
<1>12. Same(r)
  <2>4. ASSUME NEW b2 \in Ranks
        PROVE  /\ Sent(r, b2)' = Written(p, r, b2, k, 0, y, Len(v)) /\ Sent(r, b2) = Written(p, r, b2, k, s, x, Len(v))
               /\ Got(b2, r)' = Taken(p, b2, r, k, 0, y, Len(v)) /\ Got(b2, r) = Taken(p, b2, r, k, s, x, Len(v))
    BY <1>1, <1>2, <1>3, <1>8, <1>9 DEF Sent, Got
  <2> QED BY <1>10, <2>4 DEF Stays, Same
<1> QED BY <1>1, <1>3, <1>5, <1>6, <1>7, <1>8, <1>11, <1>12 DEF Silent

-----------------------------------------------------------------------------
(* One pass of the loops of cobo_read_fd and cobo_write_fd                 *)

\* with t items more g is read of the first action h
Reading(p, r, k, s, x, q, u, b, c, h, t, g) ==
  /\ Local(p, r, k, s, x, q, u, b, c) /\ q # <<>> /\ h = Head(q) /\ h.do = "read" /\ t \in Nat
  /\ g \in Seq(Data) /\ Len(g) = Len(u) + t /\ Len(g) <= h.n /\ g = Cut(Msg(p, h.peer, r, At(k, s)), 0, Len(g))

\* with t items more w is left to write of it
Writing(p, r, k, s, x, q, u, b, c, h, t, w) ==
  /\ Local(p, r, k, s, x, q, u, b, c) /\ q # <<>> /\ h = Head(q) /\ h.do = "write" /\ t \in Nat /\ t <= Len(u)
  /\ w \in Seq(Data) /\ Len(w) = Len(u) - t /\ w = Cut(Msg(p, r, h.peer, At(k, s)), h.n - Len(w), h.n)

\* a read that is not complete
LEMMA ReadOn ==
  ASSUME NEW p, NEW r, NEW k, NEW s, NEW x, NEW q, NEW u, NEW b, NEW c, NEW h, NEW t, NEW g,
         Reading(p, r, k, s, x, q, u, b, c, h, t, g), Len(g) # h.n
  PROVE  Local(p, r, k, s, x, q, g, b, c) /\ Moved(p, r, k, s, x, Len(u), x, Len(g), t, "read")
<1>1. /\ Local(p, r, k, s, x, q, u, b, c) /\ q # <<>> /\ h = Head(q) /\ h.do = "read" /\ t \in Nat
      /\ g \in Seq(Data) /\ Len(g) = Len(u) + t /\ Len(g) <= h.n /\ g = Cut(Msg(p, h.peer, r, At(k, s)), 0, Len(g))
  BY DEF Reading
<1>2. First(p, r, k, s, x, q, u, h, At(k, s))
  BY <1>1, FirstIs
<1>3. x < Len(Plan(p, k, s, r)) /\ h = Plan(p, k, s, r)[x + 1] /\ h.n \in Nat
  BY <1>2 DEF First
<1>4. Len(g) < h.n
  <2>1. PICK n \in Nat : n = Len(g)
    BY <1>1
  <2> QED BY <1>1, <1>3, <2>1
<1>5. Place(p, r, k, s, x, Len(u)) /\ q = Cut(Plan(p, k, s, r), x, Len(Plan(p, k, s, r))) /\ Holds(p[k], k, s, r, x, b) /\ c = Count(p[k], s)
  BY <1>1 DEF Local
<1>6. Goes(p, r, k, s, x, Len(u), x, Len(g), t, "read")
  <2>1. Len(u) + t < h.n
    BY <1>1, <1>4
  <2> QED BY <2>1, <1>1, <1>3, <1>5 DEF Goes
<1>7. Moved(p, r, k, s, x, Len(u), x, Len(g), t, "read")
  BY <1>6, Going
<1>8. Place(p, r, k, s, x, Len(g))
  BY <1>7 DEF Moved
<1>9. Text(p, r, k, s, x, g)
  BY <1>1, <1>3 DEF Text
<1> QED BY <1>1, <1>5, <1>7, <1>8, <1>9 DEF Local

\* a read that is complete with this pass
LEMMA ReadToTheEnd ==
  ASSUME NEW p, NEW r, NEW k, NEW s, NEW x, NEW q, NEW u, NEW b, NEW c, NEW h, NEW t, NEW g,
         Reading(p, r, k, s, x, q, u, b, c, h, t, g), Len(g) = h.n,
         NEW d, d = Absorbed(Stages(p[k])[s], b, g), NEW v, v = Prepared(Tail(q), d)
  PROVE  Local(p, r, k, s, x + 1, Tail(q), v, d, c) /\ Moved(p, r, k, s, x, Len(u), x + 1, Len(v), t, "read")
<1>1. /\ Local(p, r, k, s, x, q, u, b, c) /\ q # <<>> /\ h = Head(q) /\ h.do = "read" /\ t \in Nat
      /\ g \in Seq(Data) /\ Len(g) = Len(u) + t /\ Len(g) <= h.n /\ g = Cut(Msg(p, h.peer, r, At(k, s)), 0, Len(g))
  BY DEF Reading
<1>2. First(p, r, k, s, x, q, u, h, At(k, s))
  BY <1>1, FirstIs
<1>3. /\ x < Len(Plan(p, k, s, r)) /\ h = Plan(p, k, s, r)[x + 1] /\ h.n \in Nat /\ x \in Nat /\ h.peer \in Ranks
      /\ p \in Programs /\ r \in Ranks /\ k \in 1 .. MaxOps /\ s \in 1 .. Len(Stages(p[k])) /\ At(k, s) \in Nat
      /\ h.n = Len(Msg(p, h.peer, r, At(k, s)))
  BY <1>1, <1>2 DEF First
<1>4. g = Msg(p, h.peer, r, At(k, s))
  <2>1. PICK m \in Seq(Data) : m = Msg(p, h.peer, r, At(k, s))
    BY <1>3, MsgIsData
  <2>2. Cut(m, 0, Len(m)) = m
    BY CutAll
  <2> QED BY <2>1, <2>2, <1>1, <1>3
<1>5. Place(p, r, k, s, x, Len(u)) /\ Holds(p[k], k, s, r, x, b) /\ c = Count(p[k], s)
  BY <1>1 DEF Local
<1>6. Doing(p, k, s, r, x, h, b)
  BY <1>3, <1>5 DEF Doing
<1>7. Holds(p[k], k, s, r, x + 1, d)
  <2>1. Gets(p, k, s, r, x, h, b)
    BY <1>1, <1>6, ReadKeeps
  <2> QED BY <2>1, <1>4 DEF Gets
<1>8. Local(p, r, k, s, x + 1, Tail(q), v, d, c) /\ Fresh(Plan(p, k, s, r), x + 1, Len(v))
  BY <1>1, <1>7, AdvanceLocal
<1>9. Goes(p, r, k, s, x, Len(u), x + 1, Len(v), t, "read")
  <2>1. Len(u) + t = h.n
    BY <1>1
  <2> QED BY <2>1, <1>1, <1>3, <1>5, <1>8 DEF Goes
<1> QED BY <1>8, <1>9, Going

\* a write that is not complete
LEMMA WriteOn ==
  ASSUME NEW p, NEW r, NEW k, NEW s, NEW x, NEW q, NEW u, NEW b, NEW c, NEW h, NEW t, NEW w,
         Writing(p, r, k, s, x, q, u, b, c, h, t, w), t # Len(u)
  PROVE  Local(p, r, k, s, x, q, w, b, c) /\ Moved(p, r, k, s, x, Len(u), x, Len(w), t, "write")
<1>1. /\ Local(p, r, k, s, x, q, u, b, c) /\ q # <<>> /\ h = Head(q) /\ h.do = "write" /\ t \in Nat /\ t <= Len(u)
      /\ w \in Seq(Data) /\ Len(w) = Len(u) - t /\ w = Cut(Msg(p, r, h.peer, At(k, s)), h.n - Len(w), h.n)
  BY DEF Writing
<1>2. First(p, r, k, s, x, q, u, h, At(k, s))
  BY <1>1, FirstIs
<1>3. x < Len(Plan(p, k, s, r)) /\ h = Plan(p, k, s, r)[x + 1] /\ h.n \in Nat /\ Len(u) \in Nat
  BY <1>2 DEF First
<1>4. t < Len(u)
  BY <1>1, <1>3
<1>5. Place(p, r, k, s, x, Len(u)) /\ q = Cut(Plan(p, k, s, r), x, Len(Plan(p, k, s, r))) /\ Holds(p[k], k, s, r, x, b) /\ c = Count(p[k], s)
  BY <1>1 DEF Local
<1>6. Goes(p, r, k, s, x, Len(u), x, Len(w), t, "write")
  BY <1>1, <1>3, <1>4, <1>5 DEF Goes
<1>7. Moved(p, r, k, s, x, Len(u), x, Len(w), t, "write")
  BY <1>6, Going
<1>8. Place(p, r, k, s, x, Len(w))
  BY <1>7 DEF Moved
<1>9. Text(p, r, k, s, x, w)
  BY <1>1, <1>3 DEF Text
<1> QED BY <1>1, <1>5, <1>7, <1>8, <1>9 DEF Local

\* a write that is complete with this pass
LEMMA WriteToTheEnd ==
  ASSUME NEW p, NEW r, NEW k, NEW s, NEW x, NEW q, NEW u, NEW b, NEW c, NEW h, NEW t, NEW w,
         Writing(p, r, k, s, x, q, u, b, c, h, t, w), t = Len(u), NEW v, v = Prepared(Tail(q), b)
  PROVE  Local(p, r, k, s, x + 1, Tail(q), v, b, c) /\ Moved(p, r, k, s, x, Len(u), x + 1, Len(v), t, "write")
<1>1. /\ Local(p, r, k, s, x, q, u, b, c) /\ q # <<>> /\ h = Head(q) /\ h.do = "write" /\ t \in Nat
  BY DEF Writing
<1>2. First(p, r, k, s, x, q, u, h, At(k, s))
  BY <1>1, FirstIs
<1>3. /\ x < Len(Plan(p, k, s, r)) /\ h = Plan(p, k, s, r)[x + 1] /\ h.n \in Nat /\ x \in Nat
      /\ p \in Programs /\ r \in Ranks /\ k \in 1 .. MaxOps /\ s \in 1 .. Len(Stages(p[k]))
  BY <1>1, <1>2 DEF First
<1>5. Place(p, r, k, s, x, Len(u)) /\ Holds(p[k], k, s, r, x, b) /\ c = Count(p[k], s)
  BY <1>1 DEF Local
<1>6. Doing(p, k, s, r, x, h, b)
  BY <1>3, <1>5 DEF Doing
<1>7. Holds(p[k], k, s, r, x + 1, b)
  <2>1. Sends(p, k, s, r, x, h, b)
    BY <1>1, <1>6, WriteKeeps
  <2> QED BY <2>1 DEF Sends
<1>8. Local(p, r, k, s, x + 1, Tail(q), v, b, c) /\ Fresh(Plan(p, k, s, r), x + 1, Len(v))
  BY <1>1, <1>7, AdvanceLocal
<1>9. Goes(p, r, k, s, x, Len(u), x + 1, Len(v), t, "write")
  BY <1>1, <1>3, <1>5, <1>8 DEF Goes
<1> QED BY <1>8, <1>9, Going

\* the lengths tell the place
LEMMA WhereIs ==
  ASSUME NEW p, NEW r, NEW k, NEW s, NEW x, NEW q, NEW u, NEW b, NEW c, Local(p, r, k, s, x, q, u, b, c)
  PROVE  Len(Plan(p, k, s, r)) - Len(q) = x
<1>1. /\ p \in Programs /\ r \in Ranks /\ k \in 1 .. MaxOps /\ s \in 1 .. Len(Stages(p[k]))
      /\ x \in 0 .. Len(Plan(p, k, s, r)) /\ q = Cut(Plan(p, k, s, r), x, Len(Plan(p, k, s, r)))
  BY DEF Local, Place
<1>2. PICK w \in Seq(Acts) : w = Plan(p, k, s, r)
  BY <1>1, PlanIsSound DEF Sound
<1>3. PICK m \in Nat : m = Len(w)
  OBVIOUS
<1>4. Len(q) = Len(w) - x
  BY <1>1, <1>2, Remaining
<1>5. x \in 0 .. m
  BY <1>1, <1>2, <1>3
<1> QED BY <1>2, <1>3, <1>4, <1>5

\* the variables of rank r after a pass: how much it moved the others know,
\* and the rest is its own
Passed(r, q, u, b) == io'[r] = q /\ part'[r] = u /\ buf'[r] = b /\ cnt'[r] = cnt[r]
Unchanged == /\ prog' = prog /\ called' = called /\ res' = res /\ st' = st /\ deaths' = deaths /\ stage' = stage
             /\ cnt' = cnt

PassedTo(r, y, q, u, b, t, what, e) ==
  /\ r \in Ranks /\ Unchanged /\ stage[r] # 0 /\ Passed(r, q, u, b)
  /\ Local(prog, r, called[r], stage[r], y, q, u, b, cnt[r])
  /\ Moved(prog, r, called[r], stage[r], Where(r), Len(part[r]), y, Len(u), t, what)
  /\ e = Plan(prog, called[r], stage[r], r)[Where(r) + 1].peer
Seen(r, t, what, e) ==
  /\ Within(r)'
  /\ \A a \in Ranks : /\ Sent(r, a)' = Sent(r, a) + (IF what = "write" /\ a = e THEN t ELSE 0)
                      /\ Got(a, r)' = Got(a, r) + (IF what = "read" /\ a = e THEN t ELSE 0)

LEMMA PassedMeans ==
  ASSUME NEW r, NEW y, NEW q, NEW u, NEW b, NEW t, NEW what, NEW e, PassedTo(r, y, q, u, b, t, what, e)
  PROVE  Seen(r, t, what, e)
<1>0. /\ r \in Ranks /\ Unchanged /\ stage[r] # 0 /\ Passed(r, q, u, b)
      /\ Local(prog, r, called[r], stage[r], y, q, u, b, cnt[r])
      /\ Moved(prog, r, called[r], stage[r], Where(r), Len(part[r]), y, Len(u), t, what)
      /\ e = Plan(prog, called[r], stage[r], r)[Where(r) + 1].peer
  BY DEF PassedTo
<1>1. Len(Plan(prog, called[r], stage[r], r)) - Len(q) = y
  BY <1>0, WhereIs
<1>2. Where(r)' = y
  BY <1>0, <1>1 DEF Where, Unchanged, Passed
<1>3. Within(r)'
  BY <1>0, <1>2 DEF Within, Unchanged, Passed
<1>4. \A a \in Ranks : /\ Sent(r, a)' = Written(prog, r, a, called[r], stage[r], y, Len(u))
                       /\ Got(a, r)' = Taken(prog, a, r, called[r], stage[r], y, Len(u))
  BY <1>0, <1>2 DEF Sent, Got, Unchanged, Passed
<1>5. \A a \in Ranks : /\ Sent(r, a) = Written(prog, r, a, called[r], stage[r], Where(r), Len(part[r]))
                       /\ Got(a, r) = Taken(prog, a, r, called[r], stage[r], Where(r), Len(part[r]))
  BY DEF Sent, Got
<1> QED BY <1>0, <1>3, <1>4, <1>5 DEF Moved, Seen

\* r has taken t items from the connection with c
ReadFrom(r, c, t) ==
  /\ Within(r)' /\ Others(r) /\ Domains /\ Unchanged /\ reset' = reset
  /\ c \in Ranks /\ <<c, r>> \in Links /\ t \in Nat /\ Got(c, r) + t <= Sent(c, r)
  /\ \A a \in Ranks : Sent(r, a)' = Sent(r, a) /\ Got(a, r)' = Got(a, r) + (IF a = c THEN t ELSE 0)
  /\ chan' = [chan EXCEPT ![<<c, r>>] = Cut(All(prog, c, r), Got(c, r) + t, Sent(c, r))]

\* cobo_read_fd takes items of the one connection it reads from
LEMMA ReadMoves ==
  ASSUME Inv, NEW r \in Ranks, cobo_read_fd(r)
  PROVE  \E c, t : ReadFrom(r, c, t)
<1>1. PICK k, p, s, x : k = called[r] /\ p = prog /\ s = stage[r] /\ x = Where(r)
  OBVIOUS
<1>2. PICK b, u, q : b = buf[r] /\ u = part[r] /\ q = io[r]
  OBVIOUS
<1>3. PICK h, c : h = Head(q) /\ c = h.peer
  OBVIOUS
<1>4. PICK in : in = chan[<<c, r>>]
  OBVIOUS
<1>5. PICK t : t = IF Len(in) < h.n - Len(u) THEN Len(in) ELSE h.n - Len(u)
  OBVIOUS
<1>6. PICK g : g = u \o SubSeq(in, 1, t)
  OBVIOUS
<1>7. /\ st[r] = "up" /\ s # 0 /\ q # <<>> /\ h.do = "read"
      /\ Unchanged /\ reset' = reset
      /\ chan' = [chan EXCEPT ![<<c, r>>] = SubSeq(@, t + 1, Len(@))]
      /\ IF Len(g) = h.n
         THEN Advance(r, Absorbed(Stages(p[k])[s], b, g))
         ELSE part' = [part EXCEPT ![r] = g] /\ io' = io /\ buf' = buf
  <2>1. Current(r, "read") /\ UNCHANGED <<abstract, stage, cnt, reset>>
    BY DEF cobo_read_fd
  <2>2. st[r] = "up" /\ s # 0 /\ q # <<>> /\ h.do = "read"
    <3>1. Up(r) /\ stage[r] > 0 /\ io[r] # <<>> /\ Head(io[r]).do = "read"
      BY <2>1 DEF Current, Busy
    <3>2. stage[r] # 0
      BY <3>1
    <3> QED BY <3>1, <3>2, <1>1, <1>2, <1>3 DEF Up
  <2>3. Unchanged /\ reset' = reset
    BY <2>1 DEF Unchanged, abstract
  <2>4. /\ chan' = [chan EXCEPT ![<<c, r>>] = SubSeq(@, t + 1, Len(@))]
        /\ IF Len(g) = h.n
           THEN Advance(r, Absorbed(Stages(p[k])[s], b, g))
           ELSE part' = [part EXCEPT ![r] = g] /\ io' = io /\ buf' = buf
    BY <1>1, <1>2, <1>3, <1>4, <1>5, <1>6, Zenon DEF cobo_read_fd, cur
  <2> QED BY <2>2, <2>3, <2>4
<1>8. Types /\ Within(r)
  BY DEF Inv
<1>9. Local(p, r, k, s, x, q, u, b, cnt[r])
  BY <1>1, <1>2, <1>7, <1>8 DEF Within
<1>10. First(p, r, k, s, x, q, u, h, At(k, s))
  BY <1>3, <1>7, <1>9, FirstIs
<1>11. /\ c \in Ranks /\ <<c, r>> \in Links /\ h.n \in Nat /\ Len(u) \in Nat /\ Len(u) < h.n
       /\ h = Plan(p, k, s, r)[x + 1]
  BY <1>3, <1>7, <1>10 DEF First
<1>12. PICK T, W : T = Got(c, r) /\ W = Sent(c, r)
  OBVIOUS
<1>13. W \in Nat /\ T <= W /\ W <= Len(All(p, c, r)) /\ in = Cut(All(p, c, r), T, W) /\ T \in Nat
  <2>1. Within(c) /\ Flow(c, r)
    BY <1>11 DEF Inv
  <2>2. Fits(c) /\ Fits(r)
    BY <1>8, <1>11, <2>1, WithinFits
  <2> QED BY <1>1, <1>4, <1>7, <1>11, <1>12, <2>1, <2>2 DEF Flow, Fits
<1>14. in \in Seq(Data)
  BY <1>4, <1>8, <1>11 DEF Types
<1>15. t \in Nat /\ t <= Len(in) /\ t <= h.n - Len(u)
  BY <1>5, <1>11, <1>14
<1>16. T = Taken(p, h.peer, r, k, s, x, Len(u)) /\ in = Cut(All(p, h.peer, r), T, W) /\ W <= Len(All(p, h.peer, r))
  BY <1>1, <1>2, <1>3, <1>12, <1>13 DEF Got
<1>17. /\ T + t <= W
       /\ g \in Seq(Data) /\ Len(g) = Len(u) + t /\ g = Cut(Msg(p, h.peer, r, At(k, s)), 0, Len(g))
       /\ SubSeq(in, t + 1, Len(in)) = Cut(All(p, h.peer, r), T + t, W)
  <2>1. Takes(p, r, k, s, x, q, u, h, At(k, s), T, W, in, t, g)
    BY <1>6, <1>7, <1>10, <1>13, <1>15, <1>16 DEF Takes
  <2>2. HasTaken(p, r, u, h, At(k, s), T, W, in, t, g)
    BY <2>1, ReadGives
  <2> QED BY <2>2 DEF HasTaken
<1>18. Reading(p, r, k, s, x, q, u, b, cnt[r], h, t, g)
  <2>1. Len(g) <= h.n
    BY <1>11, <1>15, <1>17
  <2> QED BY <2>1, <1>3, <1>7, <1>9, <1>15, <1>17 DEF Reading
<1>19. chan' = [chan EXCEPT ![<<c, r>>] = Cut(All(p, c, r), T + t, W)]
  BY <1>3, <1>4, <1>7, <1>17
<1>20. Types
  BY <1>8
<1>21. Others(r) /\ Domains /\ Seen(r, t, "read", c)
  <2>1. CASE Len(g) # h.n
    <3>1. part' = [part EXCEPT ![r] = g] /\ io' = io /\ buf' = buf /\ cnt' = cnt /\ stage' = stage
      BY <1>7, <2>1 DEF Unchanged
    <3>2. Passed(r, q, g, b) /\ Others(r) /\ Domains
      BY <1>2, <1>8, <3>1 DEF Passed, Others, Domains, Types
    <3>3. Local(p, r, k, s, x, q, g, b, cnt[r]) /\ Moved(p, r, k, s, x, Len(u), x, Len(g), t, "read")
      BY <1>18, <2>1, ReadOn
    <3>4. /\ Local(prog, r, called[r], stage[r], x, q, g, b, cnt[r])
          /\ Moved(prog, r, called[r], stage[r], Where(r), Len(part[r]), x, Len(g), t, "read")
          /\ c = Plan(prog, called[r], stage[r], r)[Where(r) + 1].peer /\ stage[r] # 0
      BY <1>1, <1>2, <1>3, <1>7, <1>11, <3>3
    <3>8. PassedTo(r, x, q, g, b, t, "read", c)
      BY <1>7, <3>2, <3>4 DEF PassedTo
    <3> QED BY <3>2, <3>8, PassedMeans
  <2>2. CASE Len(g) = h.n
    <3>1. PICK d : d = Absorbed(Stages(p[k])[s], b, g)
      OBVIOUS
    <3>2. PICK v : v = Prepared(Tail(q), d)
      OBVIOUS
    <3>3. io' = [io EXCEPT ![r] = Tail(@)] /\ buf' = [buf EXCEPT ![r] = d] /\ part' = [part EXCEPT ![r] = v] /\ cnt' = cnt /\ stage' = stage
      BY <1>2, <1>7, <2>2, <3>1, <3>2 DEF Unchanged, Advance
    <3>4. Passed(r, Tail(q), v, d) /\ Others(r) /\ Domains
      BY <1>2, <1>8, <3>3 DEF Passed, Others, Domains, Types
    <3>5. Local(p, r, k, s, x + 1, Tail(q), v, d, cnt[r]) /\ Moved(p, r, k, s, x, Len(u), x + 1, Len(v), t, "read")
      BY <1>18, <2>2, <3>1, <3>2, ReadToTheEnd
    <3>6. PICK y, q2 : y = x + 1 /\ q2 = Tail(q)
      OBVIOUS
    <3>7. /\ Local(prog, r, called[r], stage[r], y, q2, v, d, cnt[r]) /\ Passed(r, q2, v, d)
          /\ Moved(prog, r, called[r], stage[r], Where(r), Len(part[r]), y, Len(v), t, "read")
          /\ c = Plan(prog, called[r], stage[r], r)[Where(r) + 1].peer /\ stage[r] # 0
      BY <1>1, <1>2, <1>3, <1>7, <1>11, <3>4, <3>5, <3>6
    <3>8. PassedTo(r, y, q2, v, d, t, "read", c)
      BY <1>7, <3>4, <3>7 DEF PassedTo
    <3> QED BY <3>4, <3>8, PassedMeans
  <2> QED BY <2>1, <2>2
<1>22. \A a \in Ranks : Sent(r, a) \in Nat
  <2>1. Fits(r)
    BY <1>8, WithinFits
  <2> QED BY <2>1 DEF Fits
<1>23. \A a \in Ranks : Sent(r, a)' = Sent(r, a) /\ Got(a, r)' = Got(a, r) + (IF a = c THEN t ELSE 0)
  BY <1>21, <1>22 DEF Seen
<1>24. ReadFrom(r, c, t)
  BY <1>1, <1>7, <1>11, <1>12, <1>15, <1>17, <1>19, <1>21, <1>23 DEF ReadFrom, Seen
<1> QED BY <1>24

\* r has written t items to c, which takes them if it is up
WroteTo(r, c, t) ==
  /\ Within(r)' /\ Others(r) /\ Domains /\ Unchanged
  /\ c \in Ranks /\ <<r, c>> \in Links /\ t \in Nat /\ Sent(r, c) < Len(All(prog, r, c))
  /\ \A a \in Ranks : Sent(r, a)' = Sent(r, a) + (IF a = c THEN t ELSE 0) /\ Got(a, r)' = Got(a, r)
  /\ IF st[c] = "up"
     THEN /\ chan' = [chan EXCEPT ![<<r, c>>] = Cut(All(prog, r, c), Got(r, c), Sent(r, c) + t)]
          /\ reset' = reset
     ELSE chan' = chan

\* cobo_write_fd adds items to the one connection it writes to
LEMMA WriteMoves ==
  ASSUME Inv, NEW r \in Ranks, cobo_write_fd(r)
  PROVE  \E c, t : WroteTo(r, c, t)
<1>1. PICK k, p, s, x : k = called[r] /\ p = prog /\ s = stage[r] /\ x = Where(r)
  OBVIOUS
<1>2. PICK b, u, q : b = buf[r] /\ u = part[r] /\ q = io[r]
  OBVIOUS
<1>3. PICK h, c : h = Head(q) /\ c = h.peer
  OBVIOUS
<1>4. PICK out : out = chan[<<r, c>>]
  OBVIOUS
<1>5. PICK room : room = Room - Len(out)
  OBVIOUS
<1>6. PICK t : t = IF st[c] = "up" /\ room < Len(u) THEN room ELSE Len(u)
  OBVIOUS
<1>7. /\ s # 0 /\ q # <<>> /\ h.do = "write" /\ t > 0
      /\ Unchanged
      /\ IF st[c] = "up"
         THEN chan' = [chan EXCEPT ![<<r, c>>] = @ \o SubSeq(u, 1, t)] /\ reset' = reset
         ELSE chan' = chan
      /\ IF t = Len(u)
         THEN Advance(r, b)
         ELSE part' = [part EXCEPT ![r] = SubSeq(@, t + 1, Len(@))] /\ io' = io /\ buf' = buf
  <2>1. Current(r, "write") /\ UNCHANGED <<abstract, stage, cnt>>
    BY DEF cobo_write_fd
  <2>2. s # 0 /\ q # <<>> /\ h.do = "write"
    <3>1. Up(r) /\ stage[r] > 0 /\ io[r] # <<>> /\ Head(io[r]).do = "write"
      BY <2>1 DEF Current, Busy
    <3>2. stage[r] # 0
      BY <3>1
    <3> QED BY <3>1, <3>2, <1>1, <1>2, <1>3
  <2>3. Unchanged
    BY <2>1 DEF Unchanged, abstract
  <2>4. /\ t > 0
        /\ IF st[c] = "up"
           THEN chan' = [chan EXCEPT ![<<r, c>>] = @ \o SubSeq(u, 1, t)] /\ reset' = reset
           ELSE chan' = chan
        /\ IF t = Len(u)
           THEN Advance(r, b)
           ELSE part' = [part EXCEPT ![r] = SubSeq(@, t + 1, Len(@))] /\ io' = io /\ buf' = buf
    BY <1>2, <1>3, <1>4, <1>5, <1>6, Zenon DEF cobo_write_fd
  <2> QED BY <2>2, <2>3, <2>4
<1>8. Types /\ Within(r)
  BY DEF Inv
<1>9. Local(p, r, k, s, x, q, u, b, cnt[r])
  BY <1>1, <1>2, <1>7, <1>8 DEF Within
<1>10. First(p, r, k, s, x, q, u, h, At(k, s))
  BY <1>3, <1>7, <1>9, FirstIs
<1>11. /\ c \in Ranks /\ <<r, c>> \in Links /\ h.n \in Nat /\ Len(u) \in Nat /\ Len(u) > 0
       /\ h = Plan(p, k, s, r)[x + 1] /\ p \in Programs /\ At(k, s) \in 0 .. End
  BY <1>3, <1>7, <1>10 DEF First
<1>12. PICK T0, W : T0 = Got(r, c) /\ W = Sent(r, c)
  OBVIOUS
<1>13. /\ W \in Nat /\ T0 \in Nat
       /\ st[c] = "up" => T0 <= W /\ out = Cut(All(p, r, c), T0, W)
  <2>1. Within(c) /\ Flow(r, c)
    BY <1>11 DEF Inv
  <2>2. Fits(c) /\ Fits(r)
    BY <1>8, <1>11, <2>1, WithinFits
  <2>3. W \in Nat /\ T0 \in Nat
    BY <2>2, <1>8, <1>11, <1>12 DEF Fits
  <2>4. st[c] = "up" => T0 <= W /\ out = Cut(All(p, r, c), T0, W)
    BY <1>1, <1>4, <1>12, <2>1 DEF Flow
  <2> QED BY <2>3, <2>4
<1>14. PICK T : T = IF st[c] = "up" THEN T0 ELSE W
  OBVIOUS
<1>15. T \in Nat /\ T <= W
  BY <1>13, <1>14
<1>16. t \in Nat /\ t <= Len(u)
  <2>1. out \in Seq(Data)
    BY <1>4, <1>8, <1>11 DEF Types
  <2>2. room \in Int
    BY <2>1, <1>5, CoboAssumption
  <2> QED BY <2>2, <1>6, <1>7, <1>11
<1>17. PICK w : w = SubSeq(u, t + 1, Len(u))
  OBVIOUS
<1>18. W = Written(p, r, h.peer, k, s, x, Len(u))
  BY <1>1, <1>2, <1>3, <1>12 DEF Sent
<1>19. HasPut(p, r, u, h, At(k, s), T, W, t, w)
  <2>1. Puts(p, r, k, s, x, q, u, h, At(k, s), T, W, t, w)
    BY <1>7, <1>10, <1>15, <1>16, <1>17, <1>18 DEF Puts
  <2> QED BY <2>1, WriteGives
<1>20. /\ W < Offset(p, r, c, At(k, s) + 1)
       /\ Cut(All(p, r, c), T, W) \o SubSeq(u, 1, t) = Cut(All(p, r, c), T, W + t)
       /\ w \in Seq(Data) /\ Len(w) = Len(u) - t /\ w = Cut(Msg(p, r, h.peer, At(k, s)), h.n - Len(w), h.n)
  BY <1>3, <1>19 DEF HasPut
<1>21. Writing(p, r, k, s, x, q, u, b, cnt[r], h, t, w)
  BY <1>3, <1>7, <1>9, <1>16, <1>20 DEF Writing
<1>22. IF st[c] = "up"
       THEN chan' = [chan EXCEPT ![<<r, c>>] = Cut(All(p, r, c), T0, W + t)] /\ reset' = reset
       ELSE chan' = chan
  <2> SUFFICES ASSUME st[c] = "up"
               PROVE  chan' = [chan EXCEPT ![<<r, c>>] = Cut(All(p, r, c), T0, W + t)] /\ reset' = reset
    BY <1>7
  <2>1. T = T0 /\ out \o SubSeq(u, 1, t) = Cut(All(p, r, c), T0, W + t)
    BY <1>13, <1>14, <1>20
  <2> QED BY <2>1, <1>4, <1>7
<1>23. W < Len(All(p, r, c))
  <2>1. PICK j \in 0 .. End : j = At(k, s)
    BY <1>11
  <2>2. j + 1 \in 0 .. End + 1 /\ End + 1 \in 0 .. End + 1 /\ j + 1 <= End + 1
    BY EndIsNat
  <2>3. PICK o \in Nat, e \in Nat : o = Offset(p, r, c, j + 1) /\ e = Offset(p, r, c, End + 1) /\ o <= e
    BY <2>2, <1>11, OffsetGrows
  <2>4. Len(All(p, r, c)) = e
    BY <2>3, <1>11, AllIs
  <2>5. W < o
    BY <2>1, <2>3, <1>20
  <2> QED BY <2>3, <2>4, <2>5, <1>13
<1>24. Others(r) /\ Domains /\ Seen(r, t, "write", c)
  <2>1. CASE t # Len(u)
    <3>1. part' = [part EXCEPT ![r] = w] /\ io' = io /\ buf' = buf /\ cnt' = cnt /\ stage' = stage
      BY <1>2, <1>7, <1>17, <2>1 DEF Unchanged
    <3>2. Passed(r, q, w, b) /\ Others(r) /\ Domains
      BY <1>2, <1>8, <3>1 DEF Passed, Others, Domains, Types
    <3>3. Local(p, r, k, s, x, q, w, b, cnt[r]) /\ Moved(p, r, k, s, x, Len(u), x, Len(w), t, "write")
      BY <1>21, <2>1, WriteOn
    <3>4. /\ Local(prog, r, called[r], stage[r], x, q, w, b, cnt[r])
          /\ Moved(prog, r, called[r], stage[r], Where(r), Len(part[r]), x, Len(w), t, "write")
          /\ c = Plan(prog, called[r], stage[r], r)[Where(r) + 1].peer /\ stage[r] # 0
      BY <1>1, <1>2, <1>3, <1>7, <1>11, <3>3
    <3>5. PassedTo(r, x, q, w, b, t, "write", c)
      BY <1>7, <3>2, <3>4 DEF PassedTo
    <3> QED BY <3>2, <3>5, PassedMeans
  <2>2. CASE t = Len(u)
    <3>2. PICK v : v = Prepared(Tail(q), b)
      OBVIOUS
    <3>3. io' = [io EXCEPT ![r] = Tail(@)] /\ buf' = [buf EXCEPT ![r] = b] /\ part' = [part EXCEPT ![r] = v] /\ cnt' = cnt /\ stage' = stage
      BY <1>2, <1>7, <2>2, <3>2 DEF Unchanged, Advance
    <3>4. Passed(r, Tail(q), v, b) /\ Others(r) /\ Domains
      BY <1>2, <1>8, <3>3 DEF Passed, Others, Domains, Types
    <3>5. Local(p, r, k, s, x + 1, Tail(q), v, b, cnt[r]) /\ Moved(p, r, k, s, x, Len(u), x + 1, Len(v), t, "write")
      BY <1>21, <2>2, <3>2, WriteToTheEnd
    <3>6. PICK y, q2 : y = x + 1 /\ q2 = Tail(q)
      OBVIOUS
    <3>7. /\ Local(prog, r, called[r], stage[r], y, q2, v, b, cnt[r]) /\ Passed(r, q2, v, b)
          /\ Moved(prog, r, called[r], stage[r], Where(r), Len(part[r]), y, Len(v), t, "write")
          /\ c = Plan(prog, called[r], stage[r], r)[Where(r) + 1].peer /\ stage[r] # 0
      BY <1>1, <1>2, <1>3, <1>7, <1>11, <3>4, <3>5, <3>6
    <3>8. PassedTo(r, y, q2, v, b, t, "write", c)
      BY <1>7, <3>4, <3>7 DEF PassedTo
    <3> QED BY <3>4, <3>8, PassedMeans
  <2> QED BY <2>1, <2>2
<1>25. \A a \in Ranks : Got(a, r) \in Nat
  <2>1. Fits(r)
    BY <1>8, WithinFits
  <2> QED BY <2>1 DEF Fits
<1>26. \A a \in Ranks : Sent(r, a)' = Sent(r, a) + (IF a = c THEN t ELSE 0) /\ Got(a, r)' = Got(a, r)
  BY <1>24, <1>25 DEF Seen
<1>27. WroteTo(r, c, t)
  BY <1>1, <1>7, <1>11, <1>12, <1>16, <1>22, <1>23, <1>24, <1>26 DEF WroteTo, Seen
<1> QED BY <1>27

-----------------------------------------------------------------------------
(* What a rank knows from what it has read                                 *)

\* a rank that has read the messages of a number is in the call
LEMMA HeardIn ==
  ASSUME NEW p, NEW r, NEW k, NEW s, NEW x, NEW n, Somewhere(p, r, k, s, x, n), NEW j \in 0 .. End, Made(p, j), Heard(p, r, k, s, x, j)
  PROVE  k >= CallOf(j)
<1>1. p \in Programs /\ Here(k, s) \in 0 .. End /\ k \in 0 .. MaxOps /\ (s = 0 \/ s \in 1 .. 4)
  <2>1. CASE Place(p, r, k, s, x, n)
    <3>1. p \in Programs /\ Here(k, s) \in 0 .. End /\ k \in 1 .. MaxOps /\ s \in 1 .. 4
      BY <2>1, PlaceHere
    <3> QED BY <3>1
  <2>2. CASE Outside(p, r, k, s)
    <3>1. p \in Programs /\ s = 0 /\ k \in 0 .. MaxOps
      BY <2>2 DEF Outside
    <3>2. Here(k, s) = 4 * (k + 1) + 1 /\ End = 4 * (MaxOps + 1) + 1 /\ MaxOps \in Nat
      BY <3>1, CoboAssumption DEF Here, At, End
    <3>3. 4 * (k + 1) + 1 \in 0 .. 4 * (MaxOps + 1) + 1
      BY <3>1, <3>2
    <3> QED BY <3>1, <3>2, <3>3
  <2> QED BY <2>1, <2>2 DEF Somewhere
<1>2. PICK n1 \in Nat, n2 \in Nat : n1 = CallOf(j) /\ n2 = StageOf(j) /\ j = At(n1, n2) /\ n2 \in 1 .. 4
  <2>1. j \in Nat
    BY EndIsNat
  <2>2. CallOf(j) \in 1 .. MaxOps /\ StageOf(j) \in 1 .. Len(Stages(p[CallOf(j)])) /\ j = At(CallOf(j), StageOf(j))
    BY <1>1, <2>1, NumberIsCall
  <2>3. p[CallOf(j)] \in AllOps
    BY <1>1, <2>2, OpsAreKnown
  <2>4. PICK m \in 1 .. 4 : m = Len(Stages(p[CallOf(j)]))
    BY <2>3, StagesFit
  <2>5. CallOf(j) \in Nat
    BY <2>2, CoboAssumption
  <2>6. PICK z \in 1 .. m : z = StageOf(j)
    BY <2>2, <2>4
  <2> QED BY <2>2, <2>5, <2>6
<1>3. Here(k, s) >= j /\ (Here(k, s) = j => s # 0)
  <2>1. PICK y \in Nat, z \in Nat : y = Here(k, s) /\ z = j
    BY <1>1, EndIsNat
  <2>2. y > z \/ (y = z /\ s > 0)
    BY <2>1 DEF Heard
  <2> QED BY <2>1, <2>2
<1>4. k \in Nat
  BY <1>1, CoboAssumption
<1>5. CASE s = 0
  <2>0. PICK y \in Nat : y = k
    BY <1>4, Zenon
  <2>2. Here(k, s) = 4 * (y + 1) + 1 /\ j = 4 * n1 + n2
    BY <1>2, <1>5, <2>0 DEF Here, At
  <2>3. Here(k, s) >= j /\ Here(k, s) # j
    BY <1>3, <1>5
  <2>1. 4 * (y + 1) + 1 > 4 * n1 + n2
    BY <2>2, <2>3
  <2>4. n2 >= 1
    BY <1>2
  <2>5. y >= n1
    BY <2>1, <2>4
  <2> QED BY <2>0, <2>5, <1>2
<1>6. CASE s \in 1 .. 4
  <2>0. PICK z \in 1 .. 4 : z = s
    BY <1>6, Zenon
  <2>6. PICK y \in Nat : y = k
    BY <1>4, Zenon
  <2>1. z = s /\ y = k /\ s # 0
    BY <2>0, <2>6
  <2>2. Here(k, s) = 4 * y + z /\ j = 4 * n1 + n2
    BY <1>2, <2>1 DEF Here, At
  <2>3. 4 * y + z >= 4 * n1 + n2
    BY <1>3, <2>2
  <2>4. n2 >= 1 /\ z <= 4
    BY <1>2
  <2>5. y >= n1
    BY <2>3, <2>4
  <2> QED BY <2>1, <2>5, <1>2
<1> QED BY <1>1, <1>5, <1>6

\* nobody but r has moved
Rest(r) == prog' = prog /\ \A q \in Ranks : q # r => Keeps(q)
\* more have entered, and nothing is read that was not written
Grows == \A q \in Ranks : called'[q] \in Nat /\ called[q] \in Nat /\ called'[q] >= called[q]
Served(r) == \A c \in Ranks : <<c, r>> \in Links => Got(c, r)' <= Sent(c, r)'

\* who has read a message knows that the writer has read before it
LEMMA Learns ==
  ASSUME Inv, NEW r \in Ranks, Within(r)', Rest(r), Served(r), NEW c \in Ranks, c # r, <<c, r>> \in Links,
         NEW j \in 0 .. End, HasHeard(r, j)', Len(Msg(prog, c, r, j)) > 0
  PROVE  HasHeard(c, j)
<1>1. IsSomewhere(r)'
  BY DEF Within, Local, Somewhere, IsSomewhere
<1>2. PICK p, k, s, x, n : p = prog' /\ k = called'[r] /\ s = stage'[r] /\ x = Where(r)' /\ n = Len(part'[r])
  OBVIOUS
<1>3. Somewhere(p, r, k, s, x, n) /\ Heard(p, r, k, s, x, j) /\ Got(c, r)' = Taken(p, c, r, k, s, x, n) /\ p = prog
  BY <1>1, <1>2 DEF IsSomewhere, HasHeard, Got, Rest
<1>4. Taken(p, c, r, k, s, x, n) >= Offset(p, c, r, j + 1)
  BY <1>3, ReaderTook
<1>5. Sent(c, r)' = Sent(c, r)
  <2>1. Keeps(c) /\ prog' = prog
    BY DEF Rest
  <2>2. Same(c)
    BY <2>1, KeptIsSame
  <2> QED BY <2>2 DEF Same
<1>6. Within(c)
  BY DEF Inv
<1>7. IsSomewhere(c) /\ Fits(c)
  BY <1>6, WithinFits
<1>8. Sent(c, r) >= Offset(prog, c, r, j + 1)
  <2>1. PICK y \in Nat : y = Sent(c, r)
    BY <1>7 DEF Fits
  <2>2. p \in Programs
    BY <1>3 DEF Inv, Types
  <2>3. PICK o \in Nat : o = Offset(p, c, r, j + 1)
    BY <2>2, OffsetsAre DEF Offs
  <2>4. PICK g : g = Taken(p, c, r, k, s, x, n)
    OBVIOUS
  <2>5. g \in Nat
    BY <1>3, <2>4, SomewhereFits
  <2>6. g >= o /\ g <= y
    BY <1>3, <1>4, <1>5, <2>1, <2>3, <2>4 DEF Served
  <2>7. y >= o
    BY <2>5, <2>6
  <2> QED BY <1>3, <2>1, <2>3, <2>7
<1>9. PICK k2, s2, x2, n2 : k2 = called[c] /\ s2 = stage[c] /\ x2 = Where(c) /\ n2 = Len(part[c])
  OBVIOUS
<1>10. Somewhere(p, c, k2, s2, x2, n2) /\ Written(p, c, r, k2, s2, x2, n2) >= Offset(p, c, r, j + 1)
  BY <1>3, <1>7, <1>8, <1>9 DEF IsSomewhere, Sent
<1>11. Heard(p, c, k2, s2, x2, j)
  BY <1>3, <1>10, WriterHeard
<1> QED BY <1>3, <1>9, <1>11 DEF HasHeard

LEMMA SubIsRanks ==
  ASSUME NEW r \in Ranks
  PROVE  Sub(r) \subseteq Ranks /\ Sub(0) = Ranks
<1>1. Own(r) \in Nat /\ r + Own(r) <= N /\ r \in Nat /\ N \in Nat /\ Ranks = 0 .. N - 1
  BY OwnFits, RankIsNat
<1>2. Own(0) = N
  BY OwnOfRoot
<1> QED BY <1>1, <1>2 DEF Sub

LEMMA IsIn ==
  ASSUME NEW r \in Ranks, Within(r)', prog' = prog, NEW j \in 0 .. End, Made(prog, j), HasHeard(r, j)'
  PROVE  called'[r] >= CallOf(j)
<1>1. IsSomewhere(r)'
  BY DEF Within, Local, Somewhere, IsSomewhere
<1>2. PICK p, k, s, x, n : p = prog' /\ k = called'[r] /\ s = stage'[r] /\ x = Where(r)' /\ n = Len(part'[r])
  OBVIOUS
<1>3. Somewhere(p, r, k, s, x, n) /\ Heard(p, r, k, s, x, j) /\ Made(p, j)
  BY <1>1, <1>2 DEF IsSomewhere, HasHeard
<1> QED BY <1>2, <1>3, HeardIn

\* who has read the data of those below it knows that they are in the call
LEMMA KnowsUp ==
  ASSUME Inv, NEW r \in Ranks, Within(r)', Rest(r), Served(r), Grows,
         NEW j \in 0 .. End, Made(prog, j), KindOf(prog, j) \in Upwards, HasHeard(r, j)', NEW q \in Sub(r)
  PROVE  called'[q] >= CallOf(j)
<1>1. CASE q = r
  BY <1>1, IsIn DEF Rest
<1>2. CASE q # r
  <2>1. PICK i \in 1 .. Kids(r) : q \in Sub(Nth(r, i))
    BY <1>2, SubIsCovered
  <2>2. PICK c : c = Nth(r, i)
    OBVIOUS
  <2>3. c \in Ranks \ {0} /\ c # r /\ cobo_parent(c) = r /\ <<c, r>> \in Links
    <3>1. c \in Ranks \ {0} /\ c > r /\ cobo_parent(c) = r /\ <<c, r>> \in Links
      BY <2>2, ChildFacts
    <3>2. c \in Nat /\ r \in Nat
      BY <3>1, RankIsNat
    <3> QED BY <3>1, <3>2
  <2>4. prog \in Programs /\ j \in Nat /\ Knows(c)
    BY <2>3, EndIsNat DEF Inv, Types
  <2>5. Len(Msg(prog, c, r, j)) > 0
    <3>1. Len(Msg(prog, c, cobo_parent(c), j)) \in Nat \ {0}
      BY <2>3, <2>4, MsgUp
    <3> QED BY <3>1, <2>3
  <2>6. HasHeard(c, j)
    BY <2>3, <2>5, Learns
  <2>7. Informed(c, j)
    BY <2>4, <2>6 DEF Knows
  <2>8. called[q] >= CallOf(j)
    BY <2>1, <2>2, <2>7 DEF Informed, Sources
  <2>9. q \in Ranks
    BY <2>1, <2>2, <2>3, SubIsRanks
  <2>10. CallOf(j) \in Int
    BY <2>4 DEF CallOf
  <2> QED BY <2>8, <2>9, <2>10 DEF Grows
<1> QED BY <1>1, <1>2

\* where the data of all come back down, they have gone up before
LEMMA UpBefore ==
  ASSUME NEW p \in Programs, NEW j \in 0 .. End, Made(p, j), KindOf(p, j) \notin Upwards, p[CallOf(j)] \notin {"bcast", "scatter"}
  PROVE  /\ j - 1 \in 0 .. End /\ Made(p, j - 1) /\ KindOf(p, j - 1) \in Upwards /\ CallOf(j - 1) = CallOf(j)
<1>1. PICK k, s : k = CallOf(j) /\ s = StageOf(j) /\ k \in 1 .. MaxOps /\ s \in 1 .. Len(Stages(p[k])) /\ j = At(k, s)
  <2>1. j \in Nat
    BY EndIsNat
  <2>2. CallOf(j) \in 1 .. MaxOps /\ StageOf(j) \in 1 .. Len(Stages(p[CallOf(j)])) /\ j = At(CallOf(j), StageOf(j))
    BY <2>1, NumberIsCall
  <2> QED BY <2>2
<1>2. PICK op \in AllOps : op = p[k]
  BY <1>1, OpsAreKnown
<1>3. Stages(op)[s] \notin {"reduce", "gather"} /\ op \notin {"bcast", "scatter"}
  BY <1>1, <1>2 DEF KindOf, Upwards
<1>4. s \in {2, 4} /\ op \in {"barrier", "allgather", "allgather_str"} /\ (s = 4 => op = "allgather_str")
  <2>1. s \in 1 .. Len(Stages(op))
    BY <1>1, <1>2
  <2>2. \/ Stages(op)[s] \in {"reduce", "gather"} \/ op \in {"bcast", "scatter"}
        \/ op \in {"barrier", "allgather", "allgather_str"} /\ s = 2
        \/ op = "allgather_str" /\ s = 4
    BY <2>1, StageCases
  <2> QED BY <2>2, <1>3
<1>5. PICK t : t = s - 1 /\ t \in 1 .. 3 /\ (s = 2 => t = 1) /\ (s = 4 => t = 3)
  BY <1>4
<1>6. t \in 1 .. Len(Stages(p[k])) /\ Stages(p[k])[t] \in Upwards
  <2>1. op = "barrier" => 1 \in 1 .. Len(Stages(op)) /\ Stages(op)[1] \in Upwards
    BY StagesAre DEF Upwards
  <2>2. op = "allgather" => 1 \in 1 .. Len(Stages(op)) /\ Stages(op)[1] \in Upwards
    BY StagesAre DEF Upwards
  <2>3. op = "allgather_str" => /\ 1 \in 1 .. Len(Stages(op)) /\ Stages(op)[1] \in Upwards
                                /\ 3 \in 1 .. Len(Stages(op)) /\ Stages(op)[3] \in Upwards
    BY StagesAre DEF Upwards
  <2> QED BY <1>2, <1>4, <1>5, <2>1, <2>2, <2>3
<1>7. At(k, t) = j - 1
  <2>1. PICK y \in Nat : y = k
    BY <1>1, CoboAssumption
  <2>2. CASE s = 2
    BY <2>1, <2>2, <1>1, <1>5 DEF At
  <2>3. CASE s = 4
    BY <2>1, <2>3, <1>1, <1>5 DEF At
  <2> QED BY <2>2, <2>3, <1>4
<1>8. /\ At(k, t) \in 0 .. End /\ CallOf(At(k, t)) = k /\ Made(p, At(k, t)) /\ KindOf(p, At(k, t)) = Stages(p[k])[t]
  BY <1>1, <1>6, MadeAt
<1> QED BY <1>1, <1>6, <1>7, <1>8

\* who has read the messages of a number has read those of the one before
LEMMA HeardBefore ==
  ASSUME NEW p, NEW r, NEW k, NEW s, NEW x, NEW n, Somewhere(p, r, k, s, x, n), NEW j \in 0 .. End, Heard(p, r, k, s, x, j), j - 1 \in 0 .. End
  PROVE  Heard(p, r, k, s, x, j - 1)
<1>1. Here(k, s) \in 0 .. End
  <2>1. CASE Place(p, r, k, s, x, n)
    BY <2>1, PlaceHere
  <2>2. CASE Outside(p, r, k, s)
    <3>1. s = 0 /\ k \in 0 .. MaxOps
      BY <2>2 DEF Outside
    <3>2. Here(k, s) = 4 * (k + 1) + 1 /\ End = 4 * (MaxOps + 1) + 1 /\ MaxOps \in Nat
      BY <3>1, CoboAssumption DEF Here, At, End
    <3>3. 4 * (k + 1) + 1 \in 0 .. 4 * (MaxOps + 1) + 1
      BY <3>1, <3>2
    <3> QED BY <3>2, <3>3
  <2> QED BY <2>1, <2>2 DEF Somewhere
<1>2. PICK y \in Nat, z \in Nat : y = Here(k, s) /\ z = j
  BY <1>1, EndIsNat
<1>3. y >= z
  BY <1>2 DEF Heard
<1>4. y > z - 1
  BY <1>3
<1> QED BY <1>2, <1>4 DEF Heard

\* a step of one rank leaves all of them informed
LEMMA KnowsStep ==
  ASSUME Inv, NEW r \in Ranks, Within(r)', Rest(r), Served(r), Grows
  PROVE  \A q \in Ranks : Knows(q)'
<1>0. /\ prog \in Programs /\ prog' = prog
  BY DEF Inv, Types, Rest
<1>1. ASSUME NEW q \in Ranks, q # r
      PROVE  Knows(q)'
  <2>1. ASSUME NEW j \in 0 .. End, Made(prog, j), HasHeard(q, j)'
        PROVE  Informed(q, j)'
    <3>1. HasHeard(q, j) /\ Knows(q)
      <4>1. Keeps(q)
        BY <1>1 DEF Rest
      <4>2. HasHeard(q, j)' <=> HasHeard(q, j)
        BY <4>1, <1>0, KeptIsSame
      <4> QED BY <4>2, <2>1 DEF Inv
    <3>2. \A a \in Sources(q, j) : called[a] >= CallOf(j)
      BY <3>1, <2>1 DEF Knows, Informed
    <3>3. Sources(q, j)' = Sources(q, j) /\ Sources(q, j) \subseteq Ranks
      BY <1>0, SubIsRanks, RankIsNat DEF Sources
    <3>4. CallOf(j) \in Int
      BY EndIsNat DEF CallOf
    <3> QED BY <3>2, <3>3, <3>4 DEF Informed, Grows
  <2> QED BY <2>1, <1>0 DEF Knows
<1>2. Knows(r)'
  <2>1. ASSUME NEW j \in 0 .. End, Made(prog, j), HasHeard(r, j)'
        PROVE  Informed(r, j)'
    <3>0. CallOf(j) \in Int /\ j \in Nat
      BY EndIsNat DEF CallOf
    <3>1. CASE KindOf(prog, j) \in Upwards
      <4>1. \A q \in Sub(r) : called'[q] >= CallOf(j)
        BY <2>1, <3>1, KnowsUp
      <4>2. Sources(r, j)' = Sub(r)
        BY <1>0, <3>1 DEF Sources
      <4> QED BY <4>1, <4>2 DEF Informed
    <3>2. CASE KindOf(prog, j) \notin Upwards /\ r # 0
      <4>1. PICK c : c = cobo_parent(r)
        OBVIOUS
      <4>2. r \in Ranks \ {0} /\ c \in Ranks /\ c # r /\ <<c, r>> \in Links
        <5>1. r \in Ranks \ {0}
          BY <3>2
        <5>2. c \in Ranks /\ c < r
          BY <5>1, <4>1, ParentBefore
        <5>3. <<c, r>> \in Links
          BY <5>1, <4>1, LinkFacts
        <5>4. c \in Nat /\ r \in Nat
          BY <5>2, RankIsNat
        <5> QED BY <5>1, <5>2, <5>3, <5>4
      <4>3. Len(Msg(prog, c, r, j)) > 0
        <5>1. Len(Msg(prog, cobo_parent(r), r, j)) \in Nat \ {0}
          BY <1>0, <2>1, <3>0, <3>2, <4>2, MsgDown
        <5> QED BY <5>1, <4>1
      <4>4. HasHeard(c, j)
        BY <2>1, <4>2, <4>3, Learns
      <4>5. \A q \in Sources(c, j) : called[q] >= CallOf(j)
        <5>1. Knows(c)
          BY <4>2 DEF Inv
        <5> QED BY <5>1, <2>1, <4>4 DEF Knows, Informed
      <4>6. Sources(r, j)' = Sources(c, j) /\ Sources(c, j) \subseteq Ranks
        BY <1>0, <3>2, RankIsNat DEF Sources
      <4> QED BY <3>0, <4>5, <4>6 DEF Informed, Grows
    <3>3. CASE KindOf(prog, j) \notin Upwards /\ r = 0 /\ prog[CallOf(j)] \in {"bcast", "scatter"}
      <4>1. Sources(r, j)' = {0}
        BY <1>0, <3>3 DEF Sources
      <4>2. called'[r] >= CallOf(j)
        BY <1>0, <2>1, IsIn
      <4> QED BY <3>3, <4>1, <4>2 DEF Informed
    <3>4. CASE KindOf(prog, j) \notin Upwards /\ r = 0 /\ prog[CallOf(j)] \notin {"bcast", "scatter"}
      <4>1. PICK i : i = j - 1 /\ i \in 0 .. End /\ Made(prog, i) /\ KindOf(prog, i) \in Upwards /\ CallOf(i) = CallOf(j)
        BY <1>0, <2>1, <3>4, UpBefore
      <4>2. HasHeard(r, i)'
        <5>1. IsSomewhere(r)'
          BY DEF Within, Local, Somewhere, IsSomewhere
        <5>2. PICK p, k, s, x, n : p = prog' /\ k = called'[r] /\ s = stage'[r] /\ x = Where(r)' /\ n = Len(part'[r])
          OBVIOUS
        <5>3. Somewhere(p, r, k, s, x, n) /\ Heard(p, r, k, s, x, j)
          BY <2>1, <5>1, <5>2 DEF IsSomewhere, HasHeard
        <5>4. Heard(p, r, k, s, x, i)
          BY <4>1, <5>3, HeardBefore
        <5> QED BY <5>2, <5>4 DEF HasHeard
      <4>3. \A q \in Sub(r) : called'[q] >= CallOf(i)
        BY <4>1, <4>2, KnowsUp
      <4>4. Sources(r, j)' = Ranks
        BY <1>0, <3>4 DEF Sources
      <4>5. Sub(r) = Ranks
        BY <3>4, SubIsRanks
      <4> QED BY <4>1, <4>3, <4>4, <4>5 DEF Informed
    <3> QED BY <3>1, <3>2, <3>3, <3>4
  <2> QED BY <2>1, <1>0 DEF Knows
<1> QED BY <1>1, <1>2

-----------------------------------------------------------------------------
(* What is on the way, after a step                                        *)

Flows == \A a \in Ranks, b \in Ranks : <<a, b>> \in Links => Flow(a, b)

LEMMA FitsNext ==
  ASSUME NEW r \in Ranks, Within(r)'
  PROVE  Fits(r)'
<1>1. IsSomewhere(r)'
  BY DEF Within, Local, Somewhere, IsSomewhere
<1>2. PICK p, k, s, x, n : p = prog' /\ k = called'[r] /\ s = stage'[r] /\ x = Where(r)' /\ n = Len(part'[r])
  OBVIOUS
<1>3. Somewhere(p, r, k, s, x, n)
  BY <1>1, <1>2 DEF IsSomewhere
<1>4. ASSUME NEW b \in Ranks
      PROVE  /\ Written(p, r, b, k, s, x, n) \in Nat /\ Written(p, r, b, k, s, x, n) <= Len(All(p, r, b))
             /\ Taken(p, b, r, k, s, x, n) \in Nat /\ Taken(p, b, r, k, s, x, n) <= Len(All(p, b, r))
             /\ Len(All(p, r, b)) \in Nat /\ Len(All(p, b, r)) \in Nat
  BY <1>3, SomewhereFits
<1> QED BY <1>2, <1>4 DEF Fits, Sent, Got

\* no rank is connected to itself
LEMMA EndsDiffer ==
  ASSUME NEW a \in Ranks, NEW b \in Ranks, <<a, b>> \in Links
  PROVE  a # b
<1>1. PICK c \in Ranks, d \in Ranks : <<a, b>> = <<c, d>> /\ ((c # 0 /\ d = cobo_parent(c)) \/ (d # 0 /\ c = cobo_parent(d)))
  BY LinkFacts
<1>2. a = c /\ b = d
  BY <1>1
<1>3. \A x \in Ranks \ {0} : cobo_parent(x) < x /\ cobo_parent(x) \in Ranks
  BY ParentBefore
<1>4. a \in Nat /\ b \in Nat
  BY RankIsNat
<1>5. CASE a # 0 /\ b = cobo_parent(a)
  <2>1. b < a
    BY <1>3, <1>5
  <2> QED BY <2>1, <1>4
<1>6. CASE b # 0 /\ a = cobo_parent(b)
  <2>1. a < b
    BY <1>3, <1>6
  <2> QED BY <2>1, <1>4
<1> QED BY <1>1, <1>2, <1>5, <1>6

LEMMA OthersSame ==
  ASSUME NEW r, Rest(r), NEW q \in Ranks, q # r
  PROVE  Same(q) /\ (Within(q) => Within(q)')
<1>1. prog' = prog /\ Keeps(q)
  BY DEF Rest
<1> QED BY <1>1, KeptIsSame

\* a step that reads and writes nothing
LEMMA SilentFlows ==
  ASSUME Inv, NEW r \in Ranks, Silent(r), Rest(r)
  PROVE  Flows'
<1>1. ASSUME NEW q \in Ranks PROVE Same(q)
  BY OthersSame DEF Silent
<1>2. ASSUME NEW a \in Ranks, NEW b \in Ranks, <<a, b>> \in Links
      PROVE  Flow(a, b)'
  <2>1. Flow(a, b)
    BY <1>2 DEF Inv
  <2>2. Sent(a, b)' = Sent(a, b) /\ Got(a, b)' = Got(a, b)
    BY <1>1 DEF Same
  <2>3. prog' = prog /\ st' = st /\ chan' = chan
    BY DEF Silent
  <2> QED BY <2>1, <2>2, <2>3 DEF Flow
<1> QED BY <1>2 DEF Flows

\* a read moves its end of the stretch on
LEMMA ReadFlows ==
  ASSUME Inv, NEW r \in Ranks, NEW c, NEW t, ReadFrom(r, c, t), Rest(r)
  PROVE  Flows' /\ chan' \in [Links -> Seq(Data)]
<1>1. /\ Within(r)' /\ st' = st /\ prog' = prog /\ t \in Nat
      /\ c \in Ranks /\ <<c, r>> \in Links /\ Got(c, r) + t <= Sent(c, r)
      /\ chan' = [chan EXCEPT ![<<c, r>>] = Cut(All(prog, c, r), Got(c, r) + t, Sent(c, r))]
      /\ \A a \in Ranks : Sent(r, a)' = Sent(r, a) /\ Got(a, r)' = Got(a, r) + (IF a = c THEN t ELSE 0)
  BY DEF ReadFrom, Unchanged
<1>2. chan \in [Links -> Seq(Data)] /\ prog \in Programs
  BY DEF Inv, Types
<1>3. \A q \in Ranks : Fits(q)
  BY WithinFits DEF Inv
<1>4. ASSUME NEW a \in Ranks, NEW b \in Ranks, <<a, b>> \in Links
      PROVE  Flow(a, b)'
  <2>1. Flow(a, b) /\ a # b
    BY <1>4, EndsDiffer DEF Inv
  <2>2. Sent(a, b)' = Sent(a, b)
    <3>1. CASE a = r
      BY <1>1, <3>1
    <3>2. CASE a # r
      BY <3>2, OthersSame DEF Same
    <3> QED BY <3>1, <3>2
  <2>3. CASE a = c /\ b = r
    <3>1. Got(a, b)' = Got(a, b) + t
      BY <1>1, <2>3
    <3>2. chan'[<<a, b>>] = Cut(All(prog, a, b), Got(a, b) + t, Sent(a, b))
      BY <1>1, <1>2, <2>3
    <3> QED BY <1>1, <2>2, <2>3, <3>1, <3>2 DEF Flow
  <2>4. CASE ~(a = c /\ b = r)
    <3>1. Got(a, b)' = Got(a, b)
      <4>1. CASE b = r
        <5>1. Got(a, r) \in Nat
          BY <1>3 DEF Fits
        <5> QED BY <1>1, <2>4, <4>1, <5>1
      <4>2. CASE b # r
        BY <4>2, OthersSame DEF Same
      <4> QED BY <4>1, <4>2
    <3>2. chan'[<<a, b>>] = chan[<<a, b>>]
      <4>1. <<a, b>> # <<c, r>>
        BY <2>4
      <4> QED BY <1>1, <1>2, <1>4, <4>1
    <3> QED BY <1>1, <2>1, <2>2, <3>1, <3>2 DEF Flow
  <2> QED BY <2>3, <2>4
<1>5. Cut(All(prog, c, r), Got(c, r) + t, Sent(c, r)) \in Seq(Data)
  <2>1. PICK f \in Seq(Data) : f = All(prog, c, r)
    BY <1>1, <1>2, AllIs
  <2>2. PICK x \in Nat, y \in Nat : x = Got(c, r) + t /\ y = Sent(c, r) /\ x <= y /\ y <= Len(f)
    <3>1. Got(c, r) \in Nat /\ Sent(c, r) \in Nat /\ Sent(c, r) <= Len(f)
      BY <1>1, <1>3, <2>1 DEF Fits
    <3> QED BY <3>1, <1>1
  <2>3. IsCut(Cut(f, x, y), Data, f, x, y)
    BY <2>2, CutIs
  <2> QED BY <2>1, <2>2, <2>3 DEF IsCut
<1>6. chan' \in [Links -> Seq(Data)]
  <2> HIDE DEF Data
  <2> QED BY <1>1, <1>2, <1>5
<1> QED BY <1>4, <1>6 DEF Flows

\* a write moves the other end on
LEMMA WriteFlows ==
  ASSUME Inv, NEW r \in Ranks, NEW c, NEW t, WroteTo(r, c, t), Rest(r)
  PROVE  Flows' /\ chan' \in [Links -> Seq(Data)]
<1>1. /\ Within(r)' /\ st' = st /\ prog' = prog /\ t \in Nat
      /\ c \in Ranks /\ <<r, c>> \in Links
      /\ \A a \in Ranks : Sent(r, a)' = Sent(r, a) + (IF a = c THEN t ELSE 0) /\ Got(a, r)' = Got(a, r)
      /\ st[c] = "up" => chan' = [chan EXCEPT ![<<r, c>>] = Cut(All(prog, r, c), Got(r, c), Sent(r, c) + t)]
      /\ st[c] # "up" => chan' = chan
  BY DEF WroteTo, Unchanged
<1>2. chan \in [Links -> Seq(Data)] /\ prog \in Programs
  BY DEF Inv, Types
<1>3. \A q \in Ranks : Fits(q)
  BY WithinFits DEF Inv
<1>4. ASSUME NEW a \in Ranks, NEW b \in Ranks, <<a, b>> \in Links
      PROVE  Flow(a, b)'
  <2>1. Flow(a, b) /\ a # b
    BY <1>4, EndsDiffer DEF Inv
  <2>2. Got(a, b)' = Got(a, b)
    <3>1. CASE b = r
      BY <1>1, <3>1
    <3>2. CASE b # r
      BY <3>2, OthersSame DEF Same
    <3> QED BY <3>1, <3>2
  <2>3. CASE a = r /\ b = c
    <3>1. Sent(a, b)' = Sent(a, b) + t
      BY <1>1, <2>3
    <3>2. st[b] = "up" => chan'[<<a, b>>] = Cut(All(prog, a, b), Got(a, b), Sent(a, b) + t)
      BY <1>1, <1>2, <2>3
    <3>3. st[b] # "gone" => Got(a, b) <= Sent(a, b) + t
      <4>1. Got(a, b) \in Nat /\ Sent(a, b) \in Nat
        BY <1>3 DEF Fits
      <4> QED BY <4>1, <1>1, <2>1 DEF Flow
    <3> QED BY <1>1, <2>2, <3>1, <3>2, <3>3 DEF Flow
  <2>4. CASE ~(a = r /\ b = c)
    <3>1. Sent(a, b)' = Sent(a, b)
      <4>1. CASE a = r
        <5>1. Sent(r, b) \in Nat
          BY <1>3 DEF Fits
        <5> QED BY <1>1, <2>4, <4>1, <5>1
      <4>2. CASE a # r
        BY <4>2, OthersSame DEF Same
      <4> QED BY <4>1, <4>2
    <3>2. chan'[<<a, b>>] = chan[<<a, b>>]
      <4>1. <<a, b>> # <<r, c>>
        BY <2>4
      <4> QED BY <1>1, <1>2, <1>4, <4>1
    <3> QED BY <1>1, <2>1, <2>2, <3>1, <3>2 DEF Flow
  <2> QED BY <2>3, <2>4
<1>5. st[c] = "up" => Cut(All(prog, r, c), Got(r, c), Sent(r, c) + t) \in Seq(Data)
  <2> HAVE st[c] = "up"
  <2>1. PICK f \in Seq(Data) : f = All(prog, r, c)
    BY <1>1, <1>2, AllIs
  <2>2. PICK x \in Nat, y \in Nat : x = Got(r, c) /\ y = Sent(r, c) + t /\ x <= y /\ y <= Len(f)
    <3>1. Got(r, c) \in Nat /\ Sent(r, c) \in Nat
      BY <1>1, <1>3 DEF Fits
    <3>2. Fits(r)' /\ Flow(r, c)
      BY <1>1, FitsNext DEF Inv
    <3>3. Sent(r, c)' <= Len(f) /\ Sent(r, c)' = Sent(r, c) + t
      BY <3>2, <1>1, <2>1 DEF Fits
    <3>4. Got(r, c) <= Sent(r, c)
      BY <3>2 DEF Flow
    <3> QED BY <3>1, <3>3, <3>4, <1>1
  <2>3. IsCut(Cut(f, x, y), Data, f, x, y)
    BY <2>2, CutIs
  <2> QED BY <2>1, <2>2, <2>3 DEF IsCut
<1>6. chan' \in [Links -> Seq(Data)]
  <2>1. CASE st[c] = "up"
    BY <1>1, <1>2, <1>5, <2>1
  <2>2. CASE st[c] # "up"
    BY <1>1, <1>2, <2>2
  <2> QED BY <2>1, <2>2
<1> QED BY <1>4, <1>6 DEF Flows

-----------------------------------------------------------------------------
(* The steps of a rank that is up                                          *)

MovesOn(r) ==
  /\ st[r] = "up" /\ st' = st /\ Types' /\ Within(r)' /\ Rest(r) /\ Grows /\ Flows'
  /\ Returned(r)' /\ (\A q \in Ranks : q # r => res'[q] = res[q])
  /\ deaths' = deaths /\ (deaths = 0 => reset' = reset)

\* such a step keeps the invariant
LEMMA MovesOnKeeps ==
  ASSUME Inv, NEW r \in Ranks, MovesOn(r)
  PROVE  Inv'
<1>1. /\ st[r] = "up" /\ st' = st /\ Types' /\ Within(r)' /\ Rest(r) /\ Grows /\ Flows' /\ Returned(r)'
      /\ (\A q \in Ranks : q # r => res'[q] = res[q]) /\ deaths' = deaths /\ (deaths = 0 => reset' = reset)
  BY DEF MovesOn
<1>2. Served(r)
  <2>1. ASSUME NEW c \in Ranks, <<c, r>> \in Links
        PROVE  Got(c, r)' <= Sent(c, r)'
    <3>1. Flow(c, r)'
      BY <1>1, <2>1 DEF Flows
    <3>2. st'[r] # "gone"
      BY <1>1
    <3> QED BY <3>1, <3>2 DEF Flow
  <2> QED BY <2>1 DEF Served
<1>3. \A q \in Ranks : Knows(q)'
  BY <1>1, <1>2, KnowsStep
<1>4. ASSUME NEW q \in Ranks
      PROVE  Within(q)' /\ Returned(q)' /\ Out(q)'
  <2>1. CASE q = r
    <3>1. Out(r)'
      BY <1>1 DEF Out
    <3> QED BY <2>1, <3>1, <1>1
  <2>2. CASE q # r
    <3>1. Within(q) /\ Returned(q) /\ Out(q)
      BY DEF Inv
    <3>2. Within(q)'
      BY <1>1, <2>2, <3>1, OthersSame
    <3>3. called'[q] = called[q] /\ stage'[q] = stage[q] /\ res'[q] = res[q]
      BY <1>1, <2>2 DEF Rest, Keeps
    <3> QED BY <1>1, <3>1, <3>2, <3>3 DEF Returned, Out
  <2> QED BY <2>1, <2>2
<1>5. Quiet'
  BY <1>1 DEF Inv, Quiet
<1> QED BY <1>1, <1>3, <1>4, <1>5 DEF Inv, Flows

\* the ranks enter calls one after the other
LEMMA SameIsGrown ==
  ASSUME called' = called, Types
  PROVE  Grows
<1>1. \A q \in Ranks : called[q] \in Nat
  BY CoboAssumption DEF Types
<1> QED BY <1>1 DEF Grows

LEMMA OthersRest ==
  ASSUME NEW r \in Ranks, Others(r), prog' = prog, \A q \in Ranks : q # r => called'[q] = called[q]
  PROVE  Rest(r)
BY DEF Others, Rest, Keeps

LEMMA BeginStage ==
  ASSUME Types, NEW r \in Ranks, NEW k, NEW s \in 0 .. 4, NEW c, Begin(r, k, s, c)
  PROVE  stage' \in [Ranks -> 0 .. 4]
<1>1. stage' = [stage EXCEPT ![r] = s] /\ stage \in [Ranks -> 0 .. 4]
  BY DEF Begin, Types
<1> QED BY <1>1

\* Call, NextTree, Return and the passes of the two loops are such steps
LEMMA CallGoesOn ==
  ASSUME Inv, NEW r \in Ranks, Call(r)
  PROVE  MovesOn(r)
<1>1. Types /\ Within(r) /\ Returned(r)
  BY DEF Inv
<1>2. /\ Silent(r) /\ stage[r] = 0 /\ stage'[r] = 1 /\ called[r] < MaxOps /\ called'[r] = called[r] + 1
      /\ \A q \in Ranks : q # r => called'[q] = called[q]
      /\ called' \in [Ranks -> 0 .. MaxOps] /\ res' = res
  BY <1>1, CallMoves
<1>3. st[r] = "up" /\ Begin(r, called[r] + 1, 1, 1)
  BY DEF Call, Up
<1>4. /\ Within(r)' /\ Others(r) /\ Domains
      /\ prog' = prog /\ st' = st /\ deaths' = deaths /\ chan' = chan /\ reset' = reset
  BY <1>2 DEF Silent
<1>5. Rest(r)
  BY <1>2, <1>4, OthersRest
<1>6. Flows'
  BY <1>2, <1>5, SilentFlows
<1>7. stage' \in [Ranks -> 0 .. 4]
  BY <1>1, <1>3, BeginStage
<1>8. Types'
  BY <1>1, <1>2, <1>4, <1>7 DEF Types, Domains
<1>9. called[r] \in Nat
  BY <1>1, CoboAssumption DEF Types
<1>10. Grows
  <2>1. \A q \in Ranks : called[q] \in Nat
    BY <1>1, CoboAssumption DEF Types
  <2> QED BY <1>2, <2>1 DEF Grows
<1>11. Returned(r)'
  <2>1. Len(res[r]) = called[r]
    BY <1>1, <1>2 DEF Returned
  <2> QED BY <1>2, <1>9, <2>1 DEF Returned
<1> QED BY <1>2, <1>3, <1>4, <1>5, <1>6, <1>8, <1>10, <1>11 DEF MovesOn

LEMMA TreeGoesOn ==
  ASSUME Inv, NEW r \in Ranks, NextTree(r)
  PROVE  MovesOn(r)
<1>1. Types /\ Within(r) /\ Returned(r)
  BY DEF Inv
<1>2. /\ Silent(r) /\ stage[r] # 0 /\ stage'[r] = stage[r] + 1 /\ stage[r] + 1 \in 1 .. 4
      /\ called' = called /\ res' = res
  BY <1>1, TreeMoves
<1>3. st[r] = "up"
  BY DEF NextTree, Busy, Up
<1>4. /\ Within(r)' /\ Others(r) /\ Domains
      /\ prog' = prog /\ st' = st /\ deaths' = deaths /\ chan' = chan /\ reset' = reset
  BY <1>2 DEF Silent
<1>5. Rest(r)
  BY <1>2, <1>4, OthersRest
<1>6. Flows'
  BY <1>2, <1>5, SilentFlows
<1>7. stage' \in [Ranks -> 0 .. 4]
  <2>1. PICK s \in 0 .. 4 : s = stage[r] + 1
    BY <1>2
  <2>2. PICK c : Begin(r, called[r], s, c)
    BY <2>1, Zenon DEF NextTree
  <2> QED BY <1>1, <2>2, BeginStage
<1>8. Types'
  BY <1>1, <1>2, <1>4, <1>7 DEF Types, Domains
<1>9. Grows
  BY <1>1, <1>2, SameIsGrown
<1>10. Returned(r)'
  <2>1. stage[r] + 1 # 0
    BY <1>2
  <2> QED BY <1>1, <1>2, <2>1 DEF Returned
<1> QED BY <1>2, <1>3, <1>4, <1>5, <1>6, <1>8, <1>9, <1>10 DEF MovesOn

LEMMA ReturnGoesOn ==
  ASSUME Inv, NEW r \in Ranks, Return(r)
  PROVE  MovesOn(r)
<1>1. Types /\ Within(r) /\ Returned(r)
  BY DEF Inv
<1>2. PICK e : e = Promise!Result(prog[called[r]], called[r], r)
  OBVIOUS
<1>3. /\ Silent(r) /\ stage[r] # 0 /\ stage'[r] = 0 /\ called' = called /\ called[r] \in 1 .. MaxOps
      /\ res' = [res EXCEPT ![r] = Append(@, e)]
  BY <1>1, <1>2, ReturnMoves
<1>4. st[r] = "up" /\ stage' = [stage EXCEPT ![r] = 0]
  BY DEF Return, Busy, Up
<1>5. /\ Within(r)' /\ Others(r) /\ Domains
      /\ prog' = prog /\ st' = st /\ deaths' = deaths /\ chan' = chan /\ reset' = reset
  BY <1>3 DEF Silent
<1>6. Rest(r)
  BY <1>3, <1>5, OthersRest
<1>7. Flows'
  BY <1>3, <1>6, SilentFlows
<1>8. stage' \in [Ranks -> 0 .. 4]
  BY <1>1, <1>4 DEF Types
<1>9. e \in Results
  <2>1. prog[called[r]] \in AllOps
    BY <1>1, <1>3, OpsAreKnown DEF Types
  <2> QED BY <1>2, <1>3, <2>1 DEF Results
<1>10. res \in [Ranks -> Seq(Results)]
  BY <1>1 DEF Types
<1>11. /\ res'[r] = Append(res[r], e) /\ \A q \in Ranks : q # r => res'[q] = res[q]
       /\ res' \in [Ranks -> Seq(Results)]
  <2> HIDE DEF Results
  <2>1. Append(res[r], e) \in Seq(Results)
    BY <1>9, <1>10
  <2> QED BY <1>3, <1>10, <2>1
<1>12. Types'
  <2>1. Results' = Results
    BY DEF Results
  <2> QED BY <1>1, <1>3, <1>5, <1>8, <1>11 DEF Types, Domains
<1>13. Grows
  BY <1>1, <1>3, SameIsGrown
<1>14. Returned(r)'
  <2>1. PICK n \in Nat : n = called[r]
    BY <1>3, CoboAssumption
  <2>2. Len(res[r]) = n - 1
    BY <1>1, <1>3, <2>1 DEF Returned
  <2>3. Len(res'[r]) = Len(res[r]) + 1
    <3> HIDE DEF Results
    <3>1. res[r] \in Seq(Results)
      BY <1>10
    <3> QED BY <1>9, <1>11, <3>1
  <2>4. Len(res'[r]) = n
    BY <2>1, <2>2, <2>3
  <2> QED BY <1>3, <2>1, <2>4 DEF Returned
<1> QED BY <1>3, <1>4, <1>5, <1>6, <1>7, <1>11, <1>12, <1>13, <1>14 DEF MovesOn

\* a rank behind its last call has read and written all there is
LEMMA OutHasAll ==
  ASSUME Types, NEW r \in Ranks, Within(r), stage[r] = 0, called[r] = MaxOps, NEW b \in Ranks
  PROVE  Sent(r, b) = Len(All(prog, r, b)) /\ Got(b, r) = Len(All(prog, b, r))
<1>1. PICK p, x, n : p = prog /\ x = Where(r) /\ n = Len(part[r])
  OBVIOUS
<1>2. Outside(p, r, MaxOps, 0) /\ p \in Programs
  BY <1>1 DEF Within, Types
<1>3. /\ Written(p, r, b, MaxOps, 0, x, n) = Offset(p, r, b, End)
      /\ Taken(p, b, r, MaxOps, 0, x, n) = Offset(p, b, r, End)
  <2>1. Here(MaxOps, 0) = End
    BY <1>2, OutsideMeans DEF End
  <2> QED BY <1>2, <2>1, OutsideMeans
<1>4. Sent(r, b) = Offset(p, r, b, End) /\ Got(b, r) = Offset(p, b, r, End)
  BY <1>1, <1>3 DEF Sent, Got
<1>5. ~Made(p, End)
  <2>1. MaxOps \in Nat /\ MaxOps + 1 \in Nat
    BY CoboAssumption
  <2>2. CallOf(End) = MaxOps + 1
    BY <2>1, AtIs DEF End
  <2> QED BY <2>1, <2>2 DEF Made
<1>6. End \in 0 .. End
  BY EndIsNat
<1>7. Offset(p, r, b, End + 1) = Offset(p, r, b, End) /\ Offset(p, b, r, End + 1) = Offset(p, b, r, End)
  BY <1>2, <1>5, <1>6, OffsetStays
<1> QED BY <1>1, <1>2, <1>4, <1>7, AllIs

LEMMA ReadGoesOn ==
  ASSUME Inv, NEW r \in Ranks, cobo_read_fd(r)
  PROVE  MovesOn(r)
<1>1. Types /\ Within(r) /\ Returned(r)
  BY DEF Inv
<1>2. PICK c, t : ReadFrom(r, c, t)
  BY ReadMoves
<1>3. Within(r)' /\ Others(r) /\ Domains /\ Unchanged /\ reset' = reset
  BY <1>2 DEF ReadFrom
<1>4. st[r] = "up"
  BY DEF cobo_read_fd, Current, Busy, Up
<1>5. Rest(r)
  BY <1>3, OthersRest DEF Unchanged
<1>6. Flows' /\ chan' \in [Links -> Seq(Data)]
  BY <1>2, <1>5, ReadFlows
<1>7. Types'
  BY <1>1, <1>3, <1>6 DEF Types, Domains, Unchanged
<1>8. Grows
  BY <1>1, <1>3, SameIsGrown DEF Unchanged
<1>9. Returned(r)'
  BY <1>1, <1>3 DEF Returned, Unchanged
<1> QED BY <1>3, <1>4, <1>5, <1>6, <1>7, <1>8, <1>9 DEF MovesOn, Unchanged

\* nobody writes to a daemon that has closed the tree, unless one was killed
LEMMA ToTheLiving ==
  ASSUME Inv, NEW r \in Ranks, NEW c, NEW t, WroteTo(r, c, t), deaths = 0
  PROVE  st[c] = "up"
<1>1. c \in Ranks /\ <<r, c>> \in Links /\ Sent(r, c) < Len(All(prog, r, c))
  BY DEF WroteTo
<1>2. Types /\ Within(c) /\ Out(c) /\ Flow(r, c) /\ Quiet /\ Within(r)
  BY <1>1 DEF Inv
<1>3. st[c] # "gone"
  BY <1>1, <1>2 DEF Quiet
<1>4. Got(r, c) <= Sent(r, c)
  BY <1>2, <1>3 DEF Flow
<1>5. Fits(r)
  BY <1>2, WithinFits
<1>6. Sent(r, c) \in Nat /\ Len(All(prog, r, c)) \in Nat
  BY <1>1, <1>5 DEF Fits
<1>7. st[c] = "closed" => Got(r, c) = Len(All(prog, r, c))
  <2> HAVE st[c] = "closed"
  <2>1. stage[c] = 0 /\ called[c] = MaxOps
    BY <1>2 DEF Out
  <2> QED BY <1>1, <1>2, <2>1, OutHasAll
<1>8. st[c] # "closed"
  BY <1>1, <1>4, <1>6, <1>7
<1> QED BY <1>1, <1>2, <1>3, <1>8 DEF Types

LEMMA WriteGoesOn ==
  ASSUME Inv, NEW r \in Ranks, cobo_write_fd(r)
  PROVE  MovesOn(r)
<1>1. Types /\ Within(r) /\ Returned(r)
  BY DEF Inv
<1>2. PICK c, t : WroteTo(r, c, t)
  BY WriteMoves
<1>3. Within(r)' /\ Others(r) /\ Domains /\ Unchanged
  BY <1>2 DEF WroteTo
<1>4. st[r] = "up"
  BY DEF cobo_write_fd, Current, Busy, Up
<1>5. Rest(r)
  BY <1>3, OthersRest DEF Unchanged
<1>6. Flows' /\ chan' \in [Links -> Seq(Data)]
  BY <1>2, <1>5, WriteFlows
<1>7. Types'
  BY <1>1, <1>3, <1>6 DEF Types, Domains, Unchanged
<1>8. Grows
  BY <1>1, <1>3, SameIsGrown DEF Unchanged
<1>9. Returned(r)'
  BY <1>1, <1>3 DEF Returned, Unchanged
<1>10. deaths = 0 => reset' = reset
  <2> HAVE deaths = 0
  <2>1. st[c] = "up"
    BY <1>2, ToTheLiving
  <2> QED BY <1>2, <2>1 DEF WroteTo
<1> QED BY <1>3, <1>4, <1>5, <1>6, <1>7, <1>8, <1>9, <1>10 DEF MovesOn, Unchanged

-----------------------------------------------------------------------------
(* The end of a rank                                                       *)

LinkBack == \A a \in Ranks, b \in Ranks : <<a, b>> \in Links => <<b, a>> \in Links

\* connections go both ways
LEMMA LinksAreTwoWay == LinkBack
<1>1. ASSUME NEW a \in Ranks, NEW b \in Ranks, <<a, b>> \in Links
      PROVE  <<b, a>> \in Links
  <2>1. PICK c \in Ranks, d \in Ranks : <<a, b>> = <<c, d>> /\ ((c # 0 /\ d = cobo_parent(c)) \/ (d # 0 /\ c = cobo_parent(d)))
    BY <1>1, LinkFacts
  <2>2. a = c /\ b = d
    BY <2>1
  <2>3. CASE a # 0 /\ b = cobo_parent(a)
    <3>1. a \in Ranks \ {0}
      BY <2>3
    <3> QED BY <2>3, <3>1, LinkFacts
  <2>4. CASE b # 0 /\ a = cobo_parent(b)
    <3>1. b \in Ranks \ {0}
      BY <2>4
    <3> QED BY <2>4, <3>1, LinkFacts
  <2> QED BY <2>1, <2>2, <2>3, <2>4
<1> QED BY <1>1 DEF LinkBack

\* a rank that is up departs, for good reasons or not
Departs(r, how) ==
  /\ r \in Ranks /\ st[r] = "up" /\ how \in {"closed", "gone"} /\ Depart(r, how) /\ deaths' \in Nat /\ Quiet'
  /\ how = "closed" => stage[r] = 0 /\ called[r] = MaxOps

\* the end of a rank keeps the invariant
LEMMA DepartKeeps ==
  ASSUME Inv, NEW r, NEW how, Departs(r, how)
  PROVE  Inv'
<1>1. /\ r \in Ranks /\ st[r] = "up" /\ how \in {"closed", "gone"} /\ Depart(r, how) /\ deaths' \in Nat /\ Quiet'
      /\ how = "closed" => stage[r] = 0 /\ called[r] = MaxOps
  BY DEF Departs
<1>2. Types
  BY DEF Inv
<1>3. /\ st' = [st EXCEPT ![r] = how] /\ chan' = [l \in Links |-> IF l[2] = r THEN <<>> ELSE chan[l]]
      /\ prog' = prog /\ called' = called /\ res' = res /\ stage' = stage /\ io' = io /\ part' = part
      /\ buf' = buf /\ cnt' = cnt
  BY <1>1 DEF Depart
<1>4. /\ st' \in [Ranks -> {"up", "closed", "gone"}] /\ st'[r] = how /\ \A q \in Ranks : q # r => st'[q] = st[q]
  BY <1>1, <1>2, <1>3 DEF Types
<1>5. chan' \in [Links -> Seq(Data)]
  <2> HIDE DEF Data
  <2>1. chan \in [Links -> Seq(Data)]
    BY <1>2 DEF Types
  <2> QED BY <1>3, <2>1
<1>6. Types'
  BY <1>1, <1>2, <1>3, <1>4, <1>5 DEF Types
<1>7. ASSUME NEW q \in Ranks
      PROVE  Same(q) /\ Within(q)' /\ \A j \in 0 .. End : HasHeard(q, j)' <=> HasHeard(q, j)
  <2>1. Keeps(q)
    BY <1>3 DEF Keeps
  <2>2. Within(q)
    BY DEF Inv
  <2> QED BY <1>3, <2>1, <2>2, KeptIsSame
<1>8. ASSUME NEW q \in Ranks
      PROVE  Returned(q)' /\ Out(q)' /\ Knows(q)'
  <2>1. Returned(q) /\ Out(q) /\ Knows(q)
    BY DEF Inv
  <2>2. Returned(q)'
    BY <2>1, <1>3 DEF Returned
  <2>3. Out(q)'
    <3>1. CASE q = r
      BY <1>1, <1>3, <1>4, <3>1 DEF Out
    <3>2. CASE q # r
      BY <1>3, <1>4, <2>1, <3>2 DEF Out
    <3> QED BY <3>1, <3>2
  <2>4. Knows(q)'
    <3>1. ASSUME NEW j \in 0 .. End, Made(prog, j), HasHeard(q, j)'
          PROVE  Informed(q, j)'
      <4>1. Informed(q, j)
        BY <2>1, <3>1, <1>7 DEF Knows
      <4>2. Sources(q, j)' = Sources(q, j)
        BY <1>3 DEF Sources
      <4> QED BY <4>1, <4>2, <1>3 DEF Informed
    <3> QED BY <3>1, <1>3 DEF Knows
  <2> QED BY <2>2, <2>3, <2>4
<1>9. ASSUME NEW a \in Ranks, NEW b \in Ranks, <<a, b>> \in Links
      PROVE  Flow(a, b)'
  <2>1. Flow(a, b)
    BY <1>9 DEF Inv
  <2>2. Sent(a, b)' = Sent(a, b) /\ Got(a, b)' = Got(a, b)
    BY <1>7 DEF Same
  <2>3. CASE b = r
    <3>1. Got(a, b) <= Sent(a, b) /\ st'[b] # "up"
      BY <1>1, <1>4, <2>1, <2>3 DEF Flow
    <3> QED BY <2>2, <3>1 DEF Flow
  <2>4. CASE b # r
    <3>1. chan'[<<a, b>>] = chan[<<a, b>>]
      BY <1>3, <1>9, <2>4
    <3>2. st'[b] = st[b]
      BY <1>4, <2>4
    <3> QED BY <1>3, <2>1, <2>2, <3>1, <3>2 DEF Flow
  <2> QED BY <2>3, <2>4
<1> QED BY <1>1, <1>6, <1>7, <1>8, <1>9 DEF Inv

\* behind the last call nothing is on the way to a rank
LEMMA NothingLeft ==
  ASSUME Inv, NEW r \in Ranks, st[r] = "up", stage[r] = 0, called[r] = MaxOps, NEW q \in Peers(r)
  PROVE  chan[<<q, r>>] = <<>>
<1>1. q \in Ranks /\ <<q, r>> \in Links
  BY LinksAreTwoWay DEF Peers, LinkBack
<1>2. Types /\ Within(r) /\ Within(q) /\ Flow(q, r)
  BY <1>1 DEF Inv
<1>3. PICK f \in Seq(Data) : f = All(prog, q, r)
  <2>1. prog \in Programs
    BY <1>2 DEF Types
  <2> QED BY <1>1, <2>1, AllIs
<1>4. PICK n \in Nat : n = Len(f)
  OBVIOUS
<1>5. Got(q, r) = n
  BY <1>1, <1>2, <1>3, <1>4, OutHasAll
<1>6. Sent(q, r) \in Nat /\ Sent(q, r) <= n
  BY <1>1, <1>2, <1>3, <1>4, WithinFits DEF Fits
<1>7. Got(q, r) <= Sent(q, r) /\ chan[<<q, r>>] = Cut(f, Got(q, r), Sent(q, r))
  BY <1>2, <1>3 DEF Flow
<1>8. Sent(q, r) = n
  BY <1>5, <1>6, <1>7
<1>9. Cut(f, n, n) = <<>>
  BY <1>4, CutNone
<1> QED BY <1>5, <1>7, <1>8, <1>9

\* cobo_close finds nothing unread
LEMMA CloseDeparts ==
  ASSUME Inv, NEW r \in Ranks, cobo_close(r)
  PROVE  Departs(r, "closed") /\ Len(prog) = MaxOps
<1>1. Types /\ Quiet
  BY DEF Inv
<1>2. Len(prog) = MaxOps
  <2>1. prog \in [1 .. MaxOps -> Ops] /\ MaxOps \in Nat
    BY <1>1, CoboAssumption DEF Types, Programs
  <2> QED BY <2>1
<1>3. /\ st[r] = "up" /\ stage[r] = 0 /\ called[r] = MaxOps /\ Depart(r, "closed") /\ deaths' = deaths
  BY <1>2 DEF cobo_close, Up
<1>4. Quiet'
  <2>1. reset' = reset
    <3>1. {p \in Peers(r) : chan[<<p, r>>] # <<>>} = {}
      BY <1>3, NothingLeft
    <3>2. reset' = reset \cup {{r, q} : q \in {p \in Peers(r) : chan[<<p, r>>] # <<>>}}
      BY <1>3 DEF Depart
    <3> QED BY <3>1, <3>2
  <2>2. \A q \in Ranks : st'[q] = "gone" => st[q] = "gone"
    BY <1>1, <1>3 DEF Depart, Types
  <2> QED BY <1>1, <1>3, <2>1, <2>2 DEF Quiet
<1>5. deaths' \in Nat
  BY <1>1, <1>3 DEF Types
<1> QED BY <1>2, <1>3, <1>4, <1>5 DEF Departs

LEMMA DieDeparts ==
  ASSUME Inv, NEW r \in Ranks, Die(r)
  PROVE  Departs(r, "gone")
<1>1. deaths \in Nat
  BY DEF Inv, Types
<1>2. st[r] = "up" /\ deaths' = deaths + 1 /\ Depart(r, "gone")
  BY DEF Die, Up
<1>3. deaths' \in Nat /\ deaths' # 0
  BY <1>1, <1>2
<1>4. Quiet'
  BY <1>3 DEF Quiet
<1> QED BY <1>2, <1>3, <1>4 DEF Departs

\* there is no exit(1) unless a daemon was killed
LEMMA FailsAfterDeath ==
  ASSUME Inv, NEW r \in Ranks, Fails(r)
  PROVE  deaths # 0 /\ stage[r] # 0 /\ Departs(r, "gone")
<1>1. Types /\ Quiet /\ Within(r)
  BY DEF Inv
<1>2. PICK h : h = Head(io[r])
  OBVIOUS
<1>3. /\ st[r] = "up" /\ stage[r] > 0 /\ io[r] # <<>> /\ st[h.peer] # "up" /\ Depart(r, "gone") /\ deaths' = deaths
      /\ {r, h.peer} \in reset \/ (h.do = "read" /\ chan[<<h.peer, r>>] = <<>>)
  BY <1>2 DEF Fails, Busy, Up
<1>4. stage[r] # 0
  BY <1>1, <1>3 DEF Types
<1>5. PICK p, k, s, x, u : p = prog /\ k = called[r] /\ s = stage[r] /\ x = Where(r) /\ u = part[r]
  OBVIOUS
<1>6. Local(p, r, k, s, x, io[r], u, buf[r], cnt[r])
  BY <1>1, <1>4, <1>5 DEF Within
<1>7. First(p, r, k, s, x, io[r], u, h, At(k, s))
  BY <1>2, <1>3, <1>6, FirstIs
<1>8. PICK c, j : c = h.peer /\ j = At(k, s)
  OBVIOUS
<1>9. /\ c \in Ranks /\ <<c, r>> \in Links /\ p \in Programs /\ j \in 0 .. End
      /\ h.do = "read" => /\ Len(u) < Len(Msg(p, c, r, j)) /\ Taken(p, c, r, k, s, x, Len(u)) = Offset(p, c, r, j) + Len(u)
      /\ Len(u) \in Nat
  BY <1>7, <1>8 DEF First
<1>10. ASSUME deaths = 0 PROVE FALSE
  <2>1. h.do = "read" /\ chan[<<c, r>>] = <<>> /\ st[c] = "closed"
    <3>1. reset = {} /\ st[c] # "gone"
      BY <1>1, <1>9, <1>10 DEF Quiet
    <3>2. h.do = "read" /\ chan[<<c, r>>] = <<>> /\ st[c] # "up"
      BY <1>3, <1>8, <3>1
    <3> QED BY <1>1, <1>9, <3>1, <3>2 DEF Types
  <2>2. Within(c) /\ Out(c) /\ Flow(c, r)
    BY <1>9 DEF Inv
  <2>3. PICK f \in Seq(Data) : f = All(p, c, r) /\ Len(f) = Offset(p, c, r, End + 1)
    BY <1>9, AllIs
  <2>4. Sent(c, r) = Len(f)
    <3>1. stage[c] = 0 /\ called[c] = MaxOps
      BY <2>1, <2>2 DEF Out
    <3> QED BY <1>1, <1>5, <1>9, <2>2, <2>3, <3>1, OutHasAll
  <2>5. Got(c, r) = Offset(p, c, r, j) + Len(u)
    BY <1>5, <1>9, <2>1 DEF Got
  <2>6. Offs(p, c, r, j)
    BY <1>9, OffsetsAre
  <2>7. Offset(p, c, r, j + 1) <= Len(f)
    <3>1. j + 1 \in 0 .. End + 1 /\ End + 1 \in 0 .. End + 1 /\ j + 1 <= End + 1
      BY <1>9, EndIsNat
    <3>2. Offset(p, c, r, j + 1) <= Offset(p, c, r, End + 1)
      BY <1>9, <3>1, OffsetGrows
    <3> QED BY <2>3, <3>2
  <2>8. PICK z \in Nat : z = Got(c, r)
    BY <1>9, <2>5, <2>6 DEF Offs
  <2>9. z < Len(f)
    <3>1. PICK o \in Nat : o = Offset(p, c, r, j)
      BY <2>6 DEF Offs
    <3>2. PICK m \in Nat : m = Len(Msg(p, c, r, j))
      BY <2>6 DEF Offs
    <3>3. PICK w \in Nat : w = Len(u)
      BY <1>9
    <3>4. PICK g \in Nat : g = Len(f)
      OBVIOUS
    <3>5. o + m <= g
      BY <2>6, <2>7, <3>1, <3>2, <3>4 DEF Offs
    <3>6. w < m
      BY <1>9, <2>1, <3>2, <3>3
    <3>7. z = o + w
      BY <2>5, <2>8, <3>1, <3>3
    <3>8. z < g
      BY <3>5, <3>6, <3>7
    <3> QED BY <3>4, <3>8
  <2>10. chan[<<c, r>>] = Cut(f, z, Len(f))
    BY <1>3, <1>5, <2>2, <2>3, <2>4, <2>8 DEF Flow
  <2>11. Cut(f, z, Len(f)) # <<>>
    BY <2>9, CutFirst
  <2> QED BY <2>1, <2>10, <2>11
<1>11. deaths # 0
  BY <1>10
<1>12. Quiet' /\ deaths' \in Nat
  BY <1>1, <1>3, <1>11 DEF Quiet, Types
<1> QED BY <1>3, <1>4, <1>11, <1>12 DEF Departs

-----------------------------------------------------------------------------
(* The invariant                                                           *)

LEMMA InitInv ==
  ASSUME Init
  PROVE  Inv
<1>1. /\ prog \in Programs /\ called = [r \in Ranks |-> 0] /\ res = [r \in Ranks |-> <<>>] /\ st = [r \in Ranks |-> "up"]
      /\ deaths = 0 /\ stage = [r \in Ranks |-> 0] /\ io = [r \in Ranks |-> <<>>] /\ part = [r \in Ranks |-> <<>>]
      /\ buf = [r \in Ranks |-> <<>>] /\ cnt = [r \in Ranks |-> 1] /\ chan = [l \in Links |-> <<>>] /\ reset = {}
  BY DEF Init, Promise!CInit, Promise!Ranks, Ranks, Programs
<1>2. MaxOps \in Nat /\ 0 \in 0 .. MaxOps
  BY CoboAssumption
<1>3. Types
  <2> HIDE DEF Results, Data
  <2> QED BY <1>1, <1>2 DEF Types
<1>4. ASSUME NEW r \in Ranks
      PROVE  Within(r) /\ Returned(r) /\ Out(r)
  <2>1. stage[r] = 0 /\ io[r] = <<>> /\ called[r] = 0 /\ Len(res[r]) = 0 /\ st[r] = "up"
    BY <1>1
  <2>2. Outside(prog, r, called[r], stage[r])
    BY <1>1, <1>2, <2>1 DEF Outside
  <2> QED BY <2>1, <2>2 DEF Within, Returned, Out
<1>5. ASSUME NEW r \in Ranks
      PROVE  Knows(r)
  <2>1. ASSUME NEW j \in 0 .. End, HasHeard(r, j), Made(prog, j)
        PROVE  FALSE
    <3>1. PICK z \in Nat : z = j
      BY EndIsNat
    <3>2. Here(0, 0) = 5
      BY DEF Here, At
    <3>3. 5 > z
      BY <1>1, <2>1, <3>1, <3>2 DEF HasHeard, Heard
    <3>4. (z - 1) \div 4 \in 1 .. MaxOps
      BY <2>1, <3>1 DEF Made, CallOf
    <3>5. (z - 1) \div 4 >= 1
      BY <1>2, <3>4
    <3> QED BY <3>3, <3>5
  <2> QED BY <2>1 DEF Knows
<1>6. ASSUME NEW a \in Ranks, NEW b \in Ranks, <<a, b>> \in Links
      PROVE  Flow(a, b)
  <2>1. PICK p \in Programs : p = prog
    BY <1>1
  <2>2. PICK x, y : x = Where(a) /\ y = Where(b)
    OBVIOUS
  <2>3. stage[a] = 0 /\ called[a] = 0 /\ part[a] = <<>> /\ stage[b] = 0 /\ called[b] = 0 /\ part[b] = <<>>
    BY <1>1
  <2>4. Outside(p, a, 0, 0) /\ Outside(p, b, 0, 0)
    BY <1>2 DEF Outside
  <2>5. PICK n : n = Offset(p, a, b, Here(0, 0))
    OBVIOUS
  <2>6. Written(p, a, b, 0, 0, x, Len(<<>>)) = n
    BY <2>4, <2>5, OutsideMeans
  <2>7. Taken(p, a, b, 0, 0, y, Len(<<>>)) = n
    BY <2>4, <2>5, OutsideMeans
  <2>8. Sent(a, b) = n /\ Got(a, b) = n
    BY <2>1, <2>2, <2>3, <2>6, <2>7 DEF Sent, Got
  <2>9. PICK f \in Seq(Data) : f = All(p, a, b)
    BY AllIs
  <2>10. n \in Nat /\ n <= Len(f)
    <3>1. Fits(a)
      BY <1>4, WithinFits
    <3> QED BY <3>1, <2>1, <2>8, <2>9 DEF Fits
  <2>11. Cut(f, n, n) = <<>>
    BY <2>10, CutNone
  <2>12. chan[<<a, b>>] = <<>>
    BY <1>1, <1>6
  <2> QED BY <2>1, <2>8, <2>9, <2>10, <2>11, <2>12 DEF Flow
<1>7. Quiet
  BY <1>1 DEF Quiet
<1> QED BY <1>3, <1>4, <1>5, <1>6, <1>7 DEF Inv

LEMMA StutterInv ==
  ASSUME Inv, UNCHANGED vars
  PROVE  Inv'
BY DEF vars, Inv, Types, Within, Returned, Out, Knows, Informed, Sources, HasHeard, Flow, Sent, Got, Where, Quiet

LEMMA NextInv ==
  ASSUME Inv, Next
  PROVE  Inv'
<1>1. CASE Ended /\ UNCHANGED vars
  BY <1>1, StutterInv
<1>2. ASSUME NEW r \in Ranks, Step(r) \/ Die(r)
      PROVE  Inv'
  <2>1. CASE Call(r)
    BY <2>1, CallGoesOn, MovesOnKeeps
  <2>2. CASE NextTree(r)
    BY <2>2, TreeGoesOn, MovesOnKeeps
  <2>3. CASE Return(r)
    BY <2>3, ReturnGoesOn, MovesOnKeeps
  <2>4. CASE cobo_read_fd(r)
    BY <2>4, ReadGoesOn, MovesOnKeeps
  <2>5. CASE cobo_write_fd(r)
    BY <2>5, WriteGoesOn, MovesOnKeeps
  <2>6. CASE Fails(r)
    BY <2>6, FailsAfterDeath, DepartKeeps
  <2>7. CASE cobo_close(r)
    BY <2>7, CloseDeparts, DepartKeeps
  <2>8. CASE Die(r)
    BY <2>8, DieDeparts, DepartKeeps
  <2> QED BY <1>2, <2>1, <2>2, <2>3, <2>4, <2>5, <2>6, <2>7, <2>8 DEF Step
<1> QED BY <1>1, <1>2 DEF Next

(***************************************************************************)
(* In every state of every run each daemon is at a place of its program,   *)
(* has in hand the data that belong there, and knows from what it has read *)
(* who has entered which call; and each connection holds the stretch of    *)
(* the one stream between its two ends (the reads and writes of the        *)
(* cobo_*_tree functions).                                                 *)
(***************************************************************************)
THEOREM InvHolds == Spec => []Inv
<1>1. Init => Inv
  BY InitInv
<1>2. Inv /\ [Next]_vars => Inv'
  BY NextInv, StutterInv
<1> QED BY <1>1, <1>2, PTL DEF Spec

(***************************************************************************)
(* Unless a daemon was killed no connection is ever reset: what a daemon   *)
(* reads until cobo_close is all that its peers have written to it, so its *)
(* close drops nothing, and nobody writes to it after that.                *)
(***************************************************************************)
THEOREM ClosesAreClean == Spec => []CleanClose
<1>1. Inv => CleanClose
  BY DEF Inv, Quiet, CleanClose
<1> QED BY <1>1, InvHolds, PTL

-----------------------------------------------------------------------------
(* The promise is kept                                                     *)

\* a rank that is through its call has heard of all it waits for
LEMMA AllAwaitedAreIn ==
  ASSUME Inv, NEW r \in Ranks, called[r] \in 1 .. MaxOps, stage[r] # 0,
         stage[r] = Len(Stages(prog[called[r]])), Where(r) = Len(Plan(prog, called[r], stage[r], r))
  PROVE  \A q \in Promise!Awaited(prog[called[r]], r) : called[q] >= called[r]
<1>1. PICK p \in Programs : p = prog
  BY DEF Inv, Types
<1>2. PICK k \in 1 .. MaxOps : k = called[r]
  OBVIOUS
<1>3. PICK op \in AllOps : op = p[k]
  BY <1>1, OpsAreKnown
<1>4. PICK m \in 1 .. 4 : m = Len(Stages(op))
  BY StagesFit
<1>5. m \in 1 .. Len(Stages(p[k])) /\ stage[r] = m
  BY <1>1, <1>2, <1>3, <1>4
<1>6. PICK j : j = At(k, m)
  OBVIOUS
<1>7. j \in 0 .. End /\ CallOf(j) = k /\ Made(p, j) /\ KindOf(p, j) = Stages(op)[m]
  BY <1>3, <1>5, <1>6, MadeAt
<1>8. HasHeard(r, j)
  <2>1. PICK x \in Nat : x = Len(Plan(p, k, m, r))
    <3>1. Plan(p, k, m, r) \in Seq(Acts)
      BY <1>5, PlanIsSound DEF Sound
    <3> QED BY <3>1
  <2>2. \A i \in x + 1 .. x : FALSE
    BY <2>1
  <2>3. Here(k, m) = j /\ m > 0
    BY <1>6 DEF Here
  <2>4. Heard(p, r, k, m, x, j)
    BY <2>1, <2>2, <2>3 DEF Heard
  <2> QED BY <1>1, <1>2, <1>5, <2>1, <2>4 DEF HasHeard
<1>9. \A q \in Sources(r, j) : called[q] >= k
  <2>1. Knows(r)
    BY DEF Inv
  <2> QED BY <1>1, <1>7, <1>8, <2>1 DEF Knows, Informed
<1>10. called[r] >= k
  BY <1>2, CoboAssumption
<1>11. Promise!Ranks = Ranks
  BY DEF Ranks
<1>12. CASE op \in {"barrier", "allgather", "allgather_str"}
  <2>1. Stages(op)[m] = "bcast"
    <3>1. CASE op = "barrier"
      <4>1. Len(Stages("barrier")) = 2 /\ Stages("barrier")[2] = "bcast"
        BY StagesAre
      <4> QED BY <1>4, <3>1, <4>1
    <3>2. CASE op = "allgather"
      <4>1. Len(Stages("allgather")) = 2 /\ Stages("allgather")[2] = "bcast"
        BY StagesAre
      <4> QED BY <1>4, <3>2, <4>1
    <3>3. CASE op = "allgather_str"
      <4>1. Len(Stages("allgather_str")) = 4 /\ Stages("allgather_str")[4] = "bcast"
        BY StagesAre
      <4> QED BY <1>4, <3>3, <4>1
    <3> QED BY <1>12, <3>1, <3>2, <3>3
  <2>2. Sources(r, j) = Ranks
    BY <1>1, <1>3, <1>7, <1>12, <2>1 DEF Sources, Upwards
  <2>3. Promise!Awaited(op, r) = Ranks
    BY <1>11, <1>12 DEF Promise!Awaited
  <2> QED BY <1>1, <1>2, <1>3, <1>9, <2>2, <2>3
<1>13. CASE op \in {"bcast", "scatter"}
  <2>1. Stages(op)[m] \notin Upwards
    <3>1. CASE op = "bcast"
      BY <1>4, <3>1, StagesAre DEF Upwards
    <3>2. CASE op = "scatter"
      BY <1>4, <3>2, StagesAre DEF Upwards
    <3> QED BY <1>13, <3>1, <3>2
  <2>2. Sources(r, j) = {0}
    BY <1>1, <1>3, <1>7, <1>13, <2>1 DEF Sources
  <2>3. Promise!Awaited(op, r) = {0, r}
    BY <1>13 DEF Promise!Awaited
  <2> QED BY <1>1, <1>2, <1>3, <1>9, <1>10, <2>2, <2>3
<1>14. CASE op = "gather"
  <2>1. Stages(op)[m] \in Upwards
    BY <1>4, <1>14, StagesAre DEF Upwards
  <2>2. Sources(r, j) = Sub(r)
    BY <1>1, <1>7, <2>1 DEF Sources
  <2>3. Promise!Awaited(op, r) = IF r = 0 THEN Ranks ELSE {r}
    BY <1>11, <1>14 DEF Promise!Awaited
  <2>4. r = 0 => Sub(r) = Ranks
    BY SubIsRanks
  <2> QED BY <1>1, <1>2, <1>3, <1>9, <1>10, <2>2, <2>3, <2>4
<1> QED BY <1>12, <1>13, <1>14 DEF AllOps

\* Call is the Enter of the collectives
LEMMA CallEnters ==
  ASSUME Inv, NEW r \in Ranks, Call(r)
  PROVE  Promise!Enter(r)
<1>1. Types /\ Returned(r)
  BY DEF Inv
<1>2. st[r] = "up" /\ stage[r] = 0 /\ called[r] < Len(prog)
  BY DEF Call, Up
<1>3. called[r] \in Nat /\ Len(res[r]) = called[r]
  BY <1>1, <1>2, CoboAssumption DEF Types, Returned
<1>4. ~Promise!Inside(r)
  BY <1>3 DEF Promise!Inside
<1> QED BY <1>2, <1>4 DEF Call, Promise!Enter

\* in a call
LEMMA InACall ==
  ASSUME Inv, NEW r \in Ranks, stage[r] # 0
  PROVE  Promise!Inside(r)
<1>1. Types /\ Returned(r)
  BY DEF Inv
<1>2. PICK n \in Nat : n = called[r]
  BY <1>1, CoboAssumption DEF Types
<1>3. Len(res[r]) = n - 1
  BY <1>1, <1>2 DEF Returned
<1> QED BY <1>2, <1>3 DEF Promise!Inside

\* Return is their Leave
LEMMA ReturnLeaves ==
  ASSUME Inv, NEW r \in Ranks, Return(r)
  PROVE  Promise!Leave(r)
<1>1. Types /\ Within(r)
  BY DEF Inv
<1>2. /\ stage[r] # 0 /\ called[r] \in 1 .. MaxOps /\ called' = called
      /\ stage[r] = Len(Stages(prog[called[r]])) /\ Where(r) = Len(Plan(prog, called[r], stage[r], r))
      /\ res' = [res EXCEPT ![r] = Append(@, Promise!Result(prog[called[r]], called[r], r))]
  BY <1>1, ReturnMoves
<1>3. Promise!Inside(r)
  BY <1>2, InACall
<1>4. \A q \in Promise!Awaited(prog[called[r]], r) : called[q] >= called[r]
  BY <1>2, AllAwaitedAreIn
<1>5. st[r] = "up" /\ UNCHANGED <<prog, st, deaths>>
  BY DEF Return, Busy, Up
<1> QED BY <1>2, <1>3, <1>4, <1>5 DEF Promise!Leave

\* exit(1) is their GivesUp: a rank was killed
LEMMA FailsGivesUp ==
  ASSUME Inv, NEW r \in Ranks, Fails(r)
  PROVE  Promise!GivesUp(r)
<1>1. deaths # 0 /\ stage[r] # 0
  BY FailsAfterDeath
<1>2. deaths > 0
  BY <1>1 DEF Inv, Types
<1>3. Promise!Inside(r)
  BY <1>1, InACall
<1> QED BY <1>2, <1>3 DEF Fails, Busy, Up, Depart, Promise!GivesUp

\* cobo_close is their Shut: all calls have returned
LEMMA CloseShuts ==
  ASSUME Inv, NEW r \in Ranks, cobo_close(r)
  PROVE  Promise!Shut(r)
<1>1. Returned(r)
  BY DEF Inv
<1>2. Len(res[r]) = Len(prog)
  BY <1>1 DEF Returned, cobo_close
<1> QED BY <1>2 DEF cobo_close, Up, Depart, Promise!Shut

LEMMA DieKills ==
  ASSUME NEW r \in Ranks, Die(r)
  PROVE  Promise!Killed(r)
BY DEF Die, Up, Depart, Promise!Killed

\* every step of the tree is a step of the collectives, or none
LEMMA StepIsPromised ==
  ASSUME Inv, [Next]_vars
  PROVE  [Promise!CNext]_(Promise!cvars)
<1>1. CASE UNCHANGED vars
  BY <1>1 DEF vars, Promise!cvars
<1>2. CASE Ended /\ UNCHANGED vars
  BY <1>2 DEF vars, Promise!cvars
<1>3. ASSUME NEW r \in Ranks, Step(r) \/ Die(r)
      PROVE  [Promise!CNext]_(Promise!cvars)
  <2>0. r \in Promise!Ranks
    BY DEF Ranks
  <2>1. CASE Call(r)
    BY <2>0, <2>1, CallEnters DEF Promise!CNext
  <2>2. CASE NextTree(r)
    BY <2>2 DEF NextTree, abstract, Promise!cvars
  <2>3. CASE Return(r)
    BY <2>0, <2>3, ReturnLeaves DEF Promise!CNext
  <2>4. CASE cobo_read_fd(r)
    BY <2>4 DEF cobo_read_fd, abstract, Promise!cvars
  <2>5. CASE cobo_write_fd(r)
    BY <2>5 DEF cobo_write_fd, abstract, Promise!cvars
  <2>6. CASE Fails(r)
    BY <2>0, <2>6, FailsGivesUp DEF Promise!CNext
  <2>7. CASE cobo_close(r)
    BY <2>0, <2>7, CloseShuts DEF Promise!CNext
  <2>8. CASE Die(r)
    BY <2>0, <2>8, DieKills DEF Promise!CNext
  <2> QED BY <1>3, <2>1, <2>2, <2>3, <2>4, <2>5, <2>6, <2>7, <2>8 DEF Step
<1> QED BY <1>1, <1>2, <1>3 DEF Next

(***************************************************************************)
(* The cobo_*_tree functions over byte streams implement the collectives:  *)
(* a call returns only when the ranks whose data it needs have entered it, *)
(* with the data of that call in rank order, and no daemon exits unless    *)
(* one was killed.                                                         *)
(***************************************************************************)
THEOREM TreeImplementsCollectives == Spec => Implements
<1>1. Init => Promise!CInit
  BY DEF Init
<1>2. Inv /\ [Next]_vars => [Promise!CNext]_(Promise!cvars)
  BY StepIsPromised
<1> QED BY <1>1, <1>2, InvHolds, PTL DEF Spec, Implements, Promise!CSpec
=============================================================================
