--------------------------- MODULE CoboTreeProofs ---------------------------
(***************************************************************************)
(* Proofs about CoboTree: for every number of daemons the ranks agree on   *)
(* the tree, the buffers of gather and scatter are in rank order, and the  *)
(* arrays of children are long enough.                                     *)
(*                                                                         *)
(* TreeAgrees and RanksInOrder speak of the end of the loops only, so they *)
(* are strengthened to what holds after every iteration.  The heart is     *)
(* SameHalf: two ranks that are still in one interval have narrowed it     *)
(* down identically, so what one notes about the other in an iteration is  *)
(* what the other notes in the same iteration.                             *)
(***************************************************************************)
EXTENDS CoboTree, TLAPS, WellFoundedInduction

TypeOK ==
  /\ nprocs \in 1 .. MaxProcs
  /\ low \in [Ranks -> Int] /\ high \in [Ranks -> Int]
  /\ parent \in [Ranks -> Int] /\ total \in [Ranks -> Int]
  /\ child \in [Ranks -> Seq(Int)] /\ incl \in [Ranks -> Seq(Int)]

\* a rank is inside its own interval
Around == \A r \in Ranks :
  0 <= low[r] /\ low[r] <= r /\ r <= high[r] /\ high[r] <= nprocs - 1

SameHalf == \A a, b \in Ranks :
  low[a] <= b /\ b <= high[a] => low[b] = low[a] /\ high[b] = high[a]

\* the children cs, reserving the shares ns, laid end to end from h + 1 to h + t
Tiling(cs, ns, h, t, top) ==
  /\ Len(ns) = Len(cs)
  /\ \A i \in 1 .. Len(cs) : h < cs[i] /\ cs[i] <= top
  /\ \A i \in 1 .. Len(cs) - 1 : cs[i] = cs[i + 1] + ns[i + 1]
  /\ Len(cs) > 0 => cs[Len(cs)] = h + 1 /\ t + h = cs[1] + ns[1] - 1
  /\ Len(cs) = 0 => t = 0

\* the children found so far are laid end to end above the interval
Tiled == \A p \in Ranks :
  /\ Tiling(child[p], incl[p], high[p], total[p], nprocs - 1)
  /\ Len(child[p]) > 0 => low[p] = p

\* a child knows its parent and will answer for what the parent reserved
Kin == \A p \in Ranks : \A i \in 1 .. Len(child[p]) :
  /\ parent[child[p][i]] = p
  /\ low[child[p][i]] = child[p][i]
  /\ incl[p][i] = total[child[p][i]] + high[child[p][i]] - child[p][i] + 1

\* a rank that has become the lower end of its interval has been adopted
Adopted == \A c \in Ranks \ {0} : low[c] = c =>
  /\ parent[c] \in Ranks
  /\ \E i \in 1 .. Len(child[parent[c]]) : child[parent[c]][i] = c

IInv == TypeOK /\ Around /\ SameHalf /\ Tiled /\ Kin /\ Adopted

-----------------------------------------------------------------------------
(* The middle of an interval of two ranks or more lies above its lower end
   and not above its upper end: each half is smaller than the whole. *)
LEMMA MidBounds ==
  ASSUME NEW l \in Int, NEW h \in Int, l < h
  PROVE  Mid(l, h) \in Int /\ l < Mid(l, h) /\ Mid(l, h) <= h
  BY DEF Mid

(* What one iteration does to one rank, with the middle named. *)
LEMMA StepOf ==
  ASSUME IInv, Iterate, NEW r \in Ranks
  PROVE  /\ nprocs' = nprocs /\ Ranks' = Ranks
         /\ mid(r) = Mid(low[r], high[r])
         /\ low[r] < high[r] => mid(r) \in Int /\ low[r] < mid(r) /\ mid(r) <= high[r]
         /\ low[r] < high[r] /\ mid(r) <= r =>
              low'[r] = mid(r) /\ high'[r] = high[r]
         /\ low[r] < high[r] /\ r < mid(r) =>
              low'[r] = low[r] /\ high'[r] = mid(r) - 1
         /\ ~(low[r] < high[r]) => low'[r] = low[r] /\ high'[r] = high[r]
         /\ low[r] < high[r] /\ mid(r) = r => parent'[r] = low[r]
         /\ ~(low[r] < high[r] /\ mid(r) = r) => parent'[r] = parent[r]
         /\ low[r] < high[r] /\ low[r] = r =>
              /\ child'[r] = Append(child[r], mid(r))
              /\ incl'[r] = Append(incl[r], high[r] - mid(r) + 1)
              /\ total'[r] = total[r] + (high[r] - mid(r) + 1)
         /\ ~(low[r] < high[r] /\ low[r] = r) =>
              child'[r] = child[r] /\ incl'[r] = incl[r] /\ total'[r] = total[r]
<1>1. low[r] \in Int /\ high[r] \in Int /\ r \in Int /\ nprocs' = nprocs /\ Ranks' = Ranks
  <2>1. nprocs' = nprocs /\ Ranks' = Ranks
    BY DEF Iterate, Ranks
  <2>2. low[r] \in Int /\ high[r] \in Int
    BY DEF IInv, TypeOK
  <2>3. nprocs \in Int
    BY MaxProcsAssumption DEF IInv, TypeOK
  <2>4. QED
    BY <2>1, <2>2, <2>3 DEF Ranks
<1>2. mid(r) = Mid(low[r], high[r])
  BY DEF mid
<1>3. low[r] < high[r] => mid(r) \in Int /\ low[r] < mid(r) /\ mid(r) <= high[r]
  BY <1>1, <1>2, MidBounds
<1>4. Looping(r) <=> low[r] < high[r]
  BY <1>1 DEF Looping
<1>5. /\ low'[r] = IF Looping(r) /\ mid(r) <= r THEN mid(r) ELSE low[r]
      /\ high'[r] = IF Looping(r) /\ ~(mid(r) <= r) THEN mid(r) - 1 ELSE high[r]
  BY DEF Iterate, Narrow
<1>6. /\ parent'[r] = IF GetsParent(r) THEN low[r] ELSE parent[r]
      /\ child'[r] = IF GetsChild(r) THEN Append(child[r], mid(r)) ELSE child[r]
      /\ incl'[r] = IF GetsChild(r) THEN Append(incl[r], Share(r)) ELSE incl[r]
      /\ total'[r] = IF GetsChild(r) THEN total[r] + Share(r) ELSE total[r]
  BY DEF Iterate, Note
<1>7. QED
  BY <1>1, <1>2, <1>3, <1>4, <1>5, <1>6 DEF GetsParent, GetsChild, Share

-----------------------------------------------------------------------------
LEMMA TypeStep ==
  ASSUME IInv, Iterate
  PROVE  TypeOK'
<1>1. Ranks' = Ranks /\ nprocs' = nprocs
  BY DEF Iterate, Ranks
<1>2. ASSUME NEW r \in Ranks
      PROVE  /\ low'[r] \in Int /\ high'[r] \in Int /\ parent'[r] \in Int /\ total'[r] \in Int
             /\ child'[r] \in Seq(Int) /\ incl'[r] \in Seq(Int)
  <2>1. r \in Int /\ low[r] \in Int /\ high[r] \in Int /\ parent[r] \in Int
        /\ total[r] \in Int /\ child[r] \in Seq(Int) /\ incl[r] \in Seq(Int)
    BY MaxProcsAssumption DEF IInv, TypeOK, Ranks
  <2>2. low'[r] \in Int /\ high'[r] \in Int /\ parent'[r] \in Int
    <3>1. \/ mid(r) \in Int /\ low'[r] = mid(r) /\ high'[r] = high[r]
          \/ mid(r) \in Int /\ low'[r] = low[r] /\ high'[r] = mid(r) - 1
          \/ low'[r] = low[r] /\ high'[r] = high[r]
      BY <2>1, StepOf
    <3>2. parent'[r] = low[r] \/ parent'[r] = parent[r]
      BY StepOf
    <3>3. QED
      BY <2>1, <3>1, <3>2
  <2>3. CASE low[r] < high[r] /\ low[r] = r
    <3>1. /\ mid(r) \in Int /\ child'[r] = Append(child[r], mid(r))
          /\ incl'[r] = Append(incl[r], high[r] - mid(r) + 1)
          /\ total'[r] = total[r] + (high[r] - mid(r) + 1)
      BY <2>3, StepOf
    <3>2. high[r] - mid(r) + 1 \in Int
      BY <2>1, <3>1
    <3>3. QED
      BY <2>1, <2>2, <3>1, <3>2
  <2>4. CASE ~(low[r] < high[r] /\ low[r] = r)
    <3>1. child'[r] = child[r] /\ incl'[r] = incl[r] /\ total'[r] = total[r]
      BY <2>4, StepOf
    <3>2. QED
      BY <2>1, <2>2, <3>1
  <2>5. QED
    BY <2>3, <2>4
<1>3. /\ DOMAIN low' = Ranks /\ DOMAIN high' = Ranks /\ DOMAIN parent' = Ranks
      /\ DOMAIN total' = Ranks /\ DOMAIN child' = Ranks /\ DOMAIN incl' = Ranks
      /\ low' = [r \in Ranks |-> low'[r]] /\ high' = [r \in Ranks |-> high'[r]]
      /\ parent' = [r \in Ranks |-> parent'[r]] /\ total' = [r \in Ranks |-> total'[r]]
      /\ child' = [r \in Ranks |-> child'[r]] /\ incl' = [r \in Ranks |-> incl'[r]]
  BY DEF Iterate, Note, Narrow
<1>4. QED
  BY <1>1, <1>2, <1>3 DEF TypeOK, IInv

LEMMA AroundStep ==
  ASSUME IInv, Iterate
  PROVE  Around'
<1> SUFFICES ASSUME NEW r \in Ranks
             PROVE  0 <= low'[r] /\ low'[r] <= r /\ r <= high'[r] /\ high'[r] <= nprocs - 1
  BY DEF Around, Iterate, Ranks
<1>1. low[r] \in Int /\ high[r] \in Int /\ r \in Int /\ nprocs \in Int
  BY MaxProcsAssumption DEF IInv, TypeOK, Ranks
<1>2. 0 <= low[r] /\ low[r] <= r /\ r <= high[r] /\ high[r] <= nprocs - 1
  BY DEF IInv, Around
<1>3. QED
  BY <1>1, <1>2, StepOf

LEMMA SameHalfStep ==
  ASSUME IInv, Iterate
  PROVE  SameHalf'
<1> SUFFICES ASSUME NEW a \in Ranks, NEW b \in Ranks, low'[a] <= b, b <= high'[a]
             PROVE  low'[b] = low'[a] /\ high'[b] = high'[a]
  BY DEF SameHalf, Iterate, Ranks
<1>1. /\ low[a] \in Int /\ high[a] \in Int /\ a \in Int
      /\ low[b] \in Int /\ high[b] \in Int /\ b \in Int
  BY MaxProcsAssumption DEF IInv, TypeOK, Ranks
<1>2. low[a] <= b /\ b <= high[a]
  BY <1>1, StepOf
<1>3. low[b] = low[a] /\ high[b] = high[a] /\ mid(b) = mid(a)
  BY <1>2, StepOf DEF IInv, SameHalf
<1>4. QED
  BY <1>1, <1>2, <1>3, StepOf

(* A sequence with one more element. *)
LEMMA Appended ==
  ASSUME NEW s \in Seq(Int), NEW e \in Int, NEW t, t = Append(s, e)
  PROVE  /\ Len(s) \in Nat /\ Len(t) = Len(s) + 1 /\ t[Len(s) + 1] = e
         /\ \A i \in 1 .. Len(s) : t[i] = s[i] /\ s[i] \in Int
  OBVIOUS

(* One more tile below the others leaves the tiling a tiling. *)
LEMMA OneMoreTile ==
  ASSUME NEW cs \in Seq(Int), NEW ns \in Seq(Int), NEW h \in Int, NEW t \in Int,
         NEW top \in Int, NEW m \in Int, Tiling(cs, ns, h, t, top), m <= h, h <= top,
         NEW cs2, cs2 = Append(cs, m), NEW ns2, ns2 = Append(ns, h - m + 1)
  PROVE  Tiling(cs2, ns2, m - 1, t + (h - m + 1), top)
<1> DEFINE n == Len(cs)
<1>1. /\ n \in Nat /\ Len(cs2) = n + 1 /\ cs2[n + 1] = m
      /\ \A i \in 1 .. n : cs2[i] = cs[i] /\ cs[i] \in Int
  BY Appended
<1>2. /\ Len(ns) = n /\ Len(ns2) = n + 1 /\ ns2[n + 1] = h - m + 1
      /\ \A i \in 1 .. n : ns2[i] = ns[i] /\ ns[i] \in Int
  <2>1. h - m + 1 \in Int /\ Len(ns) = n
    BY DEF Tiling
  <2>2. QED
    BY <2>1, Appended
<1>3. /\ \A i \in 1 .. n : h < cs[i] /\ cs[i] <= top
      /\ \A i \in 1 .. n - 1 : cs[i] = cs[i + 1] + ns[i + 1]
      /\ n > 0 => cs[n] = h + 1 /\ t + h = cs[1] + ns[1] - 1
      /\ n = 0 => t = 0
  BY DEF Tiling
<1> HIDE DEF n
<1>4. ASSUME NEW i \in 1 .. n + 1
      PROVE  m - 1 < cs2[i] /\ cs2[i] <= top
  <2>1. CASE i = n + 1
    BY <1>1, <2>1
  <2>2. CASE i \in 1 .. n
    <3>1. cs2[i] = cs[i] /\ cs[i] \in Int /\ h < cs[i] /\ cs[i] <= top
      BY <1>1, <1>3, <2>2
    <3>2. QED
      BY <3>1
  <2>3. QED
    BY <1>1, <2>1, <2>2
<1>5. ASSUME NEW i \in 1 .. n
      PROVE  cs2[i] = cs2[i + 1] + ns2[i + 1]
  <2>1. CASE i = n
    BY <1>1, <1>2, <1>3, <2>1
  <2>2. CASE i \in 1 .. n - 1
    <3>1. i + 1 \in 1 .. n
      BY <1>1, <2>2
    <3>2. QED
      BY <1>1, <1>2, <1>3, <2>2, <3>1
  <2>3. i = n \/ i \in 1 .. n - 1
    BY <1>1
  <2>4. QED
    BY <2>1, <2>2, <2>3
<1>6. t + (h - m + 1) + (m - 1) = cs2[1] + ns2[1] - 1
  <2>1. CASE n = 0
    BY <1>1, <1>2, <1>3, <2>1
  <2>2. CASE n > 0
    <3>1. 1 \in 1 .. n
      BY <1>1, <2>2
    <3>2. QED
      BY <1>1, <1>2, <1>3, <2>2, <3>1
  <2>3. QED
    BY <1>1, <2>1, <2>2
<1>7. cs2[n + 1] = (m - 1) + 1
  BY <1>1
<1>8. QED
  <2>1. Len(cs2) = n + 1 /\ Len(ns2) = n + 1 /\ n \in Nat
    BY <1>1, <1>2
  <2>2. \A i \in 1 .. Len(cs2) - 1 : cs2[i] = cs2[i + 1] + ns2[i + 1]
    BY <2>1, <1>5
  <2>3. \A i \in 1 .. Len(cs2) : m - 1 < cs2[i] /\ cs2[i] <= top
    BY <2>1, <1>4
  <2>4. Len(cs2) > 0 => /\ cs2[Len(cs2)] = (m - 1) + 1
                        /\ t + (h - m + 1) + (m - 1) = cs2[1] + ns2[1] - 1
    BY <2>1, <1>6, <1>7
  <2>5. ~(Len(cs2) = 0) /\ Len(ns2) = Len(cs2)
    BY <2>1
  <2>6. QED
    BY <2>2, <2>3, <2>4, <2>5 DEF Tiling

LEMMA TiledStep ==
  ASSUME IInv, Iterate
  PROVE  Tiled'
<1> SUFFICES ASSUME NEW p \in Ranks
    PROVE  /\ Tiling(child'[p], incl'[p], high'[p], total'[p], nprocs - 1)
           /\ Len(child'[p]) > 0 => low'[p] = p
  BY DEF Tiled, Iterate, Ranks
<1>1. /\ low[p] \in Int /\ high[p] \in Int /\ p \in Int /\ total[p] \in Int /\ nprocs \in Int
      /\ child[p] \in Seq(Int) /\ incl[p] \in Seq(Int)
  BY MaxProcsAssumption DEF IInv, TypeOK, Ranks
<1>2. 0 <= low[p] /\ low[p] <= p /\ p <= high[p] /\ high[p] <= nprocs - 1
  BY DEF IInv, Around
<1>3. /\ Tiling(child[p], incl[p], high[p], total[p], nprocs - 1)
      /\ Len(child[p]) > 0 => low[p] = p
  BY DEF IInv, Tiled
<1>4. CASE low[p] < high[p] /\ low[p] = p
  <2>1. /\ child'[p] = Append(child[p], mid(p))
        /\ incl'[p] = Append(incl[p], high[p] - mid(p) + 1)
        /\ total'[p] = total[p] + (high[p] - mid(p) + 1)
        /\ mid(p) \in Int /\ low[p] < mid(p) /\ mid(p) <= high[p]
        /\ low'[p] = low[p] /\ high'[p] = mid(p) - 1
    BY <1>1, <1>2, <1>4, StepOf
  <2>2. nprocs - 1 \in Int
    BY <1>1
  <2>3. Tiling(child'[p], incl'[p], mid(p) - 1, total[p] + (high[p] - mid(p) + 1), nprocs - 1)
    BY <1>1, <1>2, <1>3, <2>1, <2>2, OneMoreTile
  <2>4. QED
    BY <1>4, <2>1, <2>3
<1>5. CASE ~(low[p] < high[p] /\ low[p] = p)
  <2>1. child'[p] = child[p] /\ incl'[p] = incl[p] /\ total'[p] = total[p]
    BY <1>5, StepOf
  <2>2. CASE Len(child[p]) > 0
    <3>1. low'[p] = low[p] /\ high'[p] = high[p]
      BY <1>1, <1>3, <1>5, <2>2, StepOf
    <3>2. QED
      BY <1>3, <2>1, <3>1
  <2>3. CASE Len(child[p]) = 0
    BY <1>3, <2>1, <2>3 DEF Tiling
  <2>4. QED
    BY <1>1, <2>2, <2>3
<1>6. QED
  BY <1>4, <1>5

(* What the type and the interval say of one rank. *)
LEMMA OfRank ==
  ASSUME IInv, NEW r \in Ranks
  PROVE  /\ low[r] \in Int /\ high[r] \in Int /\ total[r] \in Int /\ r \in Int /\ nprocs \in Int
         /\ child[r] \in Seq(Int) /\ incl[r] \in Seq(Int)
         /\ 0 <= low[r] /\ low[r] <= r /\ r <= high[r] /\ high[r] <= nprocs - 1
<1>1. nprocs \in Int
  BY MaxProcsAssumption DEF IInv, TypeOK
<1>2. /\ low[r] \in Int /\ high[r] \in Int /\ total[r] \in Int
      /\ child[r] \in Seq(Int) /\ incl[r] \in Seq(Int)
  BY DEF IInv, TypeOK
<1>3. 0 <= low[r] /\ low[r] <= r /\ r <= high[r] /\ high[r] <= nprocs - 1
  BY DEF IInv, Around
<1>4. r \in Int
  BY <1>1 DEF Ranks
<1>5. QED
  BY <1>1, <1>2, <1>3, <1>4

(* A rank that is the lower end of its interval stays it, keeps its parent,
   and what it loses of the interval it gains in children. *)
LEMMA Settled ==
  ASSUME IInv, Iterate, NEW c \in Ranks, low[c] = c
  PROVE  low'[c] = c /\ parent'[c] = parent[c] /\ total'[c] + high'[c] = total[c] + high[c]
         /\ total'[c] \in Int /\ high'[c] \in Int
<1>1. low[c] \in Int /\ high[c] \in Int /\ total[c] \in Int /\ c \in Int
  BY OfRank
<1>2. CASE low[c] < high[c]
  <2>1. mid(c) \in Int /\ low[c] < mid(c)
    BY <1>2, StepOf
  <2>2. c < mid(c) /\ mid(c) # c
    BY <1>1, <2>1
  <2>3. low'[c] = low[c] /\ high'[c] = mid(c) - 1
    BY <1>2, <2>2, StepOf
  <2>4. parent'[c] = parent[c] /\ total'[c] = total[c] + (high[c] - mid(c) + 1)
    BY <1>2, <2>2, StepOf
  <2>5. QED
    BY <1>1, <2>1, <2>3, <2>4
<1>3. CASE ~(low[c] < high[c])
  BY <1>1, <1>3, StepOf
<1>4. QED
  BY <1>2, <1>3

LEMMA SameSum ==
  ASSUME NEW a \in Int, NEW b \in Int, NEW x \in Int, NEW y \in Int, NEW c \in Int, x + y = a + b
  PROVE  a + b - c + 1 = x + y - c + 1
  OBVIOUS

LEMMA SettledSum ==
  ASSUME IInv, Iterate, NEW c \in Ranks
  PROVE  low[c] = c => total[c] + high[c] - c + 1 = total'[c] + high'[c] - c + 1
<1>1. c \in Int /\ total[c] \in Int /\ high[c] \in Int
  BY OfRank
<1>2. low[c] = c => total'[c] + high'[c] = total[c] + high[c]
                    /\ total'[c] \in Int /\ high'[c] \in Int
  BY Settled
<1>3. total'[c] + high'[c] = total[c] + high[c] /\ total'[c] \in Int /\ high'[c] \in Int
      => total[c] + high[c] - c + 1 = total'[c] + high'[c] - c + 1
  BY <1>1, SameSum
<1>4. QED
  BY <1>2, <1>3

LEMMA KinStep ==
  ASSUME IInv, Iterate
  PROVE  Kin'
<1> DEFINE Fits(p, c, n) ==
      parent'[c] = p /\ low'[c] = c /\ n = total'[c] + high'[c] - c + 1
<1> SUFFICES ASSUME NEW p \in Ranks, NEW i \in 1 .. Len(child'[p])
    PROVE  Fits(p, child'[p][i], incl'[p][i])
  BY DEF Kin, Iterate, Ranks
<1>1. /\ low[p] \in Int /\ high[p] \in Int /\ p \in Int /\ nprocs \in Int
      /\ child[p] \in Seq(Int) /\ incl[p] \in Seq(Int)
      /\ 0 <= low[p] /\ low[p] <= p /\ p <= high[p] /\ high[p] <= nprocs - 1
  BY OfRank
<1>2. /\ Len(incl[p]) = Len(child[p])
      /\ \A j \in 1 .. Len(child[p]) : high[p] < child[p][j] /\ child[p][j] <= nprocs - 1
  BY DEF IInv, Tiled, Tiling
\* a child noted earlier: it narrows its interval from above, or not at all
<1>3. ASSUME NEW j \in 1 .. Len(child[p])
      PROVE  Fits(p, child[p][j], incl[p][j])
  <2>1. PICK c \in Int : c = child[p][j]
    BY <1>1
  <2>2. c \in Ranks
    BY <1>1, <1>2, <2>1 DEF Ranks
  <2>3. parent[c] = p /\ low[c] = c /\ incl[p][j] = total[c] + high[c] - c + 1
    BY <2>1 DEF IInv, Kin
  <2>4. low'[c] = c /\ parent'[c] = parent[c]
    BY <2>2, <2>3, Settled
  <2>5. total[c] + high[c] - c + 1 = total'[c] + high'[c] - c + 1
    BY <2>2, <2>3, SettledSum
  <2>6. QED
    BY <2>1, <2>3, <2>4, <2>5, Zenon
\* the child noted in this iteration notes its parent in the same one
<1>4. CASE low[p] < high[p] /\ low[p] = p
  <2> DEFINE c == mid(p)
  <2>1. /\ c \in Int /\ low[p] < c /\ c <= high[p]
        /\ child'[p] = Append(child[p], c) /\ incl'[p] = Append(incl[p], high[p] - c + 1)
    BY <1>4, StepOf
  <2> HIDE DEF c
  <2>2. c \in Ranks /\ high[p] - c + 1 \in Int
    BY <1>1, <2>1 DEF Ranks
  <2>3. low[c] = low[p] /\ high[c] = high[p]
    <3>1. low[p] <= c /\ c <= high[p]
      BY <1>1, <2>1
    <3>2. QED
      BY <2>2, <3>1 DEF IInv, SameHalf
  <2>4. mid(c) = c
    <3>1. mid(c) = Mid(low[c], high[c]) /\ mid(p) = Mid(low[p], high[p])
      BY <2>2, StepOf
    <3>2. QED
      BY <2>3, <3>1 DEF c
  <2>5. child[c] = <<>> /\ total[c] = 0
    <3>1. child[c] \in Seq(Int) /\ Len(child[c]) \in Nat
      BY <2>2 DEF IInv, TypeOK
    <3>2. ~(low[c] = c)
      BY <1>1, <2>1, <2>3
    <3>3. Len(child[c]) = 0 /\ (Len(child[c]) = 0 => total[c] = 0)
      BY <3>1, <3>2, <2>2 DEF IInv, Tiled, Tiling
    <3>4. QED
      BY <3>1, <3>3
  <2>6. /\ parent'[c] = low[c] /\ low'[c] = c /\ high'[c] = high[c] /\ total'[c] = total[c]
    <3>1. low[c] < high[c] /\ mid(c) <= c /\ ~(low[c] = c)
      BY <1>1, <1>4, <2>1, <2>3, <2>4
    <3>2. QED
      BY <2>2, <2>4, <3>1, StepOf
  <2>7. Fits(p, c, high[p] - c + 1)
    <3>1. high[p] - c + 1 = 0 + high[p] - c + 1
      BY <1>1, <2>1
    <3>2. QED
      BY <1>4, <2>3, <2>5, <2>6, <3>1
  <2>8. /\ Len(child'[p]) = Len(child[p]) + 1 /\ Len(child[p]) \in Nat
        /\ child'[p][Len(child[p]) + 1] = c
        /\ \A j \in 1 .. Len(child[p]) : child'[p][j] = child[p][j]
    BY <1>1, <2>1, Appended
  <2>9. /\ incl'[p][Len(child[p]) + 1] = high[p] - c + 1
        /\ \A j \in 1 .. Len(child[p]) : incl'[p][j] = incl[p][j]
    <3>1. Len(incl[p]) = Len(child[p]) /\ incl[p] \in Seq(Int) /\ high[p] - c + 1 \in Int
      BY <1>1, <1>2, <2>2
    <3>2. /\ incl'[p][Len(incl[p]) + 1] = high[p] - c + 1
          /\ \A j \in 1 .. Len(incl[p]) : incl'[p][j] = incl[p][j]
      BY <2>1, <3>1, Appended
    <3>3. QED
      BY <3>1, <3>2
  <2>10. CASE i = Len(child[p]) + 1
    BY <2>7, <2>8, <2>9, <2>10
  <2>11. CASE i \in 1 .. Len(child[p])
    BY <1>3, <2>8, <2>9, <2>11
  <2>12. QED
    BY <2>8, <2>10, <2>11
<1>5. CASE ~(low[p] < high[p] /\ low[p] = p)
  <2>1. child'[p] = child[p] /\ incl'[p] = incl[p]
    BY <1>5, StepOf
  <2>2. QED
    BY <1>3, <2>1
<1>6. QED
  BY <1>4, <1>5

(* A child that has been noted stays where it was noted. *)
LEMMA Kept ==
  ASSUME IInv, Iterate, NEW p \in Ranks, NEW i \in 1 .. Len(child[p])
  PROVE  i \in 1 .. Len(child'[p]) /\ child'[p][i] = child[p][i]
<1>1. child[p] \in Seq(Int)
  BY DEF IInv, TypeOK
<1>2. CASE low[p] < high[p] /\ low[p] = p
  <2>1. mid(p) \in Int /\ child'[p] = Append(child[p], mid(p))
    BY <1>2, StepOf
  <2>2. /\ Len(child[p]) \in Nat /\ Len(child'[p]) = Len(child[p]) + 1
        /\ \A j \in 1 .. Len(child[p]) : child'[p][j] = child[p][j]
    BY <1>1, <2>1, Appended
  <2>3. QED
    BY <2>2
<1>3. CASE ~(low[p] < high[p] /\ low[p] = p)
  BY <1>3, StepOf
<1>4. QED
  BY <1>2, <1>3

LEMMA AdoptedStep ==
  ASSUME IInv, Iterate
  PROVE  Adopted'
<1> SUFFICES ASSUME NEW c \in Ranks \ {0}, low'[c] = c
    PROVE  /\ parent'[c] \in Ranks
           /\ \E i \in 1 .. Len(child'[parent'[c]]) : child'[parent'[c]][i] = c
  BY DEF Adopted, Iterate, Ranks
<1>1. /\ low[c] \in Int /\ high[c] \in Int /\ c \in Int /\ nprocs \in Int
      /\ 0 <= low[c] /\ low[c] <= c /\ c <= high[c] /\ high[c] <= nprocs - 1
  BY OfRank
\* adopted before: the parent keeps it
<1>2. CASE low[c] = c
  <2>1. /\ parent[c] \in Ranks
        /\ \E i \in 1 .. Len(child[parent[c]]) : child[parent[c]][i] = c
    BY <1>2 DEF IInv, Adopted
  <2>2. PICK i \in 1 .. Len(child[parent[c]]) : child[parent[c]][i] = c
    BY <2>1
  <2>3. parent'[c] = parent[c]
    <3>1. low[c] < high[c] => mid(c) # c
      BY <1>1, <1>2, StepOf
    <3>2. QED
      BY <3>1, StepOf
  <2>4. i \in 1 .. Len(child'[parent[c]]) /\ child'[parent[c]][i] = c
    BY <2>1, <2>2, Kept
  <2>5. QED
    BY <2>1, <2>3, <2>4
\* adopted in this iteration, by the lower end of the interval it was in
<1>3. CASE ~(low[c] = c)
  <2> DEFINE p == low[c]
  <2>1. low[c] < high[c] /\ mid(c) = c
    BY <1>1, <1>3, StepOf
  <2>2. parent'[c] = p /\ mid(c) = Mid(low[c], high[c])
    BY <2>1, StepOf
  <2>3. p \in Ranks
    BY <1>1 DEF Ranks
  <2>4. low[p] = p /\ high[p] = high[c]
    BY <1>1, <2>3 DEF IInv, SameHalf
  <2>5. mid(p) = c
    <3>1. mid(p) = Mid(low[p], high[p])
      BY <2>3, StepOf
    <3>2. QED
      BY <2>1, <2>2, <2>4, <3>1
  <2> HIDE DEF p
  <2>6. child'[p] = Append(child[p], c)
    <3>1. low[p] < high[p] /\ low[p] = p
      BY <2>1, <2>4 DEF p
    <3>2. QED
      BY <2>3, <2>5, <3>1, StepOf
  <2>7. child[p] \in Seq(Int)
    BY <2>3 DEF IInv, TypeOK
  <2>8. /\ Len(child[p]) \in Nat /\ Len(child'[p]) = Len(child[p]) + 1
        /\ child'[p][Len(child[p]) + 1] = c
    BY <1>1, <2>6, <2>7, Appended
  <2>9. Len(child[p]) + 1 \in 1 .. Len(child'[p])
    BY <2>8
  <2>10. QED
    BY <2>2, <2>3, <2>8, <2>9
<1>4. QED
  BY <1>2, <1>3

-----------------------------------------------------------------------------
(* One iteration of every loop preserves the inductive invariant. *)
LEMMA InitIInv == Init => IInv
<1> SUFFICES ASSUME Init PROVE IInv
  OBVIOUS
<1>1. nprocs \in Int /\ nprocs \in 1 .. MaxProcs /\ nprocs >= 1
  BY MaxProcsAssumption DEF Init
<1>2. \A r \in Ranks : r \in Int /\ 0 <= r /\ r <= nprocs - 1
  BY <1>1 DEF Ranks
<1>3. \A r \in Ranks : /\ low[r] = 0 /\ high[r] = nprocs - 1 /\ parent[r] = 0
                       /\ child[r] = <<>> /\ incl[r] = <<>> /\ total[r] = 0
  BY DEF Init
<1>4. TypeOK
  <2>1. <<>> \in Seq(Int) /\ nprocs - 1 \in Int /\ 0 \in Int
    BY <1>1
  <2>2. QED
    BY <1>1, <2>1 DEF Init, TypeOK
<1>5. Around /\ SameHalf
  BY <1>1, <1>2, <1>3 DEF Around, SameHalf
<1>6. Len(<<>>) = 0
  OBVIOUS
<1>7. Tiled /\ Kin
  BY <1>3, <1>6 DEF Tiled, Tiling, Kin
<1>8. Adopted
  BY <1>2, <1>3 DEF Adopted
<1>9. QED
  BY <1>4, <1>5, <1>7, <1>8 DEF IInv

LEMMA NextIInv == IInv /\ [Next]_vars => IInv'
<1> SUFFICES ASSUME IInv, [Next]_vars PROVE IInv'
  OBVIOUS
<1>1. CASE Iterate
  BY <1>1, TypeStep, AroundStep, SameHalfStep, TiledStep, KinStep, AdoptedStep DEF IInv
<1>2. CASE UNCHANGED vars
  <2>1. Ranks' = Ranks
    BY <1>2 DEF Ranks, vars
  <2>2. TypeOK' /\ Around' /\ SameHalf'
    BY <1>2, <2>1 DEF IInv, TypeOK, Around, SameHalf, vars
  <2>3. Tiled' /\ Kin'
    BY <1>2, <2>1 DEF IInv, Tiled, Tiling, Kin, vars
  <2>4. Adopted'
    BY <1>2, <2>1 DEF IInv, Adopted, vars
  <2>5. QED
    BY <2>2, <2>3, <2>4 DEF IInv
<1>3. QED
  BY <1>1, <1>2 DEF Next

(* The invariant holds after every iteration, for every number of daemons. *)
THEOREM TreeInvariant == Spec => []IInv
<1>1. QED
  BY InitIInv, NextIInv, PTL DEF Spec

(* A rank whose loop has ended has narrowed its interval down to itself. *)
LEMMA AtTheEnd ==
  ASSUME IInv, Done, NEW r \in Ranks
  PROVE  low[r] = r /\ high[r] = r /\ r \in Int /\ total[r] \in Int
<1>1. low[r] \in Int /\ high[r] \in Int /\ r \in Int /\ total[r] \in Int
  <2>1. nprocs \in Int
    BY MaxProcsAssumption DEF IInv, TypeOK
  <2>2. QED
    BY <2>1 DEF IInv, TypeOK, Ranks
<1>2. low[r] <= r /\ r <= high[r]
  BY DEF IInv, Around
<1>3. ~(high[r] - low[r] > 0)
  BY DEF Done, Looping
<1>4. QED
  BY <1>1, <1>2, <1>3

(***************************************************************************)
(* For every number of daemons, when the loops of cobo_compute_children    *)
(* have ended every rank but 0 is the child of exactly the rank it takes   *)
(* for its parent, which reserves for it the ranks it will answer for.     *)
(***************************************************************************)
THEOREM RanksAgreeOnTree == Spec => []TreeAgrees
<1>1. ASSUME IInv PROVE TreeAgrees
  <2> SUFFICES ASSUME Done
      PROVE  /\ \A c \in Ranks \ {0} : \E i \in 1 .. Len(child[parent[c]]) :
                  child[parent[c]][i] = c /\ incl[parent[c]][i] = total[c] + 1
             /\ \A p \in Ranks : \A i \in 1 .. Len(child[p]) :
                  child[p][i] \in Ranks \ {0} /\ parent[child[p][i]] = p
    BY DEF TreeAgrees
  <2>1. ASSUME NEW c \in Ranks \ {0}
        PROVE  \E i \in 1 .. Len(child[parent[c]]) :
                 child[parent[c]][i] = c /\ incl[parent[c]][i] = total[c] + 1
    <3>1. low[c] = c /\ high[c] = c /\ c \in Int /\ total[c] \in Int
      BY <1>1, AtTheEnd
    <3>2. /\ parent[c] \in Ranks
          /\ \E i \in 1 .. Len(child[parent[c]]) : child[parent[c]][i] = c
      BY <1>1, <3>1 DEF IInv, Adopted
    <3>3. PICK i \in 1 .. Len(child[parent[c]]) : child[parent[c]][i] = c
      BY <3>2
    <3>4. incl[parent[c]][i] = total[c] + high[c] - c + 1
      BY <1>1, <3>2, <3>3 DEF IInv, Kin
    <3>5. incl[parent[c]][i] = total[c] + 1
      BY <3>1, <3>4
    <3>6. QED
      BY <3>3, <3>5
  <2>2. ASSUME NEW p \in Ranks, NEW i \in 1 .. Len(child[p])
        PROVE  child[p][i] \in Ranks \ {0} /\ parent[child[p][i]] = p
    <3>1. nprocs \in Int /\ p \in Int /\ 0 <= p /\ high[p] = p /\ child[p] \in Seq(Int)
      <4>1. nprocs \in Int /\ child[p] \in Seq(Int)
        BY <1>1, MaxProcsAssumption DEF IInv, TypeOK
      <4>2. p \in Int /\ high[p] = p
        BY <1>1, AtTheEnd
      <4>3. QED
        BY <4>1, <4>2 DEF Ranks
    <3>2. high[p] < child[p][i] /\ child[p][i] <= nprocs - 1
      BY <1>1 DEF IInv, Tiled, Tiling
    <3>3. child[p][i] \in Int
      BY <3>1
    <3>4. child[p][i] \in Ranks \ {0}
      BY <3>1, <3>2, <3>3 DEF Ranks
    <3>5. parent[child[p][i]] = p
      BY <1>1 DEF IInv, Kin
    <3>6. QED
      BY <3>4, <3>5
  <2>3. QED
    BY <2>1, <2>2
<1>2. QED
  BY <1>1, TreeInvariant, PTL

(***************************************************************************)
(* For every number of daemons, a gather or scatter that walks the         *)
(* children from the last to the first, advancing by cobo_child_incl, has  *)
(* the buffer in rank order: the children tile the ranks after the parent. *)
(***************************************************************************)
THEOREM GatherIsInRankOrder == Spec => []RanksInOrder
<1>1. ASSUME IInv PROVE RanksInOrder
  <2> SUFFICES ASSUME Done, NEW p \in Ranks
      PROVE  /\ Len(child[p]) > 0 => child[p][Len(child[p])] = p + 1
             /\ \A i \in 1 .. Len(child[p]) - 1 : child[p][i] = child[p][i + 1] + incl[p][i + 1]
             /\ Len(child[p]) > 0 => p + total[p] = child[p][1] + incl[p][1] - 1
    BY DEF RanksInOrder
  <2>1. high[p] = p /\ p \in Int /\ total[p] \in Int
    BY <1>1, AtTheEnd
  <2>2. Tiling(child[p], incl[p], p, total[p], nprocs - 1)
    BY <1>1, <2>1 DEF IInv, Tiled
  <2>3. p + total[p] = total[p] + p
    BY <2>1
  <2>4. QED
    BY <2>2, <2>3 DEF Tiling
<1>2. QED
  BY <1>1, TreeInvariant, PTL

-----------------------------------------------------------------------------
(* Induction over the naturals, by a smallest counterexample. *)
LEMMA Least ==
  ASSUME NEW T, T \subseteq Nat, T # {}
  PROVE  \E m \in T : \A n \in T : m <= n
<1> DEFINE R == OpToRel(<, Nat)
<1>1. IsWellFoundedOn(R, Nat)
  BY NatLessThanWellFounded
<1>2. \A m \in T : \A n \in T : n < m => <<n, m>> \in R
  BY DEF OpToRel
<1> HIDE DEF R
<1>3. PICK m \in T : \A n \in T : <<n, m>> \notin R
  BY <1>1, WFMin, Zenon
<1>4. \A n \in T : ~(n < m)
  BY <1>2, <1>3, Zenon
<1> QED BY <1>4

\* f doubles up to the n-th iteration
Doubles(f, n) ==
  f \in [0 .. n -> Nat] /\ f[0] = 1 /\ \A k \in 1 .. n : f[k] = 2 * f[k - 1]

LEMMA DoublesExist ==
  ASSUME NEW n \in Nat
  PROVE  \E f : Doubles(f, n)
<1> DEFINE T == {m \in Nat : ~\E f : Doubles(f, m)}
<1> SUFFICES ASSUME T # {} PROVE FALSE
  OBVIOUS
<1>1. PICK m \in T : \A k \in T : m <= k
  BY Least
<1>2. CASE m = 0
  <2> DEFINE f == [k \in 0 .. 0 |-> 1]
  <2>1. Doubles(f, 0)
    BY DEF Doubles
  <2> QED BY <1>1, <1>2, <2>1
<1>3. CASE m # 0
  <2>1. m - 1 \in Nat /\ m - 1 \notin T /\ m \in Nat
    BY <1>1, <1>3
  <2>2. PICK g : Doubles(g, m - 1)
    BY <2>1
  <2> DEFINE f == [k \in 0 .. m |-> IF k = m THEN 2 * g[m - 1] ELSE g[k]]
  <2>3. /\ \A k \in 0 .. m : k # m => f[k] = g[k] /\ g[k] \in Nat
        /\ f[m] = 2 * g[m - 1] /\ g[m - 1] \in Nat
    BY <2>1, <2>2 DEF Doubles
  <2>4. f \in [0 .. m -> Nat]
    <3>1. \A k \in 0 .. m : f[k] \in Nat
      BY <2>1, <2>3
    <3> QED BY <3>1
  <2>5. \A k \in 1 .. m : f[k] = 2 * f[k - 1]
    <3> SUFFICES ASSUME NEW k \in 1 .. m PROVE f[k] = 2 * f[k - 1]
      OBVIOUS
    <3>1. k - 1 \in 0 .. m /\ k - 1 # m /\ f[k - 1] = g[k - 1]
      BY <2>1, <2>3
    <3>2. k # m => f[k] = g[k] /\ g[k] = 2 * g[k - 1]
      BY <2>1, <2>2, <2>3 DEF Doubles
    <3> QED BY <2>3, <3>1, <3>2
  <2>6. f[0] = 1
    BY <1>3, <2>1, <2>2, <2>3 DEF Doubles
  <2> HIDE DEF f
  <2>7. Doubles(f, m)
    BY <2>4, <2>5, <2>6 DEF Doubles
  <2> QED BY <1>1, <2>7
<1> QED BY <1>2, <1>3

LEMMA DoublesAgree ==
  ASSUME NEW n \in Nat, NEW m \in Nat, n <= m, NEW f, Doubles(f, n), NEW g, Doubles(g, m)
  PROVE  \A k \in 0 .. n : f[k] = g[k]
<1> DEFINE T == {k \in 0 .. n : f[k] # g[k]}
<1> SUFFICES ASSUME T # {} PROVE FALSE
  OBVIOUS
<1>1. T \subseteq Nat
  OBVIOUS
<1>2. PICK k \in T : \A j \in T : k <= j
  BY <1>1, Least
<1>3. k # 0
  BY <1>2 DEF Doubles
<1>4. k - 1 \in 0 .. n /\ k - 1 \notin T /\ k \in 1 .. n /\ k \in 1 .. m
  BY <1>2, <1>3
<1> QED BY <1>2, <1>4 DEF Doubles

(* The doublings of the loop in cobo_compute_children that sizes the arrays. *)
LEMMA Doubled ==
  /\ doubled[0] = 1
  /\ \A k \in Nat : doubled[k] \in Nat /\ doubled[k + 1] = 2 * doubled[k]
<1> DEFINE At(n) == CHOOSE f : Doubles(f, n)
           F == [n \in Nat |-> At(n)[n]]
<1>1. \A n \in Nat : Doubles(At(n), n)
  BY DoublesExist
<1> HIDE DEF At
<1>2. F[0] = 1
  BY <1>1 DEF Doubles
<1>3. ASSUME NEW n \in Nat
      PROVE  F[n] \in Nat /\ F[n + 1] = 2 * F[n]
  <2>1. n + 1 \in Nat /\ n <= n + 1 /\ n + 1 \in 1 .. n + 1 /\ n + 1 - 1 = n /\ n \in 0 .. n
    OBVIOUS
  <2>2. At(n)[n] = At(n + 1)[n]
    BY <1>1, <2>1, DoublesAgree
  <2>3. At(n + 1)[n + 1] = 2 * At(n + 1)[n] /\ At(n)[n] \in Nat
    BY <1>1, <2>1 DEF Doubles
  <2> QED BY <2>1, <2>2, <2>3
<1>4. F = [k \in Nat |-> IF k = 0 THEN 1 ELSE 2 * F[k - 1]]
  <2>1. ASSUME NEW k \in Nat
        PROVE  F[k] = IF k = 0 THEN 1 ELSE 2 * F[k - 1]
    <3>1. k # 0 => k - 1 \in Nat /\ k - 1 + 1 = k
      OBVIOUS
    <3> HIDE DEF F
    <3> QED BY <1>2, <1>3, <3>1
  <2> DEFINE G == [k \in Nat |-> IF k = 0 THEN 1 ELSE 2 * F[k - 1]]
  <2>2. \A k \in Nat : F[k] = G[k]
    BY <2>1, Zenon
  <2> QED BY <2>2, Zenon
<1> HIDE DEF F
<1>5. doubled = [k \in Nat |-> IF k = 0 THEN 1 ELSE 2 * doubled[k - 1]]
  BY <1>4, Zenon DEF doubled
<1>6. doubled[0] = 1 /\ \A k \in Nat \ {0} : doubled[k] = 2 * doubled[k - 1]
  <2>1. PICK h : h = doubled
    OBVIOUS
  <2>2. h = [k \in Nat |-> IF k = 0 THEN 1 ELSE 2 * h[k - 1]]
    BY <1>5, <2>1, Zenon
  <2>3. h[0] = 1 /\ \A k \in Nat \ {0} : h[k] = 2 * h[k - 1]
    BY <2>2
  <2> QED BY <2>1, <2>3, Zenon
<1>7. \A k \in Nat : doubled[k + 1] = 2 * doubled[k]
  BY <1>6
<1>8. ASSUME NEW n \in Nat
      PROVE  doubled[n] \in Nat
  <2> DEFINE T == {k \in Nat : doubled[k] \notin Nat}
  <2> SUFFICES ASSUME T # {} PROVE FALSE
    OBVIOUS
  <2>1. PICK k \in T : \A j \in T : k <= j
    BY Least
  <2>2. k \in Nat \ {0} /\ k - 1 \in Nat /\ k - 1 \notin T
    BY <1>6, <2>1
  <2> QED BY <1>6, <2>1, <2>2
<1> QED BY <1>6, <1>7, <1>8

(* ... grow, and pass every number. *)
LEMMA DoubledGrows ==
  /\ \A k \in Nat : doubled[k] >= k + 1
  /\ \A j, k \in Nat : j <= k => doubled[j] <= doubled[k]
<1>1. ASSUME NEW n \in Nat
      PROVE  doubled[n] >= n + 1
  <2> DEFINE T == {k \in Nat : ~(doubled[k] >= k + 1)}
  <2> SUFFICES ASSUME T # {} PROVE FALSE
    OBVIOUS
  <2>1. PICK k \in T : \A j \in T : k <= j
    BY Least
  <2>2. k # 0
    BY <2>1, Doubled
  <2>3. PICK j \in Nat : j + 1 = k /\ j \notin T
    <3>1. k - 1 \in Nat /\ k - 1 + 1 = k /\ ~(k <= k - 1)
      BY <2>1, <2>2
    <3> QED BY <2>1, <3>1
  <2> QED BY <2>1, <2>3, Doubled
<1>2. ASSUME NEW j \in Nat, NEW n \in Nat, j <= n
      PROVE  doubled[j] <= doubled[n]
  <2> DEFINE T == {k \in Nat : j <= k /\ ~(doubled[j] <= doubled[k])}
  <2> SUFFICES ASSUME T # {} PROVE FALSE
    BY <1>2
  <2>1. PICK k \in T : \A i \in T : k <= i
    BY Least
  <2>2. k # j
    BY <2>1, Doubled
  <2>3. PICK i \in Nat : i + 1 = k /\ i \notin T /\ j <= i
    <3>1. k - 1 \in Nat /\ k - 1 + 1 = k /\ ~(k <= k - 1) /\ j <= k - 1
      BY <2>1, <2>2
    <3> QED BY <2>1, <3>1
  <2> QED BY <2>1, <2>3, Doubled
<1> QED BY <1>1, <1>2

(* The loop that sizes the arrays ends, after at most nprocs doublings. *)
LEMMA MaxChildrenIs ==
  ASSUME TypeOK
  PROVE  max_children \in Nat /\ doubled[max_children] >= nprocs
<1>1. nprocs \in Nat
  BY MaxProcsAssumption DEF TypeOK
<1> DEFINE T == {m \in Nat : doubled[m] >= nprocs}
<1>2. nprocs \in T
  BY <1>1, Doubled, DoubledGrows
<1>3. PICK m \in T : \A k \in T : m <= k
  BY <1>2, Least
<1>4. m \in 0 .. nprocs
  BY <1>1, <1>2, <1>3
<1>5. \A k \in 0 .. m - 1 : doubled[k] < nprocs
  <2> SUFFICES ASSUME NEW k \in 0 .. m - 1 PROVE doubled[k] < nprocs
    OBVIOUS
  <2>1. k \in Nat /\ k \notin T /\ doubled[k] \in Nat
    BY <1>3, Doubled
  <2> QED BY <1>1, <2>1
<1>6. max_children \in 0 .. nprocs /\ doubled[max_children] >= nprocs
  BY <1>3, <1>4, <1>5 DEF max_children
<1> QED BY <1>1, <1>6

-----------------------------------------------------------------------------
\* every child found has cost a rank at least half of its interval
Half(r) == doubled[Len(child[r])] * (high[r] - low[r] + 1) <= nprocs
Halved == \A r \in Ranks : Half(r)

LEMMA HalfWide ==
  ASSUME NEW l \in Int, NEW h \in Int, l < h
  PROVE  2 * (Mid(l, h) - l) <= h - l + 1
  BY DEF Mid

LEMMA Times ==
  ASSUME NEW d \in Nat, NEW w \in Nat, NEW x \in Nat, 2 * x <= w
  PROVE  (2 * d) * x <= d * w
<1>1. d * (2 * x) <= d * w
  OBVIOUS
<1> QED BY <1>1

LEMMA TimesLess ==
  ASSUME NEW d \in Nat, NEW w \in Nat, NEW x \in Nat, x <= w
  PROVE  d * x <= d * w
  OBVIOUS

(* A child leaves its parent the smaller half: a rank doubles the bound for
   every child it finds, and never widens its interval. *)
LEMMA HalvedStep ==
  ASSUME IInv, Halved, Iterate
  PROVE  Halved'
<1> SUFFICES ASSUME NEW r \in Ranks
             PROVE  doubled[Len(child'[r])] * (high'[r] - low'[r] + 1) <= nprocs'
  <2>1. Ranks' = Ranks
    BY DEF Iterate, Ranks
  <2>2. \A r \in Ranks : Half(r)'
    BY DEF Half
  <2> QED BY <2>1, <2>2, Zenon DEF Halved
<1>1. /\ low[r] \in Int /\ high[r] \in Int /\ r \in Int /\ child[r] \in Seq(Int)
      /\ low[r] <= r /\ r <= high[r] /\ nprocs \in Int /\ nprocs' = nprocs
  BY OfRank, StepOf
<1> DEFINE n == Len(child[r])
           d == doubled[n]
           w == high[r] - low[r] + 1
<1>2. n \in Nat /\ d \in Nat /\ d * w <= nprocs /\ w \in Nat /\ doubled[n + 1] = 2 * d
  <2>1. Len(child[r]) \in Nat
    BY <1>1
  <2>2. doubled[Len(child[r])] * (high[r] - low[r] + 1) <= nprocs
    BY Zenon DEF Halved, Half
  <2>3. doubled[Len(child[r])] \in Nat /\ doubled[Len(child[r]) + 1] = 2 * doubled[Len(child[r])]
    BY <2>1, Doubled, Zenon
  <2>4. high[r] - low[r] + 1 \in Nat
    BY <1>1
  <2> QED BY <2>1, <2>2, <2>3, <2>4, Zenon
<1> HIDE DEF n, d, w
<1>3. CASE low[r] < high[r] /\ low[r] = r
  <2>1. /\ mid(r) \in Int /\ low[r] < mid(r) /\ mid(r) = Mid(low[r], high[r])
        /\ low'[r] = low[r] /\ high'[r] = mid(r) - 1 /\ child'[r] = Append(child[r], mid(r))
    BY <1>1, <1>3, StepOf
  <2>2. Len(child'[r]) = n + 1
    BY <1>1, <2>1, Appended DEF n
  <2> DEFINE x == high'[r] - low'[r] + 1
  <2>3. x \in Nat /\ 2 * x <= w
    <3>1. 2 * (mid(r) - low[r]) <= w
      BY <1>1, <1>3, <2>1, HalfWide DEF w
    <3>2. x = mid(r) - low[r] /\ x \in Nat
      BY <1>1, <2>1
    <3> QED BY <3>1, <3>2
  <2> HIDE DEF x
  <2>4. (2 * d) * x <= d * w
    BY <1>2, <2>3, Times
  <2>5. (2 * d) * x \in Int /\ d * w \in Int
    BY <1>2, <2>3
  <2>6. doubled[Len(child'[r])] * x <= nprocs
    BY <1>1, <1>2, <2>2, <2>4, <2>5
  <2> QED BY <1>1, <2>6 DEF x
<1>4. CASE ~(low[r] < high[r] /\ low[r] = r)
  <2>1. child'[r] = child[r]
    BY <1>4, StepOf
  <2> DEFINE x == high'[r] - low'[r] + 1
  <2>2. x \in Nat /\ x <= w
    <3>1. CASE low[r] < high[r] /\ mid(r) <= r
      BY <1>1, <3>1, StepOf DEF w
    <3>2. CASE low[r] < high[r] /\ r < mid(r)
      BY <1>1, <3>2, StepOf DEF w
    <3>3. CASE ~(low[r] < high[r])
      BY <1>1, <3>3, StepOf DEF w
    <3>4. low[r] < high[r] => mid(r) \in Int
      BY StepOf
    <3> QED BY <1>1, <3>1, <3>2, <3>3, <3>4
  <2> HIDE DEF x
  <2>3. d * x <= d * w /\ d * x \in Int /\ d * w \in Int
    BY <1>2, <2>2, TimesLess
  <2>4. d * x <= nprocs
    BY <1>1, <1>2, <2>3
  <2> QED BY <1>1, <2>1, <2>4 DEF x, d, n
<1> QED BY <1>3, <1>4

(***************************************************************************)
(* For every number of daemons the loop of cobo_compute_children never     *)
(* finds more children than the arrays allocated before it have room for.  *)
(***************************************************************************)
THEOREM ChildrenFit == Spec => []FitsArrays
<1>1. Init => Halved
  <2> SUFFICES ASSUME Init, NEW r \in Ranks
               PROVE  doubled[Len(child[r])] * (high[r] - low[r] + 1) <= nprocs
    BY DEF Halved, Half
  <2>1. nprocs \in Int /\ Len(<<>>) = 0
    BY MaxProcsAssumption DEF Init
  <2>2. child[r] = <<>> /\ high[r] = nprocs - 1 /\ low[r] = 0
    BY DEF Init
  <2>3. Len(child[r]) = 0 /\ high[r] - low[r] + 1 = nprocs
    BY <2>1, <2>2
  <2>4. doubled[0] = 1
    BY Doubled
  <2>5. doubled[Len(child[r])] = 1 /\ 1 * nprocs = nprocs /\ nprocs <= nprocs
    BY <2>1, <2>3, <2>4
  <2> QED BY <2>3, <2>5, Zenon
<1>2. IInv /\ Halved /\ [Next]_vars => Halved'
  <2> SUFFICES ASSUME IInv, Halved, [Next]_vars PROVE Halved'
    OBVIOUS
  <2>1. CASE UNCHANGED vars
    BY <2>1 DEF Halved, Half, Ranks, vars
  <2> QED BY <2>1, HalvedStep DEF Next
<1>3. IInv /\ Halved => FitsArrays
  <2> SUFFICES ASSUME IInv, Halved, NEW r \in Ranks
               PROVE  Len(child[r]) <= max_children
    BY DEF FitsArrays
  <2>1. /\ low[r] \in Int /\ high[r] \in Int /\ child[r] \in Seq(Int)
        /\ low[r] <= high[r] /\ nprocs \in Int
    BY OfRank
  <2> DEFINE n == Len(child[r])
             m == max_children
  <2>2. n \in Nat /\ doubled[n] \in Nat
    <3>1. n \in Nat
      BY <2>1
    <3> QED BY <3>1, Doubled, Zenon
  <2>3. m \in Nat /\ doubled[m] >= nprocs /\ doubled[m] \in Nat
    BY MaxChildrenIs, Doubled DEF IInv
  <2>4. doubled[n] <= nprocs
    <3>1. doubled[n] * 1 <= doubled[n] * (high[r] - low[r] + 1)
      <4>1. high[r] - low[r] + 1 \in Nat /\ 1 \in Nat /\ 1 <= high[r] - low[r] + 1
        BY <2>1
      <4> QED BY <2>2, <4>1, TimesLess, Zenon
    <3>2. doubled[n] * (high[r] - low[r] + 1) <= nprocs
      BY DEF Halved, Half
    <3>3. doubled[n] * (high[r] - low[r] + 1) \in Int /\ doubled[n] * 1 = doubled[n]
      BY <2>1, <2>2
    <3> QED BY <2>1, <2>2, <3>1, <3>2, <3>3
  <2> HIDE DEF n, m
  \* more children would be twice as many ranks
  <2>5. CASE n > m
    <3>1. m + 1 \in Nat /\ m + 1 <= n /\ doubled[m + 1] = 2 * doubled[m] /\ doubled[m + 1] <= doubled[n]
      BY <2>2, <2>3, <2>5, Doubled, DoubledGrows
    <3>2. doubled[m] >= m + 1
      BY <2>3, DoubledGrows
    <3> QED BY <2>1, <2>2, <2>3, <2>4, <3>1, <3>2
  <2> QED BY <2>2, <2>3, <2>5 DEF n, m
<1> QED BY <1>1, <1>2, <1>3, TreeInvariant, PTL DEF Spec
=============================================================================
