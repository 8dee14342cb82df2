------------------------------ MODULE CoboTree ------------------------------
(***************************************************************************)
(* The shape of COBO's communication tree: cobo_compute_children of        *)
(* tools/cobo/src/cobo.c.                                                  *)
(*                                                                         *)
(* Every rank runs the same bisection of 0..cobo_nprocs-1 on its own, from *)
(* nothing but its rank and cobo_nprocs, and notes the children and the    *)
(* parent it meets on the way.  The collectives work only if the ranks,    *)
(* who never compare their results, agree: the child of one must have the  *)
(* one as its parent, and the number of ranks the parent reserves for a    *)
(* child (cobo_child_incl) must be the number the child sends.             *)
(*                                                                         *)
(* The loops do not communicate, so the k-th step of the specification is  *)
(* the k-th iteration of the loop of every rank that is still in it.       *)
(***************************************************************************)
EXTENDS Integers, Sequences

CONSTANT MaxProcs         \* the largest cobo_nprocs considered

ASSUME MaxProcsAssumption == MaxProcs \in Nat \ {0}

VARIABLES
  nprocs,      \* cobo_nprocs
  low, high,   \* the interval each rank has narrowed the tree down to
  parent,      \* cobo_parent
  child,       \* cobo_child: the ranks of the children, in the order found
  incl,        \* cobo_child_incl: the ranks below each child, itself included
  total        \* cobo_num_child_incl: the ranks below this one

vars == <<nprocs, low, high, parent, child, incl, total>>

Ranks == 0 .. nprocs - 1

-----------------------------------------------------------------------------
(* The arithmetic of one iteration of rank r. *)

\* (high - low) / 2 + (high - low) % 2 + low
Mid(l, h) == (h - l) \div 2 + ((h - l) % 2) + l

\* while (high - low > 0)
Looping(r) == high[r] - low[r] > 0

mid(r) == Mid(low[r], high[r])

\* Mistake: the child itself is not counted.
ShareWithoutChild(r) == high[r] - mid(r)

\* if (low == cobo_me): mid is a child and takes the upper half with it
GetsChild(r) == Looping(r) /\ low[r] = r
Share(r) == high[r] - mid(r) + 1

\* if (mid == cobo_me): low is the parent
GetsParent(r) == Looping(r) /\ mid(r) = r

\* n after k iterations of the loop: n <<= 1
doubled[k \in Nat] == IF k = 0 THEN 1 ELSE 2 * doubled[k - 1]

\* Mistake: n is doubled twice for every element.
TooFewChildren == CHOOSE m \in 0 .. nprocs :
                    /\ doubled[2 * m] >= nprocs
                    /\ \A k \in 0 .. m - 1 : doubled[2 * k] < nprocs

\* the sizes of the arrays: the doublings of n = 1 until n >= cobo_nprocs
max_children == CHOOSE m \in 0 .. nprocs :
                  /\ doubled[m] >= nprocs
                  /\ \A k \in 0 .. m - 1 : doubled[k] < nprocs

-----------------------------------------------------------------------------
(* cobo_compute_children *)

Init ==
  /\ nprocs \in 1 .. MaxProcs
  /\ low    = [r \in Ranks |-> 0]
  /\ high   = [r \in Ranks |-> nprocs - 1]
  /\ parent = [r \in Ranks |-> 0]
  /\ child  = [r \in Ranks |-> <<>>]
  /\ incl   = [r \in Ranks |-> <<>>]
  /\ total  = [r \in Ranks |-> 0]

\* Mistake: the upper half is kept together with the lower one.
NarrowFromAbove ==
  /\ high' = [r \in Ranks |-> IF Looping(r) /\ ~(mid(r) <= r) THEN mid(r) - 1 ELSE high[r]]
  /\ UNCHANGED low

\* Mistake: the middle stays in the lower half.
NarrowBelow ==
  /\ low'  = [r \in Ranks |-> IF Looping(r) /\ mid(r) < r THEN mid(r) ELSE low[r]]
  /\ high' = [r \in Ranks |-> IF Looping(r) /\ ~(mid(r) < r) THEN mid(r) - 1 ELSE high[r]]

\* the half that holds r is kept
Narrow ==
  /\ low'  = [r \in Ranks |-> IF Looping(r) /\ mid(r) <= r THEN mid(r) ELSE low[r]]
  /\ high' = [r \in Ranks |-> IF Looping(r) /\ ~(mid(r) <= r) THEN mid(r) - 1 ELSE high[r]]

\* the relatives met in this iteration are noted
Note ==
  /\ parent' = [r \in Ranks |-> IF GetsParent(r) THEN low[r] ELSE parent[r]]
  /\ child'  = [r \in Ranks |-> IF GetsChild(r) THEN Append(child[r], mid(r)) ELSE child[r]]
  /\ incl'   = [r \in Ranks |-> IF GetsChild(r) THEN Append(incl[r], Share(r)) ELSE incl[r]]
  /\ total'  = [r \in Ranks |-> IF GetsChild(r) THEN total[r] + Share(r) ELSE total[r]]

Iterate ==
  /\ \E r \in Ranks : Looping(r)
  /\ Note
  /\ Narrow
  /\ UNCHANGED nprocs

\* every rank has left its loop
Done == \A r \in Ranks : ~Looping(r)

Next == Iterate \/ (Done /\ UNCHANGED vars)

Spec == Init /\ [][Next]_vars /\ WF_vars(Iterate)

-----------------------------------------------------------------------------
(* Properties *)

(***************************************************************************)
(* The ranks agree on the tree without having compared notes: every rank   *)
(* but 0 is the child of exactly the rank it takes for its parent, once,   *)
(* and that parent reserves for it (cobo_child_incl) exactly the number of *)
(* ranks it will send for in a gather, (cobo_num_child_incl + 1).          *)
(***************************************************************************)
TreeAgrees ==
  Done =>
    /\ \A c \in Ranks \ {0} : \E i \in 1 .. Len(child[parent[c]]) :
         /\ child[parent[c]][i] = c
         /\ incl[parent[c]][i] = total[c] + 1
    /\ \A p \in Ranks : \A i \in 1 .. Len(child[p]) :
         /\ child[p][i] \in Ranks \ {0}
         /\ parent[child[p][i]] = p

(***************************************************************************)
(* cobo_gather_tree and cobo_scatter_tree walk the children from the last  *)
(* index to the first and advance the offset by cobo_child_incl: the       *)
(* buffer is in rank order only if the last child is the rank after the    *)
(* parent and every other child follows the last rank below its successor. *)
(***************************************************************************)
RanksInOrder ==
  Done => \A p \in Ranks : LET n == Len(child[p]) IN
    /\ n > 0 => child[p][n] = p + 1
    /\ \A i \in 1 .. n - 1 : child[p][i] = child[p][i + 1] + incl[p][i + 1]
    /\ n > 0 => p + total[p] = child[p][1] + incl[p][1] - 1

(***************************************************************************)
(* The child arrays are allocated with max_children elements before the    *)
(* children are known: the loop never finds more.                          *)
(***************************************************************************)
FitsArrays == \A r \in Ranks : Len(child[r]) <= max_children

(***************************************************************************)
(* Every rank leaves the loop: the interval shrinks in every iteration,    *)
(* also when it has two elements (the `% 2' rounds the middle up).         *)
(***************************************************************************)
LoopEnds == <>Done
=============================================================================
