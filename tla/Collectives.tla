---------------------------- MODULE Collectives ----------------------------
(***************************************************************************)
(* What COBO promises the daemons: collective calls, made by every rank in *)
(* the same order, that wait for exactly the ranks whose data they need    *)
(* and hand out what an MPI program would expect.  No tree, no sockets:    *)
(* module Cobo, which has both, is shown to implement this one.            *)
(***************************************************************************)
EXTENDS Integers, Sequences

CONSTANTS N,          \* cobo_nprocs
          Ops,        \* the collectives the program may use
          MaxOps,     \* how many it calls
          MaxDeaths   \* how many ranks may be killed

Ranks == 0 .. N - 1

VARIABLES prog,       \* the collectives the daemons call, the same for all
          called,     \* how many of them each rank has entered
          res,        \* what each rank has got from those that returned
          st,         \* "up", "closed" (cobo_close) or "gone" (killed or exit(1))
          deaths      \* the ranks killed so far

cvars == <<prog, called, res, st, deaths>>

-----------------------------------------------------------------------------
(* The data.  An item is sendcount bytes (for a string: one character).    *)

StrLen(r)  == 1 + (r % 2)                    \* strlen + 1 differs from rank to rank
MaxStr     == IF N > 1 THEN 2 ELSE 1
Item(k, r) == <<k, r>>                       \* what rank r contributes to call k
RootItem(k, r) == <<k, "root", r>>           \* what rank 0 has for rank r
Padded(k, r, len) == [j \in 1 .. len |-> IF j <= StrLen(r) THEN Item(k, r) ELSE "nul"]

\* all ranks' strings, rank after rank, each of MaxStr items
AllStrings(k) == [j \in 1 .. N * MaxStr |->
                    Padded(k, (j - 1) \div MaxStr, MaxStr)[((j - 1) % MaxStr) + 1]]

\* what rank r has in its receive buffer when call k returns
Result(op, k, r) ==
  CASE op = "barrier"       -> <<>>
    [] op = "bcast"         -> <<RootItem(k, 0)>>
    [] op = "gather"        -> IF r = 0 THEN [j \in 1 .. N |-> Item(k, j - 1)] ELSE <<>>
    [] op = "scatter"       -> <<RootItem(k, r)>>
    [] op = "allgather"     -> [j \in 1 .. N |-> Item(k, j - 1)]
    [] op = "allgather_str" -> AllStrings(k)

\* the ranks that must have entered the call before rank r returns from it
Awaited(op, r) ==
  CASE op \in {"barrier", "allgather", "allgather_str"} -> Ranks
    [] op \in {"bcast", "scatter"}                      -> {0, r}
    [] op = "gather"                                    -> IF r = 0 THEN Ranks ELSE {r}

-----------------------------------------------------------------------------
CInit ==
  /\ prog \in [1 .. MaxOps -> Ops]
  /\ called = [r \in Ranks |-> 0]
  /\ res = [r \in Ranks |-> <<>>]
  /\ st = [r \in Ranks |-> "up"]
  /\ deaths = 0

Inside(r) == called[r] > Len(res[r])

Enter(r) ==
  /\ st[r] = "up" /\ ~Inside(r) /\ called[r] < Len(prog)
  /\ called' = [called EXCEPT ![r] = @ + 1]
  /\ UNCHANGED <<prog, res, st, deaths>>

Leave(r) ==
  LET k == called[r] IN
  /\ st[r] = "up" /\ Inside(r)
  /\ \A q \in Awaited(prog[k], r) : called[q] >= k
  /\ res' = [res EXCEPT ![r] = Append(@, Result(prog[k], k, r))]
  /\ UNCHANGED <<prog, called, st, deaths>>

Shut(r) ==
  /\ st[r] = "up" /\ Len(res[r]) = Len(prog)
  /\ st' = [st EXCEPT ![r] = "closed"]
  /\ UNCHANGED <<prog, called, res, deaths>>

Killed(r) ==
  /\ st[r] = "up" /\ deaths < MaxDeaths
  /\ st' = [st EXCEPT ![r] = "gone"]
  /\ deaths' = deaths + 1
  /\ UNCHANGED <<prog, called, res>>

\* a rank gives up only inside a call, and only when some rank was killed
GivesUp(r) ==
  /\ st[r] = "up" /\ Inside(r) /\ deaths > 0
  /\ st' = [st EXCEPT ![r] = "gone"]
  /\ UNCHANGED <<prog, called, res, deaths>>

CNext == \E r \in Ranks : Enter(r) \/ Leave(r) \/ Shut(r) \/ Killed(r) \/ GivesUp(r)

CSpec == CInit /\ [][CNext]_cvars
=============================================================================
