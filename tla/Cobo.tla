-------------------------------- MODULE Cobo --------------------------------
(***************************************************************************)
(* COBO's collectives over the open tree: cobo_*_tree and the client       *)
(* interface of tools/cobo/src/cobo.c.                                     *)
(*                                                                         *)
(* A connection of the tree is two byte streams.  Nothing on them says     *)
(* where a message ends or which call it belongs to: a rank reads as many  *)
(* bytes as it computed from the tree and its arguments, and a rank that   *)
(* is ahead of its parent may already have written for later calls.  Reads *)
(* and writes are partial, a write waits for room in the socket buffer,    *)
(* and a rank whose peer has gone exits.                                   *)
(***************************************************************************)
EXTENDS Integers, Sequences

CONSTANTS N, Ops, MaxOps, MaxDeaths,
          Room        \* items a stream holds before a write blocks

ASSUME CoboAssumption ==
  /\ N \in Nat \ {0} /\ MaxOps \in Nat /\ MaxDeaths \in Nat /\ Room \in Nat \ {0}
  /\ Ops \subseteq {"barrier", "bcast", "gather", "scatter", "allgather", "allgather_str"}

VARIABLES prog, called, res, st, deaths,
          stage,      \* which cobo_*_tree of the call the rank is in
          io,         \* the reads and writes it has still to do in there
          part,       \* of the first of them: the items read, or left to write
          buf,        \* its buffer
          cnt,        \* sendcount
          chan,       \* chan[<<a, b>>]: what a has written to b and b has not read
          reset       \* the connections on which a reset is under way

abstract == <<prog, called, res, st, deaths>>
vars == <<prog, called, res, st, deaths, stage, io, part, buf, cnt, chan, reset>>

Promise == INSTANCE Collectives WITH prog <- prog, called <- called, res <- res,
                                     st <- st, deaths <- deaths

Ranks == Promise!Ranks

-----------------------------------------------------------------------------
(* The tree of cobo_compute_children (module CoboTree). *)

Bisect(r) ==
  LET walk[x \in (0 .. N) \X (-1 .. N)] ==
        LET l == x[1]
            h == x[2]
            m == (h - l) \div 2 + ((h - l) % 2) + l
        IN  IF h - l <= 0 THEN <<>>
            ELSE (IF l = r THEN <<[rank |-> m, incl |-> h - m + 1]>> ELSE <<>>)
                 \o (IF m <= r THEN walk[<<m, h>>] ELSE walk[<<l, m - 1>>])
  IN  walk[<<0, N - 1>>]

child == [r \in Ranks |-> Bisect(r)]

\* the ranks below the children with index i and above: the offset of child i - 1
Below(r, i) ==
  LET n == Len(child[r])
      sum[j \in 1 .. n + 1] == IF j > n THEN 0 ELSE child[r][j].incl + sum[j + 1]
  IN  sum[i]

cobo_parent(r) == CHOOSE p \in Ranks : \E i \in DOMAIN child[p] : child[p][i].rank = r
Links == UNION {{<<r, cobo_parent(r)>>, <<cobo_parent(r), r>>} : r \in Ranks \ {0}}
Peers(r) == {q \in Ranks : <<r, q>> \in Links}

-----------------------------------------------------------------------------
(* The reads and writes of the cobo_*_tree functions. *)

Read(q, n) == [do |-> "read", peer |-> q, n |-> n, off |-> 0]
Write(q, n, off) == [do |-> "write", peer |-> q, n |-> n, off |-> off]

\* for (i = cobo_num_child-1; i >= 0; i--)
FromLast(r, E(_)) == LET n == Len(child[r]) IN [j \in 1 .. n |-> E(n + 1 - j)]

ToParent(r, n) == IF r = 0 THEN <<>> ELSE <<Write(cobo_parent(r), n, 0)>>
FromParent(r, n) == IF r = 0 THEN <<>> ELSE <<Read(cobo_parent(r), n)>>

\* one integer from every child, the maximum to the parent
cobo_reduce(r) ==
  FromLast(r, LAMBDA i : Read(child[r][i].rank, 1)) \o ToParent(r, 1)

\* Mistake: the children are read from the first to the last.
GatherForward(r, c) ==
  [i \in 1 .. Len(child[r]) |-> Read(child[r][i].rank, c * child[r][i].incl)]
    \o ToParent(r, c * (Below(r, 1) + 1))

cobo_gather_tree(r, c) ==
  FromLast(r, LAMBDA i : Read(child[r][i].rank, c * child[r][i].incl))
    \o ToParent(r, c * (Below(r, 1) + 1))

\* Mistake: a rank without children leaves its parent's data where it is.
BcastToParentsOnly(r, n) ==
  IF child[r] = <<>> THEN <<>>
  ELSE FromParent(r, n) \o [i \in 1 .. Len(child[r]) |-> Write(child[r][i].rank, n, 0)]

cobo_bcast_tree(r, n) ==
  FromParent(r, n) \o [i \in 1 .. Len(child[r]) |-> Write(child[r][i].rank, n, 0)]

cobo_scatter_tree(r, c) ==
  FromParent(r, c * (Below(r, 1) + 1))
    \o FromLast(r, LAMBDA i : Write(child[r][i].rank, c * child[r][i].incl, c * (1 + Below(r, i + 1))))

\* the cobo_*_tree calls of a collective
Stages(op) ==
  CASE op = "barrier"       -> <<"reduce", "bcast">>
    [] op = "bcast"         -> <<"bcast">>
    [] op = "gather"        -> <<"gather">>
    [] op = "scatter"       -> <<"scatter">>
    [] op = "allgather"     -> <<"gather", "bcast">>
    [] op = "allgather_str" -> <<"reduce", "bcast", "gather", "bcast">>

\* the size of a broadcast: an integer, sendcount, or sendcount * cobo_nprocs
BcastSize(op, s, c) == IF op = "allgather" \/ (op = "allgather_str" /\ s = 4) THEN c * N ELSE 1

Script(op, s, r, c) ==
  LET kind == Stages(op)[s] IN
  CASE kind = "reduce"  -> cobo_reduce(r)
    [] kind = "gather"  -> cobo_gather_tree(r, c)
    [] kind = "bcast"   -> cobo_bcast_tree(r, BcastSize(op, s, c))
    [] kind = "scatter" -> cobo_scatter_tree(r, c)

\* what the buffer of rank r holds when it enters stage s of call k
Loaded(op, s, k, r, c, b) ==
  LET kind == Stages(op)[s] IN
  CASE kind = "reduce"  -> <<IF op = "barrier" THEN 1 ELSE Promise!StrLen(r)>>
    [] kind = "gather"  -> IF op = "allgather_str" THEN Promise!Padded(k, r, c)
                                                   ELSE <<Promise!Item(k, r)>>
    [] kind = "bcast"   -> IF op = "bcast" THEN <<Promise!RootItem(k, 0)>> ELSE b
    [] kind = "scatter" -> [j \in 1 .. N |-> Promise!RootItem(k, j - 1)]

\* a completed read goes into the buffer
Absorbed(kind, b, got) ==
  CASE kind = "reduce" -> IF got[1] > b[1] THEN got ELSE b
    [] kind = "gather" -> b \o got
    [] kind \in {"bcast", "scatter"} -> got

\* what the caller finds in its receive buffer
Received(op, r, b) ==
  CASE op = "barrier" -> <<>>
    [] op = "gather"  -> IF r = 0 THEN b ELSE <<>>
    [] op = "scatter" -> <<b[1]>>
    [] op \in {"bcast", "allgather", "allgather_str"} -> b

-----------------------------------------------------------------------------
Init ==
  /\ Promise!CInit
  /\ stage = [r \in Ranks |-> 0]
  /\ io = [r \in Ranks |-> <<>>]
  /\ part = [r \in Ranks |-> <<>>]
  /\ buf = [r \in Ranks |-> <<>>]
  /\ cnt = [r \in Ranks |-> 1]
  /\ chan = [l \in Links |-> <<>>]
  /\ reset = {}

cur(r) == prog[called[r]]
Up(r) == st[r] = "up"
Busy(r) == Up(r) /\ stage[r] > 0

\* the next read or write is prepared: a write starts with all it has to send
Prepared(script, b) ==
  IF script # <<>> /\ Head(script).do = "write"
  THEN SubSeq(b, Head(script).off + 1, Head(script).off + Head(script).n) ELSE <<>>

\* rank r enters stage s of call k with sendcount c
Begin(r, k, s, c) ==
  LET script == Script(prog[k], s, r, c)
      b == Loaded(prog[k], s, k, r, c, buf[r])
  IN  /\ stage' = [stage EXCEPT ![r] = s]
      /\ cnt' = [cnt EXCEPT ![r] = c]
      /\ io' = [io EXCEPT ![r] = script]
      /\ buf' = [buf EXCEPT ![r] = b]
      /\ part' = [part EXCEPT ![r] = Prepared(script, b)]

\* the daemon calls the next collective
Call(r) ==
  /\ Up(r) /\ stage[r] = 0 /\ called[r] < Len(prog)
  /\ called' = [called EXCEPT ![r] = @ + 1]
  /\ Begin(r, called[r] + 1, 1, 1)
  /\ UNCHANGED <<prog, res, st, deaths, chan, reset>>

\* one cobo_*_tree has returned and the collective calls the next; the
\* strings of allgather_str are padded to the maximum just received
NextTree(r) ==
  /\ Busy(r) /\ io[r] = <<>> /\ stage[r] < Len(Stages(cur(r)))
  /\ Begin(r, called[r], stage[r] + 1,
           IF cur(r) = "allgather_str" /\ stage[r] = 2 THEN buf[r][1] ELSE cnt[r])
  /\ UNCHANGED <<abstract, chan, reset>>

Return(r) ==
  /\ Busy(r) /\ io[r] = <<>> /\ stage[r] = Len(Stages(cur(r)))
  /\ res' = [res EXCEPT ![r] = Append(@, Received(cur(r), r, buf[r]))]
  /\ stage' = [stage EXCEPT ![r] = 0]
  /\ UNCHANGED <<prog, called, st, deaths, io, part, buf, cnt, chan, reset>>

\* the current read or write is complete with buffer b
Advance(r, b) ==
  /\ io' = [io EXCEPT ![r] = Tail(@)]
  /\ buf' = [buf EXCEPT ![r] = b]
  /\ part' = [part EXCEPT ![r] = Prepared(Tail(io[r]), b)]

Current(r, what) == Busy(r) /\ io[r] # <<>> /\ Head(io[r]).do = what

\* cobo_read_fd: one pass of its loop takes what is there, at most what is missing
cobo_read_fd(r) ==
  LET h == Head(io[r])
      in == chan[<<h.peer, r>>]
      take == IF Len(in) < h.n - Len(part[r]) THEN Len(in) ELSE h.n - Len(part[r])
      got == part[r] \o SubSeq(in, 1, take)
  IN  /\ Current(r, "read") /\ take > 0
      /\ chan' = [chan EXCEPT ![<<h.peer, r>>] = SubSeq(@, take + 1, Len(@))]
      /\ IF Len(got) = h.n
         THEN Advance(r, Absorbed(Stages(cur(r))[stage[r]], buf[r], got))
         ELSE part' = [part EXCEPT ![r] = got] /\ UNCHANGED <<io, buf>>
      /\ UNCHANGED <<abstract, stage, cnt, reset>>

\* cobo_write_fd: one pass of its loop writes what there is room for; what is
\* written to a peer that has closed its end is lost and provokes a reset
cobo_write_fd(r) ==
  LET h == Head(io[r])
      open == st[h.peer] = "up"
      room == Room - Len(chan[<<r, h.peer>>])
      put == IF open /\ room < Len(part[r]) THEN room ELSE Len(part[r])
  IN  /\ Current(r, "write") /\ put > 0
      /\ IF open
         THEN /\ chan' = [chan EXCEPT ![<<r, h.peer>>] = @ \o SubSeq(part[r], 1, put)]
              /\ UNCHANGED reset
         ELSE /\ reset' = reset \cup {{r, h.peer}}
              /\ UNCHANGED chan
      /\ IF put = Len(part[r])
         THEN Advance(r, buf[r])
         ELSE /\ part' = [part EXCEPT ![r] = SubSeq(@, put + 1, Len(@))]
              /\ UNCHANGED <<io, buf>>
      /\ UNCHANGED <<abstract, stage, cnt>>

\* the end of a process or of its sockets: what it has not read is dropped,
\* and where there was some the peer gets a reset instead of an end of file
Depart(r, how) ==
  /\ st' = [st EXCEPT ![r] = how]
  /\ reset' = reset \cup {{r, q} : q \in {p \in Peers(r) : chan[<<p, r>>] # <<>>}}
  /\ chan' = [l \in Links |-> IF l[2] = r THEN <<>> ELSE chan[l]]
  /\ UNCHANGED <<prog, called, res, stage, io, part, buf, cnt>>

\* Mistake: a read of nothing is tried again.
FailsOnReset(r) ==
  LET h == Head(io[r]) IN
  /\ Busy(r) /\ io[r] # <<>> /\ st[h.peer] # "up"
  /\ \/ {r, h.peer} \in reset /\ Depart(r, "gone") /\ UNCHANGED deaths
     \/ h.do = "read" /\ chan[<<h.peer, r>>] = <<>> /\ UNCHANGED vars

\* a read that finds the end of the stream or a reset, a write after a reset
\* (SIGPIPE or EPIPE): exit(1)
Fails(r) ==
  LET h == Head(io[r]) IN
  /\ Busy(r) /\ io[r] # <<>> /\ st[h.peer] # "up"
  /\ \/ {r, h.peer} \in reset
     \/ h.do = "read" /\ chan[<<h.peer, r>>] = <<>>
  /\ Depart(r, "gone")
  /\ UNCHANGED deaths

Die(r) ==
  /\ Up(r) /\ deaths < MaxDeaths
  /\ deaths' = deaths + 1
  /\ Depart(r, "gone")

cobo_close(r) ==
  /\ Up(r) /\ stage[r] = 0 /\ called[r] = Len(prog)
  /\ Depart(r, "closed")
  /\ UNCHANGED deaths

Step(r) == \/ Call(r) \/ NextTree(r) \/ Return(r)
           \/ cobo_read_fd(r) \/ cobo_write_fd(r) \/ Fails(r) \/ cobo_close(r)

Ended == \A r \in Ranks : ~Up(r)

Next == \/ \E r \in Ranks : Step(r) \/ Die(r)
        \/ Ended /\ UNCHANGED vars

\* every daemon runs: it goes on with the call it is in, and makes the next
Spec == Init /\ [][Next]_vars /\ \A r \in Ranks : WF_vars(Step(r))

-----------------------------------------------------------------------------
(* Properties *)

(***************************************************************************)
(* The tree implements the collectives: a call returns only when the ranks *)
(* whose data it needs have entered it, with the data of that call and in  *)
(* rank order although ranks run ahead and the streams carry no message    *)
(* boundaries; and no rank exits unless one was killed.                    *)
(***************************************************************************)
Implements == Promise!CSpec

(***************************************************************************)
(* A daemon that closes the tree leaves nothing behind: there is no unread *)
(* data that would turn its close into a reset and cost a peer the data    *)
(* it has not read yet.                                                    *)
(***************************************************************************)
CleanClose == deaths = 0 => reset = {}

(***************************************************************************)
(* The death of a daemon reaches all who would otherwise wait for it       *)
(* forever: every daemon leaves its calls, normally or by exit(1), also    *)
(* when the socket buffers are full.                                       *)
(***************************************************************************)
AllEnd == <>Ended
=============================================================================
