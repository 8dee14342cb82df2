---------------------------- MODULE ProcCtlProofs ----------------------------
(***************************************************************************)
(* Proofs about ProcCtl: for any number of tasks, compute nodes and        *)
(* threads nothing is read for something else, the handshake leaves the    *)
(* job as the mode asks, and nothing of a control session is left over.    *)
(*                                                                         *)
(* A call is a sequence of steps that the other actions only take from the *)
(* front, so what is still to be done says what has not been done yet: the *)
(* invariants read "it has been done or it is still in todo".  The heart   *)
(* is Balanced: the notifications that have come or are to come are never  *)
(* more than the ones the rest of the call reads before its next answer.   *)
(***************************************************************************)
EXTENDS ProcCtl, TLAPS, FiniteSetTheorems, SequenceTheorems, WellFoundedInduction

(* What the steps of a call are, by platform and call *)

Kind(e) == IF e.do \in {"ask", "noti"} THEN e.req ELSE e.do

LinuxKinds(p) ==
  CASE p = "init"                     -> {"SIGSTOP", "PTRACE_ATTACH"}
    [] p = "initdone"                 -> {"waitpid", "SIGSTOP", "PTRACE_DETACH"}
    [] p \in {"run", "tester_run"}    -> {"SIGCONT"}
    [] p \in {"tester_init", "tester_stop"} -> {"SIGSTOP"}
    [] p = "perf"                     -> {"EINVAL"}
    [] OTHER                          -> {}

BgpKinds(p) ==
  CASE p = "init"                     -> {"ATTACH", "KILL", "Notify", "all_stopped"}
    [] p = "initdone"                 -> {"Notify", "all_stopped"}
    [] p \in {"run", "tester_run"}    -> {"KILL", "Notify", "all_stopped", "CONTINUE"}
    [] p = "tester_stop"              -> {"KILL", "Notify", "all_stopped"}
    [] p = "perf"                     -> {"EINVAL"}
    [] p = "done"                     -> {"VERSION_MSG", "END_DEBUG"}
    [] OTHER                          -> {}

BgqKinds(p) ==
  CASE p \in {"init", "tester_init"} ->
         {"connect", "Attach", "Control", "ListRelease", "ReleaseThr", "SendSignal", "Notify"}
    [] p = "initdone"    -> {"Notify", "ListHold", "HoldThr", "ReleaseControl", "Detach", "cleanup"}
    [] p = "tester_run"  -> {"Continue"}
    [] p = "tester_stop" -> {"SendSignal", "Notify"}
    [] p = "perf"        -> {"FetchMemory"}
    [] p = "done"        -> {"cleanup"}
    [] OTHER             -> {}

Kinds(rm, p) == IF rm = "bgp" THEN BgpKinds(p) ELSE IF rm = "bgq" THEN BgqKinds(p) ELSE LinuxKinds(p)

Stop == {"KILL", "SendSignal"}
OfTask == {"ATTACH", "KILL", "CONTINUE", "Control", "ListRelease", "ReleaseThr", "ListHold",
           "HoldThr", "SendSignal", "ReleaseControl", "Continue", "FetchMemory"}
OfNode == {"Attach", "Detach"}
OfDaemon == {"VERSION_MSG", "END_DEBUG"}
Asking == OfTask \cup OfNode \cup OfDaemon
Signals == {"SIGSTOP", "SIGCONT", "PTRACE_ATTACH", "PTRACE_DETACH", "waitpid"}
Rest == {"connect", "cleanup", "all_stopped", "EINVAL"}

\* the channel on which a task's node answers
ChanOf(rm, r) == IF rm = "bgp" THEN Ciod ELSE cnodeid(r)

StepSet == [do : {"ask", "noti"} \cup Signals \cup Rest, req : Asking \cup {"Notify", "none"},
            ch : Channels, rank : Nat, arg : Nat]

Fits(rm, p, e) ==
  /\ Kind(e) \in Kinds(rm, p)
  /\ e.do = "ask" =>
       /\ e.req \in Asking
       /\ e.req \in OfTask => e.rank \in Tasks /\ e.ch = ChanOf(rm, e.rank)
       /\ e.req \in OfDaemon => e.ch = Ciod
       /\ e.req = "HoldThr" => e.arg \in Threads
  /\ e.do = "noti" => e.req = "Notify" /\ e.rank \in Tasks /\ e.ch = ChanOf(rm, e.rank)
  /\ e.do \in Signals => e.rank \in Tasks
  /\ e.do = "connect" => e.rank \in Nodes
  /\ e.do = "all_stopped" => e.rank \in {0, 1}

StepsOf(rm, p) == {e \in StepSet : Fits(rm, p, e)}

Message == [type : Asking \cup {"Notify"}, rank : Nat, seq : Nat, ok : BOOLEAN]
TaskType == [gone : BOOLEAN, gated : BOOLEAN, stopped : BOOLEAN, sigstop : BOOLEAN,
             traced : BOOLEAN, event : BOOLEAN, held : SUBSET Threads]

TypeOK ==
  /\ job \in [rm : RMs, mode : {"launch", "launch_dontstop", "attach", "attach_stop"},
              mpao : BOOLEAN, v3 : BOOLEAN]
  /\ (job.mpao => job.rm = "slurm") /\ (job.v3 => job.rm = "bgp")
  /\ dontstop_fastpath \in BOOLEAN /\ all_stopped \in {0, 1}
  /\ IOToolMap \in [ranks : [Nodes -> Seq(Tasks)], socks : SUBSET Nodes]
  /\ seqNum \in Nat
  /\ pc \in Steps /\ asked \in BOOLEAN /\ rc \in {"LMON_OK", "LMON_EINVAL"}
  /\ released \in BOOLEAN /\ misread \in BOOLEAN /\ faults \in Nat
  /\ task \in [Tasks -> TaskType]
  /\ stream \in [Channels -> Seq(Message)]
  /\ todo \in Seq(StepsOf(job.rm, pc))

\* the call, the request and the resource manager
Sound ==
  /\ asked => todo # <<>> /\ s.do = "ask"
  /\ pc = "run" => dontstop
  /\ pc = "idle" => todo = <<>> /\ rc = "LMON_OK" /\ ~dontstop_fastpath
  /\ pc \in {"idle", "init"} => ~released /\ \A r \in Tasks : task[r].gated = islaunch
  /\ \A r \in Tasks : /\ task[r].gated => islaunch
                      /\ task[r].event => ~task[r].gated
                      /\ task[r].gone => IsLinux /\ faults > 0

-----------------------------------------------------------------------------

(* A set of natural numbers that is not empty has a least element. *)
LEMMA Least ==
  ASSUME NEW T, T \subseteq Nat, T # {}
  PROVE  \E m \in T : \A n \in T : m <= n
<1> DEFINE R == OpToRel(<, Nat)
<1>1. IsWellFoundedOn(R, Nat)
  BY NatLessThanWellFounded
<1>2. \A m \in T : \A n \in T : n < m => <<n, m>> \in R
  BY DEF OpToRel
<1> HIDE DEF R
<1>3. PICK m \in T : \A n \in T : <<n, m>> \notin R
  BY <1>1, WFMin, Zenon
<1>4. \A n \in T : ~(n < m)
  BY <1>2, <1>3, Zenon
<1> QED BY <1>4

(* The loop of FlattenSeq is a function. *)
LEMMA JoinsExist ==
  ASSUME NEW ss, NEW n \in Nat
  PROVE  \E f : f = [i \in 1 .. n |-> IF i = 1 THEN ss[i] ELSE f[i - 1] \o ss[i]]
<1> DEFINE Good(f, m) == f = [i \in 1 .. m |-> IF i = 1 THEN ss[i] ELSE f[i - 1] \o ss[i]]
           T == {m \in Nat : ~\E f : Good(f, m)}
<1> SUFFICES ASSUME T # {} PROVE FALSE
  OBVIOUS
<1>1. PICK m \in T : \A k \in T : m <= k
  BY Least
<1>2. m # 0
  <2> SUFFICES ASSUME m = 0 PROVE FALSE
    OBVIOUS
  <2> DEFINE f == [i \in 1 .. 0 |-> 0]
  <2>1. Good(f, 0)
    OBVIOUS
  <2> QED BY <1>1, <2>1
<1> HIDE DEF Good
<1>3. m \in Nat /\ m - 1 \in Nat /\ m - 1 \notin T
  <2>1. m \in Nat /\ m - 1 \in Nat /\ ~(m <= m - 1)
    BY <1>1, <1>2
  <2> QED BY <1>1, <2>1
<1> USE DEF Good
<1>4. PICK g : Good(g, m - 1)
  BY <1>3
<1> DEFINE f == [i \in 1 .. m |-> IF i = m THEN IF i = 1 THEN ss[i] ELSE g[i - 1] \o ss[i] ELSE g[i]]
<1>5. \A i \in 1 .. m - 1 : f[i] = g[i]
  BY <1>3
<1>6. \A i \in 1 .. m : f[i] = IF i = 1 THEN ss[i] ELSE f[i - 1] \o ss[i]
  <2> SUFFICES ASSUME NEW i \in 1 .. m
               PROVE  f[i] = IF i = 1 THEN ss[i] ELSE f[i - 1] \o ss[i]
    OBVIOUS
  <2>1. i # 1 => i - 1 \in 1 .. m - 1 /\ f[i - 1] = g[i - 1]
    BY <1>3, <1>5
  <2>2. CASE i = m
    BY <2>1, <2>2
  <2>3. CASE i # m
    <3>1. i \in 1 .. m - 1 /\ f[i] = g[i]
      BY <1>3, <1>5, <2>3
    <3>2. g[i] = IF i = 1 THEN ss[i] ELSE g[i - 1] \o ss[i]
      BY <1>4, <3>1
    <3> QED BY <2>1, <3>1, <3>2
  <2> QED BY <2>2, <2>3
<1>7. f = [i \in 1 .. m |-> f[i]]
  OBVIOUS
<1> HIDE DEF f
<1>8. Good(f, m)
  BY <1>6, <1>7
<1> QED BY <1>1, <1>8

LEMMA FlattenJoins ==
  ASSUME NEW ss, Len(ss) \in Nat \ {0}
  PROVE  \E f : /\ \A i \in 1 .. Len(ss) : f[i] = IF i = 1 THEN ss[i] ELSE f[i - 1] \o ss[i]
                /\ FlattenSeq(ss) = f[Len(ss)]
<1> DEFINE Good(f) == f = [i \in 1 .. Len(ss) |-> IF i = 1 THEN ss[i] ELSE f[i - 1] \o ss[i]]
           c == CHOOSE f : Good(f)
<1>1. \E f : Good(f)
  BY JoinsExist
<1>2. Good(c)
  BY <1>1, Zenon
<1>3. FlattenSeq(ss) = c[Len(ss)]
  BY Zenon DEF FlattenSeq
<1> HIDE DEF c
<1>4. \A i \in 1 .. Len(ss) : c[i] = IF i = 1 THEN ss[i] ELSE c[i - 1] \o ss[i]
  BY <1>2
<1> QED BY <1>3, <1>4

(* What is closed under concatenation holds for the flattened sequence. *)
LEMMA FlattenClosed ==
  ASSUME NEW A, NEW P, <<>> \in P, P \subseteq Seq(A),
         \A q, w \in P : q \o w \in P,
         NEW ss \in Seq(P)
  PROVE  FlattenSeq(ss) \in P
<1>1. CASE Len(ss) = 0
  <2>1. ss = <<>>
    BY <1>1, EmptySeq
  <2> QED BY <1>1, <2>1, Zenon DEF FlattenSeq
<1>2. CASE Len(ss) # 0
  <2>1. Len(ss) \in Nat \ {0} /\ \A i \in 1 .. Len(ss) : ss[i] \in P
    BY <1>2
  <2>2. PICK f : /\ \A i \in 1 .. Len(ss) : f[i] = IF i = 1 THEN ss[i] ELSE f[i - 1] \o ss[i]
                 /\ FlattenSeq(ss) = f[Len(ss)]
    BY <2>1, FlattenJoins
  <2> DEFINE T == {i \in 1 .. Len(ss) : f[i] \notin P}
  <2>3. T = {}
    <3> SUFFICES ASSUME T # {} PROVE FALSE
      OBVIOUS
    <3>1. T \subseteq Nat
      OBVIOUS
    <3>2. PICK i \in T : \A k \in T : i <= k
      BY <3>1, Least
    <3>3. i # 1 => i - 1 \in 1 .. Len(ss) /\ i - 1 \notin T
      <4>1. i \in 1 .. Len(ss) /\ i - 1 \in Int /\ ~(i <= i - 1)
        BY <3>2
      <4> HIDE DEF T
      <4> QED BY <2>1, <3>2, <4>1
    <3>4. CASE i = 1
      BY <2>1, <2>2, <3>4
    <3>5. CASE i # 1
      <4>1. f[i - 1] \in P /\ ss[i] \in P /\ f[i] = f[i - 1] \o ss[i]
        BY <2>1, <2>2, <3>3, <3>5
      <4> QED BY <4>1
    <3> QED BY <3>4, <3>5
  <2> QED BY <2>1, <2>2, <2>3
<1> QED BY <1>1, <1>2

(* The elements of a concatenation. *)
LEMMA RangeConcat ==
  ASSUME NEW A, NEW q \in Seq(A), NEW w \in Seq(A)
  PROVE  /\ Range(q \o w) = Range(q) \cup Range(w)
         /\ q \o w \in Seq(A)
<1>1. /\ q \o w \in Seq(A) /\ Len(q \o w) = Len(q) + Len(w) /\ Len(q) \in Nat /\ Len(w) \in Nat
      /\ \A i \in 1 .. Len(q) + Len(w) : (q \o w)[i] = IF i <= Len(q) THEN q[i] ELSE w[i - Len(q)]
  OBVIOUS
<1>2. DOMAIN q = 1 .. Len(q) /\ DOMAIN w = 1 .. Len(w) /\ DOMAIN (q \o w) = 1 .. Len(q) + Len(w)
  BY <1>1
<1>3. ASSUME NEW e \in Range(q) PROVE e \in Range(q \o w)
  <2>1. PICK i \in 1 .. Len(q) : q[i] = e
    BY <1>2 DEF Range
  <2>2. i \in 1 .. Len(q) + Len(w) /\ (q \o w)[i] = e
    BY <1>1, <2>1
  <2> QED BY <1>2, <2>2 DEF Range
<1>4. ASSUME NEW e \in Range(w) PROVE e \in Range(q \o w)
  <2>1. PICK i \in 1 .. Len(w) : w[i] = e
    BY <1>2 DEF Range
  <2>2. i + Len(q) \in 1 .. Len(q) + Len(w) /\ ~(i + Len(q) <= Len(q)) /\ i + Len(q) - Len(q) = i
    BY <1>1
  <2>3. (q \o w)[i + Len(q)] = e
    BY <1>1, <2>1, <2>2
  <2> QED BY <1>2, <2>2, <2>3 DEF Range
<1>5. ASSUME NEW e \in Range(q \o w) PROVE e \in Range(q) \cup Range(w)
  <2>1. PICK i \in 1 .. Len(q) + Len(w) : (q \o w)[i] = e
    BY <1>2 DEF Range
  <2>2. CASE i <= Len(q)
    BY <1>1, <1>2, <2>1, <2>2 DEF Range
  <2>3. CASE ~(i <= Len(q))
    <3>1. i - Len(q) \in 1 .. Len(w) /\ w[i - Len(q)] = e
      BY <1>1, <2>1, <2>3
    <3> QED BY <1>2, <3>1 DEF Range
  <2> QED BY <2>2, <2>3
<1> QED BY <1>1, <1>3, <1>4, <1>5

(* The elements of the flattened sequence are those of its parts. *)
LEMMA FlattenRange ==
  ASSUME NEW A, NEW ss \in Seq(Seq(A))
  PROVE  /\ FlattenSeq(ss) \in Seq(A)
         /\ \A e \in Range(FlattenSeq(ss)) : \E i \in 1 .. Len(ss) : e \in Range(ss[i])
         /\ \A i \in 1 .. Len(ss) : Range(ss[i]) \subseteq Range(FlattenSeq(ss))
<1> DEFINE B == {e \in A : \E i \in 1 .. Len(ss) : e \in Range(ss[i])}
           flat == FlattenSeq(ss)
<1>1. flat \in Seq(B)
  <2>1. \A i \in 1 .. Len(ss) : ss[i] \in Seq(B)
    <3> SUFFICES ASSUME NEW i \in 1 .. Len(ss) PROVE ss[i] \in Seq(B)
      OBVIOUS
    <3>1. ss[i] \in Seq(A)
      OBVIOUS
    <3>2. \A j \in 1 .. Len(ss[i]) : ss[i][j] \in B
      BY <3>1 DEF Range
    <3> HIDE DEF B
    <3> QED BY <3>1, <3>2, ElementOfSeq, IsASeq
  <2> HIDE DEF B
  <2>2. ss \in Seq(Seq(B))
    BY <2>1, IsASeq
  <2>3. <<>> \in Seq(B) /\ \A q, w \in Seq(B) : q \o w \in Seq(B)
    OBVIOUS
  <2> QED BY <2>2, <2>3, FlattenClosed
<1>2. flat \in Seq(A)
  <2>1. B \subseteq A
    OBVIOUS
  <2> HIDE DEF B, flat
  <2> QED BY <1>1, <2>1, SeqMonotonic
<1>3. \A e \in Range(flat) : e \in B
  <2> HIDE DEF B, flat
  <2> QED BY <1>1 DEF Range
<1>4. ASSUME NEW i \in 1 .. Len(ss), NEW e \in Range(ss[i])
      PROVE  e \in Range(flat)
  <2>1. Len(ss) \in Nat \ {0} /\ \A k \in 1 .. Len(ss) : ss[k] \in Seq(A)
    BY <1>4
  <2>2. PICK f : /\ \A k \in 1 .. Len(ss) : f[k] = IF k = 1 THEN ss[k] ELSE f[k - 1] \o ss[k]
                 /\ flat = f[Len(ss)]
    BY <2>1, FlattenJoins
  <2> HIDE DEF flat
  <2> DEFINE T == {k \in 1 .. Len(ss) : ~(f[k] \in Seq(A) /\ (i <= k => e \in Range(f[k])))}
  <2>3. T = {}
    <3> SUFFICES ASSUME T # {} PROVE FALSE
      OBVIOUS
    <3>1. T \subseteq Nat
      OBVIOUS
    <3>2. PICK k \in T : \A n \in T : k <= n
      BY <3>1, Least
    <3>3. k \in 1 .. Len(ss) /\ ~(f[k] \in Seq(A) /\ (i <= k => e \in Range(f[k])))
      BY <3>2
    <3>4. CASE k = 1
      <4>1. f[k] = ss[k] /\ (i <= k => i = k)
        BY <2>2, <3>3, <3>4
      <4> QED BY <2>1, <3>3, <4>1
    <3>5. CASE k # 1
      <4>1. k - 1 \in 1 .. Len(ss) /\ k - 1 \notin T
        <5>1. k - 1 \in 1 .. Len(ss) /\ ~(k <= k - 1)
          BY <2>1, <3>3, <3>5
        <5> HIDE DEF T
        <5> QED BY <3>2, <5>1
      <4>2. f[k - 1] \in Seq(A) /\ (i <= k - 1 => e \in Range(f[k - 1]))
        BY <4>1
      <4>3. f[k] = f[k - 1] \o ss[k] /\ ss[k] \in Seq(A)
        BY <2>1, <2>2, <3>3, <3>5
      <4>4. f[k] \in Seq(A)
        BY <4>2, <4>3
      <4>5. \A q, w \in Seq(A) : Range(q) \subseteq Range(q \o w) /\ Range(w) \subseteq Range(q \o w)
        BY RangeConcat
      <4>6. i <= k => i <= k - 1 \/ i = k
        BY <3>3
      <4> QED BY <3>3, <4>2, <4>3, <4>4, <4>5, <4>6
    <3> QED BY <3>4, <3>5
  <2> QED BY <2>1, <2>2, <2>3
<1> QED BY <1>2, <1>3, <1>4
-----------------------------------------------------------------------------
(* Plans: what the calls are made of *)

\* a KILL or SendSignal is followed by the wait for its notification
Paired(q) == \A j \in 1 .. Len(q) : Kind(q[j]) \in Stop =>
  j < Len(q) /\ q[j + 1].do = "noti" /\ q[j + 1].ch = q[j].ch

\* what has to come first in a call does
First(e) == Kind(e) \in {"waitpid", "KILL", "Notify"}
Phased(q) == \A i, j \in 1 .. Len(q) : i < j /\ First(q[j]) => First(q[i])

PairedSeq(A) == {q \in Seq(A) : Paired(q)}

(* The first element and the others. *)
LEMMA HeadOrTail ==
  ASSUME NEW A, NEW q \in Seq(A), q # <<>>
  PROVE  /\ Head(q) = q[1] /\ Head(q) \in A /\ Tail(q) \in Seq(A)
         /\ Len(q) \in Nat \ {0} /\ Len(Tail(q)) = Len(q) - 1
         /\ \A i \in 1 .. Len(q) - 1 : Tail(q)[i] = q[i + 1]
         /\ Range(q) = {Head(q)} \cup Range(Tail(q))
<1>1. /\ Head(q) = q[1] /\ Head(q) \in A /\ Tail(q) \in Seq(A)
      /\ Len(q) \in Nat \ {0} /\ Len(Tail(q)) = Len(q) - 1
      /\ \A i \in 1 .. Len(q) - 1 : Tail(q)[i] = q[i + 1]
  OBVIOUS
<1>2. DOMAIN q = 1 .. Len(q) /\ DOMAIN Tail(q) = 1 .. Len(q) - 1
  BY <1>1
<1>3. ASSUME NEW e \in Range(q) PROVE e \in {Head(q)} \cup Range(Tail(q))
  <2>1. PICK i \in 1 .. Len(q) : q[i] = e
    BY <1>2 DEF Range
  <2>2. i # 1 => i - 1 \in 1 .. Len(q) - 1 /\ Tail(q)[i - 1] = e
    BY <1>1, <2>1
  <2> QED BY <1>1, <1>2, <2>1, <2>2 DEF Range
<1>4. Head(q) \in Range(q)
  BY <1>1, <1>2 DEF Range
<1>5. ASSUME NEW e \in Range(Tail(q)) PROVE e \in Range(q)
  <2>1. PICK i \in 1 .. Len(q) - 1 : Tail(q)[i] = e
    BY <1>2 DEF Range
  <2>2. i + 1 \in 1 .. Len(q) /\ q[i + 1] = e
    BY <1>1, <2>1
  <2> QED BY <1>2, <2>2 DEF Range
<1> QED BY <1>1, <1>3, <1>4, <1>5

(* Both forms of order are kept by taking steps from the front. *)
LEMMA TailKeeps ==
  ASSUME NEW A, NEW q \in Seq(A), q # <<>>
  PROVE  /\ Paired(q) => Paired(Tail(q))
         /\ Phased(q) => Phased(Tail(q))
<1>1. /\ Len(q) \in Nat \ {0} /\ Len(Tail(q)) = Len(q) - 1
      /\ \A i \in 1 .. Len(q) - 1 : Tail(q)[i] = q[i + 1]
  BY HeadOrTail
<1>2. ASSUME Paired(q) PROVE Paired(Tail(q))
  <2> SUFFICES ASSUME NEW j \in 1 .. Len(q) - 1, Kind(q[j + 1]) \in Stop
               PROVE  j < Len(q) - 1 /\ Tail(q)[j + 1].do = "noti" /\ Tail(q)[j + 1].ch = q[j + 1].ch
    BY <1>1 DEF Paired
  <2>1. j + 1 \in 1 .. Len(q)
    BY <1>1
  <2>2. j + 1 < Len(q) /\ q[j + 1 + 1].do = "noti" /\ q[j + 1 + 1].ch = q[j + 1].ch
    BY <1>2, <2>1 DEF Paired
  <2>3. j + 1 \in 1 .. Len(q) - 1 /\ j < Len(q) - 1
    BY <1>1, <2>2
  <2> QED BY <1>1, <2>2, <2>3
<1>3. ASSUME Phased(q) PROVE Phased(Tail(q))
  <2> SUFFICES ASSUME NEW i \in 1 .. Len(q) - 1, NEW j \in 1 .. Len(q) - 1, i < j, First(q[j + 1])
               PROVE  First(q[i + 1])
    BY <1>1 DEF Phased
  <2>1. i + 1 \in 1 .. Len(q) /\ j + 1 \in 1 .. Len(q) /\ i + 1 < j + 1
    BY <1>1
  <2> QED BY <1>3, <2>1 DEF Phased
<1> QED BY <1>2, <1>3

LEMMA PairedConcat ==
  ASSUME NEW A, NEW q \in PairedSeq(A), NEW w \in PairedSeq(A)
  PROVE  q \o w \in PairedSeq(A)
<1>1. /\ q \o w \in Seq(A) /\ Len(q \o w) = Len(q) + Len(w) /\ Len(q) \in Nat /\ Len(w) \in Nat
      /\ \A i \in 1 .. Len(q) + Len(w) : (q \o w)[i] = IF i <= Len(q) THEN q[i] ELSE w[i - Len(q)]
  BY DEF PairedSeq
<1>2. Paired(q) /\ Paired(w)
  BY DEF PairedSeq
<1>3. ASSUME NEW j \in 1 .. Len(q) + Len(w), Kind((q \o w)[j]) \in Stop
      PROVE  j < Len(q) + Len(w) /\ (q \o w)[j + 1].do = "noti" /\ (q \o w)[j + 1].ch = (q \o w)[j].ch
  <2>1. CASE j <= Len(q)
    <3>1. j \in 1 .. Len(q) /\ (q \o w)[j] = q[j]
      BY <1>1, <2>1
    <3>2. j < Len(q) /\ q[j + 1].do = "noti" /\ q[j + 1].ch = q[j].ch
      BY <1>2, <1>3, <3>1 DEF Paired
    <3>3. j + 1 \in 1 .. Len(q) + Len(w) /\ j + 1 <= Len(q)
      BY <1>1, <3>2
    <3>4. (q \o w)[j + 1] = q[j + 1]
      BY <1>1, <3>3
    <3> QED BY <1>1, <3>1, <3>2, <3>4
  <2>2. CASE ~(j <= Len(q))
    <3>1. j - Len(q) \in 1 .. Len(w) /\ (q \o w)[j] = w[j - Len(q)]
      BY <1>1, <2>2
    <3> DEFINE k == j - Len(q)
    <3> HIDE DEF k
    <3>2. k < Len(w) /\ w[k + 1].do = "noti" /\ w[k + 1].ch = w[k].ch
      BY <1>2, <1>3, <3>1 DEF Paired, k
    <3>3. j + 1 \in 1 .. Len(q) + Len(w) /\ ~(j + 1 <= Len(q)) /\ j + 1 - Len(q) = k + 1
      BY <1>1, <2>2, <3>2 DEF k
    <3>4. (q \o w)[j + 1] = w[k + 1]
      BY <1>1, <3>3
    <3> QED BY <1>1, <3>1, <3>2, <3>3, <3>4 DEF k
  <2> QED BY <2>1, <2>2
<1> QED BY <1>1, <1>3 DEF PairedSeq, Paired

LEMMA PairedFlatten ==
  ASSUME NEW A, NEW ss \in Seq(PairedSeq(A))
  PROVE  FlattenSeq(ss) \in PairedSeq(A)
<1>1. <<>> \in PairedSeq(A)
  BY DEF PairedSeq, Paired
<1>2. \A q, w \in PairedSeq(A) : q \o w \in PairedSeq(A)
  BY PairedConcat
<1>3. PairedSeq(A) \subseteq Seq(A)
  BY DEF PairedSeq
<1> DEFINE P == PairedSeq(A)
<1> HIDE DEF P
<1>4. <<>> \in P /\ (\A q, w \in P : q \o w \in P) /\ P \subseteq Seq(A) /\ ss \in Seq(P)
  BY <1>1, <1>2, <1>3 DEF P
<1>5. FlattenSeq(ss) \in P
  BY <1>4, FlattenClosed, Zenon
<1> QED BY <1>5 DEF P

(* A call that stops nothing is in order. *)
LEMMA NoStopPaired ==
  ASSUME NEW A, NEW q \in Seq(A), \A e \in A : Kind(e) \notin Stop
  PROVE  q \in PairedSeq(A)
<1>1. \A j \in 1 .. Len(q) : q[j] \in A
  OBVIOUS
<1> QED BY <1>1 DEF PairedSeq, Paired

LEMMA PairedMono ==
  ASSUME NEW A, NEW B, A \subseteq B, NEW q \in PairedSeq(A)
  PROVE  q \in PairedSeq(B)
<1>1. q \in Seq(A) /\ Paired(q)
  BY DEF PairedSeq
<1>2. q \in Seq(B)
  BY <1>1, SeqMonotonic
<1> QED BY <1>1, <1>2 DEF PairedSeq

(* What comes first, before what does not. *)
LEMMA PhasedConcat ==
  ASSUME NEW A, NEW B, NEW q \in Seq(A), NEW w \in Seq(B),
         Phased(q), Phased(w),
         (\A e \in A : First(e)) \/ (\A e \in B : ~First(e))
  PROVE  Phased(q \o w)
<1>0. q \in Seq(A \cup B) /\ w \in Seq(A \cup B)
  BY SeqMonotonic
<1>1. /\ Len(q \o w) = Len(q) + Len(w) /\ Len(q) \in Nat /\ Len(w) \in Nat
      /\ \A i \in 1 .. Len(q) + Len(w) : (q \o w)[i] = IF i <= Len(q) THEN q[i] ELSE w[i - Len(q)]
  BY <1>0
<1>2. (\A i \in 1 .. Len(q) : q[i] \in A) /\ \A i \in 1 .. Len(w) : w[i] \in B
  OBVIOUS
<1>3. ASSUME NEW i \in 1 .. Len(q) + Len(w), NEW j \in 1 .. Len(q) + Len(w), i < j, First((q \o w)[j])
      PROVE  First((q \o w)[i])
  <2>1. CASE j <= Len(q)
    <3>1. i \in 1 .. Len(q) /\ j \in 1 .. Len(q) /\ (q \o w)[i] = q[i] /\ (q \o w)[j] = q[j]
      BY <1>1, <1>3, <2>1
    <3> QED BY <1>3, <3>1 DEF Phased
  <2>2. CASE ~(j <= Len(q))
    <3>1. j - Len(q) \in 1 .. Len(w) /\ (q \o w)[j] = w[j - Len(q)]
      BY <1>1, <2>2
    <3>2. CASE i <= Len(q)
      <4>1. i \in 1 .. Len(q) /\ (q \o w)[i] = q[i] /\ q[i] \in A
        BY <1>1, <1>2, <3>2
      <4>2. w[j - Len(q)] \in B /\ First(w[j - Len(q)])
        BY <1>2, <1>3, <3>1
      <4> QED BY <4>1, <4>2
    <3>3. CASE ~(i <= Len(q))
      <4>1. i - Len(q) \in 1 .. Len(w) /\ (q \o w)[i] = w[i - Len(q)] /\ i - Len(q) < j - Len(q)
        BY <1>1, <1>3, <3>3
      <4>2. First(w[j - Len(q)])
        BY <1>3, <3>1
      <4>3. First(w[i - Len(q)])
        <5> DEFINE a == i - Len(q)
                   b == j - Len(q)
        <5>1. a \in 1 .. Len(w) /\ b \in 1 .. Len(w) /\ a < b /\ First(w[b])
          BY <3>1, <4>1, <4>2
        <5> HIDE DEF a, b
        <5>2. First(w[a])
          BY <5>1 DEF Phased
        <5> QED BY <5>2 DEF a
      <4> QED BY <4>1, <4>3
    <3> QED BY <3>2, <3>3
  <2> QED BY <2>1, <2>2
<1> QED BY <1>1, <1>3 DEF Phased

LEMMA OnePhase ==
  ASSUME NEW A, NEW q \in Seq(A), (\A e \in A : First(e)) \/ (\A e \in A : ~First(e))
  PROVE  Phased(q)
<1>1. \A j \in 1 .. Len(q) : q[j] \in A
  OBVIOUS
<1> QED BY <1>1 DEF Phased

(* Of a call in which what comes first has been done nothing of it is left. *)
LEMMA NoneFirst ==
  ASSUME NEW A, NEW q \in Seq(A), q # <<>>, Phased(q), ~First(Head(q))
  PROVE  \A e \in Range(q) : ~First(e)
<1>1. Head(q) = q[1] /\ Len(q) \in Nat \ {0} /\ DOMAIN q = 1 .. Len(q)
  OBVIOUS
<1>2. ASSUME NEW j \in 1 .. Len(q), First(q[j]) PROVE FALSE
  <2>1. j # 1 => 1 < j /\ 1 \in 1 .. Len(q)
    BY <1>1
  <2> QED BY <1>1, <1>2, <2>1 DEF Phased
<1> QED BY <1>1, <1>2 DEF Range

-----------------------------------------------------------------------------
(* One step, or two, for every task of a list *)

LEMMA PtabRanks == ptab \in Seq(Tasks) /\ Tasks \subseteq Range(ptab)
<1>1. NumTasks \in Nat
  BY ProcCtlAssumption
<1>2. ptab = [i \in 1 .. NumTasks |-> i]
  BY DEF ptab, Tasks
<1>3. ptab \in Seq(Tasks) /\ DOMAIN ptab = 1 .. NumTasks
  BY <1>1, <1>2 DEF Tasks
<1>4. ASSUME NEW r \in Tasks PROVE r \in Range(ptab)
  BY <1>2, <1>3 DEF Tasks, Range
<1> QED BY <1>3, <1>4

\* the loops over a list of ranks
DoAll(what, ranks) == FlattenSeq([i \in 1 .. Len(ranks) |-> <<Do(what, ranks[i])>>])
AskAllCiod(req, ranks) ==
  FlattenSeq([i \in 1 .. Len(ranks) |-> <<Ask(req, Ciod, ranks[i], 0)>>])
AskAll(req, ranks) ==
  FlattenSeq([i \in 1 .. Len(ranks) |-> <<Ask(req, cnodeid(ranks[i]), ranks[i], 0)>>])
NotiAllCiod(ranks) == FlattenSeq([i \in 1 .. Len(ranks) |-> <<Noti(Ciod, ranks[i])>>])
NotiAll(ranks) == FlattenSeq([i \in 1 .. Len(ranks) |-> <<Noti(cnodeid(ranks[i]), ranks[i])>>])
KillAll(ranks) ==
  FlattenSeq([i \in 1 .. Len(ranks) |-> <<Ask("KILL", Ciod, ranks[i], 0), Noti(Ciod, ranks[i])>>])
SendAll(ranks) ==
  FlattenSeq([i \in 1 .. Len(ranks) |->
     <<Ask("SendSignal", cnodeid(ranks[i]), ranks[i], 0), Noti(cnodeid(ranks[i]), ranks[i])>>])
FetchAll(ranks) ==
  FlattenSeq([i \in 1 .. Len(ranks) |->
     <<Ask("FetchMemory", cnodeid(ranks[i]), ranks[i], 0),
       Ask("FetchMemory", cnodeid(ranks[i]), ranks[i], 0)>>])

(* The list is gone through once. *)
LEMMA EachStep ==
  ASSUME NEW A, NEW ranks \in Seq(Tasks), Tasks \subseteq Range(ranks),
         NEW ss \in Seq(Seq(A)), Len(ss) = Len(ranks),
         NEW f, NEW r \in Tasks,
         \A i \in 1 .. Len(ranks) : f[ranks[i]] \in Range(ss[i])
  PROVE  FlattenSeq(ss) \in Seq(A) /\ f[r] \in Range(FlattenSeq(ss))
<1>1. PICK i \in 1 .. Len(ranks) : ranks[i] = r
  BY DEF Range
<1>2. f[r] \in Range(ss[i])
  BY <1>1
<1>3. FlattenSeq(ss) \in Seq(A) /\ Range(ss[i]) \subseteq Range(FlattenSeq(ss))
  BY <1>1, FlattenRange
<1> QED BY <1>2, <1>3

LEMMA EachOne ==
  ASSUME NEW A, NEW ranks \in Seq(Tasks), Tasks \subseteq Range(ranks),
         NEW f, \A r \in Tasks : f[r] \in A,
         NEW ss, ss = [i \in 1 .. Len(ranks) |-> ss[i]],
         \A i \in 1 .. Len(ranks) : ss[i] = <<f[ranks[i]]>>
  PROVE  FlattenSeq(ss) \in Seq(A) /\ \A r \in Tasks : f[r] \in Range(FlattenSeq(ss))
<1>1. Len(ranks) \in Nat /\ \A i \in 1 .. Len(ranks) : ranks[i] \in Tasks
  OBVIOUS
<1>2. ss \in Seq(Seq(A)) /\ Len(ss) = Len(ranks)
  <2>1. ASSUME NEW i \in 1 .. Len(ranks) PROVE ss[i] \in Seq(A)
    <3>1. f[ranks[i]] \in A /\ ss[i] = <<f[ranks[i]]>>
      BY <1>1
    <3>2. <<f[ranks[i]]>> \in Seq(A)
      BY <3>1
    <3> QED BY <3>1, <3>2, Zenon
  <2> QED BY <1>1, <2>1, IsASeq
<1>3. \A i \in 1 .. Len(ranks) : f[ranks[i]] \in Range(ss[i])
  BY DEF Range
<1>4. ASSUME NEW r \in Tasks
      PROVE  f[r] \in Range(FlattenSeq(ss))
  BY <1>2, <1>3, EachStep
<1> QED BY <1>2, <1>4, FlattenRange

(* One request each, on the pipe or to the task's node, and so on. *)
LEMMA EachDo ==
  ASSUME NEW A, NEW ranks \in Seq(Tasks), Tasks \subseteq Range(ranks), NEW what,
         \A r \in Tasks : Do(what, r) \in A
  PROVE  DoAll(what, ranks) \in Seq(A) /\ \A r \in Tasks : Do(what, r) \in Range(DoAll(what, ranks))
<1> DEFINE ss == [i \in 1 .. Len(ranks) |-> <<Do(what, ranks[i])>>]
           f == [r \in Tasks |-> Do(what, r)]
<1> HIDE DEF Do
<1>1. ss = [i \in 1 .. Len(ranks) |-> ss[i]] /\ \A i \in 1 .. Len(ranks) : ss[i] = <<f[ranks[i]]>>
  OBVIOUS
<1>2. \A r \in Tasks : f[r] \in A /\ f[r] = Do(what, r)
  OBVIOUS
<1> HIDE DEF ss, f
<1>3. FlattenSeq(ss) \in Seq(A) /\ \A r \in Tasks : f[r] \in Range(FlattenSeq(ss))
  BY <1>1, <1>2, EachOne
<1>4. FlattenSeq(ss) = DoAll(what, ranks)
  BY Zenon DEF ss, DoAll
<1> QED BY <1>2, <1>3, <1>4

LEMMA EachAskCiod ==
  ASSUME NEW A, NEW ranks \in Seq(Tasks), Tasks \subseteq Range(ranks), NEW req,
         \A r \in Tasks : Ask(req, Ciod, r, 0) \in A
  PROVE  AskAllCiod(req, ranks) \in Seq(A) /\ \A r \in Tasks : Ask(req, Ciod, r, 0) \in Range(AskAllCiod(req, ranks))
<1> DEFINE ss == [i \in 1 .. Len(ranks) |-> <<Ask(req, Ciod, ranks[i], 0)>>]
           f == [r \in Tasks |-> Ask(req, Ciod, r, 0)]
<1> HIDE DEF Ask
<1>1. ss = [i \in 1 .. Len(ranks) |-> ss[i]] /\ \A i \in 1 .. Len(ranks) : ss[i] = <<f[ranks[i]]>>
  OBVIOUS
<1>2. \A r \in Tasks : f[r] \in A /\ f[r] = Ask(req, Ciod, r, 0)
  OBVIOUS
<1> HIDE DEF ss, f
<1>3. FlattenSeq(ss) \in Seq(A) /\ \A r \in Tasks : f[r] \in Range(FlattenSeq(ss))
  BY <1>1, <1>2, EachOne
<1>4. FlattenSeq(ss) = AskAllCiod(req, ranks)
  BY Zenon DEF ss, AskAllCiod
<1> QED BY <1>2, <1>3, <1>4

LEMMA EachAsk ==
  ASSUME NEW A, NEW ranks \in Seq(Tasks), Tasks \subseteq Range(ranks), NEW req,
         \A r \in Tasks : Ask(req, cnodeid(r), r, 0) \in A
  PROVE  AskAll(req, ranks) \in Seq(A) /\ \A r \in Tasks : Ask(req, cnodeid(r), r, 0) \in Range(AskAll(req, ranks))
<1> DEFINE ss == [i \in 1 .. Len(ranks) |-> <<Ask(req, cnodeid(ranks[i]), ranks[i], 0)>>]
           f == [r \in Tasks |-> Ask(req, cnodeid(r), r, 0)]
<1> HIDE DEF Ask
<1>1. ss = [i \in 1 .. Len(ranks) |-> ss[i]] /\ \A i \in 1 .. Len(ranks) : ss[i] = <<f[ranks[i]]>>
  OBVIOUS
<1>2. \A r \in Tasks : f[r] \in A /\ f[r] = Ask(req, cnodeid(r), r, 0)
  OBVIOUS
<1> HIDE DEF ss, f
<1>3. FlattenSeq(ss) \in Seq(A) /\ \A r \in Tasks : f[r] \in Range(FlattenSeq(ss))
  BY <1>1, <1>2, EachOne
<1>4. FlattenSeq(ss) = AskAll(req, ranks)
  BY Zenon DEF ss, AskAll
<1> QED BY <1>2, <1>3, <1>4

LEMMA EachNotiCiod ==
  ASSUME NEW A, NEW ranks \in Seq(Tasks), Tasks \subseteq Range(ranks),
         \A r \in Tasks : Noti(Ciod, r) \in A
  PROVE  NotiAllCiod(ranks) \in Seq(A) /\ \A r \in Tasks : Noti(Ciod, r) \in Range(NotiAllCiod(ranks))
<1> DEFINE ss == [i \in 1 .. Len(ranks) |-> <<Noti(Ciod, ranks[i])>>]
           f == [r \in Tasks |-> Noti(Ciod, r)]
<1> HIDE DEF Noti
<1>1. ss = [i \in 1 .. Len(ranks) |-> ss[i]] /\ \A i \in 1 .. Len(ranks) : ss[i] = <<f[ranks[i]]>>
  OBVIOUS
<1>2. \A r \in Tasks : f[r] \in A /\ f[r] = Noti(Ciod, r)
  OBVIOUS
<1> HIDE DEF ss, f
<1>3. FlattenSeq(ss) \in Seq(A) /\ \A r \in Tasks : f[r] \in Range(FlattenSeq(ss))
  BY <1>1, <1>2, EachOne
<1>4. FlattenSeq(ss) = NotiAllCiod(ranks)
  BY Zenon DEF ss, NotiAllCiod
<1> QED BY <1>2, <1>3, <1>4

LEMMA EachNoti ==
  ASSUME NEW A, NEW ranks \in Seq(Tasks), Tasks \subseteq Range(ranks),
         \A r \in Tasks : Noti(cnodeid(r), r) \in A
  PROVE  NotiAll(ranks) \in Seq(A) /\ \A r \in Tasks : Noti(cnodeid(r), r) \in Range(NotiAll(ranks))
<1> DEFINE ss == [i \in 1 .. Len(ranks) |-> <<Noti(cnodeid(ranks[i]), ranks[i])>>]
           f == [r \in Tasks |-> Noti(cnodeid(r), r)]
<1> HIDE DEF Noti
<1>1. ss = [i \in 1 .. Len(ranks) |-> ss[i]] /\ \A i \in 1 .. Len(ranks) : ss[i] = <<f[ranks[i]]>>
  OBVIOUS
<1>2. \A r \in Tasks : f[r] \in A /\ f[r] = Noti(cnodeid(r), r)
  OBVIOUS
<1> HIDE DEF ss, f
<1>3. FlattenSeq(ss) \in Seq(A) /\ \A r \in Tasks : f[r] \in Range(FlattenSeq(ss))
  BY <1>1, <1>2, EachOne
<1>4. FlattenSeq(ss) = NotiAll(ranks)
  BY Zenon DEF ss, NotiAll
<1> QED BY <1>2, <1>3, <1>4

(* A request each and the notification it brings. *)
LEMMA EachKill ==
  ASSUME NEW A, NEW ranks \in Seq(Tasks), Tasks \subseteq Range(ranks),
         \A r \in Tasks : Ask("KILL", Ciod, r, 0) \in A /\ Noti(Ciod, r) \in A
  PROVE  KillAll(ranks) \in PairedSeq(A) /\ \A r \in Tasks : Ask("KILL", Ciod, r, 0) \in Range(KillAll(ranks))
<1> DEFINE ss == [i \in 1 .. Len(ranks) |->
                    <<Ask("KILL", Ciod, ranks[i], 0), Noti(Ciod, ranks[i])>>]
           f == [r \in Tasks |-> Ask("KILL", Ciod, r, 0)]
<1>1. Len(ranks) \in Nat /\ \A i \in 1 .. Len(ranks) : ranks[i] \in Tasks
  OBVIOUS
<1>2. \A r \in Tasks : <<Ask("KILL", Ciod, r, 0), Noti(Ciod, r)>> \in PairedSeq(A)
  <2> SUFFICES ASSUME NEW r \in Tasks
               PROVE  <<Ask("KILL", Ciod, r, 0), Noti(Ciod, r)>> \in PairedSeq(A)
    OBVIOUS
  <2> DEFINE a == Ask("KILL", Ciod, r, 0)
             b == Noti(Ciod, r)
  <2>1. b.do = "noti" /\ b.ch = a.ch /\ Kind(b) \notin Stop
    BY DEF Ask, Noti, Kind, Stop
  <2>2. a \in A /\ b \in A
    OBVIOUS
  <2> HIDE DEF a, b
  <2>3. /\ <<a, b>> \in Seq(A) /\ Len(<<a, b>>) = 2 /\ <<a, b>>[1] = a /\ <<a, b>>[2] = b
        /\ \A j \in 1 .. 2 : j = 1 \/ j = 2
    BY <2>2
  <2>4. Paired(<<a, b>>)
    BY <2>1, <2>3 DEF Paired
  <2>5. <<a, b>> \in PairedSeq(A)
    BY <2>3, <2>4 DEF PairedSeq
  <2> QED BY <2>5 DEF a, b
<1> HIDE DEF Ask, Noti
<1>3. \A i \in 1 .. Len(ranks) : ss[i] \in PairedSeq(A)
  BY <1>1, <1>2
<1>4. \A i \in 1 .. Len(ranks) : f[ranks[i]] \in Range(ss[i])
  <2> SUFFICES ASSUME NEW i \in 1 .. Len(ranks) PROVE f[ranks[i]] \in Range(ss[i])
    OBVIOUS
  <2>1. f[ranks[i]] = ss[i][1] /\ 1 \in DOMAIN ss[i]
    BY <1>1
  <2> QED BY <2>1 DEF Range
<1>5. ss = [i \in 1 .. Len(ranks) |-> ss[i]]
  OBVIOUS
<1>6. \A r \in Tasks : f[r] = Ask("KILL", Ciod, r, 0)
  OBVIOUS
<1> HIDE DEF ss, f
<1>7. ss \in Seq(PairedSeq(A)) /\ Len(ss) = Len(ranks)
  BY <1>1, <1>3, <1>5, IsASeq
<1>8. ss \in Seq(Seq(A))
  <2>1. PairedSeq(A) \subseteq Seq(A)
    BY DEF PairedSeq
  <2> QED BY <1>7, <2>1, SeqMonotonic
<1>9. ASSUME NEW r \in Tasks
      PROVE  f[r] \in Range(FlattenSeq(ss))
  BY <1>4, <1>7, <1>8, EachStep
<1>10. FlattenSeq(ss) \in PairedSeq(A)
  BY <1>7, PairedFlatten
<1>11. FlattenSeq(ss) = KillAll(ranks)
  BY Zenon DEF ss, KillAll
<1> QED BY <1>6, <1>9, <1>10, <1>11

LEMMA EachSendSignal ==
  ASSUME NEW A, NEW ranks \in Seq(Tasks), Tasks \subseteq Range(ranks),
         \A r \in Tasks : Ask("SendSignal", cnodeid(r), r, 0) \in A /\ Noti(cnodeid(r), r) \in A
  PROVE  SendAll(ranks) \in PairedSeq(A) /\ \A r \in Tasks : Ask("SendSignal", cnodeid(r), r, 0) \in Range(SendAll(ranks))
<1> DEFINE ss == [i \in 1 .. Len(ranks) |->
                    <<Ask("SendSignal", cnodeid(ranks[i]), ranks[i], 0), Noti(cnodeid(ranks[i]), ranks[i])>>]
           f == [r \in Tasks |-> Ask("SendSignal", cnodeid(r), r, 0)]
<1>1. Len(ranks) \in Nat /\ \A i \in 1 .. Len(ranks) : ranks[i] \in Tasks
  OBVIOUS
<1>2. \A r \in Tasks : <<Ask("SendSignal", cnodeid(r), r, 0), Noti(cnodeid(r), r)>> \in PairedSeq(A)
  <2> SUFFICES ASSUME NEW r \in Tasks
               PROVE  <<Ask("SendSignal", cnodeid(r), r, 0), Noti(cnodeid(r), r)>> \in PairedSeq(A)
    OBVIOUS
  <2> DEFINE a == Ask("SendSignal", cnodeid(r), r, 0)
             b == Noti(cnodeid(r), r)
  <2>1. b.do = "noti" /\ b.ch = a.ch /\ Kind(b) \notin Stop
    BY DEF Ask, Noti, Kind, Stop
  <2>2. a \in A /\ b \in A
    OBVIOUS
  <2> HIDE DEF a, b
  <2>3. /\ <<a, b>> \in Seq(A) /\ Len(<<a, b>>) = 2 /\ <<a, b>>[1] = a /\ <<a, b>>[2] = b
        /\ \A j \in 1 .. 2 : j = 1 \/ j = 2
    BY <2>2
  <2>4. Paired(<<a, b>>)
    BY <2>1, <2>3 DEF Paired
  <2>5. <<a, b>> \in PairedSeq(A)
    BY <2>3, <2>4 DEF PairedSeq
  <2> QED BY <2>5 DEF a, b
<1> HIDE DEF Ask, Noti
<1>3. \A i \in 1 .. Len(ranks) : ss[i] \in PairedSeq(A)
  BY <1>1, <1>2
<1>4. \A i \in 1 .. Len(ranks) : f[ranks[i]] \in Range(ss[i])
  <2> SUFFICES ASSUME NEW i \in 1 .. Len(ranks) PROVE f[ranks[i]] \in Range(ss[i])
    OBVIOUS
  <2>1. f[ranks[i]] = ss[i][1] /\ 1 \in DOMAIN ss[i]
    BY <1>1
  <2> QED BY <2>1 DEF Range
<1>5. ss = [i \in 1 .. Len(ranks) |-> ss[i]]
  OBVIOUS
<1>6. \A r \in Tasks : f[r] = Ask("SendSignal", cnodeid(r), r, 0)
  OBVIOUS
<1> HIDE DEF ss, f
<1>7. ss \in Seq(PairedSeq(A)) /\ Len(ss) = Len(ranks)
  BY <1>1, <1>3, <1>5, IsASeq
<1>8. ss \in Seq(Seq(A))
  <2>1. PairedSeq(A) \subseteq Seq(A)
    BY DEF PairedSeq
  <2> QED BY <1>7, <2>1, SeqMonotonic
<1>9. ASSUME NEW r \in Tasks
      PROVE  f[r] \in Range(FlattenSeq(ss))
  BY <1>4, <1>7, <1>8, EachStep
<1>10. FlattenSeq(ss) \in PairedSeq(A)
  BY <1>7, PairedFlatten
<1>11. FlattenSeq(ss) = SendAll(ranks)
  BY Zenon DEF ss, SendAll
<1> QED BY <1>6, <1>9, <1>10, <1>11

LEMMA EachFetch ==
  ASSUME NEW A, NEW ranks \in Seq(Tasks),
         \A r \in Tasks : Ask("FetchMemory", cnodeid(r), r, 0) \in A
  PROVE  FetchAll(ranks) \in Seq(A)
<1> DEFINE ss == [i \in 1 .. Len(ranks) |->
                    <<Ask("FetchMemory", cnodeid(ranks[i]), ranks[i], 0),
                      Ask("FetchMemory", cnodeid(ranks[i]), ranks[i], 0)>>]
<1> HIDE DEF Ask
<1>1. ss \in Seq(Seq(A))
  OBVIOUS
<1> HIDE DEF ss
<1>2. FlattenSeq(ss) \in Seq(A)
  BY <1>1, FlattenRange
<1> QED BY <1>2, Zenon DEF ss, FetchAll

NodeAll(map, f) ==
  LET all == [n \in 1 .. NumNodes |-> n]
  IN  FlattenSeq([i \in 1 .. Len(all) |-> IF map[all[i]] = <<>> THEN <<>> ELSE <<f[all[i]]>>])

(* One step for every node that has tasks. *)
LEMMA EachNode ==
  ASSUME NEW A, NEW map, NEW f, \A n \in Nodes : f[n] \in A
  PROVE  NodeAll(map, f) \in Seq(A)
<1> DEFINE all == [n \in 1 .. NumNodes |-> n]
           ss == [i \in 1 .. Len(all) |-> IF map[all[i]] = <<>> THEN <<>> ELSE <<f[all[i]]>>]
<1>1. NumNodes \in Nat
  BY ProcCtlAssumption
<1>2. all \in Seq(Nodes)
  BY <1>1 DEF Nodes
<1> HIDE DEF all
<1>3. Len(all) \in Nat /\ \A i \in 1 .. Len(all) : all[i] \in Nodes
  BY <1>2
<1>4. \A i \in 1 .. Len(all) : ss[i] \in Seq(A)
  BY <1>3
<1>5. ss = [i \in 1 .. Len(all) |-> ss[i]]
  OBVIOUS
<1> HIDE DEF ss
<1>6. ss \in Seq(Seq(A))
  BY <1>3, <1>4, <1>5, IsASeq
<1>7. FlattenSeq(ss) \in Seq(A)
  BY <1>6, FlattenRange
<1> QED BY <1>7, Zenon DEF ss, all, NodeAll

-----------------------------------------------------------------------------
(* BlueGene/Q's map of the ranks *)

EmptyMap == [n \in Nodes |-> <<>>]

\* every task once, at its node
Full(map) ==
  /\ map \in [Nodes -> Seq(Tasks)]
  /\ \A n \in Nodes : IsInjective(map[n])
  /\ \A r \in Tasks : r \in Range(map[cnodeid(r)])

LEMMA Cnodeid ==
  ASSUME NEW r \in Tasks
  PROVE  cnodeid(r) \in Nodes /\ cnodeid(r) # Ciod /\ cnodeid(r) \in Channels
<1>1. r \in Nat /\ NumNodes \in Nat \ {0}
  BY ProcCtlAssumption DEF Tasks
<1>2. r % NumNodes \in 0 .. NumNodes - 1
  BY <1>1
<1> QED BY <1>1, <1>2 DEF cnodeid, Nodes, Channels, Ciod

LEMMA RanksOf ==
  ASSUME NEW map \in [Nodes -> Seq(Tasks)]
  PROVE  /\ ranks_of(map) \in Seq(Tasks)
         /\ Full(map) => Tasks \subseteq Range(ranks_of(map))
         /\ map = EmptyMap => ranks_of(map) = <<>>
<1> DEFINE ss == [n \in 1 .. NumNodes |-> map[n]]
<1>1. NumNodes \in Nat \ {0} /\ Nodes = 1 .. NumNodes
  BY ProcCtlAssumption DEF Nodes
<1>2. ss \in Seq(Seq(Tasks)) /\ Len(ss) = NumNodes /\ \A n \in Nodes : ss[n] = map[n]
  BY <1>1
<1>3. ranks_of(map) = FlattenSeq(ss)
  BY Zenon DEF ranks_of
<1> HIDE DEF ss
<1>4. FlattenSeq(ss) \in Seq(Tasks)
  BY <1>2, FlattenRange
<1>5. ASSUME Full(map), NEW r \in Tasks
      PROVE  r \in Range(FlattenSeq(ss))
  <2>1. cnodeid(r) \in Nodes /\ r \in Range(map[cnodeid(r)])
    BY <1>5, Cnodeid DEF Full
  <2>2. cnodeid(r) \in 1 .. Len(ss) /\ r \in Range(ss[cnodeid(r)])
    BY <1>1, <1>2, <2>1
  <2> QED BY <1>2, <2>2, FlattenRange
<1>6. ASSUME map = EmptyMap PROVE FlattenSeq(ss) = <<>>
  <2>1. \A n \in 1 .. Len(ss) : Range(ss[n]) = {}
    <3> SUFFICES ASSUME NEW n \in 1 .. Len(ss) PROVE Range(ss[n]) = {}
      OBVIOUS
    <3>1. ss[n] = <<>>
      BY <1>1, <1>2, <1>6 DEF EmptyMap
    <3> QED BY <3>1 DEF Range
  <2>2. Range(FlattenSeq(ss)) = {}
    BY <1>2, <2>1, FlattenRange
  <2> DEFINE q == FlattenSeq(ss)
  <2>3. q \in Seq(Tasks) /\ Range(q) = {}
    BY <1>4, <2>2
  <2> HIDE DEF q
  <2>4. q = <<>>
    <3> SUFFICES ASSUME q # <<>> PROVE FALSE
      OBVIOUS
    <3>1. 1 \in DOMAIN q
      BY <2>3
    <3> QED BY <2>3, <3>1 DEF Range
  <2> QED BY <2>4 DEF q
<1> QED BY <1>3, <1>4, <1>5, <1>6

\* f holds the map after the first i tasks have been added, up to the n-th
Adds(f, map, n) ==
  f = [i \in 0 .. n |->
         IF i = 0 THEN map ELSE [f[i - 1] EXCEPT ![cnodeid(ptab[i])] = Append(@, ptab[i])]]

(* The loop of push_back calls is a function. *)
LEMMA LoopExists ==
  ASSUME NEW map, NEW n \in Nat
  PROVE  \E f : Adds(f, map, n)
<1> DEFINE Next1(m, i) == [m EXCEPT ![cnodeid(ptab[i])] = Append(@, ptab[i])]
           Good(f, m) == f = [i \in 0 .. m |-> IF i = 0 THEN map ELSE Next1(f[i - 1], i)]
           T == {m \in Nat : ~\E f : Good(f, m)}
<1>1. \A f, m : Adds(f, map, m) <=> Good(f, m)
  BY Zenon DEF Adds
<1> HIDE DEF Next1
<1>2. T = {}
  <2> SUFFICES ASSUME T # {} PROVE FALSE
    OBVIOUS
  <2>1. PICK m \in T : \A k \in T : m <= k
    BY Least
  <2>2. m # 0
    <3> SUFFICES ASSUME m = 0 PROVE FALSE
      OBVIOUS
    <3> DEFINE f == [i \in 0 .. 0 |-> map]
    <3>1. Good(f, 0)
      OBVIOUS
    <3> QED BY <2>1, <3>1
  <2> HIDE DEF Good
  <2>3. m \in Nat /\ m - 1 \in Nat /\ m - 1 \notin T
    <3>1. m \in Nat /\ m - 1 \in Nat /\ ~(m <= m - 1)
      BY <2>1, <2>2
    <3> QED BY <2>1, <3>1
  <2>4. PICK g : Good(g, m - 1)
    BY <2>3
  <2> DEFINE f == [i \in 0 .. m |-> IF i = m THEN Next1(g[i - 1], i) ELSE g[i]]
  <2>5. \A i \in 0 .. m - 1 : f[i] = g[i]
    BY <2>3
  <2>6. \A i \in 0 .. m : f[i] = IF i = 0 THEN map ELSE Next1(f[i - 1], i)
    <3> SUFFICES ASSUME NEW i \in 0 .. m
                 PROVE  f[i] = IF i = 0 THEN map ELSE Next1(f[i - 1], i)
      OBVIOUS
    <3>1. i # 0 => i - 1 \in 0 .. m - 1 /\ f[i - 1] = g[i - 1]
      BY <2>3, <2>5
    <3>2. CASE i = m
      BY <2>2, <3>1, <3>2
    <3>3. CASE i # m
      <4>1. i \in 0 .. m - 1 /\ f[i] = g[i]
        BY <2>3, <2>5, <3>3
      <4>2. g[i] = IF i = 0 THEN map ELSE Next1(g[i - 1], i)
        BY <2>4, <4>1 DEF Good
      <4> QED BY <3>1, <4>1, <4>2
    <3> QED BY <3>2, <3>3
  <2>7. f = [i \in 0 .. m |-> f[i]]
    OBVIOUS
  <2> HIDE DEF f
  <2>8. Good(f, m)
    BY <2>6, <2>7 DEF Good
  <2> QED BY <2>1, <2>8
<1>3. \E f : Good(f, n)
  BY <1>2
<1> HIDE DEF Good
<1> QED BY <1>1, <1>3

(* Filling the empty map adds every task once, to its node. *)
LEMMA FilledIsFull ==
  ASSUME CN2Ranks = EmptyMap
  PROVE  Full(Filled)
<1> DEFINE c == CHOOSE f : Adds(f, CN2Ranks, NumTasks)
<1>1. NumTasks \in Nat
  BY ProcCtlAssumption
<1>2. \E f : Adds(f, CN2Ranks, NumTasks)
  BY <1>1, LoopExists
<1>3. Adds(c, CN2Ranks, NumTasks)
  BY <1>2, Zenon
<1>4. Filled = c[NumTasks]
  BY Zenon DEF Filled, Adds
<1> HIDE DEF c
<1>5. /\ c[0] = EmptyMap
      /\ \A i \in 1 .. NumTasks : c[i] = [c[i - 1] EXCEPT ![cnodeid(i)] = Append(@, i)]
  <2>1. \A i \in 1 .. NumTasks : ptab[i] = i /\ i # 0 /\ i \in 0 .. NumTasks /\ 0 \in 0 .. NumTasks
    BY <1>1 DEF ptab, Tasks
  <2>2. 0 \in 0 .. NumTasks
    BY <1>1
  <2>3. ASSUME NEW i \in 0 .. NumTasks
        PROVE  c[i] = IF i = 0 THEN CN2Ranks
                      ELSE [c[i - 1] EXCEPT ![cnodeid(ptab[i])] = Append(@, ptab[i])]
    BY <1>3 DEF Adds
  <2> QED BY <2>1, <2>2, <2>3
\* after i iterations: the tasks up to i, each once
<1> DEFINE Sofar(i) ==
             /\ c[i] \in [Nodes -> Seq(1 .. i)]
             /\ \A n \in Nodes : IsInjective(c[i][n])
             /\ \A r \in 1 .. i : r \in Range(c[i][cnodeid(r)])
           T == {i \in 0 .. NumTasks : ~Sofar(i)}
<1>6. T = {}
  <2> SUFFICES ASSUME T # {} PROVE FALSE
    OBVIOUS
  <2>1. T \subseteq Nat
    OBVIOUS
  <2>2. PICK i \in T : \A k \in T : i <= k
    BY <2>1, Least
  <2>3. i \in 0 .. NumTasks /\ ~Sofar(i)
    BY <2>2
  <2> HIDE DEF T
  <2>4. CASE i = 0
    <3>1. c[0] \in [Nodes -> Seq(1 .. 0)] /\ \A n \in Nodes : c[0][n] = <<>>
      BY <1>5 DEF EmptyMap
    <3>2. \A n \in Nodes : IsInjective(c[0][n])
      BY <3>1 DEF IsInjective
    <3> QED BY <2>3, <2>4, <3>1, <3>2
  <2>5. CASE i # 0
    <3>1. i - 1 \in 0 .. NumTasks /\ i \in 1 .. NumTasks /\ ~(i <= i - 1)
      BY <1>1, <2>3, <2>5
    <3>2. Sofar(i - 1)
      <4> HIDE DEF Sofar
      <4>1. i - 1 \notin T
        <5> QED BY <2>2, <3>1
      <4> QED BY <3>1, <4>1 DEF T
    <3> DEFINE old == c[i - 1]
               new == c[i]
               n0 == cnodeid(i)
    <3>3. new = [old EXCEPT ![n0] = Append(@, i)]
      BY <1>5, <3>1
    <3>4. n0 \in Nodes /\ i \in Tasks
      BY <3>1, Cnodeid DEF Tasks
    <3>5. /\ old \in [Nodes -> Seq(1 .. i - 1)]
          /\ \A n \in Nodes : IsInjective(old[n])
          /\ \A r \in 1 .. i - 1 : r \in Range(old[cnodeid(r)])
      BY <3>2
    <3> HIDE DEF old, new, n0
    <3>6. /\ new[n0] = Append(old[n0], i)
          /\ \A n \in Nodes \ {n0} : new[n] = old[n]
          /\ DOMAIN new = Nodes /\ new = [n \in Nodes |-> new[n]]
      BY <3>3, <3>4, <3>5
    <3> DEFINE q == old[n0]
    <3>7. q \in Seq(1 .. i - 1) /\ IsInjective(q)
      BY <3>4, <3>5
    <3> HIDE DEF q
    <3>8. /\ Append(q, i) \in Seq(1 .. i) /\ Len(Append(q, i)) = Len(q) + 1 /\ Len(q) \in Nat
          /\ Append(q, i)[Len(q) + 1] = i
          /\ \A k \in 1 .. Len(q) : Append(q, i)[k] = q[k] /\ q[k] \in 1 .. i - 1
      <4>1. 1 .. i - 1 \subseteq 1 .. i /\ i \in 1 .. i
        BY <3>1
      <4>2. q \in Seq(1 .. i)
        BY <3>7, <4>1, SeqMonotonic
      <4> QED BY <3>7, <4>1, <4>2
    <3>9. IsInjective(Append(q, i))
      <4>1. DOMAIN q = 1 .. Len(q) /\ DOMAIN Append(q, i) = 1 .. Len(q) + 1
        BY <3>7, <3>8
      <4>2. ASSUME NEW a \in 1 .. Len(q) + 1, NEW b \in 1 .. Len(q) + 1,
                   Append(q, i)[a] = Append(q, i)[b]
            PROVE  a = b
        <5>1. a = Len(q) + 1 \/ a \in 1 .. Len(q)
          BY <3>8
        <5>2. b = Len(q) + 1 \/ b \in 1 .. Len(q)
          BY <3>8
        <5>3. \A k \in 1 .. Len(q) : q[k] # i
          BY <3>1, <3>8
        <5>4. \A x, y \in 1 .. Len(q) : q[x] = q[y] => x = y
          BY <3>7, <4>1 DEF IsInjective
        <5> QED BY <3>8, <4>2, <5>1, <5>2, <5>3, <5>4
      <4> QED BY <4>1, <4>2 DEF IsInjective
    <3>10. \A n \in Nodes : new[n] \in Seq(1 .. i) /\ IsInjective(new[n])
      <4>1. 1 .. i - 1 \subseteq 1 .. i
        BY <3>1
      <4>2. ASSUME NEW n \in Nodes PROVE old[n] \in Seq(1 .. i)
        <5>1. old[n] \in Seq(1 .. i - 1)
          BY <3>5
        <5> QED BY <4>1, <5>1, SeqMonotonic
      <4> QED BY <3>5, <3>6, <3>8, <3>9, <4>2 DEF q
    <3>11. new \in [Nodes -> Seq(1 .. i)]
      BY <3>6, <3>10
    <3>12. ASSUME NEW r \in 1 .. i PROVE r \in Range(new[cnodeid(r)])
      <4>1. CASE r = i
        <5>1. new[cnodeid(r)] = Append(q, i)
          BY <3>6, <4>1 DEF q, n0
        <5>2. Len(q) + 1 \in DOMAIN Append(q, i)
          BY <3>8
        <5> QED BY <3>8, <4>1, <5>1, <5>2 DEF Range
      <4>2. CASE r # i
        <5>1. r \in 1 .. i - 1 /\ r \in Tasks
          BY <1>1, <2>3, <3>1, <4>2 DEF Tasks
        <5>2. r \in Range(old[cnodeid(r)]) /\ cnodeid(r) \in Nodes
          BY <3>5, <5>1, Cnodeid
        <5>3. CASE cnodeid(r) # n0
          BY <3>6, <5>2, <5>3
        <5>4. CASE cnodeid(r) = n0
          <6>1. r \in Range(q) /\ new[cnodeid(r)] = Append(q, i)
            BY <3>6, <5>2, <5>4 DEF q
          <6>2. PICK k \in 1 .. Len(q) : q[k] = r
            BY <3>7, <6>1 DEF Range
          <6>3. k \in DOMAIN Append(q, i) /\ Append(q, i)[k] = r
            BY <3>8, <6>2
          <6> QED BY <6>1, <6>3 DEF Range
        <5> QED BY <5>3, <5>4
      <4> QED BY <4>1, <4>2
    <3> QED BY <2>3, <3>10, <3>11, <3>12 DEF new
  <2> QED BY <2>4, <2>5
<1>7. Sofar(NumTasks)
  <2>1. NumTasks \in 0 .. NumTasks
    BY <1>1
  <2> HIDE DEF Sofar
  <2> QED BY <1>6, <2>1
<1> QED BY <1>4, <1>7 DEF Full, Tasks

-----------------------------------------------------------------------------
(* The steps a call may have *)

LEMMA LinuxSteps ==
  ASSUME NEW rm \in {"slurm", "orte"}, NEW r \in Tasks
  PROVE  /\ \A p \in {"init", "initdone", "tester_init", "tester_stop"} :
              Do("SIGSTOP", r) \in StepsOf(rm, p)
         /\ Do("PTRACE_ATTACH", r) \in StepsOf(rm, "init")
         /\ Do("waitpid", r) \in StepsOf(rm, "initdone")
         /\ Do("PTRACE_DETACH", r) \in StepsOf(rm, "initdone")
         /\ \A p \in {"run", "tester_run"} : Do("SIGCONT", r) \in StepsOf(rm, p)
<1>1. r \in Nat /\ Ciod \in Channels
  BY ProcCtlAssumption DEF Tasks, Channels
<1>2. \A what \in Signals : Do(what, r) \in StepSet /\ Kind(Do(what, r)) = what /\ Do(what, r).do = what
                            /\ Do(what, r).rank = r
  BY <1>1 DEF Do, StepSet, Kind, Signals
<1>3. \A p : Kinds(rm, p) = LinuxKinds(p)
  BY DEF Kinds
<1>4. \A p : \A what \in Signals : what \in LinuxKinds(p) => Do(what, r) \in StepsOf(rm, p)
  BY <1>2, <1>3 DEF StepsOf, Fits, Signals
<1>5. /\ \A p \in {"init", "initdone", "tester_init", "tester_stop"} : "SIGSTOP" \in LinuxKinds(p)
      /\ "PTRACE_ATTACH" \in LinuxKinds("init")
      /\ {"waitpid", "PTRACE_DETACH"} \subseteq LinuxKinds("initdone")
      /\ \A p \in {"run", "tester_run"} : "SIGCONT" \in LinuxKinds(p)
  BY DEF LinuxKinds
<1> HIDE DEF Do
<1> QED BY <1>4, <1>5 DEF Signals

LEMMA BgpSteps ==
  /\ \A r \in Tasks :
       /\ Ask("ATTACH", Ciod, r, 0) \in StepsOf("bgp", "init")
       /\ Ask("KILL", Ciod, r, 0) \in StepsOf("bgp", "init")
       /\ \A p \in {"run", "tester_run"} : Ask("CONTINUE", Ciod, r, 0) \in StepsOf("bgp", p)
       /\ \A p \in {"init", "run", "tester_run", "tester_stop"} :
            Ask("KILL", Ciod, r, 0) \in StepsOf("bgp", p) /\ Noti(Ciod, r) \in StepsOf("bgp", p)
       /\ Noti(Ciod, r) \in StepsOf("bgp", "initdone")
  /\ \A p \in {"init", "initdone", "run", "tester_run", "tester_stop"} :
       Do("all_stopped", 1) \in StepsOf("bgp", p)
  /\ \A p \in {"run", "tester_run"} : Do("all_stopped", 0) \in StepsOf("bgp", p)
  /\ Ask("VERSION_MSG", Ciod, 0, 0) \in StepsOf("bgp", "done")
  /\ Ask("END_DEBUG", Ciod, 0, 0) \in StepsOf("bgp", "done")
  /\ Do("EINVAL", 0) \in StepsOf("bgp", "perf")
<1>1. Ciod \in Channels /\ \A r \in Tasks : r \in Nat
  BY ProcCtlAssumption DEF Tasks, Channels
<1>2. \A p : Kinds("bgp", p) = BgpKinds(p)
  BY DEF Kinds
<1>3. \A r : ChanOf("bgp", r) = Ciod
  BY DEF ChanOf
<1>4. \A p : \A req \in Asking \ {"HoldThr"} : \A r \in Nat :
        req \in BgpKinds(p) /\ (req \in OfTask => r \in Tasks) =>
          Ask(req, Ciod, r, 0) \in StepsOf("bgp", p)
  <2> SUFFICES ASSUME NEW p, NEW req \in Asking \ {"HoldThr"}, NEW r \in Nat,
                      req \in BgpKinds(p), req \in OfTask => r \in Tasks
               PROVE  Ask(req, Ciod, r, 0) \in StepsOf("bgp", p)
    OBVIOUS
  <2> DEFINE e == Ask(req, Ciod, r, 0)
  <2>1. e \in StepSet /\ e.do = "ask" /\ e.req = req /\ e.ch = Ciod /\ e.rank = r
    BY <1>1 DEF Ask, StepSet
  <2> HIDE DEF e
  <2>2. Kind(e) = req
    BY <2>1 DEF Kind
  <2>3. Fits("bgp", p, e)
    BY <1>2, <1>3, <2>1, <2>2 DEF Fits, Signals
  <2>4. e \in StepsOf("bgp", p)
    BY <2>1, <2>3 DEF StepsOf
  <2> QED BY <2>4 DEF e
<1>5. \A p : \A r \in Tasks : "Notify" \in BgpKinds(p) => Noti(Ciod, r) \in StepsOf("bgp", p)
  <2> SUFFICES ASSUME NEW p, NEW r \in Tasks, "Notify" \in BgpKinds(p)
               PROVE  Noti(Ciod, r) \in StepsOf("bgp", p)
    OBVIOUS
  <2> DEFINE e == Noti(Ciod, r)
  <2>1. e \in StepSet /\ e.do = "noti" /\ e.req = "Notify" /\ e.ch = Ciod /\ e.rank = r
    BY <1>1 DEF Noti, StepSet
  <2> HIDE DEF e
  <2>2. Kind(e) = "Notify"
    BY <2>1 DEF Kind
  <2>3. Fits("bgp", p, e)
    BY <1>2, <1>3, <2>1, <2>2 DEF Fits, Signals
  <2>4. e \in StepsOf("bgp", p)
    BY <2>1, <2>3 DEF StepsOf
  <2> QED BY <2>4 DEF e
<1>6. \A p : \A what \in {"all_stopped", "EINVAL"} : \A k \in {0, 1} :
        what \in BgpKinds(p) => Do(what, k) \in StepsOf("bgp", p)
  <2> SUFFICES ASSUME NEW p, NEW what \in {"all_stopped", "EINVAL"}, NEW k \in {0, 1}, what \in BgpKinds(p)
               PROVE  Do(what, k) \in StepsOf("bgp", p)
    OBVIOUS
  <2> DEFINE e == Do(what, k)
  <2>1. e \in StepSet /\ e.do = what /\ e.rank = k
    BY <1>1 DEF Do, StepSet, Rest
  <2> HIDE DEF e
  <2>2. Kind(e) = what
    BY <2>1 DEF Kind
  <2>3. Fits("bgp", p, e)
    BY <1>2, <1>3, <2>1, <2>2 DEF Fits, Signals
  <2>4. e \in StepsOf("bgp", p)
    BY <2>1, <2>3 DEF StepsOf
  <2> QED BY <2>4 DEF e
<1>7. /\ {"ATTACH", "KILL", "CONTINUE", "VERSION_MSG", "END_DEBUG"} \subseteq Asking \ {"HoldThr"}
      /\ "VERSION_MSG" \notin OfTask /\ "END_DEBUG" \notin OfTask
  BY DEF Asking, OfTask, OfDaemon, OfNode
<1>8. /\ {"ATTACH", "KILL", "Notify", "all_stopped"} \subseteq BgpKinds("init")
      /\ {"Notify", "all_stopped"} \subseteq BgpKinds("initdone")
      /\ {"KILL", "Notify", "all_stopped", "CONTINUE"} \subseteq BgpKinds("run")
      /\ {"KILL", "Notify", "all_stopped", "CONTINUE"} \subseteq BgpKinds("tester_run")
      /\ {"KILL", "Notify", "all_stopped"} \subseteq BgpKinds("tester_stop")
      /\ "EINVAL" \in BgpKinds("perf") /\ {"VERSION_MSG", "END_DEBUG"} \subseteq BgpKinds("done")
  BY DEF BgpKinds
<1> HIDE DEF Ask, Noti, Do
<1> QED BY <1>1, <1>4, <1>5, <1>6, <1>7, <1>8

LEMMA BgqSteps ==
  /\ \A r \in Tasks :
       /\ \A p \in {"init", "tester_init"} :
            /\ Ask("Control", cnodeid(r), r, 0) \in StepsOf("bgq", p)
            /\ Ask("ListRelease", cnodeid(r), r, 0) \in StepsOf("bgq", p)
            /\ \A x \in Threads : Ask("ReleaseThr", cnodeid(r), r, x) \in StepsOf("bgq", p)
       /\ \A p \in {"init", "tester_init", "tester_stop"} :
            /\ Ask("SendSignal", cnodeid(r), r, 0) \in StepsOf("bgq", p)
            /\ Noti(cnodeid(r), r) \in StepsOf("bgq", p)
       /\ Noti(cnodeid(r), r) \in StepsOf("bgq", "initdone")
       /\ Ask("ListHold", cnodeid(r), r, 0) \in StepsOf("bgq", "initdone")
       /\ \A x \in Threads : Ask("HoldThr", cnodeid(r), r, x) \in StepsOf("bgq", "initdone")
       /\ Ask("ReleaseControl", cnodeid(r), r, 0) \in StepsOf("bgq", "initdone")
       /\ Ask("Continue", cnodeid(r), r, 0) \in StepsOf("bgq", "tester_run")
       /\ Ask("FetchMemory", cnodeid(r), r, 0) \in StepsOf("bgq", "perf")
  /\ \A n \in Nodes :
       /\ \A p \in {"init", "tester_init"} :
            Ask("Attach", n, n, 0) \in StepsOf("bgq", p) /\ Do("connect", n) \in StepsOf("bgq", p)
       /\ Ask("Detach", n, n, 0) \in StepsOf("bgq", "initdone")
  /\ \A p \in {"initdone", "done"} : Do("cleanup", 0) \in StepsOf("bgq", p)
<1>1. /\ \A r \in Tasks : r \in Nat
      /\ \A n \in Nodes : n \in Nat /\ n \in Channels
      /\ \A x \in Threads : x \in Nat
      /\ Ciod \in Channels
  BY ProcCtlAssumption DEF Tasks, Nodes, Threads, Channels
<1>2. \A p : Kinds("bgq", p) = BgqKinds(p)
  BY DEF Kinds
<1>3. \A r : ChanOf("bgq", r) = cnodeid(r)
  BY DEF ChanOf
<1>4. \A p : \A req \in OfTask : \A r \in Tasks : \A x \in Nat :
        req \in BgqKinds(p) /\ (req = "HoldThr" => x \in Threads) =>
          Ask(req, cnodeid(r), r, x) \in StepsOf("bgq", p)
  <2> SUFFICES ASSUME NEW p, NEW req \in OfTask, NEW r \in Tasks, NEW x \in Nat, req \in BgqKinds(p),
                      req = "HoldThr" => x \in Threads
               PROVE  Ask(req, cnodeid(r), r, x) \in StepsOf("bgq", p)
    OBVIOUS
  <2> DEFINE e == Ask(req, cnodeid(r), r, x)
  <2>0. cnodeid(r) \in Channels
    BY Cnodeid
  <2>1. e \in StepSet /\ e.do = "ask" /\ e.req = req /\ e.ch = cnodeid(r) /\ e.rank = r
        /\ e.arg = x
    BY <1>1, <2>0 DEF Ask, StepSet, Asking
  <2> HIDE DEF e
  <2>2. Kind(e) = req /\ req \in Asking /\ req \notin OfDaemon
    BY <2>1 DEF Kind, Asking, OfTask, OfDaemon
  <2>3. Fits("bgq", p, e)
    BY <1>2, <1>3, <2>1, <2>2 DEF Fits, Signals
  <2>4. e \in StepsOf("bgq", p)
    BY <2>1, <2>3 DEF StepsOf
  <2> QED BY <2>4 DEF e
<1>5. \A p : \A r \in Tasks : "Notify" \in BgqKinds(p) => Noti(cnodeid(r), r) \in StepsOf("bgq", p)
  <2> SUFFICES ASSUME NEW p, NEW r \in Tasks, "Notify" \in BgqKinds(p)
               PROVE  Noti(cnodeid(r), r) \in StepsOf("bgq", p)
    OBVIOUS
  <2> DEFINE e == Noti(cnodeid(r), r)
  <2>0. cnodeid(r) \in Channels
    BY Cnodeid
  <2>1. e \in StepSet /\ e.do = "noti" /\ e.req = "Notify" /\ e.ch = cnodeid(r) /\ e.rank = r
    BY <1>1, <2>0 DEF Noti, StepSet
  <2> HIDE DEF e
  <2>2. Kind(e) = "Notify"
    BY <2>1 DEF Kind
  <2>3. Fits("bgq", p, e)
    BY <1>2, <1>3, <2>1, <2>2 DEF Fits, Signals
  <2>4. e \in StepsOf("bgq", p)
    BY <2>1, <2>3 DEF StepsOf
  <2> QED BY <2>4 DEF e
<1>6. \A p : \A req \in OfNode : \A n \in Nodes :
        req \in BgqKinds(p) => Ask(req, n, n, 0) \in StepsOf("bgq", p)
  <2> SUFFICES ASSUME NEW p, NEW req \in OfNode, NEW n \in Nodes, req \in BgqKinds(p)
               PROVE  Ask(req, n, n, 0) \in StepsOf("bgq", p)
    OBVIOUS
  <2> DEFINE e == Ask(req, n, n, 0)
  <2>1. e \in StepSet /\ e.do = "ask" /\ e.req = req /\ e.ch = n /\ e.rank = n
    BY <1>1 DEF Ask, StepSet, Asking
  <2> HIDE DEF e
  <2>2. Kind(e) = req /\ req \in Asking /\ req \notin OfTask /\ req \notin OfDaemon /\ req # "HoldThr"
    BY <2>1 DEF Kind, Asking, OfNode, OfTask, OfDaemon
  <2>3. Fits("bgq", p, e)
    BY <1>2, <1>3, <2>1, <2>2 DEF Fits, Signals
  <2>4. e \in StepsOf("bgq", p)
    BY <2>1, <2>3 DEF StepsOf
  <2> QED BY <2>4 DEF e
<1>7. \A p : \A k \in Nat :
        /\ "cleanup" \in BgqKinds(p) => Do("cleanup", k) \in StepsOf("bgq", p)
        /\ "connect" \in BgqKinds(p) /\ k \in Nodes => Do("connect", k) \in StepsOf("bgq", p)
  <2> SUFFICES ASSUME NEW p, NEW k \in Nat, NEW what \in {"cleanup", "connect"},
                      what \in BgqKinds(p), what = "connect" => k \in Nodes
               PROVE  Do(what, k) \in StepsOf("bgq", p)
    OBVIOUS
  <2> DEFINE e == Do(what, k)
  <2>1. e \in StepSet /\ e.do = what /\ e.rank = k
    BY <1>1 DEF Do, StepSet, Rest
  <2> HIDE DEF e
  <2>2. Kind(e) = what
    BY <2>1 DEF Kind
  <2>3. Fits("bgq", p, e)
    BY <1>2, <1>3, <2>1, <2>2 DEF Fits, Signals
  <2>4. e \in StepsOf("bgq", p)
    BY <2>1, <2>3 DEF StepsOf
  <2> QED BY <2>4 DEF e
<1>8. /\ {"Control", "ListRelease", "ReleaseThr", "SendSignal", "ListHold", "HoldThr", "ReleaseControl",
          "Continue", "FetchMemory"} \subseteq OfTask
      /\ {"Attach", "Detach"} \subseteq OfNode
  BY DEF OfTask, OfNode
<1>9. /\ \A p \in {"init", "tester_init"} :
           {"connect", "Attach", "Control", "ListRelease", "ReleaseThr", "SendSignal", "Notify"}
             \subseteq BgqKinds(p)
      /\ {"Notify", "ListHold", "HoldThr", "ReleaseControl", "Detach", "cleanup"} \subseteq BgqKinds("initdone")
      /\ "Continue" \in BgqKinds("tester_run") /\ {"SendSignal", "Notify"} \subseteq BgqKinds("tester_stop")
      /\ "FetchMemory" \in BgqKinds("perf") /\ "cleanup" \in BgqKinds("done")
  BY DEF BgqKinds
<1> HIDE DEF Ask, Noti, Do
<1>10. \A r \in Tasks :
       /\ \A p \in {"init", "tester_init"} :
            /\ Ask("Control", cnodeid(r), r, 0) \in StepsOf("bgq", p)
            /\ Ask("ListRelease", cnodeid(r), r, 0) \in StepsOf("bgq", p)
            /\ \A x \in Threads : Ask("ReleaseThr", cnodeid(r), r, x) \in StepsOf("bgq", p)
       /\ \A p \in {"init", "tester_init", "tester_stop"} :
            /\ Ask("SendSignal", cnodeid(r), r, 0) \in StepsOf("bgq", p)
            /\ Noti(cnodeid(r), r) \in StepsOf("bgq", p)
  BY <1>1, <1>4, <1>5, <1>8, <1>9
<1>11. \A r \in Tasks :
       /\ Noti(cnodeid(r), r) \in StepsOf("bgq", "initdone")
       /\ Ask("ListHold", cnodeid(r), r, 0) \in StepsOf("bgq", "initdone")
       /\ \A x \in Threads : Ask("HoldThr", cnodeid(r), r, x) \in StepsOf("bgq", "initdone")
       /\ Ask("ReleaseControl", cnodeid(r), r, 0) \in StepsOf("bgq", "initdone")
       /\ Ask("Continue", cnodeid(r), r, 0) \in StepsOf("bgq", "tester_run")
       /\ Ask("FetchMemory", cnodeid(r), r, 0) \in StepsOf("bgq", "perf")
  BY <1>1, <1>4, <1>5, <1>8, <1>9
<1>12. /\ \A n \in Nodes :
            /\ \A p \in {"init", "tester_init"} :
                 Ask("Attach", n, n, 0) \in StepsOf("bgq", p) /\ Do("connect", n) \in StepsOf("bgq", p)
            /\ Ask("Detach", n, n, 0) \in StepsOf("bgq", "initdone")
       /\ \A p \in {"initdone", "done"} : Do("cleanup", 0) \in StepsOf("bgq", p)
  BY <1>1, <1>6, <1>7, <1>8, <1>9
<1> QED BY <1>10, <1>11, <1>12

-----------------------------------------------------------------------------
(* The calls *)

LEMMA Concat ==
  ASSUME NEW A, NEW q \in Seq(A), NEW w \in Seq(A)
  PROVE  q \o w \in Seq(A) /\ Range(q \o w) = Range(q) \cup Range(w)
  BY RangeConcat

LEMMA SingleStep ==
  ASSUME NEW A, NEW e \in A
  PROVE  <<e>> \in Seq(A) /\ Range(<<e>>) = {e}
<1>1. <<e>> \in Seq(A) /\ DOMAIN <<e>> = {1} /\ <<e>>[1] = e
  OBVIOUS
<1> QED BY <1>1 DEF Range

LEMMA EmptyCall ==
  ASSUME NEW A
  PROVE  <<>> \in PairedSeq(A) /\ <<>> \in Seq(A) /\ Phased(<<>>) /\ Range(<<>>) = {}
  BY DEF PairedSeq, Paired, Phased, Range

LEMMA StopGeneric ==
  ASSUME NEW A, \A r \in Tasks : Do("SIGSTOP", r) \in A
  PROVE  stop_generic \in Seq(A) /\ \A r \in Tasks : Do("SIGSTOP", r) \in Range(stop_generic)
<1>1. stop_generic = DoAll("SIGSTOP", ptab)
  BY Zenon DEF stop_generic, ForAll, DoAll
<1>2. ptab \in Seq(Tasks) /\ Tasks \subseteq Range(ptab)
  BY PtabRanks
<1> QED BY <1>1, <1>2, EachDo

LEMMA RunGeneric ==
  ASSUME NEW A, \A r \in Tasks : Do("SIGCONT", r) \in A
  PROVE  run_generic \in Seq(A) /\ \A r \in Tasks : Do("SIGCONT", r) \in Range(run_generic)
<1>1. run_generic = DoAll("SIGCONT", ptab)
  BY Zenon DEF run_generic, ForAll, DoAll
<1>2. ptab \in Seq(Tasks) /\ Tasks \subseteq Range(ptab)
  BY PtabRanks
<1> QED BY <1>1, <1>2, EachDo

LEMMA InitPtrace ==
  ASSUME NEW A, \A r \in Tasks : Do("PTRACE_ATTACH", r) \in A
  PROVE  init_ptrace \in Seq(A)
<1>1. init_ptrace = DoAll("PTRACE_ATTACH", ptab)
  BY Zenon DEF init_ptrace, ForAll, DoAll
<1>2. ptab \in Seq(Tasks) /\ Tasks \subseteq Range(ptab)
  BY PtabRanks
<1> QED BY <1>1, <1>2, EachDo

(* The waits of initdone_ptrace come before its stops. *)
LEMMA InitdonePtrace ==
  ASSUME NEW A, \A r \in Tasks : /\ Do("SIGSTOP", r) \in A /\ Do("waitpid", r) \in A
                                 /\ Do("PTRACE_DETACH", r) \in A
  PROVE  /\ initdone_ptrace \in Seq(A) /\ Phased(initdone_ptrace)
         /\ \A r \in Tasks : /\ Do("SIGSTOP", r) \in Range(initdone_ptrace)
                             /\ job.mpao => Do("waitpid", r) \in Range(initdone_ptrace)
<1> DEFINE W == DoAll("waitpid", ptab)
           D == DoAll("PTRACE_DETACH", ptab)
           w == IF job.mpao THEN W ELSE <<>>
           B == {e \in A : First(e)}
           C == {e \in A : ~First(e)}
<1>1. initdone_ptrace = w \o stop_generic \o D
  BY Zenon DEF initdone_ptrace, ForAll, DoAll
<1>2. ptab \in Seq(Tasks) /\ Tasks \subseteq Range(ptab)
  BY PtabRanks
<1>3. \A r \in Tasks : Do("waitpid", r) \in B /\ Do("SIGSTOP", r) \in C /\ Do("PTRACE_DETACH", r) \in C
  BY DEF First, Kind, Do
<1> HIDE DEF B, C
<1>4. W \in Seq(B) /\ \A r \in Tasks : Do("waitpid", r) \in Range(W)
  BY <1>2, <1>3, EachDo
<1>5. D \in Seq(C)
  BY <1>2, <1>3, EachDo
<1>6. stop_generic \in Seq(C) /\ \A r \in Tasks : Do("SIGSTOP", r) \in Range(stop_generic)
  BY <1>3, StopGeneric
<1> HIDE DEF W, D
<1>7. w \in Seq(B) /\ (job.mpao => w = W)
  BY <1>4
<1> HIDE DEF w
<1> DEFINE v == stop_generic \o D
<1>8. v \in Seq(C) /\ Range(v) = Range(stop_generic) \cup Range(D)
  BY <1>5, <1>6, Concat
<1>9. initdone_ptrace = w \o v
  <2>1. w \in Seq(B \cup C) /\ stop_generic \in Seq(B \cup C) /\ D \in Seq(B \cup C)
    BY <1>5, <1>6, <1>7, SeqMonotonic
  <2> QED BY <1>1, <2>1, ConcatAssociative
<1> HIDE DEF v
<1>10. w \in Seq(A) /\ v \in Seq(A)
  <2>1. B \subseteq A /\ C \subseteq A
    BY DEF B, C
  <2> QED BY <1>7, <1>8, <2>1, SeqMonotonic
<1>11. initdone_ptrace \in Seq(A) /\ Range(initdone_ptrace) = Range(w) \cup Range(v)
  BY <1>9, <1>10, Concat
<1>12. Phased(initdone_ptrace)
  <2>1. (\A e \in B : First(e)) /\ \A e \in C : ~First(e)
    BY DEF B, C
  <2>2. Phased(w) /\ Phased(v)
    BY <1>7, <1>8, <2>1, OnePhase
  <2> QED BY <1>7, <1>8, <1>9, <2>1, <2>2, PhasedConcat
<1> QED BY <1>4, <1>6, <1>7, <1>8, <1>11, <1>12

LEMMA LinuxCalls ==
  ASSUME IsLinux, NEW launch \in BOOLEAN, NEW fast
  PROVE  /\ LMON_be_procctl_init(launch, fast) \in Seq(StepsOf(job.rm, "init"))
         /\ LMON_be_procctl_init(FALSE, fast) \in Seq(StepsOf(job.rm, "tester_init"))
         /\ LMON_be_procctl_initdone(launch) \in Seq(StepsOf(job.rm, "initdone"))
         /\ Phased(LMON_be_procctl_initdone(launch))
         /\ \A p \in {"run", "tester_run"} : LMON_be_procctl_run \in Seq(StepsOf(job.rm, p))
         /\ LMON_be_procctl_stop \in Seq(StepsOf(job.rm, "tester_stop"))
         /\ LMON_be_procctl_done = <<>>
         /\ LMON_be_procctl_perf \in Seq(StepsOf(job.rm, "perf"))
         /\ \A r \in Tasks :
              /\ ~(job.rm = "slurm" /\ launch) =>
                   /\ Do("SIGSTOP", r) \in Range(LMON_be_procctl_init(launch, fast))
                   /\ LMON_be_procctl_initdone(launch) = <<>>
              /\ job.rm = "slurm" /\ launch =>
                   /\ Do("SIGSTOP", r) \in Range(LMON_be_procctl_initdone(launch))
                   /\ job.mpao => Do("waitpid", r) \in Range(LMON_be_procctl_initdone(launch))
              /\ Do("SIGCONT", r) \in Range(LMON_be_procctl_run)
<1> DEFINE rm == job.rm
<1>0. rm \in {"slurm", "orte"} /\ rm # "bgp" /\ rm # "bgq"
  BY DEF IsLinux
<1> HIDE DEF rm
<1>1. \A r \in Tasks :
         /\ \A p \in {"init", "initdone", "tester_init", "tester_stop"} :
              Do("SIGSTOP", r) \in StepsOf(rm, p)
         /\ Do("PTRACE_ATTACH", r) \in StepsOf(rm, "init")
         /\ Do("waitpid", r) \in StepsOf(rm, "initdone")
         /\ Do("PTRACE_DETACH", r) \in StepsOf(rm, "initdone")
         /\ \A p \in {"run", "tester_run"} : Do("SIGCONT", r) \in StepsOf(rm, p)
  BY <1>0, LinuxSteps
<1>2. \A p \in {"init", "initdone", "tester_init", "tester_stop"} : stop_generic \in Seq(StepsOf(rm, p))
  BY <1>1, StopGeneric
<1>3. \A r \in Tasks : Do("SIGSTOP", r) \in Range(stop_generic)
  BY <1>1, StopGeneric
<1>4. init_ptrace \in Seq(StepsOf(rm, "init"))
  BY <1>1, InitPtrace
<1>5. /\ initdone_ptrace \in Seq(StepsOf(rm, "initdone")) /\ Phased(initdone_ptrace)
      /\ \A r \in Tasks : /\ Do("SIGSTOP", r) \in Range(initdone_ptrace)
                          /\ job.mpao => Do("waitpid", r) \in Range(initdone_ptrace)
  BY <1>1, InitdonePtrace
<1>6. \A p \in {"run", "tester_run"} : run_generic \in Seq(StepsOf(rm, p))
  BY <1>1, RunGeneric
<1>7. \A r \in Tasks : Do("SIGCONT", r) \in Range(run_generic)
  BY <1>1, RunGeneric
<1>8. Phased(<<>>) /\ \A p : <<>> \in Seq(StepsOf(rm, p))
  BY EmptyCall
<1>9. <<Do("EINVAL", 0)>> \in Seq(StepsOf(rm, "perf"))
  <2>1. Do("EINVAL", 0) \in StepSet /\ Ciod \in Channels
    BY DEF Do, StepSet, Rest, Channels
  <2>2. Do("EINVAL", 0) \in StepsOf(rm, "perf")
    BY <1>0, <2>1 DEF Do, StepsOf, Fits, Kind, Kinds, LinuxKinds, Signals
  <2> QED BY <2>2, SingleStep
<1>10. /\ LMON_be_procctl_init(launch, fast) = IF rm = "slurm" /\ launch THEN init_ptrace ELSE stop_generic
       /\ LMON_be_procctl_init(FALSE, fast) = stop_generic
       /\ LMON_be_procctl_initdone(launch) = IF rm = "slurm" /\ launch THEN initdone_ptrace ELSE <<>>
       /\ LMON_be_procctl_run = run_generic
       /\ LMON_be_procctl_stop = stop_generic
       /\ LMON_be_procctl_done = <<>>
       /\ LMON_be_procctl_perf = <<Do("EINVAL", 0)>>
  BY <1>0 DEF rm, IsLinux, LMON_be_procctl_init, LMON_be_procctl_initdone, LMON_be_procctl_run,
              LMON_be_procctl_stop, LMON_be_procctl_done, LMON_be_procctl_perf
<1> QED BY <1>2, <1>3, <1>4, <1>5, <1>6, <1>7, <1>8, <1>9, <1>10 DEF rm

NoStop(A) == {e \in A : Kind(e) \notin Stop}
NotFirst(A) == {e \in A : ~First(e)}

LEMMA SinglePaired ==
  ASSUME NEW A, NEW e \in A, Kind(e) \notin Stop
  PROVE  <<e>> \in PairedSeq(A) /\ Range(<<e>>) = {e}
<1>1. e \in NoStop(A) /\ NoStop(A) \subseteq A
  BY DEF NoStop
<1>2. <<e>> \in Seq(NoStop(A)) /\ Range(<<e>>) = {e}
  BY <1>1, SingleStep
<1>3. \A x \in NoStop(A) : Kind(x) \notin Stop
  BY DEF NoStop
<1> QED BY <1>1, <1>2, <1>3, NoStopPaired, PairedMono

LEMMA NoStopInOrder ==
  ASSUME NEW A, NEW q \in Seq(NoStop(A))
  PROVE  q \in PairedSeq(A)
<1>1. NoStop(A) \subseteq A /\ \A x \in NoStop(A) : Kind(x) \notin Stop
  BY DEF NoStop
<1> QED BY <1>1, NoStopPaired, PairedMono

LEMMA ConcatInOrder ==
  ASSUME NEW A, NEW q \in PairedSeq(A), NEW w \in PairedSeq(A)
  PROVE  q \o w \in PairedSeq(A) /\ Range(q \o w) = Range(q) \cup Range(w)
<1>1. q \in Seq(A) /\ w \in Seq(A)
  BY DEF PairedSeq
<1> QED BY <1>1, PairedConcat, RangeConcat

LEMMA StopBg ==
  ASSUME NEW A, Do("all_stopped", 1) \in A,
         \A r \in Tasks : Ask("KILL", Ciod, r, 0) \in A /\ Noti(Ciod, r) \in A
  PROVE  /\ stop_bg \in PairedSeq(A) /\ Phased(stop_bg)
         /\ \A r \in Tasks : Ask("KILL", Ciod, r, 0) \in Range(stop_bg)
<1> DEFINE k == KillAll(ptab)
           f == <<Do("all_stopped", 1)>>
           B == {e \in A : First(e)}
<1>1. stop_bg = k \o f
  BY Zenon DEF stop_bg, ForAll, KillAll
<1>2. ptab \in Seq(Tasks) /\ Tasks \subseteq Range(ptab)
  BY PtabRanks
<1>3. Kind(Do("all_stopped", 1)) \notin Stop /\ ~First(Do("all_stopped", 1))
  BY DEF Kind, Do, Stop, First
<1>4. \A r \in Tasks : Ask("KILL", Ciod, r, 0) \in B /\ Noti(Ciod, r) \in B
  BY DEF First, Kind, Ask, Noti
<1> HIDE DEF B
<1>5. k \in PairedSeq(B) /\ \A r \in Tasks : Ask("KILL", Ciod, r, 0) \in Range(k)
  BY <1>2, <1>4, EachKill
<1>6. f \in PairedSeq(A) /\ f \in Seq(NotFirst(A))
  <2>1. Do("all_stopped", 1) \in NotFirst(A)
    BY <1>3 DEF NotFirst
  <2> HIDE DEF Do
  <2> QED BY <1>3, <2>1, SinglePaired, SingleStep
<1> HIDE DEF k, f
<1>7. B \subseteq A /\ (\A e \in B : First(e)) /\ \A e \in NotFirst(A) : ~First(e)
  BY DEF B, NotFirst
<1>8. k \in PairedSeq(A)
  BY <1>5, <1>7, PairedMono
<1>9. stop_bg \in PairedSeq(A) /\ Range(stop_bg) = Range(k) \cup Range(f)
  BY <1>1, <1>6, <1>8, ConcatInOrder
<1>10. k \in Seq(B)
  BY <1>5 DEF PairedSeq
<1>11. Phased(k) /\ Phased(f)
  BY <1>6, <1>7, <1>10, OnePhase
<1>12. Phased(stop_bg)
  BY <1>1, <1>6, <1>7, <1>10, <1>11, PhasedConcat
<1> QED BY <1>5, <1>9, <1>12

LEMMA BgpInit ==
  ASSUME NEW launch \in BOOLEAN
  PROVE  /\ init_bg(launch) \in Seq(StepsOf("bgp", "init"))
         /\ ~launch => Paired(init_bg(launch))
         /\ \A r \in Tasks : Ask("KILL", Ciod, r, 0) \in Range(init_bg(launch))
<1> DEFINE A == StepsOf("bgp", "init")
           a == AskAllCiod("ATTACH", ptab)
           k == AskAllCiod("KILL", ptab)
<1>1. init_bg(launch) = a \o (IF launch THEN k ELSE stop_bg)
  BY Zenon DEF init_bg, stop_all_wo_noti_reap_bg, ForAll, AskAllCiod
<1>2. ptab \in Seq(Tasks) /\ Tasks \subseteq Range(ptab)
  BY PtabRanks
<1>3. /\ \A r \in Tasks : /\ Ask("ATTACH", Ciod, r, 0) \in A
                          /\ Ask("KILL", Ciod, r, 0) \in A /\ Noti(Ciod, r) \in A
      /\ Do("all_stopped", 1) \in A
  BY BgpSteps
<1> HIDE DEF A
<1>4. \A r \in Tasks : Ask("ATTACH", Ciod, r, 0) \in NoStop(A)
  BY <1>3 DEF NoStop, Kind, Ask, Stop
<1>5. a \in PairedSeq(A)
  BY <1>2, <1>4, EachAskCiod, NoStopInOrder
<1>6. k \in Seq(A) /\ \A r \in Tasks : Ask("KILL", Ciod, r, 0) \in Range(k)
  BY <1>2, <1>3, EachAskCiod
<1>7. stop_bg \in PairedSeq(A) /\ \A r \in Tasks : Ask("KILL", Ciod, r, 0) \in Range(stop_bg)
  BY <1>3, StopBg
<1> HIDE DEF a, k
<1>8. CASE launch
  <2>1. a \in Seq(A)
    BY <1>5 DEF PairedSeq
  <2>2. a \o k \in Seq(A) /\ Range(a \o k) = Range(a) \cup Range(k)
    BY <1>6, <2>1, Concat
  <2> QED BY <1>1, <1>6, <1>8, <2>2 DEF A
<1>9. CASE ~launch
  <2>1. a \o stop_bg \in PairedSeq(A) /\ Range(a \o stop_bg) = Range(a) \cup Range(stop_bg)
    BY <1>5, <1>7, ConcatInOrder
  <2> QED BY <1>1, <1>7, <1>9, <2>1 DEF A, PairedSeq
<1> QED BY <1>8, <1>9

LEMMA BgpRun ==
  ASSUME NEW p \in {"run", "tester_run"}
  PROVE  /\ run_bg \in PairedSeq(StepsOf("bgp", p)) /\ Phased(run_bg)
         /\ \A r \in Tasks : Ask("CONTINUE", Ciod, r, 0) \in Range(run_bg)
<1> DEFINE A == StepsOf("bgp", p)
           B == NotFirst(NoStop(A))
           b == IF all_stopped = 0 THEN stop_bg ELSE <<>>
           c == AskAllCiod("CONTINUE", ptab)
           f == <<Do("all_stopped", 0)>>
<1>1. run_bg = b \o c \o f
  BY Zenon DEF run_bg, ForAll, AskAllCiod
<1>2. ptab \in Seq(Tasks) /\ Tasks \subseteq Range(ptab)
  BY PtabRanks
<1>3. /\ \A r \in Tasks : /\ Ask("CONTINUE", Ciod, r, 0) \in A
                          /\ Ask("KILL", Ciod, r, 0) \in A /\ Noti(Ciod, r) \in A
      /\ Do("all_stopped", 1) \in A /\ Do("all_stopped", 0) \in A
  BY BgpSteps
<1> HIDE DEF A
<1>4. (\A r \in Tasks : Ask("CONTINUE", Ciod, r, 0) \in B) /\ Do("all_stopped", 0) \in B
  BY <1>3 DEF NoStop, NotFirst, First, Kind, Ask, Do, Stop
<1>5. B \subseteq NoStop(A) /\ \A e \in B : ~First(e)
  BY DEF NotFirst
<1> HIDE DEF B
<1>6. c \in Seq(B) /\ \A r \in Tasks : Ask("CONTINUE", Ciod, r, 0) \in Range(c)
  BY <1>2, <1>4, EachAskCiod
<1>7. f \in Seq(B)
  <2> HIDE DEF Do
  <2> QED BY <1>4, SingleStep
<1>8. b \in PairedSeq(A) /\ Phased(b)
  BY <1>3, StopBg, EmptyCall
<1> HIDE DEF b, c, f
<1>9. c \in PairedSeq(A) /\ f \in PairedSeq(A)
  BY <1>5, <1>6, <1>7, SeqMonotonic, NoStopInOrder
<1>10. b \o c \in PairedSeq(A) /\ Range(b \o c) = Range(b) \cup Range(c)
  BY <1>8, <1>9, ConcatInOrder
<1>11. run_bg \in PairedSeq(A) /\ Range(run_bg) = Range(b \o c) \cup Range(f)
  BY <1>1, <1>9, <1>10, ConcatInOrder
<1>12. Phased(c) /\ Phased(f)
  BY <1>5, <1>6, <1>7, OnePhase
<1>13. b \in Seq(A) /\ b \o c \in Seq(A)
  BY <1>8, <1>10 DEF PairedSeq
<1>14. Phased(b \o c)
  BY <1>5, <1>6, <1>8, <1>12, <1>13, PhasedConcat
<1>15. Phased(run_bg)
  BY <1>1, <1>5, <1>7, <1>12, <1>13, <1>14, PhasedConcat
<1> QED BY <1>6, <1>10, <1>11, <1>15 DEF A

LEMMA BgpCalls ==
  ASSUME job.rm = "bgp", NEW launch \in BOOLEAN, NEW fast
  PROVE  /\ LMON_be_procctl_init(launch, fast) \in Seq(StepsOf("bgp", "init"))
         /\ ~launch => Paired(LMON_be_procctl_init(launch, fast))
         /\ LMON_be_procctl_initdone(launch) \in PairedSeq(StepsOf("bgp", "initdone"))
         /\ \A p \in {"run", "tester_run"} : LMON_be_procctl_run \in PairedSeq(StepsOf("bgp", p))
         /\ Phased(LMON_be_procctl_run)
         /\ LMON_be_procctl_stop \in PairedSeq(StepsOf("bgp", "tester_stop"))
         /\ LMON_be_procctl_done \in PairedSeq(StepsOf("bgp", "done"))
         /\ LMON_be_procctl_perf \in PairedSeq(StepsOf("bgp", "perf"))
         /\ \A r \in Tasks :
              /\ Ask("KILL", Ciod, r, 0) \in Range(LMON_be_procctl_init(launch, fast))
              /\ launch => Noti(Ciod, r) \in Range(LMON_be_procctl_initdone(launch))
              /\ Ask("CONTINUE", Ciod, r, 0) \in Range(LMON_be_procctl_run)
<1>1. /\ LMON_be_procctl_init(launch, fast) = init_bg(launch)
      /\ LMON_be_procctl_initdone(launch) = initdone_bg(launch)
      /\ LMON_be_procctl_run = run_bg
      /\ LMON_be_procctl_stop = stop_bg
      /\ LMON_be_procctl_done = done_bg
      /\ LMON_be_procctl_perf = <<Do("EINVAL", 0)>>
  BY DEF IsLinux, LMON_be_procctl_init, LMON_be_procctl_initdone, LMON_be_procctl_run,
         LMON_be_procctl_stop, LMON_be_procctl_done, LMON_be_procctl_perf
<1>2. /\ initdone_bg(launch) \in PairedSeq(StepsOf("bgp", "initdone"))
      /\ launch => \A r \in Tasks : Noti(Ciod, r) \in Range(initdone_bg(launch))
  <2> DEFINE A == StepsOf("bgp", "initdone")
             n == NotiAllCiod(ptab)
             f == <<Do("all_stopped", 1)>>
  <2>1. initdone_bg(launch) = IF launch THEN n \o f ELSE <<>>
    BY Zenon DEF initdone_bg, reap_stop_noti_bg, ForAll, NotiAllCiod
  <2>2. ptab \in Seq(Tasks) /\ Tasks \subseteq Range(ptab)
    BY PtabRanks
  <2>3. (\A r \in Tasks : Noti(Ciod, r) \in A) /\ Do("all_stopped", 1) \in A
    BY BgpSteps
  <2> HIDE DEF A
  <2>4. (\A r \in Tasks : Noti(Ciod, r) \in NoStop(A)) /\ Kind(Do("all_stopped", 1)) \notin Stop
    BY <2>3 DEF NoStop, Kind, Noti, Do, Stop
  <2>5. n \in Seq(NoStop(A)) /\ \A r \in Tasks : Noti(Ciod, r) \in Range(n)
    BY <2>2, <2>4, EachNotiCiod
  <2>6. f \in PairedSeq(A)
    <3> HIDE DEF Do
    <3> QED BY <2>3, <2>4, SinglePaired
  <2> HIDE DEF n, f
  <2>7. n \in PairedSeq(A)
    BY <2>5, NoStopInOrder
  <2>8. n \o f \in PairedSeq(A) /\ Range(n \o f) = Range(n) \cup Range(f)
    BY <2>6, <2>7, ConcatInOrder
  <2> QED BY <2>1, <2>5, <2>8, EmptyCall DEF A
<1>3. stop_bg \in PairedSeq(StepsOf("bgp", "tester_stop"))
  BY BgpSteps, StopBg
<1>4. done_bg \in PairedSeq(StepsOf("bgp", "done"))
  <2> DEFINE A == StepsOf("bgp", "done")
             v == Ask("VERSION_MSG", Ciod, 0, 0)
             e == Ask("END_DEBUG", Ciod, 0, 0)
  <2>1. done_bg = <<v>> \o (IF job.v3 THEN <<e>> ELSE <<>>)
    BY Zenon DEF done_bg
  <2>2. v \in A /\ e \in A
    BY BgpSteps
  <2>3. Kind(v) \notin Stop /\ Kind(e) \notin Stop
    BY DEF Kind, Ask, Stop
  <2> HIDE DEF A, v, e
  <2>4. <<v>> \in PairedSeq(A) /\ <<e>> \in PairedSeq(A) /\ <<>> \in PairedSeq(A)
    BY <2>2, <2>3, SinglePaired, EmptyCall
  <2> QED BY <2>1, <2>4, PairedConcat DEF A
<1>5. <<Do("EINVAL", 0)>> \in PairedSeq(StepsOf("bgp", "perf"))
  <2>1. Kind(Do("EINVAL", 0)) \notin Stop
    BY DEF Kind, Do, Stop
  <2>2. Do("EINVAL", 0) \in StepsOf("bgp", "perf")
    BY BgpSteps
  <2> HIDE DEF Do
  <2> QED BY <2>1, <2>2, SinglePaired
<1> QED BY <1>1, <1>2, <1>3, <1>4, <1>5, BgpInit, BgpRun

(* The lists of requests to the compute nodes. *)
LEMMA ConnectAll ==
  ASSUME NEW A, NEW map, \A n \in Nodes : Do("connect", n) \in A
  PROVE  open_domain_socket(map) \in Seq(A)
<1> DEFINE f == [n \in Nodes |-> Do("connect", n)]
           all == [n \in 1 .. NumNodes |-> n]
           ss == [i \in 1 .. Len(all) |-> IF map[all[i]] = <<>> THEN <<>> ELSE <<Do("connect", all[i])>>]
<1>1. open_domain_socket(map) = FlattenSeq(ss)
  BY Zenon DEF open_domain_socket, ForNodes, ForAll
<1>2. \A n \in Nodes : f[n] \in A /\ f[n] = Do("connect", n)
  OBVIOUS
<1>3. \A i \in 1 .. Len(all) : all[i] \in Nodes
  BY ProcCtlAssumption DEF Nodes
<1> HIDE DEF f, Do, all
<1>4. ss = [i \in 1 .. Len(all) |-> IF map[all[i]] = <<>> THEN <<>> ELSE <<f[all[i]]>>]
  BY <1>2, <1>3
<1>5. NodeAll(map, f) = FlattenSeq(ss)
  BY <1>4, Zenon DEF NodeAll, all
<1> HIDE DEF ss
<1> QED BY <1>1, <1>2, <1>5, EachNode

LEMMA AttachAll ==
  ASSUME NEW A, NEW map, \A n \in Nodes : Ask("Attach", n, n, 0) \in A
  PROVE  attach_all(map) \in Seq(A)
<1> DEFINE f == [n \in Nodes |-> Ask("Attach", n, n, 0)]
           all == [n \in 1 .. NumNodes |-> n]
           ss == [i \in 1 .. Len(all) |-> IF map[all[i]] = <<>> THEN <<>> ELSE <<Ask("Attach", all[i], all[i], 0)>>]
<1>1. attach_all(map) = FlattenSeq(ss)
  BY Zenon DEF attach_all, ForNodes, ForAll
<1>2. \A n \in Nodes : f[n] \in A /\ f[n] = Ask("Attach", n, n, 0)
  OBVIOUS
<1>3. \A i \in 1 .. Len(all) : all[i] \in Nodes
  BY ProcCtlAssumption DEF Nodes
<1> HIDE DEF f, Ask, all
<1>4. ss = [i \in 1 .. Len(all) |-> IF map[all[i]] = <<>> THEN <<>> ELSE <<f[all[i]]>>]
  BY <1>2, <1>3
<1>5. NodeAll(map, f) = FlattenSeq(ss)
  BY <1>4, Zenon DEF NodeAll, all
<1> HIDE DEF ss
<1> QED BY <1>1, <1>2, <1>5, EachNode

LEMMA DetachAll ==
  ASSUME NEW A, NEW map, \A n \in Nodes : Ask("Detach", n, n, 0) \in A
  PROVE  detach_all(map) \in Seq(A)
<1> DEFINE f == [n \in Nodes |-> Ask("Detach", n, n, 0)]
           all == [n \in 1 .. NumNodes |-> n]
           ss == [i \in 1 .. Len(all) |-> IF map[all[i]] = <<>> THEN <<>> ELSE <<Ask("Detach", all[i], all[i], 0)>>]
<1>1. detach_all(map) = FlattenSeq(ss)
  BY Zenon DEF detach_all, ForNodes, ForAll
<1>2. \A n \in Nodes : f[n] \in A /\ f[n] = Ask("Detach", n, n, 0)
  OBVIOUS
<1>3. \A i \in 1 .. Len(all) : all[i] \in Nodes
  BY ProcCtlAssumption DEF Nodes
<1> HIDE DEF f, Ask, all
<1>4. ss = [i \in 1 .. Len(all) |-> IF map[all[i]] = <<>> THEN <<>> ELSE <<f[all[i]]>>]
  BY <1>2, <1>3
<1>5. NodeAll(map, f) = FlattenSeq(ss)
  BY <1>4, Zenon DEF NodeAll, all
<1> HIDE DEF ss
<1> QED BY <1>1, <1>2, <1>5, EachNode

(* Over the ranks of a full map. *)
LEMMA BgqLoops ==
  ASSUME NEW A, NEW map, Full(map)
  PROVE  /\ \A req \in OfTask \ Stop : (\A r \in Tasks : Ask(req, cnodeid(r), r, 0) \in A) =>
              /\ AskAll(req, ranks_of(map)) \in PairedSeq(A)
              /\ \A r \in Tasks : Ask(req, cnodeid(r), r, 0) \in Range(AskAll(req, ranks_of(map)))
         /\ (\A r \in Tasks : Ask("SendSignal", cnodeid(r), r, 0) \in A) =>
              AskAll("SendSignal", ranks_of(map)) \in Seq(A)
         /\ (\A r \in Tasks : Noti(cnodeid(r), r) \in A) =>
              /\ NotiAll(ranks_of(map)) \in PairedSeq(A)
              /\ \A r \in Tasks : Noti(cnodeid(r), r) \in Range(NotiAll(ranks_of(map)))
         /\ (\A r \in Tasks : Ask("SendSignal", cnodeid(r), r, 0) \in A /\ Noti(cnodeid(r), r) \in A) =>
              SendAll(ranks_of(map)) \in PairedSeq(A)
         /\ (\A r \in Tasks : Ask("FetchMemory", cnodeid(r), r, 0) \in A) =>
              FetchAll(ranks_of(map)) \in PairedSeq(A)
<1> DEFINE ranks == ranks_of(map)
<1>1. ranks \in Seq(Tasks) /\ Tasks \subseteq Range(ranks)
  BY RanksOf DEF Full
<1> HIDE DEF ranks
<1>2. ASSUME NEW req \in OfTask \ Stop, \A r \in Tasks : Ask(req, cnodeid(r), r, 0) \in A
      PROVE  /\ AskAll(req, ranks) \in PairedSeq(A)
             /\ \A r \in Tasks : Ask(req, cnodeid(r), r, 0) \in Range(AskAll(req, ranks))
  <2>1. \A r \in Tasks : Ask(req, cnodeid(r), r, 0) \in NoStop(A)
    BY <1>2 DEF NoStop, Kind, Ask
  <2>2. /\ AskAll(req, ranks) \in Seq(NoStop(A))
        /\ \A r \in Tasks : Ask(req, cnodeid(r), r, 0) \in Range(AskAll(req, ranks))
    BY <1>1, <2>1, EachAsk
  <2> QED BY <2>2, NoStopInOrder
<1>3. ASSUME \A r \in Tasks : Ask("SendSignal", cnodeid(r), r, 0) \in A
      PROVE  AskAll("SendSignal", ranks) \in Seq(A)
  BY <1>1, <1>3, EachAsk
<1>4. ASSUME \A r \in Tasks : Noti(cnodeid(r), r) \in A
      PROVE  /\ NotiAll(ranks) \in PairedSeq(A)
             /\ \A r \in Tasks : Noti(cnodeid(r), r) \in Range(NotiAll(ranks))
  <2>1. \A r \in Tasks : Noti(cnodeid(r), r) \in NoStop(A)
    BY <1>4 DEF NoStop, Kind, Noti, Stop
  <2>2. NotiAll(ranks) \in Seq(NoStop(A)) /\ \A r \in Tasks : Noti(cnodeid(r), r) \in Range(NotiAll(ranks))
    BY <1>1, <2>1, EachNoti
  <2> QED BY <2>2, NoStopInOrder
<1>5. ASSUME \A r \in Tasks : Ask("SendSignal", cnodeid(r), r, 0) \in A /\ Noti(cnodeid(r), r) \in A
      PROVE  SendAll(ranks) \in PairedSeq(A)
  BY <1>1, <1>5, EachSendSignal
<1>6. ASSUME \A r \in Tasks : Ask("FetchMemory", cnodeid(r), r, 0) \in A
      PROVE  FetchAll(ranks) \in PairedSeq(A)
  <2>1. \A r \in Tasks : Ask("FetchMemory", cnodeid(r), r, 0) \in NoStop(A)
    BY <1>6 DEF NoStop, Kind, Ask, Stop
  <2>2. FetchAll(ranks) \in Seq(NoStop(A))
    BY <1>1, <2>1, EachFetch
  <2> QED BY <2>2, NoStopInOrder
<1> QED BY <1>2, <1>3, <1>4, <1>5, <1>6 DEF ranks

LEMMA BgqInit ==
  ASSUME Full(Filled), NEW launch \in BOOLEAN, NEW p \in {"init", "tester_init"}
  PROVE  /\ init_bgq(launch) \in Seq(StepsOf("bgq", p))
         /\ ~launch => Paired(init_bgq(launch))
         /\ \A r \in Tasks : Ask("ListRelease", cnodeid(r), r, 0) \in Range(init_bgq(launch))
<1> DEFINE A == StepsOf("bgq", p)
           o == open_domain_socket(Filled)
           a == attach_all(Filled)
           c == AskAll("Control", ranks_of(Filled))
           l == AskAll("ListRelease", ranks_of(Filled))
           k == AskAll("SendSignal", ranks_of(Filled))
           w == SendAll(ranks_of(Filled))
<1>1. init_bgq(launch) = o \o a \o (c \o l) \o (IF launch THEN k ELSE w)
  BY Zenon DEF init_bgq, acquire_control_authority, release_all_threads, stop_all_wo_noti_reap,
               stop_all, ForRanks, ForAll, AskAll, SendAll
<1>2. /\ \A r \in Tasks : /\ Ask("Control", cnodeid(r), r, 0) \in A
                          /\ Ask("ListRelease", cnodeid(r), r, 0) \in A
                          /\ Ask("SendSignal", cnodeid(r), r, 0) \in A /\ Noti(cnodeid(r), r) \in A
      /\ \A n \in Nodes : Ask("Attach", n, n, 0) \in A /\ Do("connect", n) \in A
  BY BgqSteps
<1> HIDE DEF A
<1>3. \A n \in Nodes : Ask("Attach", n, n, 0) \in NoStop(A) /\ Do("connect", n) \in NoStop(A)
  BY <1>2 DEF NoStop, Kind, Ask, Do, Stop
<1>4. o \in PairedSeq(A) /\ a \in PairedSeq(A)
  BY <1>3, ConnectAll, AttachAll, NoStopInOrder
<1>5. {"Control", "ListRelease"} \subseteq OfTask \ Stop
  BY DEF OfTask, Stop
<1>6. /\ c \in PairedSeq(A) /\ l \in PairedSeq(A)
      /\ \A r \in Tasks : Ask("ListRelease", cnodeid(r), r, 0) \in Range(l)
  BY <1>2, <1>5, BgqLoops
<1>7. k \in Seq(A) /\ w \in PairedSeq(A)
  BY <1>2, BgqLoops
<1> HIDE DEF o, a, c, l, k, w
<1>8. o \o a \in PairedSeq(A) /\ c \o l \in PairedSeq(A) /\ Range(c \o l) = Range(c) \cup Range(l)
  BY <1>4, <1>6, ConcatInOrder
<1> DEFINE v == o \o a \o (c \o l)
<1>9. v \in PairedSeq(A) /\ Range(v) = Range(o \o a) \cup Range(c \o l)
  BY <1>8, ConcatInOrder
<1> HIDE DEF v
<1>10. CASE launch
  <2>1. v \in Seq(A)
    BY <1>9 DEF PairedSeq
  <2>2. v \o k \in Seq(A) /\ Range(v \o k) = Range(v) \cup Range(k)
    BY <1>7, <2>1, Concat
  <2> QED BY <1>1, <1>6, <1>8, <1>9, <1>10, <2>2 DEF A, v
<1>11. CASE ~launch
  <2>1. v \o w \in PairedSeq(A) /\ Range(v \o w) = Range(v) \cup Range(w)
    BY <1>7, <1>9, ConcatInOrder
  <2> QED BY <1>1, <1>6, <1>8, <1>9, <1>11, <2>1 DEF A, v, PairedSeq
<1> QED BY <1>10, <1>11

LEMMA BgqInitdone ==
  ASSUME Full(CN2Ranks), NEW launch \in BOOLEAN
  PROVE  /\ initdone_bgq(launch) \in PairedSeq(StepsOf("bgq", "initdone"))
         /\ Phased(initdone_bgq(launch))
         /\ Do("cleanup", 0) \in Range(initdone_bgq(launch))
         /\ \A r \in Tasks : /\ launch => Noti(cnodeid(r), r) \in Range(initdone_bgq(launch))
                             /\ Ask("ListHold", cnodeid(r), r, 0) \in Range(initdone_bgq(launch))
<1> DEFINE A == StepsOf("bgq", "initdone")
           B == NotFirst(NoStop(A))
           C == {e \in NoStop(A) : First(e)}
           n == IF launch THEN NotiAll(ranks_of(CN2Ranks)) ELSE <<>>
           h == AskAll("ListHold", ranks_of(CN2Ranks))
           c == AskAll("ReleaseControl", ranks_of(CN2Ranks))
           d == detach_all(CN2Ranks)
           f == <<Do("cleanup", 0)>>
<1>1. initdone_bgq(launch) = n \o h \o c \o d \o f
  BY Zenon DEF initdone_bgq, reap_stop_noti, hold_all_threads, release_control_all, cleanup_resources,
               ForRanks, ForAll, AskAll, NotiAll
<1>2. /\ \A r \in Tasks : /\ Ask("ListHold", cnodeid(r), r, 0) \in A
                          /\ Ask("ReleaseControl", cnodeid(r), r, 0) \in A
                          /\ Noti(cnodeid(r), r) \in A
      /\ \A m \in Nodes : Ask("Detach", m, m, 0) \in A
      /\ Do("cleanup", 0) \in A
  BY BgqSteps
<1> HIDE DEF A
<1>3. /\ \A r \in Tasks : /\ Ask("ListHold", cnodeid(r), r, 0) \in B
                          /\ Ask("ReleaseControl", cnodeid(r), r, 0) \in B
                          /\ Noti(cnodeid(r), r) \in C
      /\ \A m \in Nodes : Ask("Detach", m, m, 0) \in B
      /\ Do("cleanup", 0) \in B
  BY <1>2 DEF NoStop, NotFirst, First, Kind, Ask, Noti, Do, Stop
<1>4. B \subseteq NoStop(A) /\ C \subseteq NoStop(A) /\ (\A e \in B : ~First(e)) /\ \A e \in C : First(e)
  BY DEF NotFirst
<1> HIDE DEF B, C
<1>5. {"ListHold", "ReleaseControl"} \subseteq OfTask \ Stop
  BY DEF OfTask, Stop
<1>6. /\ h \in PairedSeq(B) /\ c \in PairedSeq(B)
      /\ \A r \in Tasks : Ask("ListHold", cnodeid(r), r, 0) \in Range(h)
  BY <1>3, <1>5, BgqLoops
<1>7. /\ n \in PairedSeq(C)
      /\ launch => \A r \in Tasks : Noti(cnodeid(r), r) \in Range(n)
  BY <1>3, BgqLoops, EmptyCall
<1>8. d \in Seq(B)
  BY <1>3, DetachAll
<1>9. f \in Seq(B) /\ Range(f) = {Do("cleanup", 0)}
  <2> HIDE DEF Do
  <2> QED BY <1>3, SingleStep
<1> HIDE DEF n, h, c, d, f
<1>10. h \in Seq(B) /\ c \in Seq(B) /\ n \in Seq(C)
  BY <1>6, <1>7 DEF PairedSeq
<1>11. n \in Seq(NoStop(A)) /\ h \in Seq(NoStop(A)) /\ c \in Seq(NoStop(A)) /\ d \in Seq(NoStop(A))
       /\ f \in Seq(NoStop(A))
  BY <1>4, <1>8, <1>9, <1>10, SeqMonotonic
<1> DEFINE v1 == n \o h
           v2 == v1 \o c
           v3 == v2 \o d
           v4 == v3 \o f
<1>12. v1 \in Seq(NoStop(A)) /\ Range(v1) = Range(n) \cup Range(h)
  BY <1>11, Concat
<1> HIDE DEF v1
<1>13. v2 \in Seq(NoStop(A)) /\ Range(v2) = Range(v1) \cup Range(c)
  BY <1>11, <1>12, Concat
<1> HIDE DEF v2
<1>14. v3 \in Seq(NoStop(A)) /\ Range(v3) = Range(v2) \cup Range(d)
  BY <1>11, <1>13, Concat
<1> HIDE DEF v3
<1>15. v4 \in Seq(NoStop(A)) /\ Range(v4) = Range(v3) \cup Range(f)
  BY <1>11, <1>14, Concat
<1> HIDE DEF v4
<1>16. initdone_bgq(launch) = v4
  BY <1>1 DEF v1, v2, v3, v4
<1>17. Phased(n) /\ Phased(h) /\ Phased(c) /\ Phased(d) /\ Phased(f)
  BY <1>4, <1>8, <1>9, <1>10, OnePhase
<1>18. Phased(v1)
  BY <1>4, <1>10, <1>11, <1>17, PhasedConcat DEF v1
<1>19. Phased(v2)
  BY <1>4, <1>10, <1>12, <1>17, <1>18, PhasedConcat DEF v2
<1>20. Phased(v3)
  BY <1>4, <1>8, <1>13, <1>17, <1>19, PhasedConcat DEF v3
<1>21. Phased(v4)
  BY <1>4, <1>9, <1>14, <1>17, <1>20, PhasedConcat DEF v4
<1>22. v4 \in PairedSeq(A)
  BY <1>15, NoStopInOrder
<1> QED BY <1>6, <1>7, <1>9, <1>12, <1>13, <1>14, <1>15, <1>16, <1>21, <1>22 DEF A

(* The calls of BlueGene/Q do nothing on the fast path. *)
LEMMA BgqCalls ==
  ASSUME job.rm = "bgq", NEW launch \in BOOLEAN, Full(CN2Ranks) \/ dontstop_fastpath
  PROVE  /\ LMON_be_procctl_initdone(launch) \in PairedSeq(StepsOf("bgq", "initdone"))
         /\ Phased(LMON_be_procctl_initdone(launch))
         /\ LMON_be_procctl_run \in PairedSeq(StepsOf("bgq", "tester_run"))
         /\ LMON_be_procctl_stop \in PairedSeq(StepsOf("bgq", "tester_stop"))
         /\ ~dontstop_fastpath => LMON_be_procctl_perf \in PairedSeq(StepsOf("bgq", "perf"))
         /\ dontstop_fastpath => /\ LMON_be_procctl_initdone(launch) = <<>>
                                 /\ LMON_be_procctl_run = <<>> /\ LMON_be_procctl_stop = <<>>
         /\ ~dontstop_fastpath =>
              /\ Do("cleanup", 0) \in Range(LMON_be_procctl_initdone(launch))
              /\ \A r \in Tasks :
                   /\ launch => Noti(cnodeid(r), r) \in Range(LMON_be_procctl_initdone(launch))
                   /\ Ask("ListHold", cnodeid(r), r, 0) \in Range(LMON_be_procctl_initdone(launch))
                   /\ Ask("Continue", cnodeid(r), r, 0) \in Range(LMON_be_procctl_run)
<1>1. /\ LMON_be_procctl_initdone(launch) = IF dontstop_fastpath THEN <<>> ELSE initdone_bgq(launch)
      /\ LMON_be_procctl_run = IF dontstop_fastpath THEN <<>> ELSE continue_all(CN2Ranks)
      /\ LMON_be_procctl_stop = IF dontstop_fastpath THEN <<>> ELSE stop_all(CN2Ranks)
      /\ LMON_be_procctl_perf = fetch_mem_all(CN2Ranks)
  BY DEF IsLinux, LMON_be_procctl_initdone, LMON_be_procctl_run, LMON_be_procctl_stop, LMON_be_procctl_perf
<1>2. /\ continue_all(CN2Ranks) = AskAll("Continue", ranks_of(CN2Ranks))
      /\ stop_all(CN2Ranks) = SendAll(ranks_of(CN2Ranks))
      /\ fetch_mem_all(CN2Ranks) = FetchAll(ranks_of(CN2Ranks))
  BY Zenon DEF continue_all, stop_all, fetch_mem_all, ForRanks, ForAll, AskAll, SendAll, FetchAll
<1>3. CASE dontstop_fastpath
  BY <1>1, <1>3, EmptyCall
<1>4. CASE ~dontstop_fastpath
  <2>1. \A r \in Tasks : /\ Ask("Continue", cnodeid(r), r, 0) \in StepsOf("bgq", "tester_run")
                         /\ Ask("SendSignal", cnodeid(r), r, 0) \in StepsOf("bgq", "tester_stop")
                         /\ Noti(cnodeid(r), r) \in StepsOf("bgq", "tester_stop")
                         /\ Ask("FetchMemory", cnodeid(r), r, 0) \in StepsOf("bgq", "perf")
    BY BgqSteps
  <2>2. "Continue" \in OfTask \ Stop
    BY DEF OfTask, Stop
  <2>3. /\ continue_all(CN2Ranks) \in PairedSeq(StepsOf("bgq", "tester_run"))
        /\ \A r \in Tasks : Ask("Continue", cnodeid(r), r, 0) \in Range(continue_all(CN2Ranks))
    BY <1>2, <1>4, <2>1, <2>2, BgqLoops
  <2>4. stop_all(CN2Ranks) \in PairedSeq(StepsOf("bgq", "tester_stop"))
    BY <1>2, <1>4, <2>1, BgqLoops
  <2>5. fetch_mem_all(CN2Ranks) \in PairedSeq(StepsOf("bgq", "perf"))
    BY <1>2, <1>4, <2>1, BgqLoops
  <2> QED BY <1>1, <1>4, <2>3, <2>4, <2>5, BgqInitdone
<1> QED BY <1>3, <1>4

LEMMA BgqDone ==
  ASSUME job.rm = "bgq"
  PROVE  /\ LMON_be_procctl_done \in PairedSeq(StepsOf("bgq", "done"))
         /\ dontstop_fastpath => LMON_be_procctl_done = <<>>
         /\ ~dontstop_fastpath => Do("cleanup", 0) \in Range(LMON_be_procctl_done)
<1>1. LMON_be_procctl_done = IF dontstop_fastpath THEN <<>> ELSE <<Do("cleanup", 0)>>
  BY DEF IsLinux, LMON_be_procctl_done, cleanup_resources
<1>2. Do("cleanup", 0) \in StepsOf("bgq", "done") /\ Kind(Do("cleanup", 0)) \notin Stop
  BY BgqSteps DEF Kind, Do, Stop
<1> HIDE DEF Do
<1> QED BY <1>1, <1>2, SinglePaired, EmptyCall

-----------------------------------------------------------------------------
(* Types, the map of BlueGene/Q, and what a call may be *)

Maps ==
  /\ CN2Ranks = EmptyMap \/ Full(CN2Ranks)
  /\ pc = "idle" \/ job.rm # "bgq" => CN2Ranks = EmptyMap /\ IOToolMap.socks = {}
  /\ job.rm = "bgq" =>
       /\ dontstop_fastpath => CN2Ranks = EmptyMap /\ IOToolMap.socks = {} /\ todo = <<>>
       /\ pc \in {"init", "barrier", "initdone", "run"} => dontstop_fastpath = dontstop
       /\ ~dontstop_fastpath /\ pc \in {"init", "barrier", "tester_init", "perf", "tester_run", "tester_stop"} =>
            Full(CN2Ranks)
       /\ pc = "initdone" /\ rc = "LMON_OK" =>
            Do("cleanup", 0) \in Range(todo) \/ (CN2Ranks = EmptyMap /\ IOToolMap.socks = {})
       /\ pc = "done" => Do("cleanup", 0) \in Range(todo) \/ IOToolMap.socks = {}

Base == TypeOK /\ Sound /\ Maps

LEMMA EmptyMapIs == EmptyMap \in [Nodes -> Seq(Tasks)]
  BY DEF EmptyMap

(* The handshake leaves nothing in the map. *)
LEMMA MapReturned ==
  ASSUME Base, HandshakeReturns
  PROVE  CN2Ranks = EmptyMap /\ IOToolMap.socks = {}
<1>1. CASE job.rm # "bgq"
  BY <1>1 DEF Base, Maps
<1>2. CASE job.rm = "bgq" /\ pc = "run"
  BY <1>2 DEF Base, Maps, Sound
<1>3. CASE job.rm = "bgq" /\ pc # "run"
  <2>1. pc = "initdone" /\ todo = <<>> /\ rc = "LMON_OK"
    BY <1>3 DEF HandshakeReturns, Ready
  <2>2. Range(todo) = {}
    BY <2>1, EmptyCall
  <2> QED BY <1>3, <2>1, <2>2 DEF Base, Maps
<1> QED BY <1>1, <1>2, <1>3

(* Entering a call. *)
LEMMA CallTypes ==
  ASSUME TypeOK, Sound,
         NEW p \in Steps, NEW q \in Seq(StepsOf(job.rm, p)), Calls(p, q),
         UNCHANGED <<job, all_stopped, seqNum, env, misread>>,
         dontstop_fastpath' \in BOOLEAN, IOToolMap' \in [ranks : [Nodes -> Seq(Tasks)], socks : SUBSET Nodes],
         p # "idle", p = "run" => dontstop, p = "init" => pc = "idle"
  PROVE  TypeOK' /\ Sound'
<1>1. pc' = p /\ todo' = q /\ asked' = FALSE /\ rc' = "LMON_OK" /\ job' = job /\ task' = task
      /\ stream' = stream /\ faults' = faults /\ released' = released
  BY DEF Calls, env
<1>2. islaunch' = islaunch /\ dontstop' = dontstop /\ IsLinux' = IsLinux
  BY <1>1 DEF islaunch, dontstop, IsLinux
<1>3. TypeOK'
  BY <1>1 DEF TypeOK
<1>4. Sound'
  BY <1>1, <1>2 DEF Sound
<1> QED BY <1>3, <1>4

LEMMA Launches ==
  ASSUME TypeOK
  PROVE  /\ islaunch \in BOOLEAN /\ dontstop \in BOOLEAN
         /\ job.rm \in RMs /\ (IsLinux <=> job.rm \notin {"bgp", "bgq"})
  BY DEF TypeOK, islaunch, dontstop, IsLinux, RMs

(* procctl_init, from the handshake and from the tester. *)
LEMMA BaseInit ==
  ASSUME Base, NEW p \in {"init", "tester_init"}, NEW launch \in BOOLEAN, NEW fast \in BOOLEAN,
         InitCall(p, launch, fast), CN2Ranks = EmptyMap, IOToolMap.socks = {},
         p = "init" => pc = "idle" /\ fast = dontstop,
         p = "tester_init" => ~launch /\ job.rm # "bgp"
  PROVE  Base'
<1> DEFINE q == LMON_be_procctl_init(launch, fast)
<1>1. /\ dontstop_fastpath' = fast /\ Calls(p, q)
      /\ IOToolMap' = IF job.rm = "bgq" /\ ~fast THEN [IOToolMap EXCEPT !.ranks = Filled] ELSE IOToolMap
      /\ UNCHANGED <<job, all_stopped, seqNum, env, misread>>
  BY DEF InitCall
<1>2. Full(Filled)
  BY FilledIsFull
<1>3. job.rm \in RMs /\ TypeOK /\ Sound /\ Maps
  BY DEF Base, TypeOK
<1>4. q \in Seq(StepsOf(job.rm, p))
  <2>1. CASE job.rm \in {"slurm", "orte"}
    <3>1. IsLinux
      BY <2>1 DEF IsLinux
    <3> QED BY <3>1, LinuxCalls
  <2>2. CASE job.rm = "bgp"
    BY <2>2, BgpCalls
  <2>3. CASE job.rm = "bgq"
    <3>1. q = IF fast THEN <<>> ELSE init_bgq(launch)
      BY <2>3 DEF LMON_be_procctl_init, IsLinux
    <3> QED BY <1>2, <2>3, <3>1, BgqInit, EmptyCall
  <2> QED BY <1>3, <2>1, <2>2, <2>3 DEF RMs
<1>5. IOToolMap' \in [ranks : [Nodes -> Seq(Tasks)], socks : SUBSET Nodes]
  <2>1. Filled \in [Nodes -> Seq(Tasks)]
    BY <1>2 DEF Full
  <2> QED BY <1>1, <1>3, <2>1 DEF TypeOK
<1> HIDE DEF q
<1>6. TypeOK' /\ Sound'
  <2>1. p \in Steps /\ p # "idle" /\ p # "run" /\ (p = "init" => pc = "idle")
    BY DEF Steps
  <2> QED BY <1>1, <1>3, <1>4, <1>5, <2>1, CallTypes
<1>7. pc' = p /\ todo' = q /\ job' = job
  BY <1>1 DEF Calls
<1>8. dontstop' = dontstop
  BY <1>7 DEF dontstop
<1>9. /\ job.rm = "bgq" /\ ~fast => CN2Ranks' = Filled
      /\ ~(job.rm = "bgq" /\ ~fast) => CN2Ranks' = EmptyMap /\ IOToolMap'.socks = {}
  BY <1>1, <1>3 DEF CN2Ranks, TypeOK
<1>10. job.rm = "bgq" /\ fast => q = <<>>
  BY DEF LMON_be_procctl_init, IsLinux, q
<1>11. Maps'
  BY <1>1, <1>2, <1>7, <1>8, <1>9, <1>10 DEF Maps
<1> QED BY <1>6, <1>11 DEF Base

LEMMA SameMaps ==
  ASSUME Base, Same
  PROVE  /\ job' = job /\ IOToolMap' = IOToolMap /\ CN2Ranks' = CN2Ranks
         /\ dontstop_fastpath' = dontstop_fastpath /\ dontstop' = dontstop /\ islaunch' = islaunch
         /\ task' = task /\ stream' = stream /\ faults' = faults /\ misread' = misread
         /\ released' = released /\ IsLinux' = IsLinux /\ all_stopped' = all_stopped /\ seqNum' = seqNum
  BY DEF Same, bgq, env, CN2Ranks, dontstop, islaunch, IsLinux

(* A call that leaves the map as it is. *)
LEMMA BaseSame ==
  ASSUME Base, Same,
         NEW p \in Steps, NEW q \in Seq(StepsOf(job.rm, p)), Calls(p, q),
         p \notin {"idle", "init", "barrier"}, p = "run" => dontstop,
         job.rm = "bgq" =>
           /\ dontstop_fastpath => q = <<>>
           /\ p \in {"initdone", "run"} => dontstop_fastpath = dontstop
           /\ p \in {"tester_init", "perf", "tester_run", "tester_stop"} =>
                Full(CN2Ranks) \/ dontstop_fastpath
           /\ p \in {"initdone", "done"} => Do("cleanup", 0) \in Range(q) \/ dontstop_fastpath
  PROVE  Base'
<1>1. TypeOK /\ Sound /\ Maps
  BY DEF Base
<1>2. /\ UNCHANGED <<job, all_stopped, seqNum, env, misread>> /\ IOToolMap' = IOToolMap
      /\ dontstop_fastpath' = dontstop_fastpath
  BY DEF Same, bgq
<1>3. dontstop_fastpath \in BOOLEAN /\ IOToolMap \in [ranks : [Nodes -> Seq(Tasks)], socks : SUBSET Nodes]
  BY <1>1 DEF TypeOK
<1>4. TypeOK' /\ Sound'
  BY <1>1, <1>2, <1>3, CallTypes
<1>5. pc' = p /\ todo' = q /\ rc' = "LMON_OK"
  BY DEF Calls
<1>6. Maps'
  BY <1>1, <1>5, SameMaps DEF Maps
<1> QED BY <1>4, <1>6 DEF Base

LEMMA BaseCall ==
  ASSUME Base,
         \/ HandshakeInitDone \/ HandshakeRun \/ TesterPerf \/ TesterStop
         \/ LMON_be_procctl_tester_run \/ Finalize
  PROVE  Base'
<1>0. TypeOK /\ Sound /\ Maps /\ islaunch \in BOOLEAN /\ dontstop \in BOOLEAN /\ job.rm \in RMs
      /\ dontstop_fastpath \in BOOLEAN
  BY Launches DEF Base, TypeOK
<1>1. job.rm = "bgq" /\ pc \in {"barrier", "tester_init", "perf", "tester_run", "tester_stop"} =>
        Full(CN2Ranks) \/ dontstop_fastpath
  BY <1>0 DEF Maps
<1>2. {"initdone", "run", "perf", "tester_stop", "tester_run", "done"} \subseteq Steps
  BY DEF Steps
<1>3. job.rm \in {"slurm", "orte"} => IsLinux
  BY DEF IsLinux
<1>4. \A A : \A q \in PairedSeq(A) : q \in Seq(A)
  BY DEF PairedSeq
<1>5. CASE HandshakeInitDone
  <2> DEFINE q == LMON_be_procctl_initdone(islaunch)
  <2>1. pc = "barrier" /\ Calls("initdone", q) /\ Same
    BY <1>5 DEF HandshakeInitDone, Ready
  <2>2. CASE job.rm = "bgq"
    <3>1. dontstop_fastpath = dontstop
      BY <1>0, <2>1, <2>2 DEF Maps
    <3>2. /\ q \in Seq(StepsOf(job.rm, "initdone")) /\ (dontstop_fastpath => q = <<>>)
          /\ Do("cleanup", 0) \in Range(q) \/ dontstop_fastpath
      BY <1>0, <1>1, <1>4, <2>1, <2>2, BgqCalls
    <3> HIDE DEF q
    <3> QED BY <1>2, <2>1, <2>2, <3>1, <3>2, BaseSame
  <2>3. CASE job.rm # "bgq"
    <3>1. q \in Seq(StepsOf(job.rm, "initdone"))
      BY <1>0, <1>3, <1>4, <2>3, LinuxCalls, BgpCalls DEF RMs
    <3> HIDE DEF q
    <3> QED BY <1>2, <2>1, <2>3, <3>1, BaseSame
  <2> QED BY <2>2, <2>3
<1>6. CASE HandshakeRun
  <2> DEFINE q == LMON_be_procctl_run
  <2>1. pc = "initdone" /\ dontstop /\ Calls("run", q) /\ Same
    BY <1>6 DEF HandshakeRun, Ready
  <2>2. CASE job.rm = "bgq"
    <3>1. dontstop_fastpath = TRUE
      BY <1>0, <2>1, <2>2 DEF Maps
    <3>2. q = <<>> /\ q \in Seq(StepsOf(job.rm, "run"))
      BY <1>0, <2>2, <3>1, BgqCalls, EmptyCall
    <3> HIDE DEF q
    <3> QED BY <1>2, <2>1, <2>2, <3>1, <3>2, BaseSame
  <2>3. CASE job.rm # "bgq"
    <3>1. q \in Seq(StepsOf(job.rm, "run"))
      BY <1>0, <1>3, <1>4, <2>3, LinuxCalls, BgpCalls DEF RMs
    <3> HIDE DEF q
    <3> QED BY <1>2, <2>1, <2>3, <3>1, BaseSame
  <2> QED BY <2>2, <2>3
<1>7. CASE TesterPerf
  <2> DEFINE q == LMON_be_procctl_perf
  <2>1. pc = "tester_init" /\ ~dontstop_fastpath /\ Calls("perf", q) /\ Same
    BY <1>7 DEF TesterPerf, Ready
  <2>2. q \in Seq(StepsOf(job.rm, "perf"))
    BY <1>0, <1>1, <1>3, <1>4, <2>1, LinuxCalls, BgpCalls, BgqCalls DEF RMs
  <2> HIDE DEF q
  <2> QED BY <1>1, <1>2, <2>1, <2>2, BaseSame
<1>8. CASE TesterStop
  <2> DEFINE q == LMON_be_procctl_stop
  <2>1. pc = "tester_run" /\ Calls("tester_stop", q) /\ Same
    BY <1>8 DEF TesterStop, Ready
  <2>2. q \in Seq(StepsOf(job.rm, "tester_stop")) /\ (job.rm = "bgq" /\ dontstop_fastpath => q = <<>>)
    BY <1>0, <1>1, <1>3, <1>4, <2>1, LinuxCalls, BgpCalls, BgqCalls DEF RMs
  <2> HIDE DEF q
  <2> QED BY <1>1, <1>2, <2>1, <2>2, BaseSame
<1>9. CASE LMON_be_procctl_tester_run
  <2> DEFINE q == LMON_be_procctl_run
  <2>1. pc \in {"tester_init", "perf", "tester_stop"} /\ Calls("tester_run", q) /\ Same
    BY <1>9 DEF LMON_be_procctl_tester_run, Ready
  <2>2. q \in Seq(StepsOf(job.rm, "tester_run")) /\ (job.rm = "bgq" /\ dontstop_fastpath => q = <<>>)
    BY <1>0, <1>1, <1>3, <1>4, <2>1, LinuxCalls, BgpCalls, BgqCalls DEF RMs
  <2> HIDE DEF q
  <2> QED BY <1>1, <1>2, <2>1, <2>2, BaseSame
<1>10. CASE Finalize
  <2> DEFINE q == LMON_be_procctl_done
  <2>1. Calls("done", q) /\ Same
    BY <1>10 DEF Finalize
  <2>2. /\ q \in Seq(StepsOf(job.rm, "done")) /\ (job.rm = "bgq" /\ dontstop_fastpath => q = <<>>)
        /\ job.rm = "bgq" => Do("cleanup", 0) \in Range(q) \/ dontstop_fastpath
    BY <1>0, <1>1, <1>3, <1>4, <2>1, LinuxCalls, BgpCalls, BgqDone, EmptyCall DEF RMs
  <2> HIDE DEF q
  <2> QED BY <1>1, <1>2, <2>1, <2>2, BaseSame
<1> QED BY <1>5, <1>6, <1>7, <1>8, <1>9, <1>10

LEMMA BaseInitCalls ==
  ASSUME Base, HandshakeInit \/ LMON_be_procctl_tester_init
  PROVE  Base'
<1>0. TypeOK /\ Sound /\ Maps /\ islaunch \in BOOLEAN /\ dontstop \in BOOLEAN /\ job.rm \in RMs
      /\ dontstop_fastpath \in BOOLEAN
  BY Launches DEF Base, TypeOK
<1>1. CASE HandshakeInit
  <2>1. pc = "idle" /\ InitCall("init", islaunch, dontstop)
    BY <1>1 DEF HandshakeInit
  <2>2. CN2Ranks = EmptyMap /\ IOToolMap.socks = {}
    BY <1>0, <2>1 DEF Maps
  <2> QED BY <1>0, <2>1, <2>2, BaseInit
<1>2. CASE LMON_be_procctl_tester_init
  <2>1. CN2Ranks = EmptyMap /\ IOToolMap.socks = {}
    BY <1>2, MapReturned DEF LMON_be_procctl_tester_init
  <2>2. CASE job.rm = "bgp"
    <3>1. Calls("tester_init", <<>>) /\ Same
      BY <1>2, <2>2 DEF LMON_be_procctl_tester_init
    <3>2. <<>> \in Seq(StepsOf(job.rm, "tester_init")) /\ "tester_init" \in Steps
      BY EmptyCall DEF Steps
    <3> QED BY <2>2, <3>1, <3>2, BaseSame
  <2>3. CASE job.rm # "bgp"
    <3>1. PICK fast \in {FALSE, dontstop_fastpath} : InitCall("tester_init", FALSE, fast)
      BY <1>2, <2>3 DEF LMON_be_procctl_tester_init
    <3>2. fast \in BOOLEAN
      BY <1>0
    <3> QED BY <2>1, <2>3, <3>1, <3>2, BaseInit
  <2> QED BY <2>2, <2>3
<1> QED BY <1>1, <1>2

(* The step a call is at. *)
LEMMA AtStep ==
  ASSUME TypeOK, todo # <<>>
  PROVE  /\ s \in StepSet /\ Fits(job.rm, pc, s)
         /\ Tail(todo) \in Seq(StepsOf(job.rm, pc))
         /\ Range(todo) = {s} \cup Range(Tail(todo))
<1>1. todo \in Seq(StepsOf(job.rm, pc))
  BY DEF TypeOK
<1> DEFINE A == StepsOf(job.rm, pc)
<1> HIDE DEF A
<1>2. Head(todo) \in A /\ Tail(todo) \in Seq(A) /\ Range(todo) = {Head(todo)} \cup Range(Tail(todo))
  BY <1>1, HeadOrTail DEF A
<1> QED BY <1>2 DEF s, A, StepsOf

(* The platform has only its own steps. *)
LEMMA StepKinds ==
  ASSUME TypeOK, todo # <<>>
  PROVE  /\ IsLinux => s.do \in Signals \cup {"EINVAL"}
         /\ ~IsLinux => s.do \notin Signals
         /\ job.rm = "bgp" => s.do \notin {"connect", "cleanup"}
         /\ job.rm = "bgq" => s.do \notin {"all_stopped", "EINVAL"}
         /\ s.do = "ask" => s.req \in Asking /\ s.req # "Notify" /\ s.req \in Kinds(job.rm, pc)
         /\ s.do = "noti" => s.req = "Notify" /\ "Notify" \in Kinds(job.rm, pc)
         /\ s.do \notin {"ask", "noti"} => s.do \in Kinds(job.rm, pc)
<1>1. s \in StepSet /\ Fits(job.rm, pc, s)
  BY AtStep
<1>2. /\ s.do = "ask" => s.req \in Asking /\ s.req \in Kinds(job.rm, pc)
      /\ s.do = "noti" => s.req = "Notify" /\ "Notify" \in Kinds(job.rm, pc)
      /\ s.do \notin {"ask", "noti"} => s.do \in Kinds(job.rm, pc)
      /\ s.do \in {"ask", "noti"} \cup Signals \cup Rest
  BY <1>1 DEF Fits, Kind, StepSet
<1>3. "Notify" \notin Asking
  BY DEF Asking, OfTask, OfNode, OfDaemon
<1>4. job.rm \in RMs
  BY DEF TypeOK
<1>5. ASSUME IsLinux PROVE s.do \in Signals \cup {"EINVAL"}
  <2>1. Kinds(job.rm, pc) = LinuxKinds(pc)
    BY <1>5 DEF Kinds, IsLinux
  <2>2. LinuxKinds(pc) \subseteq Signals \cup {"EINVAL"}
    BY DEF LinuxKinds, Signals
  <2>3. s.req \in Asking \cup {"Notify"} => s.req \notin Signals \cup {"EINVAL"}
    BY DEF Asking, OfTask, OfNode, OfDaemon, Signals
  <2> QED BY <1>2, <2>1, <2>2, <2>3
<1>6. ASSUME job.rm = "bgp" PROVE s.do \notin Signals /\ s.do \notin {"connect", "cleanup"}
  <2>1. Kinds(job.rm, pc) = BgpKinds(pc)
    BY <1>6 DEF Kinds
  <2>2. \A k \in BgpKinds(pc) : k \notin Signals /\ k \notin {"connect", "cleanup"}
    BY DEF BgpKinds, Signals
  <2> QED BY <1>2, <2>1, <2>2 DEF Signals
<1>7. ASSUME job.rm = "bgq" PROVE s.do \notin Signals /\ s.do \notin {"all_stopped", "EINVAL"}
  <2>1. Kinds(job.rm, pc) = BgqKinds(pc)
    BY <1>7 DEF Kinds
  <2>2. \A k \in BgqKinds(pc) : k \notin Signals /\ k \notin {"all_stopped", "EINVAL"}
    BY DEF BgqKinds, Signals
  <2> QED BY <1>2, <2>1, <2>2 DEF Signals
<1> QED BY <1>2, <1>3, <1>4, <1>5, <1>6, <1>7 DEF RMs, IsLinux

(* What the list of the threads adds to the call. *)
LEMMA ExpandedFits ==
  ASSUME TypeOK, todo # <<>>, s.do \in {"ask", "noti"}
  PROVE  /\ Expanded \in Seq(NotFirst(NoStop(StepsOf(job.rm, pc))))
         /\ s.req \notin {"ListHold", "ListRelease"} => Expanded = <<>>
         /\ s.req = "ListHold" => \A x \in Threads : Ask("HoldThr", s.ch, s.rank, x) \in Range(Expanded)
         /\ s.req = "ListRelease" => \A x \in Threads : Ask("ReleaseThr", s.ch, s.rank, x) \in Range(Expanded)
<1>0. s \in StepSet /\ Fits(job.rm, pc, s) /\ s.req \in Kinds(job.rm, pc) /\ job.rm \in RMs
  BY AtStep, StepKinds DEF TypeOK
<1>1. CASE s.req \notin {"ListHold", "ListRelease"}
  <2>1. Expanded = <<>>
    BY <1>1 DEF Expanded
  <2> QED BY <1>1, <2>1, EmptyCall
<1>2. CASE s.req \in {"ListHold", "ListRelease"}
  <2>1. s.do = "ask" /\ s.rank \in Tasks /\ s.ch = ChanOf(job.rm, s.rank)
    BY <1>0, <1>2, StepKinds DEF Fits, OfTask
  <2>2. job.rm = "bgq" /\ (s.req = "ListHold" => pc = "initdone")
        /\ (s.req = "ListRelease" => pc \in {"init", "tester_init"})
    BY <1>0, <1>2 DEF Kinds, LinuxKinds, BgpKinds, BgqKinds, RMs
  <2>3. s.ch = cnodeid(s.rank)
    BY <2>1, <2>2 DEF ChanOf
  <2> DEFINE req == IF s.req = "ListHold" THEN "HoldThr" ELSE "ReleaseThr"
             e == [x \in Threads |-> Ask(req, s.ch, s.rank, x)]
  <2>4. Expanded = e
    BY <1>2 DEF Expanded
  <2>5. \A x \in Threads : e[x] \in StepsOf(job.rm, pc)
    BY <1>2, <2>1, <2>2, <2>3, BgqSteps
  <2>6. \A x \in Threads : e[x] \in NotFirst(NoStop(StepsOf(job.rm, pc)))
    BY <2>5 DEF NotFirst, NoStop, First, Stop, Kind, Ask
  <2>7. \A x \in Threads : e[x] = Ask(req, s.ch, s.rank, x)
    OBVIOUS
  <2>8. e = [x \in 1 .. NumThreads |-> e[x]] /\ NumThreads \in Nat /\ Threads = 1 .. NumThreads
    BY ProcCtlAssumption DEF Threads
  <2> HIDE DEF e
  <2>9. e \in Seq(NotFirst(NoStop(StepsOf(job.rm, pc)))) /\ Len(e) = NumThreads /\ DOMAIN e = Threads
    BY <2>6, <2>8, IsASeq
  <2>10. \A x \in Threads : e[x] \in Range(e)
    BY <2>9 DEF Range
  <2> QED BY <1>2, <2>4, <2>7, <2>9, <2>10
<1> QED BY <1>1, <1>2

(* The next step of the same call. *)
LEMMA TailTypes ==
  ASSUME TypeOK, Sound,
         todo' \in Seq(StepsOf(job.rm, pc)), asked' = FALSE, rc' \in {"LMON_OK", "LMON_EINVAL"},
         UNCHANGED <<job, pc, dontstop_fastpath, released, task>>,
         IOToolMap' \in [ranks : [Nodes -> Seq(Tasks)], socks : SUBSET Nodes], seqNum' \in Nat,
         all_stopped' \in {0, 1}, stream' \in [Channels -> Seq(Message)], misread' \in BOOLEAN,
         faults' \in Nat, faults' >= faults, pc # "idle"
  PROVE  TypeOK' /\ Sound'
<1>1. islaunch' = islaunch /\ dontstop' = dontstop /\ IsLinux' = IsLinux
  BY DEF islaunch, dontstop, IsLinux
<1>2. TypeOK'
  BY DEF TypeOK
<1>3. faults \in Nat
  BY DEF TypeOK
<1>4. Sound'
  BY <1>1, <1>3 DEF Sound
<1> QED BY <1>2, <1>4

(* The map, when a step is taken from a call. *)
LEMMA TailMaps ==
  ASSUME TypeOK, Sound, Maps, todo # <<>>,
         UNCHANGED <<job, pc, dontstop_fastpath>>, IOToolMap' = IOToolMap,
         \/ /\ rc' = rc \/ rc' # "LMON_OK"
            /\ Range(Tail(todo)) \subseteq Range(todo') /\ s.do # "cleanup"
         \/ rc' # "LMON_OK" /\ ~(job.rm = "bgq" /\ pc = "done")
  PROVE  Maps'
<1>1. dontstop' = dontstop /\ CN2Ranks' = CN2Ranks
  BY DEF dontstop, CN2Ranks
<1>2. Range(todo) = {s} \cup Range(Tail(todo))
  BY AtStep
<1>3. Do("cleanup", 0).do = "cleanup"
  BY DEF Do
<1>4. ~(job.rm = "bgq" /\ dontstop_fastpath)
  BY DEF Maps
<1>5. s.do # "cleanup" /\ Do("cleanup", 0) \in Range(todo) => Do("cleanup", 0) \in Range(Tail(todo))
  BY <1>2, <1>3
<1> HIDE DEF Do
<1> QED BY <1>1, <1>4, <1>5 DEF Maps


(* One task changes. *)
LEMMA OneTask ==
  ASSUME task \in [Tasks -> TaskType], NEW r \in Tasks, NEW t \in TaskType,
         task' = [task EXCEPT ![r] = t]
  PROVE  task' \in [Tasks -> TaskType] /\ task'[r] = t /\ \A q \in Tasks : q # r => task'[q] = task[q]
  OBVIOUS

(* What a request does to a task. *)
Changed(u, t, req, x) ==
  /\ u \in TaskType
  /\ u.gone = t.gone /\ u.gated = t.gated /\ u.traced = t.traced /\ u.event = t.event
  /\ u.sigstop = IF req \in Stop THEN TRUE ELSE t.sigstop
  /\ u.stopped = IF req \in {"CONTINUE", "Continue", "ReleaseControl"} THEN FALSE ELSE t.stopped
  /\ u.held = IF req = "HoldThr" THEN t.held \cup {x}
              ELSE IF req = "ReleaseThr" THEN t.held \ {x} ELSE t.held

LEMMA EffectIs ==
  ASSUME NEW t \in TaskType, NEW req, NEW x, req = "HoldThr" => x \in Threads
  PROVE  Changed(Effect(req, t, x), t, req, x)
<1>1. CASE req \in Stop
  BY <1>1 DEF Effect, TaskType, Stop, Changed
<1>2. CASE req \in {"CONTINUE", "Continue", "ReleaseControl"}
  BY <1>2 DEF Effect, TaskType, Stop, Changed
<1>3. CASE req = "HoldThr"
  BY <1>3 DEF Effect, TaskType, Stop, Changed
<1>4. CASE req = "ReleaseThr"
  BY <1>4 DEF Effect, TaskType, Stop, Changed
<1>5. CASE req \notin Stop \cup {"CONTINUE", "Continue", "ReleaseControl", "HoldThr", "ReleaseThr"}
  <2>1. Effect(req, t, x) = t
    BY <1>5 DEF Effect, Stop
  <2> QED BY <1>5, <2>1 DEF Changed
<1> QED BY <1>1, <1>2, <1>3, <1>4, <1>5

(* The request is sent: the task, if there is one, is what the request makes *)
(* of it, or as it was.                                                      *)
LEMMA Sent ==
  ASSUME TypeOK, lmon_write_raw
  PROVE  /\ todo # <<>> /\ s.do = "ask" /\ ~asked /\ asked' = TRUE /\ s.ch \in Channels
         /\ UNCHANGED <<job, dontstop_fastpath, all_stopped, bgq, pc, todo, rc, released, misread>>
         /\ \E ok \in BOOLEAN :
              /\ ~ok => faults < MaxFaults
              /\ faults' = (IF ok THEN faults ELSE faults + 1)
              /\ fill_CIOS_Header(ok) \in Message
              /\ stream' = [stream EXCEPT ![s.ch] = Append(@, fill_CIOS_Header(ok))]
              /\ ~ok \/ s.req \notin OfTask => task' = task
              /\ ok /\ s.req \in OfTask =>
                   /\ s.rank \in Tasks /\ Changed(task'[s.rank], task[s.rank], s.req, s.arg)
                   /\ \A r \in Tasks : r # s.rank => task'[r] = task[r]
              /\ task' \in [Tasks -> TaskType]
<1>1. /\ todo # <<>> /\ s.do = "ask" /\ ~asked /\ asked' = TRUE
      /\ UNCHANGED <<job, dontstop_fastpath, all_stopped, bgq, pc, todo, rc, released, misread>>
  BY DEF lmon_write_raw, Step, s
<1>2. s \in StepSet /\ Fits(job.rm, pc, s) /\ s.req \in Asking
  BY <1>1, AtStep, StepKinds
<1>3. s.ch \in Channels /\ s.rank \in Nat
  BY <1>2 DEF StepSet
<1>4. PICK ok \in {TRUE, faults >= MaxFaults} :
        /\ faults' = IF ok THEN faults ELSE faults + 1
        /\ Put(s.ch, fill_CIOS_Header(ok))
        /\ task' = IF ok /\ s.req \notin {"Attach", "Detach", "VERSION_MSG", "END_DEBUG"}
                   THEN [task EXCEPT ![s.rank] = Effect(s.req, @, s.arg)] ELSE task
  BY DEF lmon_write_raw
<1>5. ok \in BOOLEAN /\ (~ok => faults < MaxFaults)
  <2>1. faults \in Nat /\ MaxFaults \in Nat
    BY ProcCtlAssumption DEF TypeOK
  <2>2. (faults >= MaxFaults) \in BOOLEAN /\ (~(faults >= MaxFaults) => faults < MaxFaults)
    BY <2>1
  <2>3. CASE ok = TRUE
    BY <2>3
  <2>4. CASE ok = (faults >= MaxFaults)
    BY <2>2, <2>4
  <2> QED BY <2>3, <2>4
<1>6. fill_CIOS_Header(ok) \in Message
  BY <1>2, <1>3, <1>5 DEF fill_CIOS_Header, Message, TypeOK
<1>7. s.req \in OfTask <=> s.req \notin {"Attach", "Detach", "VERSION_MSG", "END_DEBUG"}
  BY <1>2 DEF Asking, OfTask, OfNode, OfDaemon
<1>8. ASSUME s.req \in OfTask
      PROVE  s.rank \in Tasks /\ Changed(Effect(s.req, task[s.rank], s.arg), task[s.rank], s.req, s.arg)
  <2>1. s.rank \in Tasks /\ (s.req = "HoldThr" => s.arg \in Threads)
    BY <1>1, <1>2, <1>8 DEF Fits
  <2>2. task[s.rank] \in TaskType
    BY <2>1 DEF TypeOK
  <2> QED BY <2>1, <2>2, EffectIs
<1>9. stream' = [stream EXCEPT ![s.ch] = Append(@, fill_CIOS_Header(ok))]
  BY <1>4 DEF Put
<1> HIDE DEF s
<1>10. /\ ~ok \/ s.req \notin OfTask => task' = task
       /\ ok /\ s.req \in OfTask => task' = [task EXCEPT ![s.rank] = Effect(s.req, task[s.rank], s.arg)]
  BY <1>4, <1>7
<1>11. task \in [Tasks -> TaskType]
  BY DEF TypeOK
<1>12. ASSUME ok, s.req \in OfTask
       PROVE  /\ s.rank \in Tasks /\ Changed(task'[s.rank], task[s.rank], s.req, s.arg)
              /\ \A r \in Tasks : r # s.rank => task'[r] = task[r]
              /\ task' \in [Tasks -> TaskType]
  <2> DEFINE t == Effect(s.req, task[s.rank], s.arg)
  <2>1. s.rank \in Tasks /\ Changed(t, task[s.rank], s.req, s.arg)
    BY <1>8, <1>12
  <2>2. task' = [task EXCEPT ![s.rank] = t]
    BY <1>10, <1>12
  <2> HIDE DEF t
  <2>3. t \in TaskType
    BY <2>1 DEF Changed
  <2>4. task' \in [Tasks -> TaskType] /\ task'[s.rank] = t /\ \A q \in Tasks : q # s.rank => task'[q] = task[q]
    BY <1>11, <2>1, <2>2, <2>3, OneTask
  <2> QED BY <2>1, <2>4
<1> QED BY <1>1, <1>3, <1>4, <1>5, <1>6, <1>9, <1>10, <1>11, <1>12

LEMMA StreamPut ==
  ASSUME stream \in [Channels -> Seq(Message)], NEW c \in Channels, NEW m \in Message,
         stream' = [stream EXCEPT ![c] = Append(@, m)]
  PROVE  /\ stream' \in [Channels -> Seq(Message)] /\ stream'[c] = Append(stream[c], m)
         /\ \A d \in Channels : d # c => stream'[d] = stream[d]
  OBVIOUS

LEMMA BaseSent ==
  ASSUME Base, lmon_write_raw
  PROVE  Base'
<1>0. TypeOK /\ Sound /\ Maps
  BY DEF Base
<1>1. /\ todo # <<>> /\ s.do = "ask" /\ asked' = TRUE /\ s.ch \in Channels
      /\ UNCHANGED <<job, dontstop_fastpath, all_stopped, bgq, pc, todo, rc, released, misread>>
  BY <1>0, Sent
<1>2. PICK ok \in BOOLEAN :
        /\ faults' = (IF ok THEN faults ELSE faults + 1)
        /\ fill_CIOS_Header(ok) \in Message
        /\ stream' = [stream EXCEPT ![s.ch] = Append(@, fill_CIOS_Header(ok))]
        /\ ~ok \/ s.req \notin OfTask => task' = task
        /\ ok /\ s.req \in OfTask =>
             /\ s.rank \in Tasks /\ Changed(task'[s.rank], task[s.rank], s.req, s.arg)
             /\ \A r \in Tasks : r # s.rank => task'[r] = task[r]
        /\ task' \in [Tasks -> TaskType]
  BY <1>0, Sent
<1>3. stream' \in [Channels -> Seq(Message)]
  BY <1>0, <1>1, <1>2, StreamPut DEF TypeOK
<1>4. faults \in Nat /\ faults' \in Nat /\ faults' >= faults
  BY <1>0, <1>2 DEF TypeOK
<1>5. \A r \in Tasks : task'[r].gone = task[r].gone /\ task'[r].gated = task[r].gated
                        /\ task'[r].event = task[r].event
  <2>1. CASE ~ok \/ s.req \notin OfTask
    BY <1>2, <2>1
  <2>2. CASE ok /\ s.req \in OfTask
    BY <1>2, <2>2 DEF Changed
  <2> QED BY <2>1, <2>2
<1>6. islaunch' = islaunch /\ dontstop' = dontstop /\ IsLinux' = IsLinux /\ IOToolMap' = IOToolMap
      /\ CN2Ranks' = CN2Ranks /\ s' = s /\ seqNum' = seqNum
  BY <1>1 DEF islaunch, dontstop, IsLinux, bgq, CN2Ranks, s
<1>7. TypeOK'
  BY <1>0, <1>1, <1>2, <1>3, <1>4, <1>6 DEF TypeOK
<1>8. Sound'
  BY <1>0, <1>1, <1>4, <1>5, <1>6 DEF Sound
<1>9. Maps'
  BY <1>0, <1>1, <1>6 DEF Maps
<1> QED BY <1>7, <1>8, <1>9 DEF Base

(* The message that comes next is read, whatever it is. *)
LEMMA ReadIs ==
  ASSUME TypeOK, Sound, lmon_read_raw
  PROVE  /\ todo # <<>> /\ s.do \in {"ask", "noti"} /\ (s.do = "ask" => asked) /\ s.ch \in Channels
         /\ stream[s.ch] # <<>> /\ Head(stream[s.ch]) \in Message
         /\ misread' = (misread \/ Head(stream[s.ch]).type # s.req)
         /\ asked' = FALSE
         /\ stream' \in [Channels -> Seq(Message)] /\ stream'[s.ch] = Tail(stream[s.ch])
         /\ \A c \in Channels : c # s.ch => stream'[c] = stream[c]
         /\ seqNum' \in Nat
         /\ \/ Accepted(Head(stream[s.ch])) /\ todo' = Expanded \o Tail(todo) /\ rc' = rc
            \/ ~Accepted(Head(stream[s.ch])) /\ todo' = <<>> /\ rc' = "LMON_EINVAL"
         /\ UNCHANGED <<job, dontstop_fastpath, all_stopped, IOToolMap, pc, released, task, faults>>
<1>1. /\ todo # <<>> /\ s.do \in {"ask", "noti"} /\ (s.do = "ask" => asked)
      /\ stream[s.ch] # <<>>
      /\ misread' = (misread \/ Head(stream[s.ch]).type # s.req)
      /\ UNCHANGED <<job, dontstop_fastpath, all_stopped, IOToolMap, pc, released, task, faults>>
  BY DEF lmon_read_raw, Step, s
<1>2. s.ch \in Channels
  BY <1>1, AtStep DEF StepSet
<1>3. stream \in [Channels -> Seq(Message)] /\ seqNum \in Nat
  BY DEF TypeOK
<1>4. Head(stream[s.ch]) \in Message /\ Tail(stream[s.ch]) \in Seq(Message)
  <2> DEFINE q == stream[s.ch]
  <2>1. q \in Seq(Message) /\ q # <<>>
    BY <1>1, <1>2, <1>3
  <2> HIDE DEF q
  <2>2. Head(q) \in Message /\ Tail(q) \in Seq(Message)
    BY <2>1, HeadOrTail
  <2> QED BY <2>2 DEF q
<1>5. stream' = [stream EXCEPT ![s.ch] = Tail(stream[s.ch])]
  BY DEF lmon_read_raw
<1>6. /\ stream' \in [Channels -> Seq(Message)] /\ stream'[s.ch] = Tail(stream[s.ch])
      /\ \A c \in Channels : c # s.ch => stream'[c] = stream[c]
  <2> DEFINE q == Tail(stream[s.ch])
             c == s.ch
  <2>1. c \in Channels /\ q \in Seq(Message) /\ stream' = [stream EXCEPT ![c] = q]
    BY <1>2, <1>4, <1>5
  <2> HIDE DEF q, c
  <2>2. stream' \in [Channels -> Seq(Message)] /\ stream'[c] = q /\ \A d \in Channels : d # c => stream'[d] = stream[d]
    BY <1>3, <2>1
  <2> QED BY <2>2 DEF q, c
<1>7. CASE Accepted(Head(stream[s.ch]))
  <2>1. todo' = Expanded \o Tail(todo) /\ asked' = FALSE /\ rc' = rc
        /\ seqNum' = IF job.rm = "bgq" THEN seqNum + 1 ELSE seqNum
    BY <1>7 DEF lmon_read_raw
  <2> QED BY <1>1, <1>2, <1>3, <1>4, <1>6, <1>7, <2>1
<1>8. CASE ~Accepted(Head(stream[s.ch]))
  <2>1. todo' = <<>> /\ asked' = FALSE /\ rc' = "LMON_EINVAL" /\ seqNum' = seqNum
    BY <1>8 DEF lmon_read_raw, Fails
  <2> QED BY <1>1, <1>2, <1>3, <1>4, <1>6, <1>8, <2>1
<1> QED BY <1>7, <1>8

LEMMA BaseRead ==
  ASSUME Base, lmon_read_raw
  PROVE  Base'
<1>0. TypeOK /\ Sound /\ Maps
  BY DEF Base
<1>1. /\ todo # <<>> /\ s.do \in {"ask", "noti"} /\ (s.do = "ask" => asked)
      /\ misread' = (misread \/ Head(stream[s.ch]).type # s.req)
      /\ asked' = FALSE /\ seqNum' \in Nat /\ stream' \in [Channels -> Seq(Message)]
      /\ \/ todo' = Expanded \o Tail(todo) /\ rc' = rc
         \/ todo' = <<>> /\ rc' = "LMON_EINVAL"
      /\ UNCHANGED <<job, dontstop_fastpath, all_stopped, IOToolMap, pc, released, task, faults>>
  BY <1>0, ReadIs
<1>2. misread' \in BOOLEAN
  <2>1. (misread \/ Head(stream[s.ch]).type # s.req) \in BOOLEAN
    BY Zenon
  <2> QED BY <1>1, <2>1
<1>3. Expanded \in Seq(StepsOf(job.rm, pc)) /\ Tail(todo) \in Seq(StepsOf(job.rm, pc))
  <2>1. NotFirst(NoStop(StepsOf(job.rm, pc))) \subseteq StepsOf(job.rm, pc)
    BY DEF NotFirst, NoStop
  <2>2. Expanded \in Seq(NotFirst(NoStop(StepsOf(job.rm, pc))))
    BY <1>0, <1>1, ExpandedFits
  <2>3. Expanded \in Seq(StepsOf(job.rm, pc))
    BY <2>1, <2>2, SeqMonotonic
  <2> QED BY <1>0, <1>1, <2>3, AtStep
<1> DEFINE A == StepsOf(job.rm, pc)
           x == Expanded
           y == Tail(todo)
<1>14. x \in Seq(A) /\ y \in Seq(A) /\ <<>> \in Seq(A)
  BY <1>3
<1>15. todo' = x \o y \/ todo' = <<>>
  BY <1>1
<1> HIDE DEF A, x, y
<1>4. x \o y \in Seq(A) /\ Range(y) \subseteq Range(x \o y)
  BY <1>14, Concat
<1>5. todo' \in Seq(A)
  BY <1>4, <1>14, <1>15
<1>6. pc # "idle"
  BY <1>0, <1>1 DEF Sound
<1>7. TypeOK' /\ Sound'
  <2>1. rc' \in {"LMON_OK", "LMON_EINVAL"} /\ faults' \in Nat /\ faults' >= faults /\ all_stopped' \in {0, 1}
        /\ IOToolMap' \in [ranks : [Nodes -> Seq(Tasks)], socks : SUBSET Nodes]
    BY <1>0, <1>1 DEF TypeOK
  <2>2. todo' \in Seq(StepsOf(job.rm, pc))
    BY <1>5 DEF A
  <2> QED BY <1>0, <1>1, <1>2, <1>6, <2>1, <2>2, TailTypes
<1>8. Maps'
  <2>1. CASE todo' = Expanded \o Tail(todo) /\ rc' = rc
    <3>1. s.do # "cleanup"
      BY <1>1
    <3>2. Range(Tail(todo)) \subseteq Range(todo')
      BY <1>4, <2>1 DEF x, y
    <3> QED BY <1>0, <1>1, <2>1, <3>1, <3>2, TailMaps
  <2>2. CASE rc' = "LMON_EINVAL"
    <3>1. ~(job.rm = "bgq" /\ pc = "done")
      <4> SUFFICES ASSUME job.rm = "bgq", pc = "done" PROVE FALSE
        OBVIOUS
      <4>1. Kinds(job.rm, pc) = {"cleanup"}
        BY DEF Kinds, BgqKinds
      <4> QED BY <1>0, <1>1, <4>1, StepKinds DEF Asking, OfTask, OfNode, OfDaemon
    <3> QED BY <1>0, <1>1, <2>2, <3>1, TailMaps
  <2> QED BY <1>1, <2>1, <2>2
<1> QED BY <1>7, <1>8 DEF Base

(* kill and ptrace. *)
LEMMA SignalIs ==
  ASSUME TypeOK, Signal
  PROVE  /\ todo # <<>> /\ IsLinux /\ s.rank \in Tasks
         /\ s.do \in {"SIGSTOP", "SIGCONT", "PTRACE_ATTACH", "PTRACE_DETACH"}
         /\ task' \in [Tasks -> TaskType] /\ \A r \in Tasks : r # s.rank => task'[r] = task[r]
         /\ task'[s.rank].gone = task[s.rank].gone /\ task'[s.rank].gated = task[s.rank].gated
         /\ task'[s.rank].event = task[s.rank].event /\ task'[s.rank].held = task[s.rank].held
         /\ task[s.rank].gone \/
              /\ task'[s.rank].sigstop =
                   IF s.do = "SIGSTOP" THEN TRUE ELSE IF s.do = "SIGCONT" THEN FALSE ELSE task[s.rank].sigstop
              /\ task'[s.rank].stopped = IF s.do = "SIGCONT" THEN FALSE ELSE task[s.rank].stopped
         /\ rc' \in {"LMON_OK", "LMON_EINVAL"}
         /\ rc' = rc \/ task[s.rank].gone
         /\ todo' = Tail(todo)
         /\ UNCHANGED <<job, dontstop_fastpath, all_stopped, bgq, pc, asked, released, stream, faults, misread>>
<1>1. PICK what \in {"SIGSTOP", "SIGCONT", "PTRACE_ATTACH", "PTRACE_DETACH"} :
       /\ todo # <<>> /\ s.do = what
       /\ task' = [task EXCEPT ![s.rank] =
               IF task[s.rank].gone THEN task[s.rank] ELSE
               CASE what = "SIGSTOP"       -> [task[s.rank] EXCEPT !.sigstop = TRUE]
                 [] what = "SIGCONT"       -> [task[s.rank] EXCEPT !.sigstop = FALSE, !.stopped = FALSE]
                 [] what = "PTRACE_ATTACH" -> [task[s.rank] EXCEPT !.traced = TRUE]
                 [] what = "PTRACE_DETACH" -> [task[s.rank] EXCEPT !.traced = FALSE]]
       /\ rc' = IF task[s.rank].gone /\ ~(pc = "initdone" /\ what = "SIGSTOP") THEN "LMON_EINVAL" ELSE rc
  BY DEF Signal, Step, s
<1>2. s.do \in Signals /\ s.rank \in Tasks
  BY <1>1, AtStep DEF Fits, Signals
<1>3. IsLinux
  BY <1>1, <1>2, StepKinds
<1> DEFINE t == task[s.rank]
           r0 == s.rank
           u == IF t.gone THEN t ELSE
                CASE what = "SIGSTOP"       -> [t EXCEPT !.sigstop = TRUE]
                  [] what = "SIGCONT"       -> [t EXCEPT !.sigstop = FALSE, !.stopped = FALSE]
                  [] what = "PTRACE_ATTACH" -> [t EXCEPT !.traced = TRUE]
                  [] what = "PTRACE_DETACH" -> [t EXCEPT !.traced = FALSE]
<1>4. task \in [Tasks -> TaskType] /\ t \in TaskType /\ r0 \in Tasks
  BY <1>2 DEF TypeOK
<1>5. task' = [task EXCEPT ![r0] = u]
  BY <1>1, Zenon
<1>6. /\ u \in TaskType /\ u.gone = t.gone /\ u.gated = t.gated /\ u.event = t.event /\ u.held = t.held
      /\ t.gone \/
              /\ u.sigstop = IF what = "SIGSTOP" THEN TRUE ELSE IF what = "SIGCONT" THEN FALSE ELSE t.sigstop
              /\ u.stopped = IF what = "SIGCONT" THEN FALSE ELSE t.stopped
  <2> HIDE DEF t
  <2>1. CASE t.gone
    <3>1. u = t
      BY <2>1
    <3> HIDE DEF u
    <3> QED BY <1>4, <2>1, <3>1
  <2>2. CASE ~t.gone /\ what = "SIGSTOP"
    <3>1. u = [t EXCEPT !.sigstop = TRUE]
      BY <2>2
    <3> HIDE DEF u
    <3> QED BY <1>4, <2>2, <3>1 DEF TaskType
  <2>3. CASE ~t.gone /\ what = "SIGCONT"
    <3>1. u = [t EXCEPT !.sigstop = FALSE, !.stopped = FALSE]
      BY <2>3
    <3> HIDE DEF u
    <3> QED BY <1>4, <2>3, <3>1 DEF TaskType
  <2>4. CASE ~t.gone /\ what = "PTRACE_ATTACH"
    <3>1. u = [t EXCEPT !.traced = TRUE]
      BY <2>4
    <3> HIDE DEF u
    <3> QED BY <1>4, <2>4, <3>1 DEF TaskType
  <2>5. CASE ~t.gone /\ what = "PTRACE_DETACH"
    <3>1. u = [t EXCEPT !.traced = FALSE]
      BY <2>5
    <3> HIDE DEF u
    <3> QED BY <1>4, <2>5, <3>1 DEF TaskType
  <2> QED BY <2>1, <2>2, <2>3, <2>4, <2>5
<1> HIDE DEF u, r0
<1>7. task' \in [Tasks -> TaskType] /\ task'[r0] = u /\ \A q \in Tasks : q # r0 => task'[q] = task[q]
  BY <1>4, <1>5, <1>6, OneTask
<1>8. rc' \in {"LMON_OK", "LMON_EINVAL"} /\ (rc' = rc \/ t.gone)
  BY <1>1 DEF TypeOK
<1>9. /\ todo' = Tail(todo)
      /\ UNCHANGED <<job, dontstop_fastpath, all_stopped, bgq, pc, asked, released, stream, faults, misread>>
  BY DEF Signal
<1> QED BY <1>1, <1>2, <1>3, <1>6, <1>7, <1>8, <1>9 DEF r0

LEMMA BaseSignal ==
  ASSUME Base, Signal
  PROVE  Base'
<1>0. TypeOK /\ Sound /\ Maps
  BY DEF Base
<1>1. /\ todo # <<>> /\ IsLinux /\ s.rank \in Tasks
      /\ task' \in [Tasks -> TaskType] /\ \A r \in Tasks : r # s.rank => task'[r] = task[r]
      /\ task'[s.rank].gone = task[s.rank].gone /\ task'[s.rank].gated = task[s.rank].gated
      /\ task'[s.rank].event = task[s.rank].event
      /\ rc' \in {"LMON_OK", "LMON_EINVAL"} /\ (rc' = rc \/ task[s.rank].gone)
      /\ todo' = Tail(todo)
      /\ s.do \in {"SIGSTOP", "SIGCONT", "PTRACE_ATTACH", "PTRACE_DETACH"}
      /\ UNCHANGED <<job, dontstop_fastpath, all_stopped, bgq, pc, asked, released, stream, faults, misread>>
  BY <1>0, SignalIs
<1>2. Tail(todo) \in Seq(StepsOf(job.rm, pc)) /\ ~asked /\ pc # "idle"
  <2>1. s.do # "ask"
    BY <1>1
  <2> QED BY <1>0, <1>1, <2>1, AtStep DEF Sound
<1>3. islaunch' = islaunch /\ dontstop' = dontstop /\ IsLinux' = IsLinux /\ IOToolMap' = IOToolMap
      /\ CN2Ranks' = CN2Ranks /\ seqNum' = seqNum
  BY <1>1 DEF islaunch, dontstop, IsLinux, bgq, CN2Ranks
<1>4. TypeOK'
  BY <1>0, <1>1, <1>2, <1>3 DEF TypeOK
<1>5. Sound'
  BY <1>0, <1>1, <1>2, <1>3 DEF Sound
<1>6. Maps'
  BY <1>0, <1>1, <1>3 DEF Maps, IsLinux
<1> QED BY <1>4, <1>5, <1>6 DEF Base

(* The tracer waits for the trap of the task, or finds the task gone. *)
LEMMA WaitIs ==
  ASSUME TypeOK, waitpid
  PROVE  /\ todo # <<>> /\ s.do = "waitpid" /\ IsLinux /\ s.rank \in Tasks /\ pc = "initdone"
         /\ task[s.rank].event \/ task[s.rank].gone
         /\ task' \in [Tasks -> TaskType] /\ \A r \in Tasks : r # s.rank => task'[r] = task[r]
         /\ task'[s.rank].gone = task[s.rank].gone /\ task'[s.rank].gated = task[s.rank].gated
         /\ task'[s.rank].event = FALSE /\ task'[s.rank].held = task[s.rank].held
         /\ task'[s.rank].sigstop = task[s.rank].sigstop /\ task'[s.rank].stopped = task[s.rank].stopped
         /\ todo' = Tail(todo) /\ asked' = FALSE /\ rc' = rc
         /\ UNCHANGED <<job, dontstop_fastpath, all_stopped, bgq, pc, released, stream, faults, misread>>
<1>1. /\ todo # <<>> /\ s.do = "waitpid" /\ (task[s.rank].event \/ task[s.rank].gone)
      /\ task' = [task EXCEPT ![s.rank] = [task[s.rank] EXCEPT !.event = FALSE]]
      /\ todo' = Tail(todo) /\ asked' = FALSE /\ rc' = rc
      /\ UNCHANGED <<job, dontstop_fastpath, all_stopped, bgq, pc, released, stream, faults, misread>>
  BY DEF waitpid, Step, s, Goes
<1>2. s.do \in Signals /\ s.rank \in Tasks
  BY <1>1, AtStep DEF Fits, Signals
<1>3. IsLinux
  BY <1>2, <1>1, StepKinds
<1>4. pc = "initdone"
  <2>1. "waitpid" \in LinuxKinds(pc)
    BY <1>1, <1>3, StepKinds DEF Kinds, IsLinux
  <2> QED BY <2>1 DEF LinuxKinds
<1> DEFINE t == task[s.rank]
           u == [t EXCEPT !.event = FALSE]
<1>5. task \in [Tasks -> TaskType] /\ t \in TaskType /\ s.rank \in Tasks
  BY <1>2 DEF TypeOK
<1>6. /\ u \in TaskType /\ u.gone = t.gone /\ u.gated = t.gated /\ u.event = FALSE /\ u.held = t.held
      /\ u.sigstop = t.sigstop /\ u.stopped = t.stopped
  <2> HIDE DEF t
  <2> QED BY <1>5 DEF TaskType
<1>7. task' = [task EXCEPT ![s.rank] = u]
  BY <1>1
<1> HIDE DEF u
<1>8. task' \in [Tasks -> TaskType] /\ task'[s.rank] = u /\ \A q \in Tasks : q # s.rank => task'[q] = task[q]
  BY <1>5, <1>6, <1>7, OneTask
<1> QED BY <1>1, <1>2, <1>3, <1>4, <1>6, <1>8

LEMMA BaseWait ==
  ASSUME Base, waitpid
  PROVE  Base'
<1>0. TypeOK /\ Sound /\ Maps
  BY DEF Base
<1>1. /\ todo # <<>> /\ s.do = "waitpid" /\ IsLinux /\ s.rank \in Tasks /\ pc = "initdone"
      /\ task' \in [Tasks -> TaskType] /\ \A r \in Tasks : r # s.rank => task'[r] = task[r]
      /\ task'[s.rank].gone = task[s.rank].gone /\ task'[s.rank].gated = task[s.rank].gated
      /\ task'[s.rank].event = FALSE
      /\ todo' = Tail(todo) /\ asked' = FALSE /\ rc' = rc
      /\ UNCHANGED <<job, dontstop_fastpath, all_stopped, bgq, pc, released, stream, faults, misread>>
  BY <1>0, WaitIs
<1>2. Tail(todo) \in Seq(StepsOf(job.rm, pc))
  BY <1>0, <1>1, AtStep
<1>3. islaunch' = islaunch /\ dontstop' = dontstop /\ IsLinux' = IsLinux /\ IOToolMap' = IOToolMap
      /\ CN2Ranks' = CN2Ranks /\ seqNum' = seqNum
  BY <1>1 DEF islaunch, dontstop, IsLinux, bgq, CN2Ranks
<1>4. TypeOK'
  BY <1>0, <1>1, <1>2, <1>3 DEF TypeOK
<1>5. Sound'
  BY <1>0, <1>1, <1>2, <1>3 DEF Sound
<1>6. Maps'
  BY <1>0, <1>1, <1>3 DEF Maps, IsLinux
<1> QED BY <1>4, <1>5, <1>6 DEF Base

(* The steps that touch neither the tasks nor what is asked. *)
LEMMA BaseLocal ==
  ASSUME Base, Connect \/ Cleanup \/ SetFlag \/ Refused
  PROVE  Base'
<1>0. TypeOK /\ Sound /\ Maps
  BY DEF Base
<1>1. todo # <<>> /\ s.do \in {"connect", "cleanup", "all_stopped", "EINVAL"}
      /\ UNCHANGED <<job, dontstop_fastpath, pc, released, task, misread>> /\ asked' = FALSE
      /\ seqNum' = seqNum
  BY DEF Connect, Cleanup, SetFlag, Refused, Step, s, Goes, Fails, bgq, env
<1>2. /\ s \in StepSet /\ Fits(job.rm, pc, s) /\ Tail(todo) \in Seq(StepsOf(job.rm, pc))
      /\ <<>> \in Seq(StepsOf(job.rm, pc)) /\ pc # "idle"
      /\ Range(todo) = {s} \cup Range(Tail(todo))
  BY <1>0, <1>1, AtStep DEF Sound
<1>3. /\ IOToolMap \in [ranks : [Nodes -> Seq(Tasks)], socks : SUBSET Nodes] /\ faults \in Nat
      /\ stream \in [Channels -> Seq(Message)] /\ all_stopped \in {0, 1} /\ rc \in {"LMON_OK", "LMON_EINVAL"}
      /\ seqNum \in Nat /\ misread \in BOOLEAN /\ job.rm \in RMs
  BY <1>0 DEF TypeOK
<1>4. dontstop' = dontstop
  BY <1>1 DEF dontstop
<1>5. CASE Connect
  <2>1. /\ stream' = stream /\ all_stopped' = all_stopped /\ s.do = "connect"
        /\ \/ todo' = Tail(todo) /\ rc' = rc /\ IOToolMap' = [IOToolMap EXCEPT !.socks = @ \cup {s.rank}] /\ faults' = faults
           \/ faults' = faults + 1 /\ rc' = "LMON_EINVAL" /\ todo' = <<>> /\ IOToolMap' = IOToolMap
    BY <1>5 DEF Connect, Goes, Fails, Step, s
  <2>2. s.rank \in Nodes /\ job.rm = "bgq" /\ pc \in {"init", "tester_init"} /\ ~dontstop_fastpath
    <3>1. job.rm = "bgq"
      <4>1. ~IsLinux
        BY <1>0, <1>1, <2>1, StepKinds DEF Signals
      <4> QED BY <1>0, <1>1, <1>3, <2>1, <4>1, StepKinds DEF RMs, IsLinux
    <3>2. "connect" \in BgqKinds(pc)
      BY <1>0, <1>1, <2>1, <3>1, StepKinds DEF Kinds
    <3> QED BY <1>0, <1>1, <1>2, <2>1, <3>1, <3>2 DEF Fits, BgqKinds, Maps
  <2>3. CASE todo' = Tail(todo) /\ rc' = rc /\ IOToolMap' = [IOToolMap EXCEPT !.socks = @ \cup {s.rank}] /\ faults' = faults
    <3>1. IOToolMap' \in [ranks : [Nodes -> Seq(Tasks)], socks : SUBSET Nodes] /\ IOToolMap'.ranks = IOToolMap.ranks
      BY <1>3, <2>2, <2>3
    <3>5. todo' = Tail(todo) /\ rc' = rc /\ faults' = faults /\ stream' = stream /\ all_stopped' = all_stopped
      BY <2>1, <2>3
    <3>2. TypeOK' /\ Sound'
      <4>9. /\ todo' \in Seq(StepsOf(job.rm, pc)) /\ rc' \in {"LMON_OK", "LMON_EINVAL"}
            /\ IOToolMap' \in [ranks : [Nodes -> Seq(Tasks)], socks : SUBSET Nodes] /\ seqNum' \in Nat
            /\ all_stopped' \in {0, 1} /\ stream' \in [Channels -> Seq(Message)] /\ misread' \in BOOLEAN
            /\ faults' \in Nat /\ faults' >= faults
        BY <1>1, <1>2, <1>3, <3>1, <3>5
      <4> QED BY <1>0, <1>1, <1>2, <4>9, TailTypes
    <3>3. CN2Ranks' = CN2Ranks
      BY <3>1 DEF CN2Ranks
    <3>4. Maps'
      BY <1>0, <1>1, <1>4, <2>2, <3>3 DEF Maps
    <3> QED BY <3>2, <3>4 DEF Base
  <2>4. CASE faults' = faults + 1 /\ rc' = "LMON_EINVAL" /\ todo' = <<>> /\ IOToolMap' = IOToolMap
    <3>1. TypeOK' /\ Sound'
      <4>9. /\ todo' \in Seq(StepsOf(job.rm, pc)) /\ rc' \in {"LMON_OK", "LMON_EINVAL"}
            /\ IOToolMap' \in [ranks : [Nodes -> Seq(Tasks)], socks : SUBSET Nodes] /\ seqNum' \in Nat
            /\ all_stopped' \in {0, 1} /\ stream' \in [Channels -> Seq(Message)] /\ misread' \in BOOLEAN
            /\ faults' \in Nat /\ faults' >= faults
        BY <1>1, <1>2, <1>3, <2>1, <2>4
      <4> QED BY <1>0, <1>1, <1>2, <4>9, TailTypes
    <3>2. Maps'
      BY <1>0, <1>1, <2>2, <2>4, TailMaps
    <3> QED BY <3>1, <3>2 DEF Base
  <2> QED BY <2>1, <2>3, <2>4
<1>6. CASE Cleanup
  <2>1. /\ todo' = Tail(todo) /\ rc' = rc /\ IOToolMap' = [ranks |-> [n \in Nodes |-> <<>>], socks |-> {}]
        /\ stream' = [c \in Channels |-> <<>>] /\ all_stopped' = all_stopped /\ faults' = faults
        /\ s.do = "cleanup"
    BY <1>6 DEF Cleanup, Goes, Step, s
  <2>2. /\ IOToolMap' \in [ranks : [Nodes -> Seq(Tasks)], socks : SUBSET Nodes]
        /\ stream' \in [Channels -> Seq(Message)]
    BY <2>1
  <2>3. TypeOK' /\ Sound'
    <3>9. /\ todo' \in Seq(StepsOf(job.rm, pc)) /\ rc' \in {"LMON_OK", "LMON_EINVAL"}
          /\ IOToolMap' \in [ranks : [Nodes -> Seq(Tasks)], socks : SUBSET Nodes] /\ seqNum' \in Nat
          /\ all_stopped' \in {0, 1} /\ stream' \in [Channels -> Seq(Message)] /\ misread' \in BOOLEAN
          /\ faults' \in Nat /\ faults' >= faults
      BY <1>1, <1>2, <1>3, <2>1, <2>2
    <3> QED BY <1>0, <1>1, <1>2, <3>9, TailTypes
  <2>4. CN2Ranks' = EmptyMap /\ IOToolMap'.socks = {}
    BY <2>1 DEF CN2Ranks, EmptyMap
  <2>5. job.rm = "bgq" => pc \in {"initdone", "done"}
    <3> SUFFICES ASSUME job.rm = "bgq" PROVE pc \in {"initdone", "done"}
      OBVIOUS
    <3>1. "cleanup" \in BgqKinds(pc)
      BY <1>0, <1>1, <2>1, StepKinds DEF Kinds
    <3> QED BY <3>1 DEF BgqKinds
  <2>6. Maps'
    BY <1>0, <1>1, <1>4, <2>1, <2>4, <2>5 DEF Maps
  <2> QED BY <2>3, <2>6 DEF Base
<1>7. CASE SetFlag
  <2>1. /\ todo' = Tail(todo) /\ rc' = rc /\ all_stopped' = s.rank /\ IOToolMap' = IOToolMap
        /\ stream' = stream /\ faults' = faults /\ s.do = "all_stopped"
    BY <1>7 DEF SetFlag, Goes, Step, s, bgq, env
  <2>2. s.rank \in {0, 1}
    BY <1>2, <2>1 DEF Fits
  <2>3. TypeOK' /\ Sound'
    <3>9. /\ todo' \in Seq(StepsOf(job.rm, pc)) /\ rc' \in {"LMON_OK", "LMON_EINVAL"}
          /\ IOToolMap' \in [ranks : [Nodes -> Seq(Tasks)], socks : SUBSET Nodes] /\ seqNum' \in Nat
          /\ all_stopped' \in {0, 1} /\ stream' \in [Channels -> Seq(Message)] /\ misread' \in BOOLEAN
          /\ faults' \in Nat /\ faults' >= faults
      BY <1>1, <1>2, <1>3, <2>1, <2>2
    <3> QED BY <1>0, <1>1, <1>2, <3>9, TailTypes
  <2>4. Maps'
    BY <1>0, <1>1, <2>1, TailMaps
  <2> QED BY <2>3, <2>4 DEF Base
<1>8. CASE Refused
  <2>1. /\ todo' = <<>> /\ rc' = "LMON_EINVAL" /\ all_stopped' = all_stopped /\ IOToolMap' = IOToolMap
        /\ stream' = stream /\ faults' = faults /\ s.do = "EINVAL"
    BY <1>8 DEF Refused, Fails, Step, s, bgq, env
  <2>2. TypeOK' /\ Sound'
    <3>9. /\ todo' \in Seq(StepsOf(job.rm, pc)) /\ rc' \in {"LMON_OK", "LMON_EINVAL"}
          /\ IOToolMap' \in [ranks : [Nodes -> Seq(Tasks)], socks : SUBSET Nodes] /\ seqNum' \in Nat
          /\ all_stopped' \in {0, 1} /\ stream' \in [Channels -> Seq(Message)] /\ misread' \in BOOLEAN
          /\ faults' \in Nat /\ faults' >= faults
      BY <1>1, <1>2, <1>3, <2>1
    <3> QED BY <1>0, <1>1, <1>2, <3>9, TailTypes
  <2>3. job.rm # "bgq"
    BY <1>0, <1>1, <2>1, StepKinds
  <2>4. Maps'
    BY <1>0, <1>1, <2>1, <2>3, TailMaps
  <2> QED BY <2>2, <2>4 DEF Base
<1> QED BY <1>5, <1>6, <1>7, <1>8

(* The barrier, the resource manager, and the tasks by themselves. *)
LEMMA ReleaseIs ==
  ASSUME TypeOK, NEW r \in Tasks, RMReleases(r)
  PROVE  /\ released /\ task[r].gated /\ task' \in [Tasks -> TaskType]
         /\ \A q \in Tasks : q # r => task'[q] = task[q]
         /\ task'[r].gone = task[r].gone /\ task'[r].gated = FALSE /\ task'[r].held = task[r].held
         /\ task'[r].traced = task[r].traced
         /\ task'[r].event = (IF job.mpao THEN task[r].traced ELSE task[r].event)
         /\ task'[r].sigstop = (IF job.mpao THEN FALSE ELSE task[r].sigstop)
         /\ task'[r].stopped = (IF job.mpao THEN FALSE ELSE task[r].stopped)
         /\ UNCHANGED <<Others, released, stream, faults>>
<1> DEFINE t == task[r]
           u == IF ~job.mpao THEN [t EXCEPT !.gated = FALSE]
                ELSE [t EXCEPT !.gated = FALSE, !.sigstop = FALSE, !.stopped = FALSE, !.event = t.traced]
<1>1. released /\ t.gated /\ task' = [task EXCEPT ![r] = u] /\ UNCHANGED <<Others, released, stream, faults>>
  BY DEF RMReleases
<1>2. task \in [Tasks -> TaskType] /\ t \in TaskType /\ job.mpao \in BOOLEAN
  BY DEF TypeOK
<1>3. /\ u \in TaskType /\ u.gone = t.gone /\ u.gated = FALSE /\ u.held = t.held /\ u.traced = t.traced
      /\ u.event = (IF job.mpao THEN t.traced ELSE t.event)
      /\ u.sigstop = (IF job.mpao THEN FALSE ELSE t.sigstop)
      /\ u.stopped = (IF job.mpao THEN FALSE ELSE t.stopped)
  <2> HIDE DEF t
  <2>1. CASE job.mpao
    <3>1. u = [t EXCEPT !.gated = FALSE, !.sigstop = FALSE, !.stopped = FALSE, !.event = t.traced]
      BY <2>1
    <3> HIDE DEF u
    <3> QED BY <1>2, <2>1, <3>1 DEF TaskType
  <2>2. CASE ~job.mpao
    <3>1. u = [t EXCEPT !.gated = FALSE]
      BY <2>2
    <3> HIDE DEF u
    <3> QED BY <1>2, <2>2, <3>1 DEF TaskType
  <2> QED BY <2>1, <2>2
<1> HIDE DEF u
<1>4. task' \in [Tasks -> TaskType] /\ task'[r] = u /\ \A q \in Tasks : q # r => task'[q] = task[q]
  BY <1>1, <1>2, <1>3, OneTask
<1> QED BY <1>1, <1>3, <1>4

Notice(r) == [type |-> "Notify", rank |-> r, seq |-> 0, ok |-> TRUE]

LEMMA StopIs ==
  ASSUME TypeOK, NEW r \in Tasks, Stops(r)
  PROVE  /\ task[r].sigstop /\ ~task[r].stopped
         /\ ~IsLinux => ~task[r].gated /\ task[r].held # Threads
         /\ task' \in [Tasks -> TaskType] /\ \A q \in Tasks : q # r => task'[q] = task[q]
         /\ task'[r].gone = task[r].gone /\ task'[r].gated = task[r].gated /\ task'[r].held = task[r].held
         /\ task'[r].traced = task[r].traced /\ task'[r].event = task[r].event
         /\ task'[r].sigstop = FALSE /\ task'[r].stopped = TRUE
         /\ IsLinux => stream' = stream
         /\ ~IsLinux => /\ ChanOf(job.rm, r) \in Channels /\ Notice(r) \in Message
                        /\ stream' = [stream EXCEPT ![ChanOf(job.rm, r)] = Append(@, Notice(r))]
         /\ UNCHANGED <<Others, released, faults>>
<1> DEFINE t == task[r]
           u == [t EXCEPT !.sigstop = FALSE, !.stopped = TRUE]
<1>1. /\ t.sigstop /\ ~t.stopped /\ (~IsLinux => ~t.gated /\ t.held # Threads)
      /\ task' = [task EXCEPT ![r] = u] /\ UNCHANGED <<Others, released, faults>>
  BY DEF Stops
<1>2. task \in [Tasks -> TaskType] /\ t \in TaskType
  BY DEF TypeOK
<1>3. /\ u \in TaskType /\ u.gone = t.gone /\ u.gated = t.gated /\ u.held = t.held /\ u.traced = t.traced
      /\ u.event = t.event /\ u.sigstop = FALSE /\ u.stopped = TRUE
  <2> HIDE DEF t
  <2> QED BY <1>2 DEF TaskType
<1> HIDE DEF u
<1>4. task' \in [Tasks -> TaskType] /\ task'[r] = u /\ \A q \in Tasks : q # r => task'[q] = task[q]
  BY <1>1, <1>2, <1>3, OneTask
<1>5. IsLinux => stream' = stream
  BY DEF Stops
<1>6. ~IsLinux => stream' = [stream EXCEPT ![ChanOf(job.rm, r)] = Append(@, Notice(r))]
  BY DEF Stops, Put, ChanOf, Notice
<1>7. ChanOf(job.rm, r) \in Channels
  BY Cnodeid DEF ChanOf, Channels
<1>8. Notice(r) \in Message
  BY ProcCtlAssumption DEF Notice, Message, Tasks
<1> QED BY <1>1, <1>3, <1>4, <1>5, <1>6, <1>7, <1>8

LEMMA DeathIs ==
  ASSUME TypeOK, NEW r \in Tasks, Dies(r)
  PROVE  /\ IsLinux /\ faults' = faults + 1
         /\ task' \in [Tasks -> TaskType] /\ \A q \in Tasks : q # r => task'[q] = task[q]
         /\ task'[r].gone = TRUE /\ task'[r].gated = task[r].gated /\ task'[r].held = task[r].held
         /\ task'[r].event = task[r].event
         /\ UNCHANGED <<Others, released, stream>>
<1> DEFINE t == task[r]
           u == [t EXCEPT !.gone = TRUE]
<1>1. /\ IsLinux /\ faults' = faults + 1
      /\ task' = [task EXCEPT ![r] = u] /\ UNCHANGED <<Others, released, stream>>
  BY DEF Dies
<1>2. task \in [Tasks -> TaskType] /\ t \in TaskType
  BY DEF TypeOK
<1>3. /\ u \in TaskType /\ u.gone = TRUE /\ u.gated = t.gated /\ u.held = t.held /\ u.event = t.event
  <2> HIDE DEF t
  <2> QED BY <1>2 DEF TaskType
<1> HIDE DEF u
<1>4. task' \in [Tasks -> TaskType] /\ task'[r] = u /\ \A q \in Tasks : q # r => task'[q] = task[q]
  BY <1>1, <1>2, <1>3, OneTask
<1> QED BY <1>1, <1>3, <1>4

LEMMA BaseSystem ==
  ASSUME Base,
         \/ RMContinues
         \/ \E r \in Tasks : RMReleases(r) \/ Stops(r) \/ Dies(r)
         \/ UNCHANGED vars
  PROVE  Base'
<1>0. TypeOK /\ Sound /\ Maps
  BY DEF Base
<1>1. UNCHANGED <<job, dontstop_fastpath, all_stopped, bgq, pc, call, misread>>
  BY DEF RMContinues, RMReleases, Stops, Dies, Others, vars
<1>2. islaunch' = islaunch /\ dontstop' = dontstop /\ IsLinux' = IsLinux /\ IOToolMap' = IOToolMap
      /\ CN2Ranks' = CN2Ranks /\ seqNum' = seqNum /\ todo' = todo /\ asked' = asked /\ rc' = rc /\ s' = s
  BY <1>1 DEF islaunch, dontstop, IsLinux, bgq, CN2Ranks, call, s
<1>3. Maps'
  BY <1>0, <1>1, <1>2 DEF Maps
<1>4. CASE RMContinues
  <2>1. released' = TRUE /\ pc \notin {"idle", "init"} /\ UNCHANGED <<task, stream, faults>>
    BY <1>4 DEF RMContinues
  <2>2. TypeOK' /\ Sound'
    BY <1>0, <1>1, <1>2, <2>1 DEF TypeOK, Sound
  <2> QED BY <1>3, <2>2 DEF Base
<1>5. CASE \E r \in Tasks : RMReleases(r)
  <2>1. PICK r \in Tasks : RMReleases(r)
    BY <1>5
  <2>2. /\ released /\ task[r].gated /\ task' \in [Tasks -> TaskType]
        /\ \A q \in Tasks : q # r => task'[q] = task[q]
        /\ task'[r].gone = task[r].gone /\ task'[r].gated = FALSE
        /\ UNCHANGED <<released, stream, faults>>
    BY <1>0, <2>1, ReleaseIs
  <2>3. TypeOK'
    BY <1>0, <1>1, <1>2, <2>2 DEF TypeOK
  <2>4. Sound'
    BY <1>0, <1>1, <1>2, <2>2 DEF Sound
  <2> QED BY <1>3, <2>3, <2>4 DEF Base
<1>6. CASE \E r \in Tasks : Stops(r)
  <2>1. PICK r \in Tasks : Stops(r)
    BY <1>6
  <2>2. /\ task' \in [Tasks -> TaskType] /\ \A q \in Tasks : q # r => task'[q] = task[q]
        /\ task'[r].gone = task[r].gone /\ task'[r].gated = task[r].gated /\ task'[r].event = task[r].event
        /\ IsLinux => stream' = stream
        /\ ~IsLinux => /\ ChanOf(job.rm, r) \in Channels /\ Notice(r) \in Message
                       /\ stream' = [stream EXCEPT ![ChanOf(job.rm, r)] = Append(@, Notice(r))]
        /\ UNCHANGED <<released, faults>>
    BY <1>0, <2>1, StopIs
  <2>3. stream' \in [Channels -> Seq(Message)]
    <3>1. stream \in [Channels -> Seq(Message)]
      BY <1>0 DEF TypeOK
    <3> QED BY <2>2, <3>1, StreamPut
  <2>4. TypeOK'
    BY <1>0, <1>1, <1>2, <2>2, <2>3 DEF TypeOK
  <2>5. Sound'
    BY <1>0, <1>1, <1>2, <2>2 DEF Sound
  <2> QED BY <1>3, <2>4, <2>5 DEF Base
<1>7. CASE \E r \in Tasks : Dies(r)
  <2>1. PICK r \in Tasks : Dies(r)
    BY <1>7
  <2>2. /\ IsLinux /\ faults' = faults + 1
        /\ task' \in [Tasks -> TaskType] /\ \A q \in Tasks : q # r => task'[q] = task[q]
        /\ task'[r].gone = TRUE /\ task'[r].gated = task[r].gated /\ task'[r].event = task[r].event
        /\ UNCHANGED <<released, stream>>
    BY <1>0, <2>1, DeathIs
  <2>3. faults \in Nat /\ faults' \in Nat /\ faults' > 0
    BY <1>0, <2>2 DEF TypeOK
  <2>4. TypeOK'
    BY <1>0, <1>1, <1>2, <2>2, <2>3 DEF TypeOK
  <2>5. Sound'
    BY <1>0, <1>1, <1>2, <2>2, <2>3 DEF Sound
  <2> QED BY <1>3, <2>4, <2>5 DEF Base
<1>8. CASE UNCHANGED vars
  <2>1. UNCHANGED <<task, stream, released, faults>>
    BY <1>8 DEF vars, env
  <2>2. TypeOK' /\ Sound'
    BY <1>0, <1>1, <1>2, <2>1 DEF TypeOK, Sound
  <2> QED BY <1>3, <2>2 DEF Base
<1> QED BY <1>4, <1>5, <1>6, <1>7, <1>8

LEMMA BaseBarrier ==
  ASSUME Base, Barrier
  PROVE  Base'
<1>0. TypeOK /\ Sound /\ Maps
  BY DEF Base
<1>1. /\ pc = "init" /\ todo = <<>> /\ pc' = "barrier"
      /\ UNCHANGED <<job, dontstop_fastpath, all_stopped, bgq, call, env, misread>>
  BY DEF Barrier, Ready
<1>2. islaunch' = islaunch /\ dontstop' = dontstop /\ IsLinux' = IsLinux /\ IOToolMap' = IOToolMap
      /\ CN2Ranks' = CN2Ranks /\ seqNum' = seqNum /\ todo' = todo /\ asked' = asked /\ rc' = rc /\ s' = s
      /\ UNCHANGED <<task, stream, released, faults>>
  BY <1>1 DEF islaunch, dontstop, IsLinux, bgq, CN2Ranks, call, s, env
<1>3. todo' \in Seq(StepsOf(job.rm, "barrier"))
  BY <1>1, <1>2, EmptyCall
<1>4. TypeOK'
  BY <1>0, <1>1, <1>2, <1>3 DEF TypeOK, Steps
<1>5. Sound' /\ Maps'
  BY <1>0, <1>1, <1>2 DEF Sound, Maps
<1> QED BY <1>4, <1>5 DEF Base

LEMMA BaseNext ==
  ASSUME Base, [Next]_vars
  PROVE  Base'
  BY BaseCall, BaseInitCalls, BaseSent, BaseRead, BaseSignal, BaseWait, BaseLocal, BaseSystem, BaseBarrier
  DEF Next, Daemon, Tool, System

LEMMA InitBase == Init => Base
<1> SUFFICES ASSUME Init PROVE Base
  OBVIOUS
<1>1. /\ job \in [rm : RMs, mode : {"launch", "launch_dontstop", "attach", "attach_stop"},
                  mpao : BOOLEAN, v3 : BOOLEAN]
      /\ (job.mpao => job.rm = "slurm") /\ (job.v3 => job.rm = "bgp")
      /\ dontstop_fastpath = FALSE /\ all_stopped = 0
      /\ IOToolMap = [ranks |-> [n \in Nodes |-> <<>>], socks |-> {}]
      /\ seqNum = 0 /\ pc = "idle" /\ todo = <<>> /\ asked = FALSE /\ rc = "LMON_OK"
      /\ released = FALSE /\ task = [r \in Tasks |-> NewTask]
      /\ stream = [c \in Channels |-> <<>>] /\ misread = FALSE /\ faults = 0
  BY DEF Init
<1>2. NewTask \in TaskType /\ NewTask.gone = FALSE /\ NewTask.gated = islaunch /\ NewTask.event = FALSE
      /\ NewTask.stopped = FALSE /\ NewTask.sigstop = FALSE /\ NewTask.held = {} /\ NewTask.traced = FALSE
  <2>1. islaunch \in BOOLEAN
    BY DEF islaunch
  <2> QED BY <2>1 DEF NewTask, TaskType
<1> HIDE DEF NewTask
<1>3. IOToolMap \in [ranks : [Nodes -> Seq(Tasks)], socks : SUBSET Nodes] /\ CN2Ranks = EmptyMap
      /\ IOToolMap.socks = {}
  BY <1>1 DEF CN2Ranks, EmptyMap
<1>4. task \in [Tasks -> TaskType] /\ stream \in [Channels -> Seq(Message)] /\ "idle" \in Steps
      /\ todo \in Seq(StepsOf(job.rm, pc))
  BY <1>1, <1>2 DEF Steps
<1>5. TypeOK
  BY <1>1, <1>3, <1>4 DEF TypeOK
<1>6. Sound
  BY <1>1, <1>2 DEF Sound
<1>7. Maps
  BY <1>1, <1>3 DEF Maps
<1> QED BY <1>5, <1>6, <1>7 DEF Base

-----------------------------------------------------------------------------
(* Linux: what has been signalled, or is still to be *)

Down(r) == task[r].gone \/ task[r].sigstop \/ task[r].stopped
Left(what, r) == Do(what, r) \in Range(todo)

\* the tasks are traced until initdone, and are stopped only there
Traces == job.rm = "slurm" /\ islaunch

LinuxTask(r) ==
  /\ task[r].held = {}
  /\ pc = "init" /\ ~Traces => Down(r) \/ Left("SIGSTOP", r)
  /\ pc = "barrier" /\ ~Traces => Down(r)
  /\ pc = "initdone" =>
       /\ Down(r) \/ Left("SIGSTOP", r)
       /\ todo # <<>> /\ First(Head(todo)) => Left("SIGSTOP", r)
       /\ job.mpao /\ task[r].gated => task[r].gone \/ Left("waitpid", r)
  /\ pc \in {"run", "tester_run"} =>
       Left("SIGCONT", r) \/ task[r].gone \/ (~task[r].sigstop /\ ~task[r].stopped)

Linux == IsLinux =>
  /\ ~asked /\ ~misread /\ \A c \in Channels : stream[c] = <<>>
  /\ faults = 0 => rc = "LMON_OK" \/ pc = "perf"
  /\ pc = "initdone" => Phased(todo)
  /\ \A r \in Tasks : LinuxTask(r)

(* Taking a step leaves the others. *)
LEMMA StillLeft ==
  ASSUME TypeOK, todo # <<>>, NEW q, q = Tail(todo), NEW what, NEW r,
         Left(what, r), s.do # what \/ s.rank # r
  PROVE  Do(what, r) \in Range(q)
<1>1. Range(todo) = {s} \cup Range(Tail(todo))
  BY AtStep
<1>2. Do(what, r).do = what /\ Do(what, r).rank = r
  BY DEF Do
<1> HIDE DEF Do
<1> QED BY <1>1, <1>2 DEF Left

LEMMA HeadLeft ==
  ASSUME TypeOK, todo # <<>>, NEW q, q = Tail(todo), q # <<>>
  PROVE  Head(q) \in Range(todo)
<1> DEFINE A == StepsOf(job.rm, pc)
<1>1. q \in Seq(A) /\ Range(todo) = {s} \cup Range(q)
  BY AtStep
<1> HIDE DEF A
<1>2. Range(q) = {Head(q)} \cup Range(Tail(q))
  BY <1>1, HeadOrTail
<1> QED BY <1>1, <1>2

LEMMA LinuxSignal ==
  ASSUME Base, Linux, Signal
  PROVE  Linux'
<1>0. TypeOK /\ Sound
  BY DEF Base
<1>1. /\ todo # <<>> /\ IsLinux /\ s.rank \in Tasks
      /\ s.do \in {"SIGSTOP", "SIGCONT", "PTRACE_ATTACH", "PTRACE_DETACH"}
      /\ task' \in [Tasks -> TaskType] /\ \A r \in Tasks : r # s.rank => task'[r] = task[r]
      /\ task'[s.rank].gone = task[s.rank].gone /\ task'[s.rank].gated = task[s.rank].gated
      /\ task'[s.rank].event = task[s.rank].event /\ task'[s.rank].held = task[s.rank].held
      /\ task[s.rank].gone \/
           /\ task'[s.rank].sigstop =
                IF s.do = "SIGSTOP" THEN TRUE ELSE IF s.do = "SIGCONT" THEN FALSE ELSE task[s.rank].sigstop
           /\ task'[s.rank].stopped = IF s.do = "SIGCONT" THEN FALSE ELSE task[s.rank].stopped
      /\ rc' = rc \/ task[s.rank].gone
      /\ todo' = Tail(todo)
      /\ UNCHANGED <<job, dontstop_fastpath, all_stopped, bgq, pc, asked, released, stream, faults, misread>>
  BY <1>0, SignalIs
<1>2. s.do \in LinuxKinds(pc)
  BY <1>0, <1>1, StepKinds DEF Kinds, IsLinux
<1>3. islaunch' = islaunch /\ IsLinux' = IsLinux /\ Traces' = Traces
  BY <1>1 DEF islaunch, IsLinux, Traces
<1>4. /\ ~asked /\ ~misread /\ \A c \in Channels : stream[c] = <<>>
      /\ faults = 0 => rc = "LMON_OK" \/ pc = "perf"
      /\ pc = "initdone" => Phased(todo)
      /\ \A r \in Tasks : LinuxTask(r)
  BY <1>1 DEF Linux
<1>5. faults = 0 => rc' = "LMON_OK" \/ pc = "perf"
  BY <1>0, <1>1, <1>4 DEF Sound
<1>6. pc = "initdone" => Phased(todo')
  <2> DEFINE A == StepsOf(job.rm, pc)
  <2>1. todo \in Seq(A)
    BY <1>0 DEF TypeOK
  <2> HIDE DEF A
  <2> QED BY <1>1, <1>4, <2>1, TailKeeps
<1>7. ASSUME pc = "initdone", todo' # <<>> PROVE ~First(Head(todo'))
  <2> DEFINE A == StepsOf(job.rm, pc)
  <2>1. todo \in Seq(A)
    BY <1>0 DEF TypeOK
  <2> HIDE DEF A
  <2>2. ~First(Head(todo))
    BY <1>1 DEF First, Kind, s
  <2>3. \A e \in Range(todo) : ~First(e)
    BY <1>1, <1>4, <1>7, <2>1, <2>2, NoneFirst
  <2> QED BY <1>0, <1>1, <1>7, <2>3, HeadLeft
<1>8. ASSUME NEW r \in Tasks PROVE LinuxTask(r)'
  <2>1. LinuxTask(r) /\ pc' = pc /\ job' = job
    BY <1>1, <1>4
  <2>2. CASE r # s.rank
    <3>1. task'[r] = task[r]
      BY <1>1, <2>2
    <3>2. \A what : Left(what, r) => Do(what, r) \in Range(todo')
      BY <1>0, <1>1, <2>2, StillLeft
    <3>3. Down(r)' = Down(r)
      BY <3>1 DEF Down
    <3> QED BY <1>3, <1>7, <2>1, <3>1, <3>2, <3>3 DEF LinuxTask, Left
  <2>3. CASE r = s.rank
    <3>1. \A what : what # s.do /\ Left(what, r) => Do(what, r) \in Range(todo')
      BY <1>0, <1>1, <2>3, StillLeft
    <3>2. CASE s.do \in {"SIGSTOP", "PTRACE_ATTACH", "PTRACE_DETACH"}
      <4>1. pc \notin {"run", "tester_run"}
        BY <1>2, <3>2 DEF LinuxKinds
      <4>2. (Down(r) => Down(r)') /\ (s.do = "SIGSTOP" => Down(r)')
        BY <1>1, <2>3, <3>2 DEF Down
      <4>3. /\ "SIGSTOP" # s.do /\ Left("SIGSTOP", r) => Left("SIGSTOP", r)'
            /\ Left("waitpid", r) => Left("waitpid", r)'
        BY <3>1, <3>2 DEF Left
      <4>4. task'[r].held = task[r].held /\ task'[r].gone = task[r].gone /\ task'[r].gated = task[r].gated
        BY <1>1, <2>3
      <4> QED BY <1>1, <1>3, <1>7, <2>1, <4>1, <4>2, <4>3, <4>4 DEF LinuxTask
    <3>3. CASE s.do = "SIGCONT"
      <4>1. pc \in {"run", "tester_run"}
        BY <1>2, <3>3 DEF LinuxKinds
      <4>2. task'[r].held = task[r].held /\ task'[r].gone = task[r].gone
            /\ (task[r].gone \/ (~task'[r].sigstop /\ ~task'[r].stopped))
        BY <1>1, <2>3, <3>3
      <4> QED BY <2>1, <4>1, <4>2 DEF LinuxTask
    <3> QED BY <1>1, <3>2, <3>3
  <2> QED BY <2>2, <2>3
<1>9. stream' = stream /\ asked' = asked /\ misread' = misread /\ faults' = faults /\ pc' = pc
  BY <1>1
<1> QED BY <1>4, <1>5, <1>6, <1>8, <1>9 DEF Linux

LEMMA LinuxWait ==
  ASSUME Base, Linux, waitpid
  PROVE  Linux'
<1>0. TypeOK /\ Sound
  BY DEF Base
<1>1. /\ todo # <<>> /\ s.do = "waitpid" /\ IsLinux /\ s.rank \in Tasks /\ pc = "initdone"
      /\ task[s.rank].event \/ task[s.rank].gone
      /\ task' \in [Tasks -> TaskType] /\ \A r \in Tasks : r # s.rank => task'[r] = task[r]
      /\ task'[s.rank].gone = task[s.rank].gone /\ task'[s.rank].gated = task[s.rank].gated
      /\ task'[s.rank].event = FALSE /\ task'[s.rank].held = task[s.rank].held
      /\ task'[s.rank].sigstop = task[s.rank].sigstop /\ task'[s.rank].stopped = task[s.rank].stopped
      /\ todo' = Tail(todo) /\ asked' = FALSE /\ rc' = rc
      /\ UNCHANGED <<job, dontstop_fastpath, all_stopped, bgq, pc, released, stream, faults, misread>>
  BY <1>0, WaitIs
<1>2. islaunch' = islaunch /\ IsLinux' = IsLinux /\ Traces' = Traces
  BY <1>1 DEF islaunch, IsLinux, Traces
<1>3. /\ ~asked /\ ~misread /\ \A c \in Channels : stream[c] = <<>>
      /\ faults = 0 => rc = "LMON_OK" \/ pc = "perf"
      /\ Phased(todo)
      /\ \A r \in Tasks : LinuxTask(r)
  BY <1>1 DEF Linux
<1>4. Phased(todo')
  <2> DEFINE A == StepsOf(job.rm, pc)
  <2>1. todo \in Seq(A)
    BY <1>0 DEF TypeOK
  <2> HIDE DEF A
  <2> QED BY <1>1, <1>3, <2>1, TailKeeps
<1>5. First(Head(todo))
  BY <1>1 DEF First, Kind, s
<1>6. ASSUME NEW r \in Tasks PROVE LinuxTask(r)'
  <2>1. LinuxTask(r) /\ pc' = pc /\ job' = job
    BY <1>1, <1>3
  <2>2. task'[r].gone = task[r].gone /\ task'[r].gated = task[r].gated /\ task'[r].held = task[r].held
        /\ Down(r)' = Down(r)
    BY <1>1 DEF Down
  <2>3. Left("SIGSTOP", r) /\ Left("SIGSTOP", r)'
    <3>1. Left("SIGSTOP", r)
      BY <1>1, <1>5, <2>1 DEF LinuxTask
    <3> QED BY <1>0, <1>1, <3>1, StillLeft DEF Left
  <2>4. job.mpao /\ task[r].gated => task[r].gone \/ Left("waitpid", r)'
    <3>1. CASE r = s.rank
      <4>1. task[r].gated => task[r].gone
        BY <1>0, <1>1, <3>1 DEF Sound
      <4> QED BY <4>1
    <3>2. CASE r # s.rank
      <4>1. Left("waitpid", r) => Left("waitpid", r)'
        BY <1>0, <1>1, <3>2, StillLeft DEF Left
      <4> QED BY <1>1, <2>1, <4>1 DEF LinuxTask
    <3> QED BY <3>1, <3>2
  <2> QED BY <1>1, <2>1, <2>2, <2>3, <2>4 DEF LinuxTask
<1>9. stream' = stream /\ asked' = FALSE /\ misread' = misread /\ faults' = faults /\ pc' = pc
  BY <1>1
<1> QED BY <1>1, <1>3, <1>4, <1>6, <1>9 DEF Linux

(* Entering a call. *)
LEMMA LinuxEnters ==
  ASSUME Base, Linux, IsLinux, NEW p, NEW q, Calls(p, q), UNCHANGED <<job, env, misread>>,
         p # "barrier",
         p = "initdone" => Phased(q) /\ (~Traces => q = <<>>),
         \A r \in Tasks :
           /\ p = "init" /\ ~Traces => Do("SIGSTOP", r) \in Range(q)
           /\ p = "initdone" /\ ~Traces => Down(r)
           /\ p = "initdone" /\ Traces => /\ Do("SIGSTOP", r) \in Range(q)
                                          /\ job.mpao => Do("waitpid", r) \in Range(q)
           /\ p \in {"run", "tester_run"} => Do("SIGCONT", r) \in Range(q)
  PROVE  Linux'
<1>0. TypeOK /\ Sound
  BY DEF Base
<1>1. pc' = p /\ todo' = q /\ asked' = FALSE /\ rc' = "LMON_OK" /\ job' = job /\ task' = task
      /\ stream' = stream /\ faults' = faults /\ misread' = misread
  BY DEF Calls, env
<1>2. islaunch' = islaunch /\ IsLinux' = IsLinux /\ Traces' = Traces
  BY <1>1 DEF islaunch, IsLinux, Traces
<1>3. /\ ~misread /\ \A c \in Channels : stream[c] = <<>>
      /\ \A r \in Tasks : LinuxTask(r)
  BY DEF Linux
<1>4. ASSUME NEW r \in Tasks PROVE LinuxTask(r)'
  <2>1. task'[r].held = {}
    BY <1>1, <1>3 DEF LinuxTask
  <2>2. p = "initdone" /\ job.mpao /\ task[r].gated => Traces
    BY <1>0 DEF Sound, TypeOK, Traces
  <2>3. Down(r)' = Down(r)
    BY <1>1 DEF Down
  <2>4. p \in {"init", "initdone"} => (~Traces /\ p = "initdone" => q = <<>>)
    OBVIOUS
  <2>5. p = "initdone" =>
          /\ Down(r)' \/ Left("SIGSTOP", r)'
          /\ todo' # <<>> /\ First(Head(todo')) => Left("SIGSTOP", r)'
          /\ job'.mpao /\ task'[r].gated => task'[r].gone \/ Left("waitpid", r)'
    BY <1>1, <2>2, <2>3 DEF Left
  <2>6. p = "init" /\ ~Traces' => Left("SIGSTOP", r)'
    BY <1>1, <1>2 DEF Left
  <2>7. p \in {"run", "tester_run"} => Left("SIGCONT", r)'
    BY <1>1 DEF Left
  <2> QED BY <1>1, <2>1, <2>5, <2>6, <2>7 DEF LinuxTask
<1> QED BY <1>1, <1>3, <1>4 DEF Linux

LEMMA LinuxCall ==
  ASSUME Base, Linux, IsLinux,
         \/ HandshakeInit \/ LMON_be_procctl_tester_init
         \/ HandshakeInitDone \/ HandshakeRun \/ TesterPerf \/ TesterStop
         \/ LMON_be_procctl_tester_run \/ Finalize
  PROVE  Linux'
<1>0. TypeOK /\ Sound /\ islaunch \in BOOLEAN /\ dontstop \in BOOLEAN /\ job.rm \in {"slurm", "orte"}
      /\ dontstop_fastpath \in BOOLEAN
  BY Launches DEF Base, TypeOK, IsLinux
<1>1. CASE HandshakeInit \/ LMON_be_procctl_tester_init
  <2>1. PICK p \in {"init", "tester_init"} : \E launch \in BOOLEAN : \E fast \in BOOLEAN :
          InitCall(p, launch, fast) /\ (p = "init" => launch = islaunch)
    <3>1. CASE HandshakeInit
      BY <1>0, <3>1 DEF HandshakeInit
    <3>2. CASE LMON_be_procctl_tester_init
      <4>1. \E fast \in {FALSE, dontstop_fastpath} : InitCall("tester_init", FALSE, fast)
        BY <1>0, <3>2 DEF LMON_be_procctl_tester_init
      <4> QED BY <1>0, <4>1
    <3> QED BY <1>1, <3>1, <3>2
  <2>2. PICK launch \in BOOLEAN, fast \in BOOLEAN : InitCall(p, launch, fast) /\ (p = "init" => launch = islaunch)
    BY <2>1
  <2> DEFINE q == LMON_be_procctl_init(launch, fast)
  <2>3. Calls(p, q) /\ UNCHANGED <<job, env, misread>>
    BY <2>2 DEF InitCall
  <2>4. \A r \in Tasks : p = "init" /\ ~Traces => Do("SIGSTOP", r) \in Range(q)
    <3> SUFFICES ASSUME NEW r \in Tasks, p = "init", ~Traces PROVE Do("SIGSTOP", r) \in Range(q)
      OBVIOUS
    <3>1. ~(job.rm = "slurm" /\ launch) /\ IsLinux /\ launch \in BOOLEAN
      BY <2>2 DEF Traces
    <3> QED BY <3>1, LinuxCalls, Zenon
  <2> HIDE DEF q
  <2>5. p \in {"init", "tester_init"}
    OBVIOUS
  <2> QED BY <2>3, <2>4, <2>5, LinuxEnters
<1>2. CASE HandshakeInitDone
  <2> DEFINE q == LMON_be_procctl_initdone(islaunch)
  <2>1. pc = "barrier" /\ Calls("initdone", q) /\ UNCHANGED <<job, env, misread>>
    BY <1>2 DEF HandshakeInitDone, Ready, Same
  <2>2. Phased(q) /\ (Traces => \A r \in Tasks : /\ Do("SIGSTOP", r) \in Range(q)
                                                 /\ job.mpao => Do("waitpid", r) \in Range(q))
    BY <1>0, LinuxCalls DEF Traces
  <2>3. ~Traces => q = <<>>
    BY <1>0 DEF LMON_be_procctl_initdone, Traces
  <2>4. \A r \in Tasks : ~Traces => Down(r)
    BY <2>1 DEF Linux, LinuxTask
  <2> HIDE DEF q
  <2> QED BY <2>1, <2>2, <2>3, <2>4, LinuxEnters
<1>3. CASE HandshakeRun \/ LMON_be_procctl_tester_run
  <2> DEFINE q == LMON_be_procctl_run
  <2>1. PICK p \in {"run", "tester_run"} : Calls(p, q)
    BY <1>3 DEF HandshakeRun, LMON_be_procctl_tester_run
  <2>2. UNCHANGED <<job, env, misread>>
    BY <1>3 DEF HandshakeRun, LMON_be_procctl_tester_run, Same
  <2>3. \A r \in Tasks : Do("SIGCONT", r) \in Range(q)
    BY <1>0, LinuxCalls
  <2> HIDE DEF q
  <2>4. p \in {"run", "tester_run"}
    OBVIOUS
  <2> QED BY <2>1, <2>2, <2>3, <2>4, LinuxEnters
<1>4. CASE TesterPerf \/ TesterStop \/ Finalize
  <2>1. PICK p \in {"perf", "tester_stop", "done"} : \E q : Calls(p, q)
    BY <1>4 DEF TesterPerf, TesterStop, Finalize
  <2>2. PICK q : Calls(p, q)
    BY <2>1
  <2>3. UNCHANGED <<job, env, misread>>
    BY <1>4 DEF TesterPerf, TesterStop, Finalize, Same
  <2>4. p \in {"perf", "tester_stop", "done"}
    OBVIOUS
  <2> QED BY <2>2, <2>3, <2>4, LinuxEnters
<1> QED BY <1>1, <1>2, <1>3, <1>4

LEMMA LinuxBarrier ==
  ASSUME Base, Linux, IsLinux, Barrier
  PROVE  Linux'
<1>1. /\ pc = "init" /\ todo = <<>> /\ pc' = "barrier" /\ todo' = <<>> /\ asked' = asked /\ rc' = rc
      /\ job' = job /\ task' = task /\ stream' = stream /\ faults' = faults /\ misread' = misread
  BY DEF Barrier, Ready, call, env
<1>2. Range(todo) = {} /\ islaunch' = islaunch /\ IsLinux' = IsLinux /\ Traces' = Traces
  BY <1>1, EmptyCall DEF islaunch, IsLinux, Traces
<1>3. ASSUME NEW r \in Tasks PROVE LinuxTask(r)'
  <2>1. LinuxTask(r)
    BY DEF Linux
  <2>2. Down(r)' = Down(r) /\ ~Left("SIGSTOP", r)
    BY <1>1, <1>2 DEF Down, Left
  <2> QED BY <1>1, <1>2, <2>1, <2>2 DEF LinuxTask
<1> QED BY <1>1, <1>3 DEF Linux

LEMMA LinuxLocal ==
  ASSUME Base, Linux, IsLinux,
         lmon_write_raw \/ lmon_read_raw \/ Connect \/ Cleanup \/ SetFlag \/ Refused
  PROVE  Linux'
<1>0. TypeOK /\ Sound
  BY DEF Base
<1>1. todo # <<>> /\ s.do \in {"ask", "noti", "connect", "cleanup", "all_stopped", "EINVAL"}
  BY DEF lmon_write_raw, lmon_read_raw, Connect, Cleanup, SetFlag, Refused, Step, s
<1>2. s.do = "EINVAL"
  BY <1>0, <1>1, StepKinds DEF Signals
<1>3. pc = "perf"
  <2>1. "EINVAL" \in LinuxKinds(pc)
    BY <1>0, <1>1, <1>2, StepKinds DEF Kinds, IsLinux
  <2> QED BY <2>1 DEF LinuxKinds
<1>4. Refused
  BY <1>2 DEF lmon_write_raw, lmon_read_raw, Connect, Cleanup, SetFlag, Refused, Step, s
<1>5. pc' = "perf" /\ asked' = FALSE /\ task' = task /\ stream' = stream /\ faults' = faults
      /\ misread' = misread
  BY <1>3, <1>4 DEF Refused, Fails, env
<1>6. \A r \in Tasks : LinuxTask(r)'
  BY <1>5 DEF Linux, LinuxTask
<1> QED BY <1>5, <1>6 DEF Linux

LEMMA LinuxSystem ==
  ASSUME Base, Linux, IsLinux,
         \/ RMContinues
         \/ \E r \in Tasks : RMReleases(r) \/ Stops(r) \/ Dies(r)
         \/ UNCHANGED vars
  PROVE  Linux'
<1>0. TypeOK /\ Sound
  BY DEF Base
<1>1. UNCHANGED <<job, dontstop_fastpath, all_stopped, bgq, pc, call, misread>>
  BY DEF RMContinues, RMReleases, Stops, Dies, Others, vars
<1>2. islaunch' = islaunch /\ IsLinux' = IsLinux /\ Traces' = Traces /\ pc' = pc /\ job' = job
      /\ todo' = todo /\ asked' = asked /\ rc' = rc /\ misread' = misread
      /\ \A what : \A r : Left(what, r)' = Left(what, r)
  BY <1>1 DEF islaunch, IsLinux, Traces, call, Left
<1>3. /\ ~asked /\ ~misread /\ \A c \in Channels : stream[c] = <<>>
      /\ faults = 0 => rc = "LMON_OK" \/ pc = "perf"
      /\ pc = "initdone" => Phased(todo)
      /\ \A r \in Tasks : LinuxTask(r)
  BY DEF Linux
<1>4. CASE RMContinues \/ UNCHANGED vars
  <2>1. task' = task /\ stream' = stream /\ faults' = faults
    BY <1>4 DEF RMContinues, vars, env
  <2>2. \A r \in Tasks : LinuxTask(r)'
    BY <1>2, <1>3, <2>1 DEF LinuxTask, Down
  <2> QED BY <1>2, <1>3, <2>1, <2>2 DEF Linux
<1>5. CASE \E r \in Tasks : RMReleases(r)
  <2>1. PICK r \in Tasks : RMReleases(r)
    BY <1>5
  <2>2. /\ released /\ task[r].gated /\ \A q \in Tasks : q # r => task'[q] = task[q]
        /\ task'[r].gone = task[r].gone /\ task'[r].gated = FALSE /\ task'[r].held = task[r].held
        /\ task'[r].sigstop = (IF job.mpao THEN FALSE ELSE task[r].sigstop)
        /\ task'[r].stopped = (IF job.mpao THEN FALSE ELSE task[r].stopped)
        /\ stream' = stream /\ faults' = faults
    BY <1>0, <2>1, ReleaseIs
  <2>3. pc # "init" /\ (job.mpao => Traces)
    BY <1>0, <2>2 DEF Sound, TypeOK, Traces
  <2>4. ASSUME NEW q \in Tasks PROVE LinuxTask(q)'
    <3>1. CASE q # r
      BY <1>2, <1>3, <2>2, <3>1 DEF LinuxTask, Down
    <3>2. CASE q = r /\ ~job.mpao
      BY <1>2, <1>3, <2>2, <3>2 DEF LinuxTask, Down
    <3>3. CASE q = r /\ job.mpao
      <4>1. LinuxTask(r)
        BY <1>3
      <4>2. pc = "initdone" => task[r].gone \/ Left("SIGSTOP", r)
        <5> SUFFICES ASSUME pc = "initdone", Left("waitpid", r) PROVE Left("SIGSTOP", r)
          BY <2>2, <3>3, <4>1 DEF LinuxTask
        <5> DEFINE A == StepsOf(job.rm, pc)
        <5>1. todo \in Seq(A)
          BY <1>0 DEF TypeOK
        <5> HIDE DEF A
        <5>2. First(Do("waitpid", r)) /\ todo # <<>>
          BY EmptyCall DEF First, Kind, Do, Left
        <5>3. First(Head(todo))
          BY <1>3, <5>1, <5>2, NoneFirst DEF Left
        <5> QED BY <4>1, <5>2, <5>3 DEF LinuxTask
      <4>3. task'[r].gone = task[r].gone /\ ~task'[r].sigstop /\ ~task'[r].stopped /\ task'[r].held = task[r].held
            /\ ~task'[r].gated
        BY <2>2, <3>3
      <4>4. task[r].gone => Down(r)'
        BY <4>3 DEF Down
      <4> QED BY <1>2, <2>3, <3>3, <4>1, <4>2, <4>3, <4>4 DEF LinuxTask
    <3> QED BY <3>1, <3>2, <3>3
  <2> QED BY <1>2, <1>3, <2>2, <2>4 DEF Linux
<1>6. CASE \E r \in Tasks : Stops(r)
  <2>1. PICK r \in Tasks : Stops(r)
    BY <1>6
  <2>2. /\ task[r].sigstop /\ \A q \in Tasks : q # r => task'[q] = task[q]
        /\ task'[r].gone = task[r].gone /\ task'[r].gated = task[r].gated /\ task'[r].held = task[r].held
        /\ task'[r].stopped = TRUE
        /\ stream' = stream /\ faults' = faults
    BY <1>0, <2>1, StopIs
  <2>3. ASSUME NEW q \in Tasks PROVE LinuxTask(q)'
    <3>1. CASE q # r
      BY <1>2, <1>3, <2>2, <3>1 DEF LinuxTask, Down
    <3>2. CASE q = r
      <4>1. LinuxTask(r) /\ Down(r)'
        BY <1>3, <2>2 DEF Down
      <4> QED BY <1>2, <2>2, <3>2, <4>1 DEF LinuxTask
    <3> QED BY <3>1, <3>2
  <2> QED BY <1>2, <1>3, <2>2, <2>3 DEF Linux
<1>7. CASE \E r \in Tasks : Dies(r)
  <2>1. PICK r \in Tasks : Dies(r)
    BY <1>7
  <2>2. /\ faults' = faults + 1 /\ \A q \in Tasks : q # r => task'[q] = task[q]
        /\ task'[r].gone = TRUE /\ task'[r].gated = task[r].gated /\ task'[r].held = task[r].held
        /\ stream' = stream
    BY <1>0, <2>1, DeathIs
  <2>3. faults' # 0
    BY <1>0, <2>2 DEF TypeOK
  <2>4. ASSUME NEW q \in Tasks PROVE LinuxTask(q)'
    <3>1. CASE q # r
      BY <1>2, <1>3, <2>2, <3>1 DEF LinuxTask, Down
    <3>2. CASE q = r
      <4>1. LinuxTask(r) /\ Down(r)'
        BY <1>3, <2>2 DEF Down
      <4> QED BY <1>2, <2>2, <3>2, <4>1 DEF LinuxTask
    <3> QED BY <3>1, <3>2
  <2> QED BY <1>2, <1>3, <2>2, <2>3, <2>4 DEF Linux
<1> QED BY <1>4, <1>5, <1>6, <1>7

LEMMA LinuxNext ==
  ASSUME Base, Linux, [Next]_vars
  PROVE  Linux'
<1>1. CASE IsLinux
  <2>1. IsLinux /\ Base /\ Linux
    BY <1>1
  <2> QED BY <2>1, LinuxSignal, LinuxWait, LinuxCall, LinuxBarrier, LinuxLocal, LinuxSystem
      DEF Next, Daemon, Tool, System
<1>2. CASE ~IsLinux
  <2>1. job' = job
    BY DEF Next, Daemon, Tool, System, HandshakeInit, InitCall, Barrier, HandshakeInitDone, Same, HandshakeRun,
           lmon_write_raw, lmon_read_raw, Signal, waitpid, Connect, Cleanup, SetFlag, Refused,
           LMON_be_procctl_tester_init, TesterPerf, TesterStop, LMON_be_procctl_tester_run, Finalize,
           RMContinues, RMReleases, Stops, Dies, Others, vars
  <2> QED BY <1>2, <2>1 DEF Linux, IsLinux
<1> QED BY <1>1, <1>2

LEMMA InitLinux == Init => Linux
<1> SUFFICES ASSUME Init PROVE Linux
  OBVIOUS
<1>1. NewTask.held = {}
  BY DEF NewTask
<1> HIDE DEF NewTask
<1> QED BY <1>1 DEF Init, Linux, LinuxTask

-----------------------------------------------------------------------------
(* BlueGene: the order of what is left of a call *)

Ordered ==
  /\ ~(islaunch /\ pc = "init") => Paired(todo)
  /\ job.rm = "bgp" /\ pc \in {"run", "tester_run"} => Phased(todo)
  /\ job.rm = "bgq" /\ pc = "initdone" => Phased(todo)

(* What is left of the call after an answer. *)
LEMMA ExpandedTail ==
  ASSUME TypeOK, todo # <<>>, s.do \in {"ask", "noti"}, NEW q, q = Expanded \o Tail(todo)
  PROVE  /\ q \in Seq(StepsOf(job.rm, pc))
         /\ Range(q) = Range(Expanded) \cup Range(Tail(todo))
         /\ \A e \in Range(Expanded) : ~First(e)
         /\ s.req \notin {"ListHold", "ListRelease"} => q = Tail(todo)
         /\ Paired(todo) => Paired(q)
         /\ Phased(todo) => Phased(q)
<1> DEFINE A == StepsOf(job.rm, pc)
           N == NotFirst(NoStop(A))
           x == Expanded
           y == Tail(todo)
<1>1. x \in Seq(N) /\ (s.req \notin {"ListHold", "ListRelease"} => x = <<>>)
  BY ExpandedFits
<1>2. todo \in Seq(A) /\ y \in Seq(A) /\ q = x \o y /\ s = Head(todo)
  BY AtStep DEF TypeOK, s
<1>3. N \subseteq A /\ (\A e \in N : ~First(e)) /\ \A e \in N : Kind(e) \notin Stop
  BY DEF NotFirst, NoStop
<1> HIDE DEF A, N, x, y
<1>4. x \in Seq(A) /\ DOMAIN x = 1 .. Len(x) /\ \A i \in 1 .. Len(x) : x[i] \in N
  BY <1>1, <1>3, SeqMonotonic
<1>11. x \o y \in Seq(A) /\ Range(x \o y) = Range(x) \cup Range(y)
  BY <1>2, <1>4, Concat, Zenon
<1>12. \A w \in Seq(A) : DOMAIN w = 1 .. Len(w)
  OBVIOUS
<1>5. q \in Seq(A) /\ Range(q) = Range(x) \cup Range(y) /\ DOMAIN q = 1 .. Len(q)
  BY <1>2, <1>11, <1>12, Zenon
<1>6. \A e \in Range(x) : e \in N
  BY <1>4 DEF Range
<1>7. s.req \notin {"ListHold", "ListRelease"} => q = y
  <2>1. <<>> \o y = y
    BY <1>2
  <2> QED BY <1>1, <1>2, <2>1
<1>8. (Paired(todo) => Paired(y)) /\ (Phased(todo) => Phased(y))
  BY <1>2, TailKeeps DEF y
<1>9. ASSUME Paired(todo) PROVE Paired(q)
  <2>1. x \in PairedSeq(N)
    BY <1>1, <1>3, NoStopPaired
  <2>2. x \in PairedSeq(A)
    BY <1>3, <2>1, PairedMono
  <2>3. y \in PairedSeq(A)
    BY <1>2, <1>8, <1>9 DEF PairedSeq
  <2>4. q \in PairedSeq(A)
    BY <1>2, <2>2, <2>3, PairedConcat
  <2> QED BY <2>4 DEF PairedSeq
<1>10. ASSUME Phased(todo) PROVE Phased(q)
  <2>1. CASE s.req \notin {"ListHold", "ListRelease"}
    BY <1>7, <1>8, <1>10, <2>1
  <2>2. CASE s.req \in {"ListHold", "ListRelease"}
    <3>1. ~First(Head(todo))
      <4>1. Kind(s) = s.req
        BY DEF Kind
      <4> QED BY <1>2, <2>2, <4>1 DEF First
    <3>2. \A e \in Range(todo) : ~First(e)
      BY <1>2, <1>10, <3>1, NoneFirst
    <3>3. Range(y) \subseteq Range(todo)
      BY AtStep DEF y
    <3>4. \A e \in Range(q) : ~First(e)
      BY <1>3, <1>5, <1>6, <3>2, <3>3
    <3>5. \A i \in 1 .. Len(q) : q[i] \in Range(q)
      BY <1>5 DEF Range
    <3> QED BY <3>4, <3>5 DEF Phased
  <2> QED BY <2>1, <2>2
<1> QED BY <1>3, <1>5, <1>6, <1>7, <1>9, <1>10 DEF A, x, y

(* The map is the process table's, or it is not used. *)
LEMMA BgCalls ==
  ASSUME Base, ~IsLinux
  PROVE  /\ job.rm \in {"bgp", "bgq"}
         /\ job.rm = "bgq" /\ pc \in {"barrier", "tester_init", "perf", "tester_run", "tester_stop"} =>
              Full(CN2Ranks) \/ dontstop_fastpath
         /\ job.rm = "bgq" /\ pc = "initdone" => dontstop_fastpath = dontstop
         /\ islaunch \in BOOLEAN /\ dontstop \in BOOLEAN /\ dontstop_fastpath \in BOOLEAN
         /\ pc = "run" => dontstop
  BY Launches DEF Base, TypeOK, Maps, Sound, RMs

LEMMA OrderedCall ==
  ASSUME Base, ~IsLinux,
         \/ HandshakeInit \/ LMON_be_procctl_tester_init
         \/ HandshakeInitDone \/ HandshakeRun \/ TesterPerf \/ TesterStop
         \/ LMON_be_procctl_tester_run \/ Finalize
  PROVE  Ordered'
<1>1. /\ job.rm \in {"bgp", "bgq"}
      /\ job.rm = "bgq" /\ pc \in {"barrier", "tester_init", "perf", "tester_run", "tester_stop"} =>
           Full(CN2Ranks) \/ dontstop_fastpath
      /\ job.rm = "bgq" /\ pc = "initdone" => dontstop_fastpath = dontstop
      /\ islaunch \in BOOLEAN /\ dontstop \in BOOLEAN /\ dontstop_fastpath \in BOOLEAN
  BY BgCalls
<1>2. Paired(<<>>) /\ Phased(<<>>)
  BY EmptyCall DEF PairedSeq
<1>3. \A A : \A q \in PairedSeq(A) : Paired(q)
  BY DEF PairedSeq
<1>4. CASE HandshakeInit \/ LMON_be_procctl_tester_init
  <2>1. \/ pc' = "init" /\ job' = job /\ \E fast \in BOOLEAN : todo' = LMON_be_procctl_init(islaunch, fast)
        \/ pc' = "tester_init" /\ job' = job /\
             (todo' = <<>> \/ \E fast \in BOOLEAN : todo' = LMON_be_procctl_init(FALSE, fast))
    <3>1. CASE HandshakeInit
      BY <1>1, <3>1 DEF HandshakeInit, InitCall, Calls
    <3>2. CASE LMON_be_procctl_tester_init
      BY <1>1, <3>2 DEF LMON_be_procctl_tester_init, InitCall, Calls, Same
    <3> QED BY <1>4, <3>1, <3>2
  <2>2. islaunch' = islaunch
    BY <2>1 DEF islaunch
  <2>3. \A fast \in BOOLEAN : Paired(LMON_be_procctl_init(FALSE, fast))
    <3> SUFFICES ASSUME NEW fast \in BOOLEAN PROVE Paired(LMON_be_procctl_init(FALSE, fast))
      OBVIOUS
    <3>1. CASE job.rm = "bgp"
      BY <3>1, BgpCalls
    <3>2. CASE job.rm = "bgq"
      <4>1. Full(Filled)
        <5>1. CN2Ranks = EmptyMap
          <6>1. CASE HandshakeInit
            BY <6>1 DEF HandshakeInit, Base, Maps
          <6>2. CASE LMON_be_procctl_tester_init
            BY <6>2, MapReturned DEF LMON_be_procctl_tester_init
          <6> QED BY <1>4, <6>1, <6>2
        <5> QED BY <5>1, FilledIsFull
      <4>2. LMON_be_procctl_init(FALSE, fast) = IF fast THEN <<>> ELSE init_bgq(FALSE)
        BY <3>2 DEF LMON_be_procctl_init, IsLinux
      <4> QED BY <1>2, <4>1, <4>2, BgqInit
    <3> QED BY <1>1, <3>1, <3>2
  <2>4. ~(islaunch /\ pc' = "init") => Paired(todo')
    <3>1. CASE pc' = "init" /\ ~islaunch
      BY <1>1, <2>1, <2>3, <3>1
    <3>2. CASE pc' = "tester_init"
      BY <1>2, <2>1, <2>3, <3>2
    <3> QED BY <2>1, <3>1, <3>2
  <2> QED BY <2>1, <2>2, <2>4 DEF Ordered
<1>5. CASE HandshakeInitDone
  <2>1. pc = "barrier" /\ pc' = "initdone" /\ todo' = LMON_be_procctl_initdone(islaunch) /\ job' = job
    BY <1>5 DEF HandshakeInitDone, Ready, Calls, Same
  <2>2. CASE job.rm = "bgp"
    BY <1>1, <1>3, <2>1, <2>2, BgpCalls DEF Ordered
  <2>3. CASE job.rm = "bgq"
    BY <1>1, <1>3, <2>1, <2>3, BgqCalls DEF Ordered
  <2> QED BY <1>1, <2>2, <2>3
<1>6. CASE HandshakeRun
  <2>1. pc = "initdone" /\ dontstop /\ pc' = "run" /\ todo' = LMON_be_procctl_run /\ job' = job
    BY <1>6 DEF HandshakeRun, Ready, Calls, Same
  <2>2. CASE job.rm = "bgp"
    BY <1>1, <1>3, <2>1, <2>2, BgpCalls DEF Ordered
  <2>3. CASE job.rm = "bgq"
    <3>1. todo' = <<>>
      BY <1>1, <2>1, <2>3, BgqCalls
    <3> QED BY <1>2, <2>1, <2>3, <3>1 DEF Ordered
  <2> QED BY <1>1, <2>2, <2>3
<1>7. CASE LMON_be_procctl_tester_run
  <2>1. pc \in {"tester_init", "perf", "tester_stop"} /\ pc' = "tester_run" /\ todo' = LMON_be_procctl_run /\ job' = job
    BY <1>7 DEF LMON_be_procctl_tester_run, Ready, Calls, Same
  <2>2. CASE job.rm = "bgp"
    BY <1>1, <1>3, <2>1, <2>2, BgpCalls DEF Ordered
  <2>3. CASE job.rm = "bgq"
    BY <1>1, <1>3, <2>1, <2>3, BgqCalls DEF Ordered
  <2> QED BY <1>1, <2>2, <2>3
<1>8. CASE TesterPerf
  <2>1. pc = "tester_init" /\ ~dontstop_fastpath /\ pc' = "perf" /\ todo' = LMON_be_procctl_perf /\ job' = job
    BY <1>8 DEF TesterPerf, Ready, Calls, Same
  <2>2. CASE job.rm = "bgp"
    BY <1>1, <1>3, <2>1, <2>2, BgpCalls DEF Ordered
  <2>3. CASE job.rm = "bgq"
    BY <1>1, <1>3, <2>1, <2>3, BgqCalls DEF Ordered
  <2> QED BY <1>1, <2>2, <2>3
<1>9. CASE TesterStop
  <2>1. pc = "tester_run" /\ pc' = "tester_stop" /\ todo' = LMON_be_procctl_stop /\ job' = job
    BY <1>9 DEF TesterStop, Ready, Calls, Same
  <2>2. CASE job.rm = "bgp"
    BY <1>1, <1>3, <2>1, <2>2, BgpCalls DEF Ordered
  <2>3. CASE job.rm = "bgq"
    BY <1>1, <1>3, <2>1, <2>3, BgqCalls DEF Ordered
  <2> QED BY <1>1, <2>2, <2>3
<1>10. CASE Finalize
  <2>1. pc' = "done" /\ todo' = LMON_be_procctl_done /\ job' = job
    BY <1>10 DEF Finalize, Calls, Same
  <2>2. CASE job.rm = "bgp"
    BY <1>1, <1>3, <2>1, <2>2, BgpCalls DEF Ordered
  <2>3. CASE job.rm = "bgq"
    BY <1>3, <2>1, <2>3, BgqDone DEF Ordered
  <2> QED BY <1>1, <2>2, <2>3
<1> QED BY <1>4, <1>5, <1>6, <1>7, <1>8, <1>9, <1>10

LEMMA OrderedNext ==
  ASSUME Base, Ordered, ~IsLinux, [Next]_vars
  PROVE  Ordered'
<1>0. TypeOK /\ Sound
  BY DEF Base
<1>1. Paired(<<>>) /\ Phased(<<>>)
  BY EmptyCall DEF PairedSeq
<1>2. ASSUME todo # <<>>
      PROVE  (Paired(todo) => Paired(Tail(todo))) /\ (Phased(todo) => Phased(Tail(todo)))
  <2> DEFINE A == StepsOf(job.rm, pc)
  <2>1. todo \in Seq(A)
    BY <1>0 DEF TypeOK
  <2> HIDE DEF A
  <2> QED BY <1>2, <2>1, TailKeeps
<1>3. ASSUME UNCHANGED <<job, pc>>,
             /\ Paired(todo) => Paired(todo')
             /\ Phased(todo) => Phased(todo')
      PROVE  Ordered'
  BY <1>3 DEF Ordered, islaunch
<1>4. CASE \/ HandshakeInit \/ LMON_be_procctl_tester_init
           \/ HandshakeInitDone \/ HandshakeRun \/ TesterPerf \/ TesterStop
           \/ LMON_be_procctl_tester_run \/ Finalize
  BY <1>4, OrderedCall
<1>5. CASE Barrier
  <2>1. pc' = "barrier" /\ todo' = <<>> /\ job' = job
    BY <1>5 DEF Barrier, Ready, call
  <2> QED BY <1>1, <2>1 DEF Ordered
<1>6. CASE lmon_write_raw \/ System \/ (\E r \in Tasks : Dies(r)) \/ UNCHANGED vars
  <2>1. UNCHANGED <<job, pc>> /\ todo' = todo
    BY <1>6 DEF lmon_write_raw, System, RMContinues, RMReleases, Stops, Dies, Others, call, vars
  <2> QED BY <1>3, <2>1
<1>7. CASE lmon_read_raw
  <2>1. /\ UNCHANGED <<job, pc>> /\ todo # <<>> /\ s.do \in {"ask", "noti"}
        /\ todo' = Expanded \o Tail(todo) \/ todo' = <<>>
    BY <1>0, <1>7, ReadIs
  <2>2. (Paired(todo) => Paired(todo')) /\ (Phased(todo) => Phased(todo'))
    BY <1>0, <1>1, <2>1, ExpandedTail
  <2> QED BY <1>3, <2>1, <2>2
<1>8. CASE Connect \/ Cleanup \/ SetFlag \/ Refused
  <2>1. UNCHANGED <<job, pc>> /\ todo # <<>> /\ (todo' = Tail(todo) \/ todo' = <<>>)
    BY <1>8 DEF Connect, Cleanup, SetFlag, Refused, Step, Goes, Fails
  <2> QED BY <1>1, <1>2, <1>3, <2>1
<1>9. CASE Signal \/ waitpid
  BY <1>0, <1>9, SignalIs, WaitIs
<1> QED BY <1>4, <1>5, <1>6, <1>7, <1>8, <1>9 DEF Next, Daemon, Tool

-----------------------------------------------------------------------------
(* BlueGene: nothing has been asked, and no request has been refused *)

Fresh ==
  /\ faults = 0 /\ ~misread /\ rc = "LMON_OK"
  /\ \A c \in Channels : stream[c] = <<>>
  /\ \A r \in Tasks : task[r].held = {} /\ ~task[r].stopped /\ ~task[r].sigstop

Static ==
  /\ job.rm = "bgp" => \A n \in Nodes : stream[n] = <<>>
  /\ pc = "idle" \/ (job.rm = "bgq" /\ dontstop_fastpath) => Fresh

\* the calls of the handshake; what a refusal leaves to be read
Shake == {"idle", "init", "barrier", "initdone", "run"}
Refusal == asked /\ stream[s.ch] # <<>> /\ ~Head(stream[s.ch]).ok

\* in the handshake BlueGene/Q finds out about a refused request, and fails
Calm == faults = 0 \/ (job.rm = "bgq" /\ rc = "LMON_OK" /\ ~Refusal /\ pc \in Shake)

(* What a step leaves alone. *)
LEMMA Steady ==
  ASSUME Base, ~IsLinux, [Next]_vars
  PROVE  job' = job /\ faults \in Nat /\ faults' \in Nat /\ faults' >= faults
<1>0. faults \in Nat
  BY DEF Base, TypeOK
<1>1. job' = job /\ (faults' = faults \/ faults' = faults + 1)
  BY DEF Next, Daemon, Tool, System, HandshakeInit, InitCall, Barrier, HandshakeInitDone, Same, HandshakeRun,
         lmon_write_raw, lmon_read_raw, Signal, waitpid, Connect, Cleanup, SetFlag, Refused,
         LMON_be_procctl_tester_init, TesterPerf, TesterStop, LMON_be_procctl_tester_run, Finalize,
         RMContinues, RMReleases, Stops, Dies, Others, vars, env, call
<1> QED BY <1>0, <1>1

ToolCall ==
  \/ HandshakeInit \/ LMON_be_procctl_tester_init
  \/ HandshakeInitDone \/ HandshakeRun \/ TesterPerf \/ TesterStop
  \/ LMON_be_procctl_tester_run \/ Finalize

(* A call begins when the one before has come to its end. *)
LEMMA CallBegins ==
  ASSUME Base, ToolCall
  PROVE  /\ todo = <<>> /\ ~asked /\ asked' = FALSE /\ rc' = "LMON_OK" /\ UNCHANGED <<job, env, misread>>
         /\ pc' \notin {"idle", "barrier"}
         /\ pc' = "init" => pc = "idle"
         /\ pc' = "initdone" => pc = "barrier" /\ rc = "LMON_OK"
         /\ pc' = "run" => pc = "initdone" /\ rc = "LMON_OK"
         /\ pc' = "tester_init" => HandshakeReturns
         /\ pc' = "perf" => pc = "tester_init"
         /\ pc' = "tester_stop" => pc = "tester_run"
         /\ pc' = "tester_run" => pc \in {"tester_init", "perf", "tester_stop"}
         /\ dontstop_fastpath' => dontstop_fastpath \/ pc = "idle"
         /\ pc' \notin {"init", "tester_init"} => dontstop_fastpath' = dontstop_fastpath
<1>0. /\ asked => todo # <<>>
      /\ pc = "idle" => todo = <<>> /\ rc = "LMON_OK"
      /\ dontstop_fastpath \in BOOLEAN
  BY DEF Base, Sound, TypeOK
<1>1. CASE HandshakeInit
  BY <1>0, <1>1 DEF HandshakeInit, InitCall, Calls
<1>2. CASE LMON_be_procctl_tester_init
  <2>1. HandshakeReturns /\ todo = <<>> /\ pc # "idle"
    BY <1>2 DEF LMON_be_procctl_tester_init, HandshakeReturns, Ready
  <2>2. pc' = "tester_init" /\ asked' = FALSE /\ rc' = "LMON_OK" /\ UNCHANGED <<job, env, misread>>
        /\ (dontstop_fastpath' = FALSE \/ dontstop_fastpath' = dontstop_fastpath)
    <3>1. CASE job.rm = "bgp"
      BY <1>2, <3>1 DEF LMON_be_procctl_tester_init, Calls, Same
    <3>2. CASE job.rm # "bgp"
      <4>1. PICK fast \in {FALSE, dontstop_fastpath} : InitCall("tester_init", FALSE, fast)
        BY <1>2, <3>2 DEF LMON_be_procctl_tester_init
      <4> QED BY <4>1 DEF InitCall, Calls
    <3> QED BY <3>1, <3>2
  <2> QED BY <1>0, <2>1, <2>2
<1>3. CASE HandshakeInitDone \/ HandshakeRun \/ TesterPerf \/ TesterStop \/ LMON_be_procctl_tester_run
  BY <1>0, <1>3 DEF HandshakeInitDone, HandshakeRun, TesterPerf, TesterStop, LMON_be_procctl_tester_run,
                    Calls, Same, Ready
<1>4. CASE Finalize
  BY <1>0, <1>4 DEF Finalize, Calls, Same, Ready, HandshakeReturns
<1> QED BY <1>1, <1>2, <1>3, <1>4 DEF ToolCall

(* On BlueGene/P everything goes over the one pipe. *)
LEMMA OnePipe ==
  ASSUME TypeOK, job.rm = "bgp", todo # <<>>, s.do \in {"ask", "noti"}
  PROVE  s.ch = Ciod
<1>1. Fits(job.rm, pc, s)
  BY AtStep
<1>2. CASE s.do = "noti"
  BY <1>1, <1>2 DEF Fits, ChanOf
<1>3. CASE s.do = "ask"
  <2>1. s.req \in Asking /\ s.req \in BgpKinds(pc)
    BY <1>3, StepKinds DEF Kinds
  <2>2. \A k \in BgpKinds(pc) : k \notin OfNode
    BY DEF BgpKinds, OfNode
  <2>3. s.req \in OfTask \cup OfDaemon
    BY <2>1, <2>2 DEF Asking
  <2> QED BY <1>1, <1>3, <2>3 DEF Fits, ChanOf
<1> QED BY <1>2, <1>3

LEMMA NoNode == \A n \in Nodes : n # Ciod /\ n \in Channels
  BY ProcCtlAssumption DEF Nodes, Ciod, Channels

(* The other steps stay in the call. *)
LEMMA Within ==
  ASSUME [Next]_vars, ~ToolCall
  PROVE  dontstop_fastpath' = dontstop_fastpath /\ (pc' = pc \/ Barrier)
<1>1. CASE Barrier
  BY <1>1 DEF Barrier
<1>2. CASE lmon_write_raw \/ lmon_read_raw \/ Signal \/ waitpid \/ Connect \/ Cleanup \/ SetFlag \/ Refused
  BY <1>2 DEF lmon_write_raw, lmon_read_raw, Signal, waitpid, Connect, Cleanup, SetFlag, Refused
<1>3. CASE RMContinues \/ (\E r \in Tasks : RMReleases(r) \/ Stops(r) \/ Dies(r)) \/ UNCHANGED vars
  BY <1>3 DEF RMContinues, RMReleases, Stops, Dies, Others, vars
<1> QED BY <1>1, <1>2, <1>3 DEF Next, Daemon, Tool, System, ToolCall

LEMMA StaticNext ==
  ASSUME Base, Static, ~IsLinux, [Next]_vars
  PROVE  Static'
<1>0. TypeOK /\ Sound /\ Maps /\ job' = job
  BY Steady DEF Base
<1>1. ASSUME job.rm = "bgp" PROVE \A n \in Nodes : stream'[n] = <<>>
  <2> SUFFICES ASSUME NEW n \in Nodes PROVE stream'[n] = <<>>
    OBVIOUS
  <2>0. stream[n] = <<>> /\ n # Ciod /\ n \in Channels /\ stream \in [Channels -> Seq(Message)]
    BY <1>0, <1>1, NoNode DEF Static, TypeOK
  <2>1. CASE ToolCall
    BY <2>0, <2>1, CallBegins DEF env
  <2>2. CASE Barrier \/ RMContinues \/ (\E r \in Tasks : RMReleases(r) \/ Dies(r)) \/ UNCHANGED vars
             \/ Signal \/ waitpid \/ Connect \/ SetFlag \/ Refused
    BY <2>0, <2>2 DEF Barrier, RMContinues, RMReleases, Dies, vars, env, Signal, waitpid, Connect, SetFlag, Refused
  <2>3. CASE lmon_write_raw
    <3>1. s.ch = Ciod
      BY <1>0, <1>1, <2>3, Sent, OnePipe
    <3>2. s.ch \in Channels /\ \E ok \in BOOLEAN : fill_CIOS_Header(ok) \in Message
             /\ stream' = [stream EXCEPT ![s.ch] = Append(@, fill_CIOS_Header(ok))]
      BY <1>0, <2>3, Sent
    <3> QED BY <2>0, <3>1, <3>2, StreamPut
  <2>4. CASE lmon_read_raw
    <3>1. s.ch = Ciod
      BY <1>0, <1>1, <2>4, ReadIs, OnePipe
    <3> QED BY <1>0, <2>0, <2>4, <3>1, ReadIs
  <2>5. CASE Cleanup
    BY <2>0, <2>5 DEF Cleanup
  <2>6. CASE \E r \in Tasks : Stops(r)
    <3>1. PICK r \in Tasks : Stops(r)
      BY <2>6
    <3>2. ChanOf(job.rm, r) \in Channels /\ Notice(r) \in Message
          /\ stream' = [stream EXCEPT ![ChanOf(job.rm, r)] = Append(@, Notice(r))]
      BY <1>0, <3>1, StopIs
    <3>3. ChanOf(job.rm, r) = Ciod
      BY <1>1 DEF ChanOf
    <3> QED BY <2>0, <3>2, <3>3, StreamPut
  <2> QED BY <2>1, <2>2, <2>3, <2>4, <2>5, <2>6 DEF Next, Daemon, Tool, System, ToolCall
<1>2. ASSUME pc' = "idle" \/ (job.rm = "bgq" /\ dontstop_fastpath') PROVE Fresh'
  <2>1. CASE ToolCall
    <3>1. pc = "idle" \/ (job.rm = "bgq" /\ dontstop_fastpath)
      BY <1>2, <2>1, CallBegins
    <3>2. Fresh
      BY <3>1 DEF Static
    <3>3. rc' = "LMON_OK" /\ UNCHANGED <<task, stream, faults, misread>>
      BY <2>1, CallBegins DEF env
    <3> QED BY <3>2, <3>3 DEF Fresh
  <2>2. CASE ~ToolCall
    <3>1. pc = "idle" \/ (job.rm = "bgq" /\ dontstop_fastpath)
      BY <1>2, <2>2, Within DEF Barrier
    <3>2. Fresh /\ todo = <<>>
      BY <1>0, <3>1 DEF Static, Sound, Maps
    <3>3. Barrier \/ RMContinues \/ (\E r \in Tasks : RMReleases(r) \/ Stops(r) \/ Dies(r)) \/ UNCHANGED vars
      BY <2>2, <3>2 DEF Next, Daemon, Tool, System, ToolCall,
         lmon_write_raw, lmon_read_raw, Signal, waitpid, Connect, Cleanup, SetFlag, Refused, Step
    <3>4. CASE Barrier \/ RMContinues \/ UNCHANGED vars
      <4>1. UNCHANGED <<rc, task, stream, faults, misread>>
        BY <3>4 DEF Barrier, RMContinues, vars, env, call, Others
      <4> QED BY <3>2, <4>1 DEF Fresh
    <3>5. CASE \E r \in Tasks : RMReleases(r)
      <4>1. PICK r \in Tasks : RMReleases(r)
        BY <3>5
      <4>2. ~job.mpao
        BY <1>0 DEF TypeOK, IsLinux
      <4>3. /\ \A q \in Tasks : q # r => task'[q] = task[q]
            /\ task'[r].held = task[r].held /\ task'[r].sigstop = task[r].sigstop
            /\ task'[r].stopped = task[r].stopped
            /\ UNCHANGED <<rc, stream, faults, misread>>
        BY <1>0, <4>1, <4>2, ReleaseIs DEF Others, call
      <4> QED BY <3>2, <4>3 DEF Fresh
    <3>6. ~(\E r \in Tasks : Stops(r) \/ Dies(r))
      BY <3>2 DEF Fresh, Stops, Dies
    <3> QED BY <3>3, <3>4, <3>5, <3>6
  <2> QED BY <2>1, <2>2
<1> QED BY <1>0, <1>1, <1>2 DEF Static

(* A refusal is found out before the handshake goes on. *)
LEMMA CalmBack ==
  ASSUME Base, ~IsLinux, [Next]_vars, Calm'
  PROVE  Calm
<1>0. TypeOK /\ Sound /\ job' = job /\ faults \in Nat /\ faults' \in Nat /\ faults' >= faults
  BY Steady DEF Base
<1>1. CASE faults' = 0
  BY <1>0, <1>1 DEF Calm
<1>2. CASE faults' # 0
  <2>1. job.rm = "bgq" /\ rc' = "LMON_OK" /\ ~Refusal' /\ pc' \in Shake
    BY <1>0, <1>2 DEF Calm
  <2>2. SUFFICES rc = "LMON_OK" /\ ~Refusal /\ pc \in Shake
    BY <2>1 DEF Calm
  <2>3. CASE ToolCall
    <3>1. ~asked /\ (pc' = "init" => pc = "idle") /\ (pc' = "initdone" => pc = "barrier" /\ rc = "LMON_OK")
          /\ (pc' = "run" => pc = "initdone" /\ rc = "LMON_OK") /\ pc' \notin {"idle", "barrier"}
      BY <2>3, CallBegins
    <3> QED BY <1>0, <2>1, <3>1 DEF Refusal, Shake, Sound
  <2>4. CASE Barrier
    BY <1>0, <2>4 DEF Barrier, Ready, Refusal, Shake, Sound
  <2>5. CASE lmon_write_raw
    BY <1>0, <2>1, <2>5, Sent DEF Refusal
  <2>6. CASE lmon_read_raw
    <3>1. /\ todo # <<>> /\ Accepted(Head(stream[s.ch])) /\ rc' = rc /\ pc' = pc
      BY <1>0, <2>1, <2>6, ReadIs
    <3>2. ASSUME asked PROVE Head(stream[s.ch]).ok
      <4>1. s.do = "ask" /\ s.req \in Asking /\ s.req \in BgqKinds(pc)
        BY <1>0, <2>1, <3>1, <3>2, StepKinds DEF Sound, Kinds
      <4>2. s.req \notin {"FetchMemory", "ATTACH", "CONTINUE", "KILL", "VERSION_MSG", "END_DEBUG", "Notify"}
        BY <2>1, <3>1, <4>1 DEF BgqKinds, Shake, Asking, OfTask, OfNode, OfDaemon
      <4>3. verify_MessageHeader(Head(stream[s.ch]))
        BY <3>1, <4>2 DEF Accepted
      <4> QED BY <4>3 DEF verify_MessageHeader
    <3> QED BY <2>1, <3>1, <3>2 DEF Refusal
  <2>7. CASE Connect \/ Cleanup \/ SetFlag \/ Refused
    <3>1. todo # <<>> /\ s.do # "ask" /\ pc' = pc /\ (rc' = rc \/ rc' = "LMON_EINVAL")
      BY <2>7 DEF Connect, Cleanup, SetFlag, Refused, Step, s, Goes, Fails
    <3> QED BY <1>0, <2>1, <3>1 DEF Refusal, Sound
  <2>8. CASE RMContinues \/ (\E r \in Tasks : RMReleases(r) \/ Dies(r)) \/ UNCHANGED vars
    <3>1. UNCHANGED <<rc, pc, asked, todo, stream>>
      BY <2>8 DEF RMContinues, RMReleases, Dies, Others, vars, call, env
    <3> QED BY <2>1, <3>1 DEF Refusal, s
  <2>9. CASE \E r \in Tasks : Stops(r)
    <3>1. PICK r \in Tasks : Stops(r)
      BY <2>9
    <3>2. ChanOf(job.rm, r) \in Channels /\ Notice(r) \in Message
          /\ stream' = [stream EXCEPT ![ChanOf(job.rm, r)] = Append(@, Notice(r))]
          /\ UNCHANGED <<rc, pc, asked, todo>>
      BY <1>0, <3>1, StopIs DEF Others, call
    <3>3. ASSUME Refusal PROVE Refusal'
      <4>1. asked /\ todo # <<>> /\ stream[s.ch] # <<>> /\ ~Head(stream[s.ch]).ok /\ s' = s
        BY <1>0, <3>2, <3>3 DEF Refusal, Sound, s
      <4>2. s.ch \in Channels /\ stream[s.ch] \in Seq(Message)
        BY <1>0, <4>1, AtStep DEF StepSet, TypeOK
      <4> DEFINE c == s.ch
                 d == ChanOf(job.rm, r)
      <4>3. stream' \in [Channels -> Seq(Message)] /\ stream'[d] = Append(stream[d], Notice(r))
            /\ \A e \in Channels : e # d => stream'[e] = stream[e]
        BY <1>0, <3>2, StreamPut DEF TypeOK
      <4> HIDE DEF c, d
      <4>4. stream'[c] # <<>> /\ Head(stream'[c]) = Head(stream[c])
        <5>1. CASE c # d
          BY <4>1, <4>2, <4>3, <5>1 DEF c
        <5>2. CASE c = d
          <6> DEFINE q == stream[c]
          <6>1. q \in Seq(Message) /\ q # <<>> /\ stream'[c] = Append(q, Notice(r))
            BY <4>1, <4>2, <4>3, <5>2 DEF c
          <6> HIDE DEF q
          <6>2. Append(q, Notice(r)) # <<>> /\ Head(Append(q, Notice(r))) = Head(q)
            BY <6>1
          <6> QED BY <6>1, <6>2 DEF q
        <5> QED BY <5>1, <5>2
      <4>5. s'.ch = c
        BY <4>1 DEF c
      <4> QED BY <3>2, <4>1, <4>4, <4>5 DEF Refusal, c
    <3> QED BY <2>1, <3>2, <3>3
  <2>10. CASE Signal \/ waitpid
    BY <1>0, <2>10, SignalIs, WaitIs
  <2> QED BY <2>3, <2>4, <2>5, <2>6, <2>7, <2>8, <2>9, <2>10 DEF Next, Daemon, Tool, System, ToolCall
<1> QED BY <1>1, <1>2

-----------------------------------------------------------------------------
(* BlueGene: the notifications that come are the ones the call reads *)

\* what the stream holds but for the answer to the request
Noted(c) == IF asked /\ s.ch = c THEN Tail(stream[c]) ELSE stream[c]

\* the tasks whose notification is still to come
Stopping(c) == {r \in Tasks : ChanOf(job.rm, r) = c /\ task[r].sigstop}

\* the notifications read before the next answer is: at a launch procctl_init
\* leaves all of them to procctl_initdone
Slots(c) ==
  IF islaunch /\ pc \in {"init", "barrier"} THEN {r \in Tasks : ChanOf(job.rm, r) = c}
  ELSE IF islaunch /\ pc = "initdone" THEN {r \in Tasks : Noti(c, r) \in Range(todo)}
  ELSE {r \in Tasks : /\ todo # <<>> /\ s.rank = r /\ s.ch = c
                      /\ s.do = "noti" \/ (asked /\ s.req \in Stop)}

Even(c) ==
  /\ \A i \in 1 .. Len(Noted(c)) : Noted(c)[i].type = "Notify" /\ Noted(c)[i].ok
  /\ islaunch /\ pc \in {"idle", "init"} => Noted(c) = <<>>
  /\ Cardinality(Stopping(c)) + Len(Noted(c)) <= Cardinality(Slots(c))

Balanced ==
  /\ ~misread /\ (rc = "LMON_OK" \/ pc = "perf")
  /\ asked => stream[s.ch] # <<>> /\ Head(stream[s.ch]) = fill_CIOS_Header(TRUE)
  /\ \A c \in Channels : Even(c)

(* Sets of tasks are finite. *)
LEMMA TaskSets ==
  ASSUME NEW T \in SUBSET Tasks
  PROVE  /\ IsFiniteSet(T) /\ Cardinality(T) \in Nat /\ (Cardinality(T) = 0 <=> T = {})
         /\ \A U \in SUBSET T : Cardinality(U) <= Cardinality(T)
<1>1. IsFiniteSet(Tasks)
  BY ProcCtlAssumption, FS_Interval DEF Tasks
<1>2. IsFiniteSet(T)
  BY <1>1, FS_Subset
<1> QED BY <1>2, FS_CardinalityType, FS_EmptySet, FS_Subset

LEMMA OneLess ==
  ASSUME NEW T \in SUBSET Tasks, NEW r \in T
  PROVE  Cardinality(T \ {r}) = Cardinality(T) - 1
<1>1. IsFiniteSet(T)
  BY TaskSets
<1> QED BY <1>1, FS_RemoveElement

LEMMA OneMore ==
  ASSUME NEW T \in SUBSET Tasks, NEW r, NEW U \in SUBSET Tasks, U \subseteq T \cup {r}
  PROVE  Cardinality(U) <= Cardinality(T) + 1
<1>1. CASE r \in U
  <2>1. U \ {r} \in SUBSET T
    OBVIOUS
  <2>2. Cardinality(U \ {r}) <= Cardinality(T) /\ Cardinality(T) \in Nat /\ Cardinality(U) \in Nat
    BY <2>1, TaskSets
  <2> QED BY <1>1, <2>2, OneLess
<1>2. CASE r \notin U
  <2>1. U \in SUBSET T
    BY <1>2
  <2> QED BY <2>1, TaskSets
<1> QED BY <1>1, <1>2

LEMMA TasksOnly ==
  ASSUME NEW c
  PROVE  Stopping(c) \in SUBSET Tasks /\ Slots(c) \in SUBSET Tasks
BY DEF Stopping, Slots

LEMMA TasksOnlyNext ==
  ASSUME NEW c
  PROVE  Stopping(c)' \in SUBSET Tasks /\ Slots(c)' \in SUBSET Tasks
BY DEF Stopping, Slots

LEMMA NotedIs ==
  ASSUME TypeOK, Balanced, NEW c \in Channels
  PROVE  Noted(c) \in Seq(Message) /\ Len(Noted(c)) \in Nat
<1>1. stream[c] \in Seq(Message)
  BY DEF TypeOK
<1>2. asked /\ s.ch = c => stream[c] # <<>>
  BY DEF Balanced
<1> QED BY <1>1, <1>2 DEF Noted

(* Nothing is owed where no notification is read next. *)
LEMMA NothingOwed ==
  ASSUME TypeOK, Balanced, NEW c \in Channels, Slots(c) = {}
  PROVE  Noted(c) = <<>> /\ Stopping(c) = {}
<1>1. Noted(c) \in Seq(Message) /\ Len(Noted(c)) \in Nat
  BY NotedIs
<1>2. Cardinality(Stopping(c)) \in Nat /\ (Cardinality(Stopping(c)) = 0 => Stopping(c) = {})
  BY TasksOnly, TaskSets
<1>3. Cardinality(Slots(c)) = 0
  BY FS_EmptySet
<1>4. Cardinality(Stopping(c)) + Len(Noted(c)) <= Cardinality(Slots(c))
  BY DEF Balanced, Even
<1>5. Cardinality(Stopping(c)) = 0 /\ Len(Noted(c)) = 0
  BY <1>1, <1>2, <1>3, <1>4
<1> QED BY <1>1, <1>2, <1>5

LEMMA EvenKept ==
  ASSUME TypeOK, Balanced, NEW c \in Channels,
         Noted(c)' = Noted(c), Stopping(c)' \subseteq Stopping(c), Slots(c) \subseteq Slots(c)',
         islaunch' = islaunch, pc' \in {"idle", "init"} => pc' = pc
  PROVE  Even(c)'
<1>1. Noted(c) \in Seq(Message) /\ Len(Noted(c)) \in Nat
  BY NotedIs
<1>2. /\ Cardinality(Stopping(c)') <= Cardinality(Stopping(c)) /\ Cardinality(Stopping(c)') \in Nat
      /\ Cardinality(Slots(c)) <= Cardinality(Slots(c)') /\ Cardinality(Slots(c)') \in Nat
      /\ Cardinality(Stopping(c)) \in Nat /\ Cardinality(Slots(c)) \in Nat
  BY TasksOnly, TasksOnlyNext, TaskSets
<1>3. Even(c)
  BY DEF Balanced
<1>4. Cardinality(Stopping(c)') + Len(Noted(c)') <= Cardinality(Slots(c)')
  BY <1>1, <1>2, <1>3 DEF Even
<1> QED BY <1>3, <1>4 DEF Even

LEMMA EvenEmpty ==
  ASSUME NEW c \in Channels, Noted(c)' = <<>>, Stopping(c)' \subseteq Slots(c)'
  PROVE  Even(c)'
<1>1. Cardinality(Stopping(c)') <= Cardinality(Slots(c)') /\ Cardinality(Stopping(c)') \in Nat
      /\ Cardinality(Slots(c)') \in Nat
  BY TasksOnlyNext, TaskSets
<1>2. Len(Noted(c)') = 0
  OBVIOUS
<1> QED BY <1>1, <1>2 DEF Even

(* Where a task's step is not next, a launch's notifications apart. *)
LEMMA SlotsAre ==
  ASSUME TypeOK, Ordered, ~IsLinux, todo # <<>>, NEW c
  PROVE  /\ pc \notin {"idle", "barrier"}
         /\ islaunch /\ pc = "init" => Slots(c) = {r \in Tasks : ChanOf(job.rm, r) = c}
         /\ ~(islaunch /\ pc = "init") /\ s.do \notin {"noti", "all_stopped"} /\ ~(asked /\ s.req \in Stop)
              => Slots(c) = {}
<1>1. Kind(s) \in Kinds(job.rm, pc) /\ job.rm \in RMs
  BY AtStep DEF Fits, TypeOK
<1>2. job.rm \in {"bgp", "bgq"}
  BY <1>1 DEF IsLinux, RMs
<1>3. pc \notin {"idle", "barrier"}
  BY <1>1, <1>2 DEF Kinds, BgpKinds, BgqKinds
<1>4. ASSUME islaunch, pc = "initdone", s.do \notin {"noti", "all_stopped"}
      PROVE  Slots(c) = {}
  <2>1. Kind(s) = IF s.do = "ask" THEN s.req ELSE s.do
    BY <1>4 DEF Kind
  <2>9. s.do = "ask" => s.req \in Asking
    BY StepKinds
  <2>10. \A k \in Asking : k \notin {"Notify", "all_stopped"}
    BY DEF Asking, OfTask, OfNode, OfDaemon
  <2>11. s.do # "noti" /\ s.do # "Notify" /\ s.do # "all_stopped"
    <3>1. s.do \in {"ask", "noti"} \cup Signals \cup Rest
      BY AtStep DEF StepSet
    <3> QED BY <1>4, <3>1 DEF Signals, Rest
  <2>2. (s.do = "ask" => s.req \in Asking) /\ Kind(s) \notin {"Notify", "all_stopped"}
    BY <2>1, <2>9, <2>10, <2>11
  <2>3. job.rm = "bgq"
    BY <1>1, <1>2, <1>4, <2>2 DEF Kinds, BgpKinds
  <2>4. ~First(s)
    BY <1>1, <1>4, <2>2, <2>3 DEF Kinds, BgqKinds, First
  <2>5. Phased(todo)
    BY <1>4, <2>3 DEF Ordered
  <2> DEFINE A == StepsOf(job.rm, pc)
  <2>6. todo \in Seq(A) /\ s = Head(todo)
    BY DEF TypeOK, s
  <2> HIDE DEF A
  <2>7. \A e \in Range(todo) : ~First(e)
    BY <2>4, <2>5, <2>6, NoneFirst
  <2>8. \A r : First(Noti(c, r))
    BY DEF First, Kind, Noti
  <2> QED BY <1>4, <2>7, <2>8 DEF Slots
<1>5. islaunch /\ pc = "init" => Slots(c) = {r \in Tasks : ChanOf(job.rm, r) = c}
  BY DEF Slots
<1>6. ASSUME ~(islaunch /\ pc = "init"), s.do \notin {"noti", "all_stopped"},
             ~(asked /\ s.req \in Stop)
      PROVE  Slots(c) = {}
  <2>1. CASE islaunch /\ pc = "initdone"
    BY <1>4, <1>6, <2>1
  <2>2. CASE ~(islaunch /\ pc = "initdone")
    BY <1>3, <1>6, <2>2 DEF Slots
  <2> QED BY <2>1, <2>2
<1> QED BY <1>3, <1>5, <1>6

(* A request is sent when nothing else is under way, so that its answer is *)
(* the next thing to be read; a refused one would not be calm.             *)
LEMMA SentCalm ==
  ASSUME Base, ~IsLinux, Ordered, Balanced, Calm', lmon_write_raw
  PROVE  /\ \A c \in Channels : Noted(c) = <<>> /\ stream[c] = <<>>
                                /\ (Stopping(c) = {} \/ (islaunch /\ pc = "init"))
         /\ faults' = faults /\ fill_CIOS_Header(TRUE) \in Message
         /\ stream' = [stream EXCEPT ![s.ch] = Append(@, fill_CIOS_Header(TRUE))]
         /\ s.req \notin OfTask => task' = task
         /\ s.req \in OfTask =>
              /\ s.rank \in Tasks /\ Changed(task'[s.rank], task[s.rank], s.req, s.arg)
              /\ \A r \in Tasks : r # s.rank => task'[r] = task[r]
         /\ task' \in [Tasks -> TaskType]
<1>0. TypeOK /\ Sound
  BY DEF Base
<1>1. /\ todo # <<>> /\ s.do = "ask" /\ ~asked /\ asked' = TRUE /\ s.ch \in Channels
      /\ UNCHANGED <<job, todo, rc, pc>>
  BY <1>0, Sent
<1>2. \A c \in Channels : Noted(c) = <<>> /\ stream[c] = <<>>
                          /\ (Stopping(c) = {} \/ (islaunch /\ pc = "init"))
  <2> SUFFICES ASSUME NEW c \in Channels
               PROVE  Noted(c) = <<>> /\ (Stopping(c) = {} \/ (islaunch /\ pc = "init"))
    BY <1>1 DEF Noted
  <2>1. CASE islaunch /\ pc = "init"
    BY <2>1 DEF Balanced, Even
  <2>2. CASE ~(islaunch /\ pc = "init")
    <3>1. Slots(c) = {}
      BY <1>0, <1>1, <2>2, SlotsAre
    <3> QED BY <1>0, <3>1, NothingOwed
  <2> QED BY <2>1, <2>2
<1>3. PICK ok \in BOOLEAN :
        /\ faults' = (IF ok THEN faults ELSE faults + 1)
        /\ fill_CIOS_Header(ok) \in Message
        /\ stream' = [stream EXCEPT ![s.ch] = Append(@, fill_CIOS_Header(ok))]
        /\ ~ok \/ s.req \notin OfTask => task' = task
        /\ ok /\ s.req \in OfTask =>
             /\ s.rank \in Tasks /\ Changed(task'[s.rank], task[s.rank], s.req, s.arg)
             /\ \A r \in Tasks : r # s.rank => task'[r] = task[r]
        /\ task' \in [Tasks -> TaskType]
  BY <1>0, Sent
<1>4. ok = TRUE
  <2>1. SUFFICES ASSUME ~ok PROVE FALSE
    OBVIOUS
  <2>2. faults' # 0
    BY <1>0, <1>3, <2>1 DEF TypeOK
  <2>3. ~Refusal'
    BY <2>2 DEF Calm
  <2>4. stream'[s.ch] = Append(stream[s.ch], fill_CIOS_Header(FALSE))
    BY <1>0, <1>1, <1>3, <2>1, StreamPut DEF TypeOK
  <2>5. stream[s.ch] = <<>>
    BY <1>1, <1>2
  <2> DEFINE m == fill_CIOS_Header(FALSE)
  <2>6. ~m.ok /\ m \in Message
    BY <1>3, <2>1 DEF fill_CIOS_Header
  <2> HIDE DEF m
  <2>7. stream'[s.ch] = Append(<<>>, m)
    BY <2>4, <2>5 DEF m
  <2>8. stream'[s.ch] # <<>> /\ Head(stream'[s.ch]) = m
    <3>1. Append(<<>>, m) = <<m>>
      OBVIOUS
    <3> QED BY <2>7, <3>1
  <2>9. s' = s
    BY <1>1 DEF s
  <2> QED BY <1>1, <2>3, <2>6, <2>8, <2>9 DEF Refusal
<1> QED BY <1>2, <1>3, <1>4

LEMMA BalancedSent ==
  ASSUME Base, ~IsLinux, Ordered, Balanced, Calm', lmon_write_raw
  PROVE  Balanced'
<1>0. TypeOK /\ Sound
  BY DEF Base
<1>1. /\ todo # <<>> /\ s.do = "ask" /\ ~asked /\ asked' = TRUE /\ s.ch \in Channels
      /\ UNCHANGED <<job, todo, rc, pc, misread, seqNum>>
  BY <1>0, Sent DEF bgq
<1>2. s' = s /\ islaunch' = islaunch
  BY <1>1 DEF s, islaunch
<1> DEFINE m == fill_CIOS_Header(TRUE)
<1>3. /\ \A c \in Channels : Noted(c) = <<>> /\ stream[c] = <<>>
                             /\ (Stopping(c) = {} \/ (islaunch /\ pc = "init"))
      /\ m \in Message /\ stream' = [stream EXCEPT ![s.ch] = Append(@, m)]
      /\ s.req \notin OfTask => task' = task
      /\ s.req \in OfTask =>
           /\ s.rank \in Tasks /\ Changed(task'[s.rank], task[s.rank], s.req, s.arg)
           /\ \A r \in Tasks : r # s.rank => task'[r] = task[r]
  BY SentCalm
<1>4. m' = m
  BY <1>1, <1>2 DEF fill_CIOS_Header
<1> HIDE DEF m
<1>5. stream'[s.ch] = Append(<<>>, m) /\ \A c \in Channels : c # s.ch => stream'[c] = <<>>
  BY <1>0, <1>1, <1>3, StreamPut DEF TypeOK
<1>6. stream'[s.ch] # <<>> /\ Head(stream'[s.ch]) = m /\ Tail(stream'[s.ch]) = <<>>
  <2>1. Append(<<>>, m) = <<m>> /\ Tail(<<m>>) = <<>> /\ Head(<<m>>) = m
    BY <1>3
  <2> QED BY <1>5, <2>1
<1>7. \A c \in Channels : Noted(c)' = <<>>
  BY <1>1, <1>2, <1>5, <1>6 DEF Noted
<1>8. ASSUME NEW c \in Channels PROVE Stopping(c)' \subseteq Slots(c)'
  <2>1. CASE islaunch /\ pc = "init"
    BY <1>1, <1>2, <2>1 DEF Stopping, Slots
  <2>2. CASE ~(islaunch /\ pc = "init")
    <3>1. Stopping(c) = {}
      BY <1>3, <2>2
    <3> SUFFICES ASSUME NEW r \in Tasks, ChanOf(job.rm, r) = c, task'[r].sigstop
                 PROVE  r \in Slots(c)'
      BY <1>1 DEF Stopping
    <3>2. ~task[r].sigstop
      BY <3>1 DEF Stopping
    <3>3. s.req \in OfTask /\ r = s.rank /\ s.req \in Stop
      BY <1>3, <3>2 DEF Changed
    <3>4. s.ch = c
      BY <1>0, <1>1, <3>3, AtStep DEF Fits
    <3>5. pc \notin {"barrier", "initdone"}
      <4>1. s.req \in Kinds(job.rm, pc) /\ job.rm \in {"bgp", "bgq"}
        BY <1>0, <1>1, StepKinds DEF IsLinux, TypeOK, RMs
      <4> QED BY <3>3, <4>1 DEF Kinds, BgpKinds, BgqKinds, Stop
    <3> QED BY <1>1, <1>2, <2>2, <3>3, <3>4, <3>5 DEF Slots
  <2> QED BY <2>1, <2>2
<1>9. \A c \in Channels : Even(c)'
  BY <1>7, <1>8, EvenEmpty
<1>10. ~misread' /\ (rc' = "LMON_OK" \/ pc' = "perf")
  BY <1>1 DEF Balanced
<1>11. asked' => stream'[s'.ch] # <<>> /\ Head(stream'[s'.ch]) = m'
  BY <1>2, <1>4, <1>6
<1> QED BY <1>9, <1>10, <1>11 DEF Balanced, m

(* What is read is what the call expects. *)
LEMMA ReadCalm ==
  ASSUME Base, ~IsLinux, Balanced, lmon_read_raw
  PROVE  /\ misread' = FALSE /\ todo' = Expanded \o Tail(todo) /\ rc' = rc
         /\ s.do = "noti" => ~asked
         /\ \A c \in Channels : s.do = "noti" /\ c = s.ch => Noted(c) # <<>> /\ Noted(c)' = Tail(Noted(c))
         /\ \A c \in Channels : s.do = "ask" \/ c # s.ch => Noted(c)' = Noted(c)
<1>0. TypeOK /\ Sound
  BY DEF Base
<1> DEFINE m == Head(stream[s.ch])
<1>1. /\ todo # <<>> /\ s.do \in {"ask", "noti"} /\ (s.do = "ask" => asked) /\ s.ch \in Channels
      /\ stream[s.ch] # <<>> /\ m \in Message
      /\ misread' = (misread \/ m.type # s.req)
      /\ asked' = FALSE
      /\ stream'[s.ch] = Tail(stream[s.ch])
      /\ \A c \in Channels : c # s.ch => stream'[c] = stream[c]
      /\ \/ Accepted(m) /\ todo' = Expanded \o Tail(todo) /\ rc' = rc
         \/ ~Accepted(m) /\ todo' = <<>> /\ rc' = "LMON_EINVAL"
  BY <1>0, ReadIs
<1>2. ~misread
  BY DEF Balanced
<1>3. CASE s.do = "ask"
  <2>1. asked /\ m = fill_CIOS_Header(TRUE) /\ s.req \in Asking /\ s.req # "Notify"
    BY <1>0, <1>1, <1>3, StepKinds DEF Balanced
  <2>2. m.type = s.req /\ m.rank = s.rank /\ m.seq = seqNum /\ m.ok
    BY <2>1 DEF fill_CIOS_Header
  <2>3. Accepted(m)
    <3> HIDE DEF m
    <3>1. verify_MessageHeader(m)
      BY <2>2 DEF verify_MessageHeader
    <3> QED BY <2>1, <2>2, <3>1 DEF Accepted
  <2> HIDE DEF m
  <2>4. \A c \in Channels : Noted(c)' = Noted(c)
    BY <1>1, <2>1 DEF Noted
  <2> QED BY <1>1, <1>2, <1>3, <2>2, <2>3, <2>4
<1>4. CASE s.do = "noti"
  <2>1. ~asked /\ s.req = "Notify"
    BY <1>0, <1>1, <1>4, StepKinds DEF Sound
  <2>2. Noted(s.ch) = stream[s.ch] /\ \A c \in Channels : Noted(c) = stream[c]
    BY <2>1 DEF Noted
  <2>3. \A c \in Channels : Noted(c)' = stream'[c]
    BY <1>1 DEF Noted
  <2>4. m.type = "Notify" /\ m.ok
    <3> DEFINE q == stream[s.ch]
    <3>1. q \in Seq(Message) /\ q # <<>> /\ m = Head(q)
      BY <1>0, <1>1 DEF TypeOK
    <3>2. \A i \in 1 .. Len(q) : q[i].type = "Notify" /\ q[i].ok
      BY <1>1, <2>2 DEF Balanced, Even
    <3> HIDE DEF q, m
    <3>3. 1 \in 1 .. Len(q) /\ Head(q) = q[1]
      BY <3>1
    <3> QED BY <3>1, <3>2, <3>3
  <2>5. Accepted(m)
    <3> HIDE DEF m
    <3> QED BY <2>1, <2>4 DEF Accepted
  <2> HIDE DEF m
  <2>6. misread' = FALSE /\ todo' = Expanded \o Tail(todo) /\ rc' = rc
    BY <1>1, <1>2, <2>1, <2>4, <2>5
  <2>7. \A c \in Channels : /\ c = s.ch => Noted(c) # <<>> /\ Noted(c)' = Tail(Noted(c))
                            /\ c # s.ch => Noted(c)' = Noted(c)
    BY <1>1, <2>2, <2>3
  <2> QED BY <1>4, <2>1, <2>6, <2>7
<1> QED BY <1>1, <1>3, <1>4

(* A step that is taken from the call takes at most its own notification. *)
LEMMA SlotsTail ==
  ASSUME TypeOK, todo # <<>>, UNCHANGED <<job, pc>>, Range(Tail(todo)) \subseteq Range(todo'),
         NEW c \in Channels
  PROVE  /\ s.do = "noti" /\ s.ch = c /\ ~asked => Slots(c) \subseteq Slots(c)' \cup {s.rank}
         /\ s.do = "noti" /\ s.ch # c /\ ~asked => Slots(c) \subseteq Slots(c)'
         /\ s.do # "noti" /\ ~(asked /\ s.req \in Stop) => Slots(c) \subseteq Slots(c)'
<1>1. islaunch' = islaunch /\ job' = job /\ pc' = pc
  BY DEF islaunch
<1>2. Range(todo) = {s} \cup Range(Tail(todo))
  BY AtStep
<1>3. CASE islaunch /\ pc \in {"init", "barrier"}
  <2>1. Slots(c)' = Slots(c)
    BY <1>1, <1>3 DEF Slots
  <2> QED BY <2>1
<1>4. CASE islaunch /\ pc = "initdone"
  <2>1. \A r : Noti(c, r).do = "noti" /\ Noti(c, r).ch = c /\ Noti(c, r).rank = r
    BY DEF Noti
  <2>2. \A r : Noti(c, r) \in Range(todo) => Noti(c, r) = s \/ Noti(c, r) \in Range(todo')
    BY <1>2
  <2>3. Slots(c) = {r \in Tasks : Noti(c, r) \in Range(todo)}
        /\ Slots(c)' = {r \in Tasks : Noti(c, r) \in Range(todo')}
    BY <1>1, <1>4 DEF Slots
  <2> QED BY <2>1, <2>2, <2>3
<1>5. CASE ~(islaunch /\ pc \in {"init", "barrier", "initdone"})
  <2>1. Slots(c) = {r \in Tasks : s.rank = r /\ s.ch = c /\ (s.do = "noti" \/ (asked /\ s.req \in Stop))}
    BY <1>5 DEF Slots
  <2> QED BY <2>1
<1> QED BY <1>3, <1>4, <1>5

LEMMA BalancedRead ==
  ASSUME Base, ~IsLinux, Ordered, Balanced, lmon_read_raw
  PROVE  Balanced'
<1>0. TypeOK /\ Sound
  BY DEF Base
<1>1. /\ todo # <<>> /\ s.do \in {"ask", "noti"} /\ (s.do = "ask" => asked) /\ s.ch \in Channels
      /\ asked' = FALSE /\ UNCHANGED <<job, pc, task>>
  BY <1>0, ReadIs
<1>2. /\ misread' = FALSE /\ todo' = Expanded \o Tail(todo) /\ rc' = rc
      /\ s.do = "noti" => ~asked
      /\ \A c \in Channels : s.do = "noti" /\ c = s.ch => Noted(c) # <<>> /\ Noted(c)' = Tail(Noted(c))
      /\ \A c \in Channels : s.do = "ask" \/ c # s.ch => Noted(c)' = Noted(c)
  BY ReadCalm
<1>3. islaunch' = islaunch /\ \A c : Stopping(c)' = Stopping(c)
  BY <1>1 DEF islaunch, Stopping
<1>4. /\ Range(Tail(todo)) \subseteq Range(todo')
      /\ s.req \notin {"ListHold", "ListRelease"} => todo' = Tail(todo)
  <2>1. \A q : q = Expanded \o Tail(todo) =>
          /\ Range(q) = Range(Expanded) \cup Range(Tail(todo))
          /\ s.req \notin {"ListHold", "ListRelease"} => q = Tail(todo)
    BY <1>0, <1>1, ExpandedTail
  <2> QED BY <1>2, <2>1
<1>5. \A c \in Channels : Noted(c) \in Seq(Message) /\ Len(Noted(c)) \in Nat /\ Even(c)
  BY <1>0, NotedIs DEF Balanced
<1>6. ASSUME NEW c \in Channels PROVE Even(c)'
  <2>1. CASE s.do = "ask" /\ s.req \notin Stop
    <3>1. Slots(c) \subseteq Slots(c)'
      BY <1>0, <1>1, <1>4, <2>1, SlotsTail
    <3>2. Noted(c)' = Noted(c) /\ Stopping(c)' \subseteq Stopping(c) /\ (pc' \in {"idle", "init"} => pc' = pc)
      BY <1>1, <1>2, <1>3, <2>1
    <3> QED BY <1>0, <1>3, <3>1, <3>2, EvenKept
  <2>2. CASE s.do = "ask" /\ s.req \in Stop
    <3>0. Noted(c)' = Noted(c) /\ Stopping(c)' = Stopping(c) /\ (pc' \in {"idle", "init"} => pc' = pc)
      BY <1>1, <1>2, <1>3, <2>2
    <3>1. CASE islaunch /\ pc \in {"init", "barrier"}
      <4>1. Slots(c)' = Slots(c)
        BY <1>1, <1>3, <3>1 DEF Slots
      <4> QED BY <1>0, <1>3, <3>0, <4>1, EvenKept
    <3>2. CASE ~(islaunch /\ pc \in {"init", "barrier"})
      <4>1. pc # "initdone"
        <5>1. s.req \in Kinds(job.rm, pc) /\ job.rm \in {"bgp", "bgq"}
          BY <1>0, <1>1, <2>2, StepKinds DEF IsLinux, TypeOK, RMs
        <5> QED BY <2>2, <5>1 DEF Kinds, BgpKinds, BgqKinds, Stop
      <4>2. Paired(todo)
        BY <3>2 DEF Ordered
      <4>3. todo' = Tail(todo)
        BY <1>4, <2>2 DEF Stop
      <4>4. todo' # <<>> /\ s'.do = "noti" /\ s'.ch = s.ch /\ s'.rank \in Tasks
        <5> DEFINE A == StepsOf(job.rm, pc)
        <5>1. todo \in Seq(A) /\ s = Head(todo) /\ s' = Head(todo')
          BY <1>0 DEF TypeOK, s
        <5>2. \A e \in A : e.do = "noti" => e.rank \in Tasks
          BY DEF StepsOf, Fits
        <5> HIDE DEF A
        <5>3. /\ s = todo[1] /\ 1 \in 1 .. Len(todo)
          BY <1>1, <5>1
        <5>4. Kind(todo[1]) \in Stop
          BY <2>2, <5>3 DEF Kind
        <5>5. 1 < Len(todo) /\ todo[2].do = "noti" /\ todo[2].ch = s.ch
          BY <4>2, <5>3, <5>4 DEF Paired
        <5>6. Tail(todo) # <<>> /\ Head(Tail(todo)) = todo[2] /\ todo[2] \in A
          <6> DEFINE w == todo
          <6>1. w \in Seq(A) /\ 1 < Len(w)
            BY <5>1, <5>5
          <6> HIDE DEF w
          <6>2. Tail(w) # <<>> /\ Head(Tail(w)) = w[2] /\ w[2] \in A
            BY <6>1
          <6> QED BY <6>2 DEF w
        <5> QED BY <4>3, <5>1, <5>2, <5>5, <5>6
      <4>5. Slots(c) = {r \in Tasks : s.rank = r /\ s.ch = c}
        BY <1>1, <2>2, <3>2, <4>1 DEF Slots
      <4>6. Slots(c)' = {r \in Tasks : s'.rank = r /\ s'.ch = c}
        BY <1>1, <1>3, <3>2, <4>1, <4>4 DEF Slots
      <4>7. CASE s.ch # c
        <5>1. Slots(c) \subseteq Slots(c)'
          BY <4>5, <4>7
        <5> QED BY <1>0, <1>3, <3>0, <5>1, EvenKept
      <4>8. CASE s.ch = c
        <5>1. Cardinality(Slots(c)') = 1
          <6>1. Slots(c)' = {s'.rank}
            BY <4>4, <4>6, <4>8
          <6> QED BY <6>1, FS_Singleton
        <5>2. Cardinality(Slots(c)) <= 1
          <6>1. Slots(c) \subseteq {} \cup {s.rank} /\ Cardinality({}) = 0
            BY <4>5, FS_EmptySet
          <6>2. {} \in SUBSET Tasks /\ Slots(c) \in SUBSET Tasks
            BY TasksOnly
          <6>3. Cardinality(Slots(c)) <= Cardinality({}) + 1
            BY <6>1, <6>2, OneMore, Zenon
          <6> QED BY <6>1, <6>3
        <5>3. Cardinality(Stopping(c)) \in Nat /\ Cardinality(Slots(c)) \in Nat
          BY TasksOnly, TaskSets
        <5>4. Cardinality(Stopping(c)') + Len(Noted(c)') <= Cardinality(Slots(c)')
          BY <1>5, <3>0, <5>1, <5>2, <5>3 DEF Even
        <5> QED BY <1>1, <1>3, <1>5, <3>0, <5>4 DEF Even
      <4> QED BY <4>7, <4>8
    <3> QED BY <3>1, <3>2
  <2>3. CASE s.do = "noti" /\ s.ch # c
    <3>1. Slots(c) \subseteq Slots(c)'
      BY <1>0, <1>1, <1>2, <1>4, <2>3, SlotsTail
    <3>2. Noted(c)' = Noted(c) /\ Stopping(c)' \subseteq Stopping(c) /\ (pc' \in {"idle", "init"} => pc' = pc)
      BY <1>1, <1>2, <1>3, <2>3
    <3> QED BY <1>0, <1>3, <3>1, <3>2, EvenKept
  <2>4. CASE s.do = "noti" /\ s.ch = c
    <3> DEFINE q == Noted(c)
    <3>1. q \in Seq(Message) /\ q # <<>> /\ Noted(c)' = Tail(q)
      BY <1>2, <1>5, <2>4
    <3>2. \A i \in 1 .. Len(q) : q[i].type = "Notify" /\ q[i].ok
      BY <1>5 DEF Even
    <3>3. ~(islaunch /\ pc \in {"idle", "init"})
      BY <1>5, <3>1 DEF Even
    <3>4. Slots(c) \subseteq Slots(c)' \cup {s.rank}
      BY <1>0, <1>1, <1>2, <1>4, <2>4, SlotsTail
    <3>5. Cardinality(Slots(c)) <= Cardinality(Slots(c)') + 1
      BY <3>4, TasksOnly, TasksOnlyNext, OneMore
    <3>6. Cardinality(Stopping(c)) + Len(q) <= Cardinality(Slots(c)) /\ Stopping(c)' = Stopping(c)
      BY <1>3, <1>5 DEF Even
    <3>7. Cardinality(Stopping(c)) \in Nat /\ Cardinality(Slots(c)) \in Nat /\ Cardinality(Slots(c)') \in Nat
      BY TasksOnly, TasksOnlyNext, TaskSets
    <3> HIDE DEF q
    <3>8. Len(Tail(q)) = Len(q) - 1 /\ Len(q) \in Nat /\ \A i \in 1 .. Len(q) - 1 : Tail(q)[i] = q[i + 1]
      BY <3>1
    <3>9. Cardinality(Stopping(c)') + Len(Noted(c)') <= Cardinality(Slots(c)')
      BY <3>1, <3>5, <3>6, <3>7, <3>8
    <3>10. \A i \in 1 .. Len(Noted(c)') : Noted(c)'[i].type = "Notify" /\ Noted(c)'[i].ok
      <4>1. \A i \in 1 .. Len(q) - 1 : Tail(q)[i].type = "Notify" /\ Tail(q)[i].ok
        <5> SUFFICES ASSUME NEW i \in 1 .. Len(q) - 1 PROVE Tail(q)[i].type = "Notify" /\ Tail(q)[i].ok
          OBVIOUS
        <5>1. Tail(q)[i] = q[i + 1] /\ i + 1 \in 1 .. Len(q)
          BY <3>8
        <5> QED BY <3>2, <5>1
      <4> QED BY <3>1, <3>8, <4>1
    <3> QED BY <1>1, <1>3, <3>3, <3>9, <3>10 DEF Even
  <2> QED BY <1>1, <2>1, <2>2, <2>3, <2>4
<1>7. ~misread' /\ (rc' = "LMON_OK" \/ pc' = "perf")
  BY <1>1, <1>2 DEF Balanced
<1> QED BY <1>1, <1>6, <1>7 DEF Balanced

(* The steps of the daemon's own. *)
LEMMA BalancedLocal ==
  ASSUME Base, ~IsLinux, Ordered, Balanced, Calm', Connect \/ Cleanup \/ SetFlag \/ Refused
  PROVE  Balanced' /\ ((Connect \/ Cleanup \/ SetFlag) => todo' = Tail(todo)) /\ task' = task
<1>0. TypeOK /\ Sound
  BY DEF Base
<1>1. /\ todo # <<>> /\ s.do \notin {"ask", "noti"} /\ UNCHANGED <<job, pc, task, misread>>
      /\ asked' = FALSE
  <2>1. CASE Connect \/ Cleanup
    BY <2>1 DEF Connect, Cleanup, Step, s, Goes, Fails
  <2>2. CASE SetFlag \/ Refused
    BY <2>2 DEF SetFlag, Refused, Step, s, Goes, Fails, env
  <2> QED BY <2>1, <2>2
<1>2. ~asked
  BY <1>0, <1>1 DEF Sound
<1>3. islaunch' = islaunch /\ \A c : Stopping(c)' = Stopping(c)
  BY <1>1 DEF islaunch, Stopping
<1>4. \A c \in Channels : Noted(c) = stream[c] /\ Noted(c)' = stream'[c]
  BY <1>1, <1>2 DEF Noted
<1>5. CASE Refused
  <2>1. s.do = "EINVAL" /\ rc' = "LMON_EINVAL" /\ stream' = stream
    BY <1>5 DEF Refused, Step, s, Fails, env
  <2>2. s.do \in Kinds(job.rm, pc) /\ job.rm \in {"bgp", "bgq"}
    BY <1>0, <1>1, StepKinds DEF IsLinux, TypeOK, RMs
  <2>3. pc = "perf"
    BY <2>1, <2>2 DEF Kinds, BgpKinds, BgqKinds
  <2>4. ASSUME NEW c \in Channels PROVE Even(c)'
    <3>1. Slots(c) = {}
      BY <1>1, <1>2, <2>3 DEF Slots
    <3> QED BY <1>0, <1>1, <1>3, <1>4, <2>1, <3>1, EvenKept
  <2>5. Balanced'
    BY <1>1, <2>1, <2>3, <2>4 DEF Balanced
  <2>6. ~(Connect \/ Cleanup \/ SetFlag)
    BY <2>1 DEF Connect, Cleanup, SetFlag, Step, s
  <2> QED BY <1>1, <2>5, <2>6
<1>6. CASE Connect \/ Cleanup \/ SetFlag
  <2>1. Goes /\ UNCHANGED rc
    <3>1. CASE Cleanup \/ SetFlag
      BY <3>1 DEF Cleanup, SetFlag, Goes
    <3>2. CASE Connect
      <4>1. Goes \/ (faults' = faults + 1 /\ Fails)
        BY <3>2 DEF Connect
      <4>2. faults' = faults + 1 => faults' # 0
        BY <1>0 DEF TypeOK
      <4>3. Fails => rc' # "LMON_OK"
        BY DEF Fails
      <4> QED BY <4>1, <4>2, <4>3 DEF Calm, Goes
    <3> QED BY <1>6, <3>1, <3>2
  <2>2. todo' = Tail(todo) /\ rc' = rc
    BY <2>1 DEF Goes
  <2>3. ASSUME NEW c \in Channels PROVE Slots(c) \subseteq Slots(c)'
    BY <1>0, <1>1, <1>2, <2>2, SlotsTail
  <2>4. CASE Connect \/ SetFlag
    <3>1. stream' = stream
      BY <2>4 DEF Connect, SetFlag, env
    <3>2. \A c \in Channels : Even(c)'
      BY <1>0, <1>1, <1>3, <1>4, <2>3, <3>1, EvenKept
    <3> QED BY <1>1, <2>2, <3>2 DEF Balanced
  <2>5. CASE Cleanup
    <3>1. s.do = "cleanup" /\ \A c \in Channels : stream'[c] = <<>>
      BY <2>5 DEF Cleanup, Step, s
    <3>2. ASSUME NEW c \in Channels PROVE Even(c)'
      <4>1. pc # "init"
        <5>1. s.do \in Kinds(job.rm, pc) /\ job.rm \in {"bgp", "bgq"}
          BY <1>0, <1>1, StepKinds DEF IsLinux, TypeOK, RMs
        <5> QED BY <3>1, <5>1 DEF Kinds, BgpKinds, BgqKinds
      <4>2. Slots(c) = {}
        BY <1>0, <1>1, <1>2, <3>1, <4>1, SlotsAre
      <4>3. Stopping(c) = {}
        BY <1>0, <4>2, NothingOwed
      <4>4. Noted(c)' = <<>> /\ Stopping(c)' \subseteq Slots(c)'
        BY <1>3, <1>4, <3>1, <4>3
      <4> QED BY <4>4, EvenEmpty
    <3> QED BY <1>1, <2>2, <3>2 DEF Balanced
  <2> QED BY <1>1, <1>6, <2>2, <2>4, <2>5
<1> QED BY <1>5, <1>6

(* A task stops: its notification was to come and has come. *)
LEMMA BalancedStop ==
  ASSUME Base, ~IsLinux, Balanced, NEW r \in Tasks, Stops(r)
  PROVE  Balanced' /\ Slots(ChanOf(job.rm, r)) # {}
<1>0. TypeOK /\ Sound
  BY DEF Base
<1> PICK d : d = ChanOf(job.rm, r)
  OBVIOUS
<1> DEFINE m == Notice(r)
<1>1. /\ task[r].sigstop /\ ~task[r].gated
      /\ \A q \in Tasks : q # r => task'[q] = task[q]
      /\ task'[r].sigstop = FALSE
      /\ d \in Channels /\ m \in Message
      /\ stream' = [stream EXCEPT ![d] = Append(@, m)]
      /\ UNCHANGED <<job, pc, todo, asked, rc, misread, seqNum>>
  BY <1>0, StopIs DEF Others, call, bgq
<1>2. m.type = "Notify" /\ m.ok
  BY DEF Notice
<1>3. s' = s /\ islaunch' = islaunch /\ fill_CIOS_Header(TRUE)' = fill_CIOS_Header(TRUE)
  BY <1>1 DEF s, islaunch, fill_CIOS_Header
<1>4. \A c : Slots(c)' = Slots(c)
  BY <1>1, <1>3 DEF Slots
<1> HIDE DEF m
<1>5. /\ stream'[d] = Append(stream[d], m) /\ \A c \in Channels : c # d => stream'[c] = stream[c]
  BY <1>0, <1>1, StreamPut DEF TypeOK
<1>6. ~(islaunch /\ pc \in {"idle", "init"})
  BY <1>0, <1>1 DEF Sound
<1>7. r \in Stopping(d)
  BY <1>1 DEF Stopping
<1>8. stream[d] \in Seq(Message) /\ \A c \in Channels : Noted(c) \in Seq(Message) /\ Len(Noted(c)) \in Nat
  BY <1>0, <1>1, NotedIs DEF TypeOK
<1>9. asked /\ s.ch = d => stream[d] # <<>>
  BY DEF Balanced
<1>10. \A w \in Seq(Message) : /\ Len(Append(w, m)) = Len(w) + 1 /\ Append(w, m) # <<>>
                               /\ \A i \in 1 .. Len(w) : Append(w, m)[i] = w[i]
                               /\ Append(w, m)[Len(w) + 1] = m
                               /\ w # <<>> => Tail(Append(w, m)) = Append(Tail(w), m)
                                              /\ Head(Append(w, m)) = Head(w)
  <2> SUFFICES ASSUME NEW w \in Seq(Message)
               PROVE  /\ Len(Append(w, m)) = Len(w) + 1 /\ Append(w, m) # <<>>
                      /\ \A i \in 1 .. Len(w) : Append(w, m)[i] = w[i]
                      /\ Append(w, m)[Len(w) + 1] = m
                      /\ w # <<>> => Tail(Append(w, m)) = Append(Tail(w), m)
                                     /\ Head(Append(w, m)) = Head(w)
    OBVIOUS
  <2>1. m \in Message
    BY <1>1
  <2> QED BY <2>1
<1>11. Noted(d)' = Append(Noted(d), m)
  <2>1. CASE asked /\ s.ch = d
    <3>1. Noted(d) = Tail(stream[d]) /\ Noted(d)' = Tail(stream'[d])
      BY <1>1, <1>3, <2>1 DEF Noted
    <3> QED BY <1>5, <1>8, <1>9, <1>10, <2>1, <3>1
  <2>2. CASE ~(asked /\ s.ch = d)
    <3>1. Noted(d) = stream[d] /\ Noted(d)' = stream'[d]
      BY <1>1, <1>3, <2>2 DEF Noted
    <3> QED BY <1>1, <1>5, <3>1
  <2> QED BY <2>1, <2>2
<1>12. ASSUME NEW c \in Channels PROVE Even(c)'
  <2>1. CASE c # d
    <3>1. Noted(c)' = Noted(c)
      BY <1>1, <1>3, <1>5, <2>1 DEF Noted
    <3>2. Stopping(c)' \subseteq Stopping(c)
      BY <1>1 DEF Stopping
    <3> QED BY <1>0, <1>1, <1>3, <1>4, <3>1, <3>2, EvenKept
  <2>2. CASE c = d
    <3>1. Stopping(c)' = Stopping(c) \ {r}
      BY <1>1 DEF Stopping
    <3>2. Cardinality(Stopping(c)') = Cardinality(Stopping(c)) - 1
      BY <1>7, <2>2, <3>1, OneLess, TasksOnly
    <3>3. Cardinality(Stopping(c)) \in Nat /\ Cardinality(Slots(c)) \in Nat
      BY TasksOnly, TaskSets
    <3> DEFINE w == Noted(c)
    <3>4. w \in Seq(Message) /\ Len(w) \in Nat /\ Noted(c)' = Append(w, m)
      BY <1>8, <1>11, <2>2
    <3>5. /\ \A i \in 1 .. Len(w) : w[i].type = "Notify" /\ w[i].ok
          /\ Cardinality(Stopping(c)) + Len(w) <= Cardinality(Slots(c))
      BY DEF Balanced, Even
    <3> HIDE DEF w
    <3>6. Len(Noted(c)') = Len(w) + 1 /\ \A i \in 1 .. Len(w) + 1 : Append(w, m)[i] = IF i = Len(w) + 1 THEN m ELSE w[i]
      BY <1>10, <3>4
    <3>7. \A i \in 1 .. Len(Noted(c)') : Noted(c)'[i].type = "Notify" /\ Noted(c)'[i].ok
      <4>1. \A i \in 1 .. Len(w) + 1 : Append(w, m)[i].type = "Notify" /\ Append(w, m)[i].ok
        <5> SUFFICES ASSUME NEW i \in 1 .. Len(w) + 1
                     PROVE  Append(w, m)[i].type = "Notify" /\ Append(w, m)[i].ok
          OBVIOUS
        <5>1. i = Len(w) + 1 \/ i \in 1 .. Len(w)
          BY <3>4
        <5> QED BY <1>2, <3>5, <3>6, <5>1
      <4> QED BY <3>4, <3>6, <4>1
    <3>8. Cardinality(Stopping(c)') + Len(Noted(c)') <= Cardinality(Slots(c)')
      BY <1>4, <3>2, <3>3, <3>4, <3>5, <3>6
    <3> QED BY <1>1, <1>3, <1>6, <3>7, <3>8 DEF Even
  <2> QED BY <2>1, <2>2
<1>13. asked' => stream'[s'.ch] # <<>> /\ Head(stream'[s'.ch]) = fill_CIOS_Header(TRUE)'
  <2> SUFFICES ASSUME asked
               PROVE  stream'[s.ch] # <<>> /\ Head(stream'[s.ch]) = fill_CIOS_Header(TRUE)
    BY <1>1, <1>3
  <2>1. stream[s.ch] # <<>> /\ Head(stream[s.ch]) = fill_CIOS_Header(TRUE) /\ s.ch \in Channels
    BY <1>0, AtStep DEF Balanced, Sound, StepSet
  <2>2. CASE s.ch # d
    BY <1>5, <2>1, <2>2
  <2>3. CASE s.ch = d
    <3>1. stream'[d] # <<>> /\ Head(stream'[d]) = Head(stream[d])
      BY <1>5, <1>8, <1>10, <2>1, <2>3
    <3> QED BY <2>1, <2>3, <3>1
  <2> QED BY <2>2, <2>3
<1>14. ~misread' /\ (rc' = "LMON_OK" \/ pc' = "perf")
  BY <1>1 DEF Balanced
<1>15. Slots(d) # {}
  <2>1. Slots(d) # {} \/ Stopping(d) = {}
    BY <1>0, <1>1, NothingOwed
  <2> QED BY <1>7, <2>1
<1> QED BY <1>12, <1>13, <1>14, <1>15 DEF Balanced

(* A call begins: either nothing is owed, or procctl_initdone reads what *)
(* procctl_init has left.                                                *)
LEMMA BalancedCall ==
  ASSUME Base, ~IsLinux, Static, Balanced, Calm', ToolCall
  PROVE  Balanced'
<1>0. TypeOK /\ Sound
  BY DEF Base
<1>1. /\ todo = <<>> /\ ~asked /\ asked' = FALSE /\ rc' = "LMON_OK" /\ UNCHANGED <<job, task, stream, faults, misread>>
      /\ pc' \notin {"idle", "barrier"}
      /\ pc' = "init" => pc = "idle"
      /\ pc' = "initdone" => pc = "barrier"
  BY CallBegins DEF env
<1>2. islaunch' = islaunch /\ \A c : Stopping(c)' = Stopping(c) /\ Noted(c)' = stream[c] /\ Noted(c) = stream[c]
  BY <1>1 DEF islaunch, Stopping, Noted
<1>3. ASSUME NEW c \in Channels, Slots(c) = {} \/ Fresh PROVE Even(c)'
  <2>1. Noted(c) = <<>> /\ Stopping(c) = {}
    <3>1. CASE Slots(c) = {}
      BY <1>0, <3>1, NothingOwed
    <3>2. CASE Fresh
      BY <1>2, <3>2 DEF Fresh, Stopping
    <3> QED BY <1>3, <3>1, <3>2
  <2>2. Noted(c)' = <<>> /\ Stopping(c)' \subseteq Slots(c)'
    BY <1>2, <2>1
  <2> QED BY <2>2, EvenEmpty
<1>4. ASSUME NEW c \in Channels PROVE Even(c)'
  <2>1. CASE pc' = "init"
    <3>1. Fresh
      BY <1>1, <2>1 DEF Static
    <3> QED BY <1>3, <3>1
  <2>2. CASE pc' = "initdone" /\ islaunch
    <3>1. pc = "barrier" /\ todo' = LMON_be_procctl_initdone(islaunch)
      <4>1. HandshakeInitDone
        <5>1. ASSUME HandshakeInit \/ HandshakeRun \/ TesterPerf \/ TesterStop
                     \/ LMON_be_procctl_tester_run \/ Finalize
              PROVE  pc' # "initdone"
          BY <5>1 DEF HandshakeInit, InitCall, HandshakeRun, TesterPerf, TesterStop,
                      LMON_be_procctl_tester_run, Finalize, Calls
        <5>2. ASSUME LMON_be_procctl_tester_init PROVE pc' # "initdone"
          <6>1. pc # "barrier"
            BY <5>2 DEF LMON_be_procctl_tester_init, HandshakeReturns, Ready
          <6> QED BY <1>1, <6>1
        <5> QED BY <2>2, <5>1, <5>2 DEF ToolCall
      <4> QED BY <1>1, <2>2, <4>1 DEF HandshakeInitDone, Calls
    <3>2. CASE job.rm = "bgq" /\ dontstop_fastpath
      <4>1. Fresh
        BY <3>2 DEF Static
      <4> QED BY <1>3, <4>1
    <3>3. CASE ~(job.rm = "bgq" /\ dontstop_fastpath)
      <4>1. \A r \in Tasks : Noti(ChanOf(job.rm, r), r) \in Range(todo')
        <5>1. CASE job.rm = "bgp"
          <6>1. \A r : ChanOf(job.rm, r) = Ciod
            BY <5>1 DEF ChanOf
          <6> QED BY <2>2, <3>1, <5>1, <6>1, BgpCalls
        <5>2. CASE job.rm = "bgq"
          <6>1. \A r : ChanOf(job.rm, r) = cnodeid(r)
            BY <5>2 DEF ChanOf
          <6>2. Full(CN2Ranks) /\ ~dontstop_fastpath
            BY <3>1, <3>3, <5>2, BgCalls
          <6> QED BY <2>2, <3>1, <5>2, <6>1, <6>2, BgqCalls
        <5> QED BY <5>1, <5>2, BgCalls
      <4>2. Slots(c)' = {r \in Tasks : Noti(c, r) \in Range(todo')}
        BY <1>2, <2>2 DEF Slots
      <4>3. Slots(c) = {r \in Tasks : ChanOf(job.rm, r) = c}
        BY <2>2, <3>1 DEF Slots
      <4>4. Slots(c) \subseteq Slots(c)'
        BY <4>1, <4>2, <4>3
      <4> QED BY <1>0, <1>2, <2>2, <4>4, EvenKept
    <3> QED BY <3>2, <3>3
  <2>3. CASE pc' # "init" /\ ~(pc' = "initdone" /\ islaunch)
    <3>1. ~(islaunch /\ pc \in {"init", "barrier"})
      <4>1. CASE HandshakeInit
        BY <2>3, <4>1 DEF HandshakeInit, InitCall, Calls
      <4>2. CASE HandshakeInitDone
        BY <2>3, <4>2 DEF HandshakeInitDone, Calls
      <4>3. CASE HandshakeRun \/ TesterPerf \/ TesterStop \/ LMON_be_procctl_tester_run
        BY <4>3 DEF HandshakeRun, TesterPerf, TesterStop, LMON_be_procctl_tester_run, Ready
      <4>4. CASE LMON_be_procctl_tester_init
        BY <4>4 DEF LMON_be_procctl_tester_init, HandshakeReturns, Ready
      <4>5. CASE Finalize
        <5>1. pc' = "done"
          BY <4>5 DEF Finalize, Calls
        <5>2. rc = "LMON_OK" \/ pc = "perf"
          BY DEF Balanced
        <5> QED BY <4>5, <5>2 DEF Finalize, HandshakeReturns, Ready
      <4> QED BY <4>1, <4>2, <4>3, <4>4, <4>5 DEF ToolCall
    <3>2. Range(todo) = {}
      BY <1>1, EmptyCall
    <3>3. Slots(c) = {}
      BY <1>1, <3>1, <3>2 DEF Slots
    <3> QED BY <1>3, <3>3
  <2> QED BY <2>1, <2>2, <2>3
<1> QED BY <1>1, <1>4 DEF Balanced

LEMMA BalancedNext ==
  ASSUME Base, ~IsLinux, Ordered, Static, Balanced, Calm', [Next]_vars
  PROVE  Balanced'
<1>0. TypeOK /\ Sound
  BY DEF Base
<1>1. ASSUME UNCHANGED <<job, todo, asked, rc, misread, seqNum, stream>>,
             \A r \in Tasks : task'[r].sigstop = task[r].sigstop,
             pc' = pc \/ (pc = "init" /\ pc' = "barrier" /\ todo = <<>>)
      PROVE  Balanced'
  <2>1. s' = s /\ islaunch' = islaunch /\ fill_CIOS_Header(TRUE)' = fill_CIOS_Header(TRUE)
    BY <1>1 DEF s, islaunch, fill_CIOS_Header
  <2>2. ASSUME NEW c \in Channels PROVE Even(c)'
    <3>1. Noted(c)' = Noted(c) /\ Stopping(c)' \subseteq Stopping(c)
      BY <1>1, <2>1 DEF Noted, Stopping
    <3>2. Slots(c) \subseteq Slots(c)'
      BY <1>1, <2>1 DEF Slots
    <3> QED BY <1>0, <1>1, <2>1, <3>1, <3>2, EvenKept
  <2> QED BY <1>1, <2>1, <2>2 DEF Balanced
<1>2. CASE ToolCall
  BY <1>2, BalancedCall
<1>3. CASE Barrier
  <2>1. UNCHANGED <<job, todo, asked, rc, misread, seqNum, stream, task>> /\ pc = "init" /\ pc' = "barrier" /\ todo = <<>>
    BY <1>3 DEF Barrier, Ready, call, env, bgq
  <2> QED BY <1>1, <2>1
<1>4. CASE RMContinues \/ UNCHANGED vars
  <2>1. UNCHANGED <<job, todo, asked, rc, misread, seqNum, stream, task, pc>>
    BY <1>4 DEF RMContinues, Others, vars, call, env, bgq
  <2> QED BY <1>1, <2>1
<1>5. CASE \E r \in Tasks : RMReleases(r)
  <2>1. PICK r \in Tasks : RMReleases(r)
    BY <1>5
  <2>2. ~job.mpao
    BY <1>0 DEF TypeOK, IsLinux
  <2>3. /\ \A q \in Tasks : task'[q].sigstop = task[q].sigstop
        /\ UNCHANGED <<job, todo, asked, rc, misread, seqNum, stream, pc>>
    BY <1>0, <2>1, <2>2, ReleaseIs DEF Others, call, bgq
  <2> QED BY <1>1, <2>3
<1>6. CASE \E r \in Tasks : Stops(r)
  BY <1>6, BalancedStop
<1>7. CASE lmon_write_raw
  BY <1>7, BalancedSent
<1>8. CASE lmon_read_raw
  BY <1>8, BalancedRead
<1>9. CASE Connect \/ Cleanup \/ SetFlag \/ Refused
  BY <1>9, BalancedLocal
<1>10. ~Signal /\ ~waitpid /\ ~(\E r \in Tasks : Dies(r))
  BY <1>0, SignalIs, WaitIs DEF Dies
<1> QED BY <1>2, <1>3, <1>4, <1>5, <1>6, <1>7, <1>8, <1>9, <1>10 DEF Next, Daemon, Tool, System, ToolCall

-----------------------------------------------------------------------------
(* BlueGene: what has been done to a task is no longer in the call *)

\* the requests that have not been sent yet
Due == IF asked THEN Tail(todo) ELSE todo
Later(e) == e \in Range(Due)

BgpTask(r) ==
  /\ task[r].held = {}
  /\ pc = "init" => Down(r) \/ Later(Ask("KILL", Ciod, r, 0))
  /\ pc \in {"barrier", "initdone"} => Down(r)
  /\ pc \in {"run", "tester_run"} =>
       /\ ~task[r].stopped \/ Later(Ask("CONTINUE", Ciod, r, 0))
       /\ todo # <<>> /\ First(Head(todo)) => Ask("CONTINUE", Ciod, r, 0) \in Range(todo)

BgqTask(r) ==
  /\ pc \in {"init", "barrier", "perf", "tester_stop", "tester_run"} => task[r].held = {}
  /\ pc = "initdone" => \A x \in Threads :
       \/ x \in task[r].held \/ Ask("ListHold", cnodeid(r), r, 0) \in Range(todo)
       \/ Later(Ask("HoldThr", cnodeid(r), r, x))
  /\ pc = "tester_init" => \A x \in task[r].held :
       \/ Ask("ListRelease", cnodeid(r), r, 0) \in Range(todo)
       \/ Later(Ask("ReleaseThr", cnodeid(r), r, x))
  /\ pc = "tester_run" => ~task[r].stopped \/ Later(Ask("Continue", cnodeid(r), r, 0))

Done(r) ==
  /\ job.rm = "bgp" => BgpTask(r)
  /\ job.rm = "bgq" /\ ~dontstop_fastpath => BgqTask(r)

BG == ~IsLinux =>
  /\ Static /\ Ordered
  /\ Calm => Balanced /\ \A r \in Tasks : Done(r)

LEMMA AskIs ==
  ASSUME NEW req, NEW ch, NEW r, NEW x
  PROVE  /\ Ask(req, ch, r, x).do = "ask" /\ Ask(req, ch, r, x).req = req
         /\ Ask(req, ch, r, x).ch = ch /\ Ask(req, ch, r, x).rank = r /\ Ask(req, ch, r, x).arg = x
BY DEF Ask

LEMMA DueIs ==
  ASSUME TypeOK, todo # <<>>, NEW e
  PROVE  /\ e \in Range(todo) <=> e = s \/ e \in Range(Tail(todo))
         /\ Later(e) => e \in Range(todo)
         /\ e \in Range(todo) /\ e # s => Later(e)
<1>1. Range(todo) = {s} \cup Range(Tail(todo))
  BY AtStep
<1> QED BY <1>1 DEF Later, Due

\* a step of the call other than a request that is being sent
LEMMA LaterOn ==
  ASSUME TypeOK, todo # <<>>, asked' = FALSE, Range(Tail(todo)) \subseteq Range(todo'),
         asked \/ s.do # "ask", NEW e, e.do = "ask"
  PROVE  /\ Later(e) => Later(e)'
         /\ e \in Range(todo) /\ e # s => Later(e)' /\ e \in Range(todo')
<1>1. /\ e \in Range(todo) <=> e = s \/ e \in Range(Tail(todo))
      /\ Later(e) => e \in Range(todo)
  BY DueIs
<1>2. Later(e)' <=> e \in Range(todo')
  BY DEF Later, Due
<1>3. CASE asked
  BY <1>1, <1>2, <1>3 DEF Later, Due
<1>4. CASE s.do # "ask"
  BY <1>1, <1>2, <1>4
<1> QED BY <1>3, <1>4

LEMMA LaterSent ==
  ASSUME TypeOK, lmon_write_raw, NEW e
  PROVE  Later(e) => Later(e)' \/ e = s
<1>1. todo # <<>> /\ ~asked /\ asked' = TRUE /\ todo' = todo
  BY Sent
<1> QED BY <1>1, DueIs DEF Later, Due

(* Steps that do not touch the call. *)
LEMMA LaterSame ==
  ASSUME UNCHANGED <<todo, asked>>
  PROVE  \A e : Later(e)' = Later(e)
BY DEF Later, Due

LEMMA BgpKept ==
  ASSUME Base, Ordered, Static, Balanced, \A r \in Tasks : Done(r), Calm', [Next]_vars, job.rm = "bgp",
         ~ToolCall
  PROVE  \A r \in Tasks : BgpTask(r)'
<1>0. TypeOK /\ Sound /\ ~IsLinux /\ job' = job
  BY Steady DEF Base, IsLinux
<1> SUFFICES ASSUME NEW r \in Tasks PROVE BgpTask(r)'
  OBVIOUS
<1>1. BgpTask(r) /\ ~task[r].gone
  BY <1>0 DEF Done, Sound
<1> DEFINE k == Ask("KILL", Ciod, r, 0)
           e == Ask("CONTINUE", Ciod, r, 0)
<1>2. /\ k.do = "ask" /\ k.req = "KILL" /\ k.rank = r
      /\ e.do = "ask" /\ e.req = "CONTINUE" /\ e.rank = r /\ ~First(e)
  BY AskIs DEF First, Kind
<1>3. pc \in {"run", "tester_run"} => Phased(todo)
  BY DEF Ordered
<1>4. /\ task[r].held = {}
      /\ pc = "init" => Down(r) \/ Later(k)
      /\ pc \in {"barrier", "initdone"} => Down(r)
      /\ pc \in {"run", "tester_run"} =>
           /\ ~task[r].stopped \/ Later(e)
           /\ todo # <<>> /\ First(Head(todo)) => e \in Range(todo)
  BY <1>1 DEF BgpTask
<1>5. ASSUME /\ task'[r].held = {}
             /\ pc' = "init" => Down(r)' \/ Later(k)'
             /\ pc' \in {"barrier", "initdone"} => Down(r)'
             /\ pc' \in {"run", "tester_run"} =>
                  /\ ~task'[r].stopped \/ Later(e)'
                  /\ todo' # <<>> /\ First(Head(todo')) => e \in Range(todo')
      PROVE  BgpTask(r)'
  BY <1>5 DEF BgpTask
<1> HIDE DEF k, e
<1>6. ASSUME task' = task, todo # <<>>, asked' = FALSE, todo' = Tail(todo), asked \/ s.do # "ask", pc' = pc
      PROVE  BgpTask(r)'
  <2>1. /\ Later(k) => Later(k)'
        /\ Later(e) => Later(e)'
        /\ e \in Range(todo) /\ e # s => e \in Range(todo')
    BY <1>0, <1>2, <1>6, LaterOn
  <2>2. Down(r)' = Down(r)
    BY <1>6 DEF Down
  <2>3. ASSUME pc \in {"run", "tester_run"}, todo' # <<>>, First(Head(todo'))
        PROVE  e \in Range(todo')
    <3>1. Head(todo') \in Range(todo)
      BY <1>0, <1>6, <2>3, HeadLeft
    <3> DEFINE A == StepsOf(job.rm, pc)
    <3>2. todo \in Seq(A) /\ s = Head(todo)
      BY <1>0 DEF TypeOK, s
    <3> HIDE DEF A
    <3>3. First(s)
      BY <1>3, <1>6, <2>3, <3>1, <3>2, NoneFirst
    <3>4. e # s
      BY <1>2, <3>3
    <3> QED BY <1>4, <1>6, <2>1, <2>3, <3>2, <3>3, <3>4
  <2> QED BY <1>4, <1>5, <1>6, <2>1, <2>2, <2>3
<1>7. CASE Barrier
  <2>1. pc = "init" /\ todo = <<>> /\ pc' = "barrier" /\ task' = task
    BY <1>7 DEF Barrier, Ready, env
  <2>2. ~asked
    BY <1>0, <2>1 DEF Sound
  <2>3. ~Later(k)
    BY <2>1, <2>2, EmptyCall DEF Later, Due
  <2>4. Down(r)'
    BY <1>4, <2>1, <2>3 DEF Down
  <2> QED BY <1>4, <1>5, <2>1, <2>4
<1>8. CASE lmon_read_raw
  <2>1. /\ todo # <<>> /\ s.do \in {"ask", "noti"} /\ (s.do = "ask" => asked)
        /\ asked' = FALSE /\ pc' = pc /\ task' = task /\ todo' = Expanded \o Tail(todo)
    BY <1>0, <1>8, ReadIs, ReadCalm
  <2>2. s.req \notin {"ListHold", "ListRelease"}
    <3>1. s.req \in BgpKinds(pc)
      BY <1>0, <2>1, StepKinds DEF Kinds
    <3> QED BY <3>1 DEF BgpKinds
  <2>3. todo' = Tail(todo)
    <3>1. \A q : q = Expanded \o Tail(todo) => q = Tail(todo)
      BY <1>0, <2>1, <2>2, ExpandedTail
    <3> QED BY <2>1, <3>1
  <2> QED BY <1>6, <2>1, <2>3
<1>9. CASE SetFlag
  <2>1. todo # <<>> /\ s.do = "all_stopped" /\ todo' = Tail(todo) /\ asked' = FALSE /\ pc' = pc /\ task' = task
    BY <1>9 DEF SetFlag, Step, s, Goes, env
  <2> QED BY <1>6, <2>1
<1>10. CASE Refused
  <2>1. todo # <<>> /\ s.do = "EINVAL" /\ pc' = pc /\ task' = task
    BY <1>10 DEF Refused, Step, s, env
  <2>2. s.do \in BgpKinds(pc)
    BY <1>0, <2>1, StepKinds DEF Kinds
  <2>3. pc = "perf"
    BY <2>1, <2>2 DEF BgpKinds
  <2> QED BY <1>4, <1>5, <2>1, <2>3
<1>11. ~Connect /\ ~Cleanup /\ ~Signal /\ ~waitpid /\ ~(\E q \in Tasks : Dies(q))
  BY <1>0, SignalIs, WaitIs, StepKinds DEF Dies, Connect, Cleanup, Step, s
<1>12. CASE lmon_write_raw
  <2>1. todo # <<>> /\ s.do = "ask" /\ ~asked /\ asked' = TRUE /\ todo' = todo /\ pc' = pc
    BY <1>0, <1>12, Sent
  <2>2. /\ s.req \notin OfTask => task' = task
        /\ s.req \in OfTask =>
              /\ s.rank \in Tasks /\ Changed(task'[s.rank], task[s.rank], s.req, s.arg)
              /\ \A q \in Tasks : q # s.rank => task'[q] = task[q]
    BY <1>0, <1>12, SentCalm
  <2>3. (Later(k) => Later(k)' \/ k = s) /\ (Later(e) => Later(e)' \/ e = s)
    BY <1>0, <1>12, LaterSent
  <2>4. s.req \in BgpKinds(pc)
    BY <1>0, <2>1, StepKinds DEF Kinds
  <2>5. s.req \notin {"HoldThr", "ReleaseThr", "Continue", "ReleaseControl"}
        /\ (pc \in {"init", "barrier", "initdone"} => s.req # "CONTINUE")
    BY <2>4 DEF BgpKinds
  <2>6. /\ task'[r].held = task[r].held
        /\ task[r].sigstop => task'[r].sigstop
        /\ task'[r].stopped => task[r].stopped
        /\ pc \in {"init", "barrier", "initdone"} => task'[r].stopped = task[r].stopped
        /\ task'[r].gone = task[r].gone
        /\ s.req = "KILL" /\ s.rank = r => task'[r].sigstop
        /\ s.req = "CONTINUE" /\ s.rank = r => ~task'[r].stopped
    <3>1. CASE s.req \in OfTask /\ s.rank = r
      <4>1. Changed(task'[r], task[r], s.req, s.arg)
        BY <2>2, <3>1
      <4> QED BY <2>5, <4>1 DEF Changed, Stop
    <3>2. CASE ~(s.req \in OfTask /\ s.rank = r)
      <4>1. task'[r] = task[r]
        BY <2>2, <3>2
      <4> QED BY <3>2, <4>1 DEF OfTask
    <3> QED BY <3>1, <3>2
  <2>7. Down(r) => Down(r)' \/ pc \in {"run", "tester_run", "tester_init", "perf", "tester_stop", "done", "idle"}
    <3>1. pc \in Steps
      BY <1>0 DEF TypeOK
    <3> QED BY <2>6, <3>1 DEF Down, Steps
  <2>8. k = s => Down(r)'
    BY <1>2, <2>6 DEF Down
  <2>9. e = s => ~task'[r].stopped
    BY <1>2, <2>6
  <2> QED BY <1>4, <1>5, <2>1, <2>3, <2>6, <2>7, <2>8, <2>9
<1>13. CASE RMContinues \/ UNCHANGED vars
  <2>1. UNCHANGED <<task, todo, asked, pc>>
    BY <1>13 DEF RMContinues, Others, vars, call, env
  <2> QED BY <1>4, <1>5, <2>1, LaterSame DEF Down
<1>14. CASE \E q \in Tasks : RMReleases(q)
  <2>1. PICK q \in Tasks : RMReleases(q)
    BY <1>14
  <2>2. ~job.mpao
    BY <1>0 DEF TypeOK, IsLinux
  <2>3. /\ task'[r].held = task[r].held /\ task'[r].sigstop = task[r].sigstop
        /\ task'[r].stopped = task[r].stopped /\ task'[r].gone = task[r].gone
        /\ UNCHANGED <<todo, asked, pc>>
    BY <1>0, <2>1, <2>2, ReleaseIs DEF Others, call
  <2> QED BY <1>4, <1>5, <2>3, LaterSame DEF Down
<1>15. CASE \E q \in Tasks : Stops(q)
  <2>1. PICK q \in Tasks : Stops(q)
    BY <1>15
  <2>2. /\ \A p \in Tasks : p # q => task'[p] = task[p]
        /\ task'[q].held = task[q].held /\ task'[q].stopped = TRUE
        /\ UNCHANGED <<todo, asked, pc>>
    BY <1>0, <2>1, StopIs DEF Others, call
  <2>3. Down(r) => Down(r)'
    BY <2>2 DEF Down
  <2>4. ASSUME pc \in {"run", "tester_run"} PROVE ~task'[r].stopped \/ Later(e)
    <3>1. CASE q # r
      BY <1>4, <2>2, <2>4, <3>1
    <3>2. CASE q = r
      <4>1. Slots(ChanOf(job.rm, r)) # {}
        BY <1>0, <2>1, <3>2, BalancedStop
      <4>2. todo # <<>> /\ (s.do = "noti" \/ (asked /\ s.req \in Stop))
        BY <2>4, <4>1 DEF Slots
      <4>3. First(s)
        <5>1. s.do = "noti" => s.req = "Notify"
          BY <1>0, <4>2, StepKinds
        <5>2. asked => s.do = "ask"
          BY <1>0 DEF Sound
        <5>3. s.req \in BgpKinds(pc)
          BY <1>0, <4>2, <5>1, <5>2, StepKinds DEF Kinds
        <5>4. s.req \in {"KILL", "Notify"}
          BY <4>2, <5>1, <5>3 DEF Stop, BgpKinds
        <5> QED BY <4>2, <5>2, <5>4 DEF First, Kind
      <4>4. e \in Range(todo) /\ e # s
        BY <1>2, <1>4, <2>4, <4>2, <4>3 DEF s
      <4> QED BY <1>0, <4>2, <4>4, DueIs
    <3> QED BY <3>1, <3>2
  <2>5. task'[r].held = {}
    BY <1>4, <2>2
  <2> QED BY <1>4, <1>5, <2>2, <2>3, <2>4, <2>5, LaterSame
<1> QED BY <1>7, <1>8, <1>9, <1>10, <1>11, <1>12, <1>13, <1>14, <1>15 DEF Next, Daemon, Tool, System, ToolCall

LEMMA BgqKept ==
  ASSUME Base, Ordered, Static, Balanced, \A r \in Tasks : Done(r), Calm', [Next]_vars, job.rm = "bgq",
         ~ToolCall, ~dontstop_fastpath
  PROVE  \A r \in Tasks : BgqTask(r)'
<1>0. TypeOK /\ Sound /\ ~IsLinux /\ job' = job
  BY Steady DEF Base, IsLinux
<1> SUFFICES ASSUME NEW r \in Tasks PROVE BgqTask(r)'
  OBVIOUS
<1>1. BgqTask(r)
  BY DEF Done
<1> DEFINE lh == Ask("ListHold", cnodeid(r), r, 0)
           lr == Ask("ListRelease", cnodeid(r), r, 0)
           h(x) == Ask("HoldThr", cnodeid(r), r, x)
           l(x) == Ask("ReleaseThr", cnodeid(r), r, x)
           e == Ask("Continue", cnodeid(r), r, 0)
<1>2. /\ lh.do = "ask" /\ lh.req = "ListHold" /\ lh.ch = cnodeid(r) /\ lh.rank = r
      /\ lr.do = "ask" /\ lr.req = "ListRelease" /\ lr.ch = cnodeid(r) /\ lr.rank = r
      /\ e.do = "ask" /\ e.req = "Continue" /\ e.rank = r
      /\ \A x : /\ h(x).do = "ask" /\ h(x).req = "HoldThr" /\ h(x).rank = r /\ h(x).arg = x
                /\ l(x).do = "ask" /\ l(x).req = "ReleaseThr" /\ l(x).rank = r /\ l(x).arg = x
  BY AskIs
<1>3. task[r] \in TaskType /\ task[r].held \subseteq Threads
  BY <1>0 DEF TypeOK, TaskType
<1>4. /\ pc \in {"init", "barrier", "perf", "tester_stop", "tester_run"} => task[r].held = {}
      /\ pc = "initdone" => \A x \in Threads : x \in task[r].held \/ lh \in Range(todo) \/ Later(h(x))
      /\ pc = "tester_init" => \A x \in task[r].held : lr \in Range(todo) \/ Later(l(x))
      /\ pc = "tester_run" => ~task[r].stopped \/ Later(e)
  BY <1>1 DEF BgqTask
<1>5. ASSUME /\ pc' \in {"init", "barrier", "perf", "tester_stop", "tester_run"} => task'[r].held = {}
             /\ pc' = "initdone" =>
                  \A x \in Threads : x \in task'[r].held \/ lh \in Range(todo') \/ Later(h(x))'
             /\ pc' = "tester_init" =>
                  \A x \in task'[r].held : lr \in Range(todo') \/ Later(l(x))'
             /\ pc' = "tester_run" => ~task'[r].stopped \/ Later(e)'
      PROVE  BgqTask(r)'
  BY <1>5 DEF BgqTask
<1> HIDE DEF lh, lr, h, l, e
<1>6. ASSUME task' = task, todo # <<>>, asked' = FALSE, Range(Tail(todo)) \subseteq Range(todo'),
             asked \/ s.do # "ask", pc' = pc,
             lh = s => \A x \in Threads : h(x) \in Range(todo'),
             lr = s => \A x \in Threads : l(x) \in Range(todo')
      PROVE  BgqTask(r)'
  <2>1. \A x : /\ Later(h(x)) => Later(h(x))'
               /\ Later(l(x)) => Later(l(x))'
    <3> SUFFICES ASSUME NEW x, NEW y \in {h(x), l(x)} PROVE Later(y) => Later(y)'
      OBVIOUS
    <3>1. y.do = "ask"
      BY <1>2
    <3> QED BY <1>0, <1>6, <3>1, LaterOn
  <2>2. Later(e) => Later(e)'
    BY <1>0, <1>2, <1>6, LaterOn
  <2>3. (lh \in Range(todo) => lh = s \/ lh \in Range(todo')) /\ (lr \in Range(todo) => lr = s \/ lr \in Range(todo'))
    BY <1>0, <1>2, <1>6, LaterOn
  <2>4. \A x \in Threads : /\ lh = s => Later(h(x))'
                           /\ lr = s => Later(l(x))'
    BY <1>6 DEF Later, Due
  <2> QED BY <1>3, <1>4, <1>5, <1>6, <2>1, <2>2, <2>3, <2>4
<1>7. CASE Barrier
  <2>1. pc = "init" /\ pc' = "barrier" /\ task' = task
    BY <1>7 DEF Barrier, Ready, env
  <2> QED BY <1>4, <1>5, <2>1
<1>8. CASE lmon_read_raw
  <2>1. /\ todo # <<>> /\ s.do \in {"ask", "noti"} /\ (s.do = "ask" => asked)
        /\ asked' = FALSE /\ pc' = pc /\ task' = task /\ todo' = Expanded \o Tail(todo)
    BY <1>0, <1>8, ReadIs, ReadCalm
  <2>2. Range(todo') = Range(Expanded) \cup Range(Tail(todo))
    <3>1. \A q : q = Expanded \o Tail(todo) => Range(q) = Range(Expanded) \cup Range(Tail(todo))
      BY <1>0, <2>1, ExpandedTail
    <3> QED BY <2>1, <3>1
  <2>3. ASSUME lh = s, NEW x \in Threads PROVE h(x) \in Range(todo')
    <3>1. s.req = "ListHold" /\ s.ch = cnodeid(r) /\ s.rank = r
      BY <1>2, <2>3
    <3>2. Ask("HoldThr", s.ch, s.rank, x) \in Range(Expanded)
      BY <1>0, <2>1, <3>1, ExpandedFits
    <3> QED BY <2>2, <3>1, <3>2 DEF h
  <2>4. ASSUME lr = s, NEW x \in Threads PROVE l(x) \in Range(todo')
    <3>1. s.req = "ListRelease" /\ s.ch = cnodeid(r) /\ s.rank = r
      BY <1>2, <2>4
    <3>2. Ask("ReleaseThr", s.ch, s.rank, x) \in Range(Expanded)
      BY <1>0, <2>1, <3>1, ExpandedFits
    <3> QED BY <2>2, <3>1, <3>2 DEF l
  <2> QED BY <1>6, <2>1, <2>2, <2>3, <2>4
<1>9. CASE Connect \/ Cleanup
  <2>1. todo # <<>> /\ s.do \notin {"ask", "noti"} /\ asked' = FALSE /\ pc' = pc
    BY <1>9 DEF Connect, Cleanup, Step, s, Goes, Fails
  <2>2. todo' = Tail(todo) /\ task' = task
    BY <1>0, <1>9, BalancedLocal
  <2>3. lh # s /\ lr # s
    BY <1>2, <2>1
  <2> QED BY <1>6, <2>1, <2>2, <2>3
<1>10. ~SetFlag /\ ~Refused /\ ~Signal /\ ~waitpid /\ ~(\E q \in Tasks : Dies(q))
  BY <1>0, SignalIs, WaitIs, StepKinds DEF Dies, SetFlag, Refused, Step, s
<1>11. CASE lmon_write_raw
  <2>1. todo # <<>> /\ s.do = "ask" /\ ~asked /\ asked' = TRUE /\ todo' = todo /\ pc' = pc
    BY <1>0, <1>11, Sent
  <2>2. /\ s.req \notin OfTask => task' = task
        /\ s.req \in OfTask =>
              /\ s.rank \in Tasks /\ Changed(task'[s.rank], task[s.rank], s.req, s.arg)
              /\ \A q \in Tasks : q # s.rank => task'[q] = task[q]
    BY <1>0, <1>11, SentCalm
  <2>3. \A x : (Later(h(x)) => Later(h(x))' \/ h(x) = s) /\ (Later(l(x)) => Later(l(x))' \/ l(x) = s)
    <3> SUFFICES ASSUME NEW x, NEW y \in {h(x), l(x)} PROVE Later(y) => Later(y)' \/ y = s
      OBVIOUS
    <3> QED BY <1>0, <1>11, LaterSent
  <2>4. Later(e) => Later(e)' \/ e = s
    BY <1>0, <1>11, LaterSent
  <2>5. s.req \in BgqKinds(pc)
    BY <1>0, <2>1, StepKinds DEF Kinds
  <2>6. /\ s.req = "HoldThr" => pc = "initdone"
        /\ s.req = "ReleaseThr" => pc \in {"init", "tester_init"}
    BY <2>5 DEF BgqKinds
  <2>7. /\ s.req = "HoldThr" /\ s.rank = r => task'[r].held = task[r].held \cup {s.arg}
        /\ s.req = "ReleaseThr" /\ s.rank = r => task'[r].held = task[r].held \ {s.arg}
        /\ s.req \notin {"HoldThr", "ReleaseThr"} \/ s.rank # r => task'[r].held = task[r].held
        /\ task'[r].stopped => task[r].stopped
        /\ s.req = "Continue" /\ s.rank = r => ~task'[r].stopped
    <3>1. CASE s.req \in OfTask /\ s.rank = r
      <4>1. Changed(task'[r], task[r], s.req, s.arg)
        BY <2>2, <3>1
      <4> QED BY <3>1, <4>1 DEF Changed
    <3>2. CASE ~(s.req \in OfTask /\ s.rank = r)
      <4>1. task'[r] = task[r]
        BY <2>2, <3>2
      <4> QED BY <3>2, <4>1 DEF OfTask
    <3> QED BY <3>1, <3>2
  <2>8. ASSUME pc = "initdone", NEW x \in Threads
        PROVE  x \in task'[r].held \/ lh \in Range(todo') \/ Later(h(x))'
    <3>1. task[r].held \subseteq task'[r].held
      BY <2>6, <2>7, <2>8
    <3>2. h(x) = s => x \in task'[r].held
      BY <1>2, <2>7
    <3> QED BY <1>4, <2>1, <2>3, <2>8, <3>1, <3>2
  <2>9. ASSUME pc = "tester_init", NEW x \in task'[r].held
        PROVE  lr \in Range(todo') \/ Later(l(x))'
    <3>1. x \in task[r].held /\ (l(x) = s => FALSE)
      BY <1>2, <2>6, <2>7, <2>9
    <3> QED BY <1>4, <2>1, <2>3, <2>9, <3>1
  <2>10. pc \in {"init", "barrier", "perf", "tester_stop", "tester_run"} => task'[r].held = {}
    BY <1>4, <2>6, <2>7
  <2>11. e = s => ~task'[r].stopped
    BY <1>2, <2>7
  <2> QED BY <1>4, <1>5, <2>1, <2>4, <2>7, <2>8, <2>9, <2>10, <2>11
<1>12. CASE RMContinues \/ UNCHANGED vars
  <2>1. UNCHANGED <<task, todo, asked, pc>>
    BY <1>12 DEF RMContinues, Others, vars, call, env
  <2> QED BY <1>4, <1>5, <2>1, LaterSame
<1>13. CASE \E q \in Tasks : RMReleases(q)
  <2>1. PICK q \in Tasks : RMReleases(q)
    BY <1>13
  <2>2. ~job.mpao
    BY <1>0 DEF TypeOK, IsLinux
  <2>3. /\ task'[r].held = task[r].held /\ task'[r].stopped = task[r].stopped
        /\ UNCHANGED <<todo, asked, pc>>
    BY <1>0, <2>1, <2>2, ReleaseIs DEF Others, call
  <2> QED BY <1>4, <1>5, <2>3, LaterSame
<1>14. CASE \E q \in Tasks : Stops(q)
  <2>1. PICK q \in Tasks : Stops(q)
    BY <1>14
  <2>2. /\ \A p \in Tasks : p # q => task'[p] = task[p]
        /\ task'[q].held = task[q].held
        /\ UNCHANGED <<todo, asked, pc>>
    BY <1>0, <2>1, StopIs DEF Others, call
  <2>3. pc # "tester_run"
    <3>1. SUFFICES ASSUME pc = "tester_run" PROVE FALSE
      OBVIOUS
    <3>2. Slots(ChanOf(job.rm, q)) # {}
      BY <1>0, <2>1, BalancedStop
    <3>3. todo # <<>> /\ (s.do = "noti" \/ (asked /\ s.req \in Stop))
      BY <3>1, <3>2 DEF Slots
    <3>4. s.do = "noti" => s.req = "Notify"
      BY <1>0, <3>3, StepKinds
    <3>5. asked => s.do = "ask"
      BY <1>0 DEF Sound
    <3>6. s.req \in BgqKinds(pc)
      BY <1>0, <3>3, <3>4, <3>5, StepKinds DEF Kinds
    <3> QED BY <3>1, <3>3, <3>4, <3>6 DEF Stop, BgqKinds
  <2>4. task'[r].held = task[r].held
    BY <2>2
  <2> QED BY <1>4, <1>5, <2>2, <2>3, <2>4, LaterSame
<1> QED BY <1>7, <1>8, <1>9, <1>10, <1>11, <1>12, <1>13, <1>14 DEF Next, Daemon, Tool, System, ToolCall

(* A call that begins has everything still to do. *)
LEMMA BgpBegins ==
  ASSUME Base, Static, \A r \in Tasks : Done(r), job.rm = "bgp", ToolCall
  PROVE  \A r \in Tasks : BgpTask(r)'
<1>0. TypeOK /\ Sound /\ ~IsLinux
  BY DEF Base, IsLinux
<1>1. /\ todo = <<>> /\ ~asked /\ asked' = FALSE /\ job' = job /\ task' = task
      /\ pc' \notin {"idle", "barrier"}
      /\ pc' = "initdone" => pc = "barrier"
  BY CallBegins DEF env
<1>2. islaunch \in BOOLEAN /\ dontstop \in BOOLEAN
  BY <1>0, Launches
<1> SUFFICES ASSUME NEW r \in Tasks PROVE BgpTask(r)'
  OBVIOUS
<1>3. /\ pc' = "init" => Ask("KILL", Ciod, r, 0) \in Range(todo')
      /\ pc' \in {"run", "tester_run"} => Ask("CONTINUE", Ciod, r, 0) \in Range(todo')
  <2>1. CASE HandshakeInit
    <3>1. pc' = "init" /\ todo' = LMON_be_procctl_init(islaunch, dontstop)
      BY <2>1 DEF HandshakeInit, InitCall, Calls
    <3> QED BY <1>2, <3>1, BgpCalls
  <2>2. CASE LMON_be_procctl_tester_init
    <3>1. pc' = "tester_init"
      BY <2>2 DEF LMON_be_procctl_tester_init, Calls
    <3> QED BY <3>1
  <2>3. CASE HandshakeRun \/ LMON_be_procctl_tester_run
    <3>1. pc' \in {"run", "tester_run"} /\ todo' = LMON_be_procctl_run
      BY <2>3 DEF HandshakeRun, LMON_be_procctl_tester_run, Calls
    <3> QED BY <1>2, <3>1, BgpCalls
  <2>4. CASE HandshakeInitDone \/ TesterPerf \/ TesterStop \/ Finalize
    <3>1. pc' \in {"initdone", "perf", "tester_stop", "done"}
      BY <2>4 DEF HandshakeInitDone, TesterPerf, TesterStop, Finalize, Calls
    <3> QED BY <3>1
  <2> QED BY <2>1, <2>2, <2>3, <2>4 DEF ToolCall
<1>4. \A e : Later(e)' <=> e \in Range(todo')
  BY <1>1 DEF Later, Due
<1>5. task[r].held = {} /\ (pc = "barrier" => Down(r))
  BY DEF Done, BgpTask
<1>6. Down(r)' = Down(r)
  BY <1>1 DEF Down
<1> QED BY <1>1, <1>3, <1>4, <1>5, <1>6 DEF BgpTask

LEMMA BgqBegins ==
  ASSUME Base, Static, \A r \in Tasks : Done(r), job.rm = "bgq", ToolCall, ~dontstop_fastpath'
  PROVE  \A r \in Tasks : BgqTask(r)'
<1>0. TypeOK /\ Sound /\ ~IsLinux
  BY DEF Base, IsLinux
<1>1. /\ todo = <<>> /\ ~asked /\ asked' = FALSE /\ job' = job /\ task' = task
      /\ pc' \notin {"idle", "barrier"}
      /\ pc' = "init" => pc = "idle"
      /\ pc' = "initdone" => pc = "barrier"
      /\ pc' = "perf" => pc = "tester_init"
      /\ pc' = "tester_stop" => pc = "tester_run"
      /\ pc' = "tester_run" => pc \in {"tester_init", "perf", "tester_stop"}
      /\ pc' \notin {"init", "tester_init"} => dontstop_fastpath' = dontstop_fastpath
  BY CallBegins DEF env
<1>2. islaunch \in BOOLEAN /\ dontstop \in BOOLEAN
  BY <1>0, Launches
<1> SUFFICES ASSUME NEW r \in Tasks PROVE BgqTask(r)'
  OBVIOUS
<1>3. /\ pc' = "initdone" => Ask("ListHold", cnodeid(r), r, 0) \in Range(todo')
      /\ pc' = "tester_init" => Ask("ListRelease", cnodeid(r), r, 0) \in Range(todo')
      /\ pc' = "tester_run" => Ask("Continue", cnodeid(r), r, 0) \in Range(todo')
  <2>1. CASE HandshakeInit
    <3>1. pc' = "init"
      BY <2>1 DEF HandshakeInit, InitCall, Calls
    <3> QED BY <3>1
  <2>2. CASE LMON_be_procctl_tester_init
    <3>1. PICK fast \in {FALSE, dontstop_fastpath} : InitCall("tester_init", FALSE, fast)
      BY <2>2 DEF LMON_be_procctl_tester_init
    <3>2. pc' = "tester_init" /\ fast = FALSE /\ todo' = LMON_be_procctl_init(FALSE, fast)
      <4>1. dontstop_fastpath' = fast /\ pc' = "tester_init" /\ todo' = LMON_be_procctl_init(FALSE, fast)
        BY <3>1 DEF InitCall, Calls
      <4>2. fast \in BOOLEAN
        BY <1>0 DEF TypeOK
      <4> QED BY <4>1, <4>2
    <3>3. todo' = init_bgq(FALSE)
      BY <3>2 DEF LMON_be_procctl_init
    <3>4. Full(Filled)
      <4>1. CN2Ranks = EmptyMap
        BY <2>2, MapReturned DEF LMON_be_procctl_tester_init
      <4> QED BY <4>1, FilledIsFull
    <3> QED BY <3>2, <3>3, <3>4, BgqInit
  <2>3. CASE HandshakeInitDone
    <3>1. pc = "barrier" /\ pc' = "initdone" /\ todo' = LMON_be_procctl_initdone(islaunch)
      BY <2>3 DEF HandshakeInitDone, Ready, Calls
    <3>2. ~dontstop_fastpath /\ Full(CN2Ranks)
      BY <1>0, <1>1, <3>1, BgCalls
    <3> QED BY <1>2, <3>1, <3>2, BgqCalls
  <2>4. CASE LMON_be_procctl_tester_run
    <3>1. pc \in {"tester_init", "perf", "tester_stop"} /\ pc' = "tester_run" /\ todo' = LMON_be_procctl_run
      BY <2>4 DEF LMON_be_procctl_tester_run, Ready, Calls
    <3>2. ~dontstop_fastpath /\ Full(CN2Ranks)
      BY <1>0, <1>1, <3>1, BgCalls
    <3> QED BY <1>2, <3>1, <3>2, BgqCalls
  <2>5. CASE HandshakeRun \/ TesterPerf \/ TesterStop \/ Finalize
    <3>1. pc' \in {"run", "perf", "tester_stop", "done"}
      BY <2>5 DEF HandshakeRun, TesterPerf, TesterStop, Finalize, Calls
    <3> QED BY <3>1
  <2> QED BY <2>1, <2>2, <2>3, <2>4, <2>5 DEF ToolCall
<1>4. \A e : Later(e)' <=> e \in Range(todo')
  BY <1>1 DEF Later, Due
<1>5. ASSUME pc' \in {"init", "barrier", "perf", "tester_stop", "tester_run"} PROVE task[r].held = {}
  <2>1. CASE pc' = "init"
    BY <1>1, <2>1 DEF Static, Fresh
  <2>2. CASE pc' # "init"
    <3>1. ~dontstop_fastpath /\ pc \in {"tester_init", "perf", "tester_run", "tester_stop"}
      BY <1>1, <1>5, <2>2
    <3>2. BgqTask(r)
      BY <3>1 DEF Done
    <3>3. pc \in {"perf", "tester_stop", "tester_run"} => task[r].held = {}
      BY <3>2 DEF BgqTask
    <3>4. pc = "tester_init" => task[r].held = {}
      <4>1. SUFFICES ASSUME pc = "tester_init", NEW x \in task[r].held PROVE FALSE
        OBVIOUS
      <4>2. Range(todo) = {} /\ Range(Due) = {}
        BY <1>1, EmptyCall DEF Due
      <4> QED BY <3>2, <4>1, <4>2 DEF BgqTask, Later
    <3> QED BY <3>1, <3>3, <3>4
  <2> QED BY <2>1, <2>2
<1>6. task[r] \in TaskType /\ task[r].held \subseteq Threads
  BY <1>0 DEF TypeOK, TaskType
<1> QED BY <1>1, <1>3, <1>4, <1>5 DEF BgqTask

LEMMA BGNext ==
  ASSUME Base, BG, [Next]_vars
  PROVE  BG'
<1>1. CASE IsLinux
  <2>1. job' = job
    BY DEF Next, Daemon, Tool, System, HandshakeInit, InitCall, Barrier, HandshakeInitDone, Same, HandshakeRun,
         lmon_write_raw, lmon_read_raw, Signal, waitpid, Connect, Cleanup, SetFlag, Refused,
         LMON_be_procctl_tester_init, TesterPerf, TesterStop, LMON_be_procctl_tester_run, Finalize,
         RMContinues, RMReleases, Stops, Dies, Others, vars, env, call
  <2> QED BY <1>1, <2>1 DEF BG, IsLinux
<1>2. CASE ~IsLinux
  <2>1. Static /\ Ordered /\ (Calm => Balanced /\ \A r \in Tasks : Done(r))
    BY <1>2 DEF BG
  <2>2. Static' /\ Ordered'
    BY <1>2, <2>1, StaticNext, OrderedNext
  <2>3. ASSUME Calm' PROVE Balanced' /\ \A r \in Tasks : Done(r)'
    <3>1. Balanced /\ \A r \in Tasks : Done(r)
      BY <1>2, <2>1, <2>3, CalmBack
    <3>2. Balanced'
      BY <1>2, <2>1, <2>3, <3>1, BalancedNext
    <3>3. job' = job
      BY <1>2, Steady
    <3>4. job.rm = "bgp" => \A r \in Tasks : BgpTask(r)'
      BY <2>1, <2>3, <3>1, BgpKept, BgpBegins
    <3>5. job.rm = "bgq" /\ ~dontstop_fastpath' => \A r \in Tasks : BgqTask(r)'
      BY <2>1, <2>3, <3>1, BgqKept, BgqBegins, Within
    <3> QED BY <3>2, <3>3, <3>4, <3>5 DEF Done
  <2> QED BY <2>2, <2>3 DEF BG
<1> QED BY <1>1, <1>2

LEMMA InitBG == Init => BG
<1> SUFFICES ASSUME Init PROVE BG
  OBVIOUS
<1>1. /\ todo = <<>> /\ ~asked /\ pc = "idle" /\ rc = "LMON_OK" /\ ~misread /\ faults = 0
      /\ \A c \in Channels : stream[c] = <<>>
      /\ \A r \in Tasks : task[r].held = {} /\ ~task[r].stopped /\ ~task[r].sigstop
  BY DEF Init, NewTask
<1>2. Static
  BY <1>1, NoNode DEF Static, Fresh
<1>3. Ordered
  BY <1>1, EmptyCall DEF Ordered, PairedSeq
<1>4. Balanced
  <2>1. ASSUME NEW c \in Channels PROVE Even(c)
    <3>1. Noted(c) = <<>> /\ Stopping(c) = {}
      BY <1>1 DEF Noted, Stopping
    <3>2. Cardinality(Slots(c)) \in Nat /\ Cardinality(Stopping(c)) = 0 /\ Len(Noted(c)) = 0
      BY <3>1, TasksOnly, TaskSets, FS_EmptySet
    <3> QED BY <3>1, <3>2 DEF Even
  <2> QED BY <1>1, <2>1 DEF Balanced
<1>5. \A r \in Tasks : Done(r)
  BY <1>1 DEF Done, BgpTask, BgqTask
<1> QED BY <1>2, <1>3, <1>4, <1>5 DEF BG

-----------------------------------------------------------------------------
(* The theorems *)

Inv == Base /\ Linux /\ BG

LEMMA Invariance == Spec => []Inv
<1>1. Init => Inv
  BY InitBase, InitLinux, InitBG DEF Inv
<1>2. Inv /\ [Next]_vars => Inv'
  BY BaseNext, LinuxNext, BGNext DEF Inv
<1> QED BY <1>1, <1>2, PTL DEF Spec

(* Between two calls nothing is owed. *)
LEMMA AtRest ==
  ASSUME Inv, ~IsLinux, Calm, todo = <<>>, ~(islaunch /\ pc \in {"init", "barrier"})
  PROVE  /\ \A c \in Channels : stream[c] = <<>>
         /\ \A r \in Tasks : ~task[r].sigstop
<1>1. TypeOK /\ Sound /\ Balanced
  BY DEF Inv, Base, BG
<1>2. ~asked
  BY <1>1 DEF Sound
<1>3. \A c : Slots(c) = {}
  BY EmptyCall DEF Slots
<1>4. \A c \in Channels : Noted(c) = <<>> /\ Stopping(c) = {}
  BY <1>1, <1>3, NothingOwed
<1>5. \A r \in Tasks : ChanOf(job.rm, r) \in Channels
  BY Cnodeid DEF ChanOf, Channels
<1> QED BY <1>2, <1>4, <1>5 DEF Noted, Stopping

(***************************************************************************)
(* Nothing is read for something else: whatever the order in which the     *)
(* tasks stop, the answers and the notifications of a BlueGene control     *)
(* daemon come as lmon_read_raw expects them, and no call fails, as long   *)
(* as no request is refused.                                               *)
(***************************************************************************)
THEOREM ReadAsExpected == Spec => []NoMisread
<1>1. Inv => NoMisread
  <2> SUFFICES ASSUME Inv, faults = 0 PROVE ~misread /\ (rc = "LMON_OK" \/ pc = "perf")
    BY DEF NoMisread
  <2>1. CASE IsLinux
    BY <2>1 DEF Inv, Linux
  <2>2. CASE ~IsLinux
    BY <2>2 DEF Inv, BG, Calm, Balanced
  <2> QED BY <2>1, <2>2
<1> QED BY <1>1, Invariance, PTL

(* A task is halted or not when the handshake returns. *)
LEMMA HandedOver ==
  ASSUME Inv, HandshakeReturns, job.rm = "bgp" => faults = 0, NEW r \in Tasks
  PROVE  task[r].gone \/ (Halted(r) <=> ~dontstop)
<1>0. TypeOK /\ Sound /\ Maps /\ task[r] \in TaskType /\ dontstop \in BOOLEAN
  BY Launches DEF Inv, Base, TypeOK
<1>1. /\ pc \in {"run", "initdone"} /\ todo = <<>> /\ rc = "LMON_OK"
      /\ pc = "run" => dontstop
      /\ dontstop => pc = "run"
  BY <1>0 DEF HandshakeReturns, Ready, Sound
<1>2. {} # Threads /\ Range(todo) = {} /\ ~asked
  <2>1. 1 \in Threads
    BY ProcCtlAssumption DEF Threads
  <2>2. Range(<<>>) = {}
    BY EmptyCall
  <2> QED BY <1>0, <1>1, <2>1, <2>2 DEF Sound
<1>3. CASE IsLinux
  <2>1. LinuxTask(r)
    BY <1>3 DEF Inv, Linux
  <2> QED BY <1>1, <1>2, <2>1 DEF LinuxTask, Halted, Down, Left
<1>4. CASE ~IsLinux
  <2>1. Calm
    BY <1>0, <1>1, <1>2, <1>4 DEF Calm, Shake, Refusal, IsLinux, TypeOK, RMs
  <2>2. ~task[r].sigstop
    BY <1>1, <1>4, <2>1, AtRest
  <2>3. Done(r) /\ Static /\ ~task[r].gone
    BY <1>0, <1>4, <2>1 DEF Inv, BG, Sound
  <2>4. \A e : ~Later(e)
    BY <1>2 DEF Later, Due
  <2>5. CASE job.rm = "bgp"
    <3>1. BgpTask(r)
      BY <2>3, <2>5 DEF Done
    <3> QED BY <1>1, <1>2, <2>2, <2>3, <2>4, <3>1 DEF BgpTask, Halted, Down
  <2>6. CASE job.rm = "bgq"
    <3>1. dontstop_fastpath = dontstop
      BY <1>0, <1>1, <2>6 DEF Maps
    <3>2. CASE dontstop
      <4>1. Fresh
        BY <2>3, <2>6, <3>1, <3>2 DEF Static
      <4> QED BY <1>2, <2>3, <3>2, <4>1 DEF Fresh, Halted
    <3>3. CASE ~dontstop
      <4>1. BgqTask(r) /\ pc = "initdone"
        BY <1>1, <2>3, <2>6, <3>1, <3>3 DEF Done
      <4>2. \A x \in Threads : x \in task[r].held
        BY <1>2, <2>4, <4>1 DEF BgqTask
      <4>3. task[r].held = Threads
        BY <1>0, <4>2 DEF TaskType
      <4> QED BY <3>3, <4>3 DEF Halted
    <3> QED BY <3>2, <3>3
  <2> QED BY <1>0, <1>4, <2>5, <2>6 DEF IsLinux, TypeOK, RMs
<1> QED BY <1>3, <1>4

LEMMA TesterRuns ==
  ASSUME Inv, Ready("tester_run"), faults = 0, NEW r \in Tasks
  PROVE  ~Halted(r)
<1>0. TypeOK /\ Sound /\ ~task[r].gone /\ faults \in Nat
  BY DEF Inv, Base, TypeOK, Sound
<1>1. pc = "tester_run" /\ todo = <<>> /\ {} # Threads /\ Range(todo) = {} /\ ~asked
  BY <1>0, ProcCtlAssumption, EmptyCall DEF Ready, Threads, Sound
<1>2. CASE IsLinux
  <2>1. LinuxTask(r)
    BY <1>2 DEF Inv, Linux
  <2> QED BY <1>0, <1>1, <2>1 DEF LinuxTask, Halted, Left
<1>3. CASE ~IsLinux
  <2>1. Calm
    BY DEF Calm
  <2>2. ~task[r].sigstop
    BY <1>1, <1>3, <2>1, AtRest
  <2>3. Done(r) /\ Static
    BY <1>3, <2>1 DEF Inv, BG
  <2>4. \A e : ~Later(e)
    BY <1>1 DEF Later, Due
  <2>5. CASE job.rm = "bgq" /\ dontstop_fastpath
    BY <1>0, <1>1, <2>3, <2>5 DEF Static, Fresh, Halted
  <2>6. CASE ~(job.rm = "bgq" /\ dontstop_fastpath)
    <3>1. task[r].held = {} /\ ~task[r].stopped
      BY <1>0, <1>1, <1>3, <2>3, <2>4, <2>6 DEF Done, BgpTask, BgqTask, IsLinux, TypeOK, RMs
    <3> QED BY <1>0, <1>1, <2>2, <3>1 DEF Halted
  <2> QED BY <2>5, <2>6
<1> QED BY <1>2, <1>3

(***************************************************************************)
(* When LMON_be_handshake returns a task is held, stopped or about to      *)
(* stop exactly when the mode asks for it, on every resource manager and   *)
(* however late it continues the job; and when the tester's                *)
(* LMON_be_procctl_run has returned no task is left in a stop.             *)
(***************************************************************************)
THEOREM LeftAsAsked == Spec => []StoppedAsAsked
<1>1. Inv => StoppedAsAsked
  BY HandedOver, TesterRuns DEF StoppedAsAsked
<1> QED BY <1>1, Invariance, PTL

(***************************************************************************)
(* IOToolMap holds every rank once while it is used; when the handshake    *)
(* has returned the map, its sockets and the nodes' streams are empty, and *)
(* LMON_be_procctl_done leaves no socket.                                  *)
(***************************************************************************)
THEOREM NothingLeftOver == Spec => []CleanSessions
<1>1. Inv => CleanSessions
  <2> SUFFICES ASSUME Inv PROVE CleanSessions
    OBVIOUS
  <2>0. Base /\ TypeOK /\ Sound /\ Maps
    BY DEF Inv, Base
  <2>1. \A n \in Nodes : IsInjective(CN2Ranks[n])
    <3>1. CASE CN2Ranks = EmptyMap
      BY <3>1 DEF EmptyMap, IsInjective
    <3>2. CASE Full(CN2Ranks)
      BY <3>2 DEF Full
    <3> QED BY <2>0, <3>1, <3>2 DEF Maps
  <2>2. ASSUME HandshakeReturns
        PROVE  /\ IOToolMap.socks = {} /\ ranks_of(CN2Ranks) = <<>>
               /\ \A n \in Nodes : stream[n] = <<>>
    <3>1. CN2Ranks = EmptyMap /\ IOToolMap.socks = {}
      BY <2>0, <2>2, MapReturned
    <3>2. ranks_of(CN2Ranks) = <<>>
      BY <3>1, EmptyMapIs, RanksOf
    <3>3. ASSUME NEW n \in Nodes PROVE stream[n] = <<>>
      <4>1. CASE IsLinux
        BY <4>1, NoNode DEF Inv, Linux
      <4>2. CASE job.rm = "bgp"
        BY <4>2 DEF Inv, BG, Static, IsLinux
      <4>3. CASE job.rm = "bgq"
        <5>1. pc \in {"run", "initdone"} /\ todo = <<>> /\ rc = "LMON_OK" /\ ~asked
          BY <2>0, <2>2 DEF HandshakeReturns, Ready, Sound
        <5>2. Calm /\ ~IsLinux
          BY <4>3, <5>1 DEF Calm, Shake, Refusal, IsLinux
        <5> QED BY <5>1, <5>2, AtRest, NoNode
      <4> QED BY <2>0, <4>1, <4>2, <4>3 DEF IsLinux, TypeOK, RMs
    <3> QED BY <3>1, <3>2, <3>3
  <2>3. Finished => IOToolMap.socks = {}
    <3> SUFFICES ASSUME Finished PROVE IOToolMap.socks = {}
      OBVIOUS
    <3>1. pc = "done" /\ Range(todo) = {}
      BY EmptyCall DEF Finished
    <3> QED BY <2>0, <3>1 DEF Maps
  <2> QED BY <2>1, <2>2, <2>3 DEF CleanSessions
<1> QED BY <1>1, Invariance, PTL
=============================================================================
