------------------------------ MODULE ProcCtl ------------------------------
(***************************************************************************)
(* The MPI synchronisation layer of one back-end daemon:                   *)
(* lmon_be_sync_mpi.cxx and its Linux, BlueGene/P and BlueGene/Q variants. *)
(*                                                                         *)
(* LMON_be_handshake calls procctl_init, which leaves the daemon's tasks   *)
(* stopped or about to stop, a barrier, after which the front end lets the *)
(* resource manager go on, procctl_initdone, and procctl_run unless the    *)
(* tool wants the job stopped.  The tool's daemon may then use the tester  *)
(* calls, and LMON_be_finalize calls procctl_done.                         *)
(*                                                                         *)
(* On BlueGene a call is a series of requests to the I/O node's control    *)
(* daemon.  Answers and notifications of stopped tasks come on the same    *)
(* stream, and the code reads whatever comes next for what it expects.     *)
(***************************************************************************)
EXTENDS Integers, SequencesExt

CONSTANTS NumTasks, NumNodes,    \* this daemon's tasks and their compute nodes
          NumThreads,            \* threads of a task
          MaxFaults,             \* refused requests and lost tasks
          MaxSeq                 \* a bound on the requests before another tester_stop

ASSUME ProcCtlAssumption ==
  /\ NumTasks \in Nat /\ NumNodes \in Nat \ {0} /\ NumThreads \in Nat \ {0}
  /\ MaxFaults \in Nat /\ MaxSeq \in Nat

Tasks == 1 .. NumTasks
Nodes == 1 .. NumNodes
Threads == 1 .. NumThreads
cnodeid(r) == 1 + (r % NumNodes)
Ciod == 0                        \* the pipe to BlueGene/P's control daemon
Channels == Nodes \cup {Ciod}

VARIABLES
  job,         \* the resource manager, the mode, the build's LMON_SLURM_MPAO_WR,
               \* and the version of BlueGene/P's protocol
  dontstop_fastpath,
  all_stopped, \* BlueGene/P's flag
  IOToolMap,   \* BlueGene/Q: [ranks |-> CN2Ranks, socks |-> DOMAIN CN2Sock]
  seqNum,
  pc,          \* the call of this layer the daemon is in, or comes to
  todo,        \* the rest of the call
  asked,       \* the request that waits for its answer
  rc,          \* the result of the call so far
  released,    \* the resource manager has been continued
  task,        \* the tasks
  stream,      \* what the control daemons have sent
  misread,     \* something has been read for something else
  faults

bgq == <<IOToolMap, seqNum>>
call == <<todo, asked, rc>>
env == <<released, task, stream, faults>>
vars == <<job, dontstop_fastpath, all_stopped, bgq, pc, call, env, misread>>

RMs == {"slurm", "orte", "bgp", "bgq"}
IsLinux == job.rm \in {"slurm", "orte"}

\* LMON_be_handshake: what the mode of the session means for this layer
islaunch == job.mode \in {"launch", "launch_dontstop"}
dontstop == job.mode \in {"launch_dontstop", "attach"}

-----------------------------------------------------------------------------
(* Calls as sequences of steps *)

Ask(req, ch, r, x) == [do |-> "ask", req |-> req, ch |-> ch, rank |-> r, arg |-> x]
Noti(ch, r) == [do |-> "noti", req |-> "Notify", ch |-> ch, rank |-> r, arg |-> 0]
Do(what, r) == [do |-> what, req |-> "none", ch |-> Ciod, rank |-> r, arg |-> 0]

ForAll(ranks, S(_)) == FlattenSeq([i \in 1 .. Len(ranks) |-> S(ranks[i])])
ptab == [i \in Tasks |-> i]

(* Linux: signals and ptrace; an error is noted and the loop goes on *)
stop_generic == ForAll(ptab, LAMBDA r : <<Do("SIGSTOP", r)>>)
\* the handshake runs the job with signum 0
run_generic == ForAll(ptab, LAMBDA r : <<Do("SIGCONT", r)>>)
init_ptrace == ForAll(ptab, LAMBDA r : <<Do("PTRACE_ATTACH", r)>>)

\* Mistake: the SIGCONT of the resource manager is not waited for.
InitdoneAtOnce == stop_generic \o ForAll(ptab, LAMBDA r : <<Do("PTRACE_DETACH", r)>>)

initdone_ptrace ==
  (IF job.mpao THEN ForAll(ptab, LAMBDA r : <<Do("waitpid", r)>>) ELSE <<>>)
    \o stop_generic
    \o ForAll(ptab, LAMBDA r : <<Do("PTRACE_DETACH", r)>>)

(* BlueGene/P: requests on the pipe of the control daemon *)

reap_stop_noti_bg == ForAll(ptab, LAMBDA r : <<Noti(Ciod, r)>>) \o <<Do("all_stopped", 1)>>
stop_all_wo_noti_reap_bg == ForAll(ptab, LAMBDA r : <<Ask("KILL", Ciod, r, 0)>>)
stop_bg ==
  ForAll(ptab, LAMBDA r : <<Ask("KILL", Ciod, r, 0), Noti(Ciod, r)>>) \o <<Do("all_stopped", 1)>>
init_bg(launch) ==
  ForAll(ptab, LAMBDA r : <<Ask("ATTACH", Ciod, r, 0)>>)
    \o (IF launch THEN stop_all_wo_noti_reap_bg ELSE stop_bg)
run_bg ==
  (IF all_stopped = 0 THEN stop_bg ELSE <<>>)
    \o ForAll(ptab, LAMBDA r : <<Ask("CONTINUE", Ciod, r, 0)>>) \o <<Do("all_stopped", 0)>>
initdone_bg(launch) == IF launch THEN reap_stop_noti_bg ELSE <<>>
\* END_DEBUG from protocol version 3 on
done_bg ==
  <<Ask("VERSION_MSG", Ciod, 0, 0)>> \o (IF job.v3 THEN <<Ask("END_DEBUG", Ciod, 0, 0)>> ELSE <<>>)

(* BlueGene/Q: requests on the sockets of the compute nodes *)
CN2Ranks == IOToolMap.ranks
ranks_of(map) == FlattenSeq([n \in 1 .. NumNodes |-> map[n]])
ForRanks(map, S(_)) == ForAll(ranks_of(map), S)
ForNodes(map, S(_)) == ForAll([n \in 1 .. NumNodes |-> n],
                              LAMBDA n : IF map[n] = <<>> THEN <<>> ELSE <<S(n)>>)

open_domain_socket(map) == ForNodes(map, LAMBDA n : Do("connect", n))
attach_all(map) == ForNodes(map, LAMBDA n : Ask("Attach", n, n, 0))
detach_all(map) == ForNodes(map, LAMBDA n : Ask("Detach", n, n, 0))
\* the threads to hold or to release are those the first answer lists
hold_all_threads(map) == ForRanks(map, LAMBDA r : <<Ask("ListHold", cnodeid(r), r, 0)>>)
release_all_threads(map) == ForRanks(map, LAMBDA r : <<Ask("ListRelease", cnodeid(r), r, 0)>>)
acquire_control_authority(map) ==
  ForRanks(map, LAMBDA r : <<Ask("Control", cnodeid(r), r, 0)>>) \o release_all_threads(map)
release_control_all(map) == ForRanks(map, LAMBDA r : <<Ask("ReleaseControl", cnodeid(r), r, 0)>>)

\* Mistake: one notification is left.
ReapsOneLess(map) ==
  LET all == ForRanks(map, LAMBDA r : <<Noti(cnodeid(r), r)>>) IN SubSeq(all, 2, Len(all))

reap_stop_noti(map) == ForRanks(map, LAMBDA r : <<Noti(cnodeid(r), r)>>)
stop_all_wo_noti_reap(map) == ForRanks(map, LAMBDA r : <<Ask("SendSignal", cnodeid(r), r, 0)>>)
stop_all(map) ==
  ForRanks(map, LAMBDA r : <<Ask("SendSignal", cnodeid(r), r, 0), Noti(cnodeid(r), r)>>)
fetch_mem_all(map) ==
  ForRanks(map, LAMBDA r : <<Ask("FetchMemory", cnodeid(r), r, 0), Ask("FetchMemory", cnodeid(r), r, 0)>>)

\* Mistake: only the first rank of a node is continued.
ContinueFirsts(map) == ForNodes(map, LAMBDA n : Ask("Continue", n, map[n][1], 0))

continue_all(map) == ForRanks(map, LAMBDA r : <<Ask("Continue", cnodeid(r), r, 0)>>)
cleanup_resources == <<Do("cleanup", 0)>>

\* the process table is added to what CN2Ranks holds already
Filled ==
  LET push_back[i \in 0 .. NumTasks] ==
        IF i = 0 THEN CN2Ranks
        ELSE [push_back[i - 1] EXCEPT ![cnodeid(ptab[i])] = Append(@, ptab[i])]
  IN  push_back[NumTasks]

\* Mistake: a job that is being launched is waited for as well.
InitWaits(launch) ==
  open_domain_socket(Filled) \o attach_all(Filled) \o acquire_control_authority(Filled)
    \o stop_all(Filled)

init_bgq(launch) ==
  open_domain_socket(Filled) \o attach_all(Filled) \o acquire_control_authority(Filled)
    \o (IF launch THEN stop_all_wo_noti_reap(Filled) ELSE stop_all(Filled))
initdone_bgq(launch) ==
  (IF launch THEN reap_stop_noti(CN2Ranks) ELSE <<>>)
    \o hold_all_threads(CN2Ranks) \o release_control_all(CN2Ranks)
    \o detach_all(CN2Ranks) \o cleanup_resources

-----------------------------------------------------------------------------
(* lmon_be_sync_mpi.cxx: the variant for the resource manager *)

LMON_be_procctl_init(launch, fast) ==
  CASE job.rm = "slurm" -> IF launch THEN init_ptrace ELSE stop_generic
    [] job.rm = "orte"  -> stop_generic
    [] job.rm = "bgp"   -> init_bg(launch)
    [] job.rm = "bgq"   -> IF fast THEN <<>> ELSE init_bgq(launch)

LMON_be_procctl_initdone(launch) ==
  CASE job.rm = "slurm" -> IF launch THEN initdone_ptrace ELSE <<>>
    [] job.rm = "orte"  -> <<>>
    [] job.rm = "bgp"   -> initdone_bg(launch)
    [] job.rm = "bgq"   -> IF dontstop_fastpath THEN <<>> ELSE initdone_bgq(launch)

LMON_be_procctl_run ==
  CASE IsLinux        -> run_generic
    [] job.rm = "bgp" -> run_bg
    [] job.rm = "bgq" -> IF dontstop_fastpath THEN <<>> ELSE continue_all(CN2Ranks)

LMON_be_procctl_stop ==
  CASE IsLinux        -> stop_generic
    [] job.rm = "bgp" -> stop_bg
    [] job.rm = "bgq" -> IF dontstop_fastpath THEN <<>> ELSE stop_all(CN2Ranks)

LMON_be_procctl_done ==
  CASE IsLinux        -> <<>>
    [] job.rm = "bgp" -> done_bg
    [] job.rm = "bgq" -> IF dontstop_fastpath THEN <<>> ELSE cleanup_resources

\* only BlueGene/Q fetches memory, the others refuse
LMON_be_procctl_perf == IF job.rm = "bgq" THEN fetch_mem_all(CN2Ranks) ELSE <<Do("EINVAL", 0)>>

-----------------------------------------------------------------------------
\* gated: waits for the resource manager; sigstop: a stop is pending; event: a
\* trap the tracer has not waited for
NewTask == [gone |-> FALSE, gated |-> islaunch, stopped |-> FALSE, sigstop |-> FALSE,
            traced |-> FALSE, event |-> FALSE, held |-> {}]

Init ==
  /\ job \in [rm : RMs, mode : {"launch", "launch_dontstop", "attach", "attach_stop"},
              mpao : BOOLEAN, v3 : BOOLEAN]
  /\ (job.mpao => job.rm = "slurm") /\ (job.v3 => job.rm = "bgp")
  /\ dontstop_fastpath = FALSE /\ all_stopped = 0
  /\ IOToolMap = [ranks |-> [n \in Nodes |-> <<>>], socks |-> {}]
  /\ seqNum = 0
  /\ pc = "idle" /\ todo = <<>> /\ asked = FALSE /\ rc = "LMON_OK"
  /\ released = FALSE
  /\ task = [r \in Tasks |-> NewTask]
  /\ stream = [c \in Channels |-> <<>>]
  /\ misread = FALSE /\ faults = 0

Calls(name, steps) == pc' = name /\ todo' = steps /\ asked' = FALSE /\ rc' = "LMON_OK"

Ready(name) == pc = name /\ todo = <<>> /\ rc = "LMON_OK"

\* procctl_init, from the handshake or (launch FALSE) from the tester
InitCall(name, launch, fast) ==
  /\ dontstop_fastpath' = fast
  /\ Calls(name, LMON_be_procctl_init(launch, fast))
  /\ IOToolMap' = IF job.rm = "bgq" /\ ~fast THEN [IOToolMap EXCEPT !.ranks = Filled] ELSE IOToolMap
  /\ UNCHANGED <<job, all_stopped, seqNum, env, misread>>

HandshakeInit == pc = "idle" /\ InitCall("init", islaunch, dontstop)

\* the barrier: from here on the front end may let the resource manager go on
Barrier ==
  /\ Ready("init") /\ pc' = "barrier"
  /\ UNCHANGED <<job, dontstop_fastpath, all_stopped, bgq, call, env, misread>>

Same == UNCHANGED <<job, dontstop_fastpath, all_stopped, bgq, env, misread>>

HandshakeInitDone ==
  Ready("barrier") /\ Calls("initdone", LMON_be_procctl_initdone(islaunch)) /\ Same
HandshakeRun == Ready("initdone") /\ dontstop /\ Calls("run", LMON_be_procctl_run) /\ Same

\* LMON_be_handshake returns LMON_OK
HandshakeReturns == Ready("run") \/ (Ready("initdone") /\ ~dontstop)

\* the tester calls, by a daemon that looks at what they return: the first is a
\* no-op on BlueGene/P, and inherits the fast path or switches it off
LMON_be_procctl_tester_init ==
  /\ HandshakeReturns
  /\ IF job.rm = "bgp" THEN Calls("tester_init", <<>>) /\ Same
     ELSE \E fast \in {FALSE, dontstop_fastpath} : InitCall("tester_init", FALSE, fast)

TesterPerf == Ready("tester_init") /\ ~dontstop_fastpath /\ Calls("perf", LMON_be_procctl_perf) /\ Same
TesterStop ==
  Ready("tester_run") /\ seqNum < MaxSeq /\ Calls("tester_stop", LMON_be_procctl_stop) /\ Same
LMON_be_procctl_tester_run ==
  /\ Ready("tester_init") \/ Ready("perf") \/ Ready("tester_stop")
  /\ Calls("tester_run", LMON_be_procctl_run) /\ Same

\* LMON_be_finalize, also after a handshake that failed
Finalize ==
  /\ HandshakeReturns \/ Ready("tester_run") \/ (todo = <<>> /\ rc # "LMON_OK" /\ pc # "done")
  /\ Calls("done", LMON_be_procctl_done) /\ Same

-----------------------------------------------------------------------------
(* The steps of a call *)

Step(what) == todo # <<>> /\ Head(todo).do = what
s == Head(todo)

\* a failed step ends a BlueGene call; rank 0 stands for no task
Fails == rc' = "LMON_EINVAL" /\ todo' = <<>> /\ asked' = FALSE
Goes == todo' = Tail(todo) /\ asked' = FALSE /\ UNCHANGED rc

Put(ch, m) == stream' = [stream EXCEPT ![ch] = Append(@, m)]

\* the control daemon carries the request out and answers with its header, or
\* refuses it
Effect(req, t, x) ==
  CASE req \in {"KILL", "SendSignal"}   -> [t EXCEPT !.sigstop = TRUE]
    [] req \in {"CONTINUE", "Continue"} -> [t EXCEPT !.stopped = FALSE]
    [] req = "HoldThr"                  -> [t EXCEPT !.held = @ \cup {x}]
    [] req = "ReleaseThr"               -> [t EXCEPT !.held = @ \ {x}]
    [] req = "ReleaseControl"           -> [t EXCEPT !.stopped = FALSE]
    [] OTHER -> t

fill_CIOS_Header(ok) == [type |-> s.req, rank |-> s.rank, seq |-> seqNum, ok |-> ok]

lmon_write_raw ==
  /\ Step("ask") /\ ~asked
  /\ asked' = TRUE
  /\ \E ok \in {TRUE, faults >= MaxFaults} :
       /\ faults' = IF ok THEN faults ELSE faults + 1
       /\ Put(s.ch, fill_CIOS_Header(ok))
       /\ task' = IF ok /\ s.req \notin {"Attach", "Detach", "VERSION_MSG", "END_DEBUG"}
                  THEN [task EXCEPT ![s.rank] = Effect(s.req, @, s.arg)] ELSE task
  /\ UNCHANGED <<job, dontstop_fastpath, all_stopped, bgq, pc, todo, rc, released, misread>>

verify_MessageHeader(m) ==
  m.ok /\ m.type = s.req /\ m.rank = s.rank /\ m.seq = seqNum

\* what the code checks of the message it takes for the answer: BlueGene/P's
\* return codes are not looked at, and fetched memory is not checked at all
Accepted(m) ==
  CASE s.req = "FetchMemory"           -> TRUE
    [] s.req \in {"ATTACH", "CONTINUE"} -> m.type = s.req /\ m.rank = s.rank
    [] s.req \in {"KILL", "VERSION_MSG"} -> m.type = s.req
    [] s.req = "END_DEBUG"             -> TRUE
    [] s.req = "Notify"                -> m.ok /\ m.type = "Notify"
    [] OTHER                           -> verify_MessageHeader(m)

\* the answer to ThrList makes a request for every thread
Expanded ==
  LET each(req) == [x \in Threads |-> Ask(req, s.ch, s.rank, x)] IN
  CASE s.req = "ListHold"    -> each("HoldThr")
    [] s.req = "ListRelease" -> each("ReleaseThr")
    [] OTHER                 -> <<>>

lmon_read_raw ==
  /\ (Step("ask") /\ asked) \/ Step("noti")
  /\ stream[s.ch] # <<>>
  /\ LET m == Head(stream[s.ch]) IN
       /\ misread' = (misread \/ m.type # s.req)
       /\ IF Accepted(m)
          THEN /\ todo' = Expanded \o Tail(todo) /\ asked' = FALSE
               /\ seqNum' = IF job.rm = "bgq" THEN seqNum + 1 ELSE seqNum
               /\ UNCHANGED rc
          ELSE Fails /\ UNCHANGED seqNum
  /\ stream' = [stream EXCEPT ![s.ch] = Tail(@)]
  /\ UNCHANGED <<job, dontstop_fastpath, all_stopped, IOToolMap, pc, released, task, faults>>

\* kill and ptrace: an error leaves the loop running
Signal ==
  /\ \E what \in {"SIGSTOP", "SIGCONT", "PTRACE_ATTACH", "PTRACE_DETACH"} :
       /\ Step(what)
       /\ LET t == task[s.rank] IN
          /\ task' = [task EXCEPT ![s.rank] =
               IF t.gone THEN t ELSE
               CASE what = "SIGSTOP"       -> [t EXCEPT !.sigstop = TRUE]
                 [] what = "SIGCONT"       -> [t EXCEPT !.sigstop = FALSE, !.stopped = FALSE]
                 [] what = "PTRACE_ATTACH" -> [t EXCEPT !.traced = TRUE]
                 [] what = "PTRACE_DETACH" -> [t EXCEPT !.traced = FALSE]]
          \* initdone_ptrace does not look at what stop_generic returns
          /\ rc' = IF t.gone /\ ~(pc = "initdone" /\ what = "SIGSTOP") THEN "LMON_EINVAL" ELSE rc
  /\ todo' = Tail(todo)
  /\ UNCHANGED <<job, dontstop_fastpath, all_stopped, bgq, pc, asked, released, stream, faults, misread>>

waitpid ==
  /\ Step("waitpid") /\ (task[s.rank].event \/ task[s.rank].gone)
  /\ task' = [task EXCEPT ![s.rank].event = FALSE]
  /\ Goes
  /\ UNCHANGED <<job, dontstop_fastpath, all_stopped, bgq, pc, released, stream, faults, misread>>

Connect ==
  /\ Step("connect")
  /\ \/ Goes /\ IOToolMap' = [IOToolMap EXCEPT !.socks = @ \cup {s.rank}] /\ UNCHANGED faults
     \/ faults < MaxFaults /\ faults' = faults + 1 /\ Fails /\ UNCHANGED IOToolMap
  /\ UNCHANGED <<job, dontstop_fastpath, all_stopped, seqNum, pc, released, task, stream, misread>>

\* Mistake: the sockets are forgotten, the ranks are not.
CleanupSockets ==
  /\ Step("cleanup") /\ Goes
  /\ IOToolMap' = [IOToolMap EXCEPT !.socks = {}]
  /\ stream' = [c \in Channels |-> <<>>]
  /\ UNCHANGED <<job, dontstop_fastpath, all_stopped, seqNum, pc, released, task, faults, misread>>

\* closing the sockets drops what has not been read
Cleanup ==
  /\ Step("cleanup") /\ Goes
  /\ IOToolMap' = [ranks |-> [n \in Nodes |-> <<>>], socks |-> {}]
  /\ stream' = [c \in Channels |-> <<>>]
  /\ UNCHANGED <<job, dontstop_fastpath, all_stopped, seqNum, pc, released, task, faults, misread>>

SetFlag ==
  /\ Step("all_stopped") /\ Goes /\ all_stopped' = s.rank
  /\ UNCHANGED <<job, dontstop_fastpath, bgq, pc, env, misread>>

Refused ==
  /\ Step("EINVAL") /\ Fails
  /\ UNCHANGED <<job, dontstop_fastpath, all_stopped, bgq, pc, env, misread>>

Daemon ==
  \/ HandshakeInit \/ Barrier \/ HandshakeInitDone \/ HandshakeRun
  \/ lmon_write_raw \/ lmon_read_raw \/ Signal \/ waitpid \/ Connect \/ Cleanup
  \/ SetFlag \/ Refused

Tool == \/ LMON_be_procctl_tester_init \/ TesterPerf \/ TesterStop
        \/ LMON_be_procctl_tester_run \/ Finalize

-----------------------------------------------------------------------------
(* The tasks and the resource manager *)

Others == <<job, dontstop_fastpath, all_stopped, bgq, pc, call, misread>>

\* released from MPIR_Breakpoint, after the barrier
RMContinues ==
  /\ islaunch /\ ~released /\ pc \notin {"idle", "init"}
  /\ released' = TRUE
  /\ UNCHANGED <<Others, task, stream, faults>>

\* it lets a task go; where LMON_SLURM_MPAO_WR is needed, with a SIGCONT, which
\* a tracer sees as a trap
RMReleases(r) ==
  /\ released /\ task[r].gated
  /\ task' = [task EXCEPT ![r] =
       IF ~job.mpao THEN [@ EXCEPT !.gated = FALSE]
       ELSE [@ EXCEPT !.gated = FALSE, !.sigstop = FALSE, !.stopped = FALSE, !.event = task[r].traced]]
  /\ UNCHANGED <<Others, released, stream, faults>>

\* on BlueGene a signal waits until the task runs: for the resource manager,
\* and for its threads
Stops(r) ==
  /\ task[r].sigstop /\ ~task[r].stopped /\ ~task[r].traced
  /\ ~IsLinux => ~task[r].gated /\ task[r].held # Threads
  /\ task' = [task EXCEPT ![r].sigstop = FALSE, ![r].stopped = TRUE]
  /\ IF IsLinux THEN UNCHANGED stream
     ELSE Put(IF job.rm = "bgp" THEN Ciod ELSE cnodeid(r),
              [type |-> "Notify", rank |-> r, seq |-> 0, ok |-> TRUE])
  /\ UNCHANGED <<Others, released, faults>>

Dies(r) ==
  /\ IsLinux /\ ~task[r].gone /\ faults < MaxFaults
  /\ faults' = faults + 1
  /\ task' = [task EXCEPT ![r].gone = TRUE]
  /\ UNCHANGED <<Others, released, stream>>

System == RMContinues \/ \E r \in Tasks : RMReleases(r) \/ Stops(r)

Finished == pc = "done" /\ todo = <<>>

Next == \/ Daemon \/ Tool \/ System
        \/ \E r \in Tasks : Dies(r)
        \/ Finished /\ UNCHANGED vars

\* the daemon goes on with the call it is in, the tasks and the resource
\* manager run; nothing makes the tool call anything
Spec == Init /\ [][Next]_vars /\ WF_vars(Daemon) /\ WF_vars(RMContinues)
             /\ \A r \in Tasks : WF_vars(RMReleases(r)) /\ WF_vars(Stops(r))

-----------------------------------------------------------------------------
(* Properties *)

Steps == {"idle", "init", "barrier", "initdone", "run", "tester_init", "perf",
          "tester_run", "tester_stop", "done"}

(***************************************************************************)
(* Nothing is read for something else: an answer is never taken for a      *)
(* notification nor a notification for an answer, in any order in which    *)
(* the tasks stop.  The code has no other protection than the order of its *)
(* calls: where it checks the type it would fail, and the answers of       *)
(* fetch_mem_all it does not check at all.                                 *)
(***************************************************************************)
NoMisread == faults = 0 => ~misread /\ (rc = "LMON_OK" \/ pc = "perf")

\* a task that executes nothing, or will not before it is continued
Halted(r) == \/ task[r].gone \/ task[r].stopped \/ task[r].sigstop
             \/ task[r].held = Threads

(***************************************************************************)
(* When the handshake has succeeded a task is stopped, and stays so until  *)
(* the tool continues it, exactly when the mode asks for it, on every      *)
(* platform and also when the resource manager is slow to continue the     *)
(* job; and the tester's run leaves no task behind in a stop.              *)
(* (BlueGene/P's return codes are not checked: a refused request goes      *)
(* unnoticed there.)                                                       *)
(***************************************************************************)
StoppedAsAsked ==
  /\ HandshakeReturns /\ (job.rm = "bgp" => faults = 0) =>
       \A r \in Tasks : task[r].gone \/ (Halted(r) <=> ~dontstop)
  /\ Ready("tester_run") /\ faults = 0 => \A r \in Tasks : ~Halted(r)

(***************************************************************************)
(* Every rank is in IOToolMap once while it is used, and nothing of a      *)
(* control session is left when the job has been handed to the tool: a     *)
(* second session of the daemon would address ranks twice, or use the      *)
(* notifications of the first.                                             *)
(***************************************************************************)
CleanSessions ==
  /\ \A n \in Nodes : IsInjective(CN2Ranks[n])
  /\ HandshakeReturns => /\ IOToolMap.socks = {} /\ ranks_of(CN2Ranks) = <<>>
                         /\ \A n \in Nodes : stream[n] = <<>>
  /\ Finished => IOToolMap.socks = {}

(***************************************************************************)
(* Every call returns: no read or wait is left without the message or the  *)
(* event it is for.  (BlueGene/P waits forever for the notification of a   *)
(* KILL that was refused.)                                                 *)
(***************************************************************************)
CallsReturn == todo # <<>> ~> (todo = <<>> \/ (job.rm = "bgp" /\ faults > 0))
=============================================================================
