------------------------------- MODULE Engine -------------------------------
(***************************************************************************)
(* The LaunchMON engine: one process that traces the resource manager's    *)
(* job launcher (RM_job) with ptrace, and alternates between polling the   *)
(* front-end's socket and polling the kernel for events of its tracees     *)
(* (event_manager_t::multiplex_events).  Sources:                          *)
(*   launchmon/src/sdbg_event_manager_impl.hxx      the two polls          *)
(*   launchmon/src/sdbg_base_launchmon_impl.hxx     requests, messages     *)
(*   launchmon/src/linux/sdbg_linux_launchmon.cxx   event handlers         *)
(*   launchmon/src/sdbg_signal_hlr_impl.hxx         the signal handler     *)
(*                                                                         *)
(* The engine is sequential; what runs concurrently with it is the kernel  *)
(* and the threads of RM_job (which hit breakpoints, clone, take signals   *)
(* and exit while the engine is not looking), the front end (which sends   *)
(* requests or dies) and the launcher of the tool daemons (RM_daemon).     *)
(* A handler is one step: only its reads of the traced thread that the     *)
(* kernel holds stopped can be observed, and that thread does not move.    *)
(***************************************************************************)
EXTENDS Integers, Sequences, FiniteSets

CONSTANTS
  Master,         \* the thread-group leader of RM_job
  Slaves,         \* the threads RM_job may create
  AttachMode,     \* TRUE: attach to a running RM_job, FALSE: launch it
  ApiMode,        \* TRUE: a front end is connected (get_API_mode)
  Coloc,          \* rc_rm_t::is_coloc_sup: the RM spawns the daemons itself
  ContOnAttach,   \* rc_rm_t::is_cont_on_att: the RM builds its table on demand
  FailDetect,     \* rc_rm_t::is_fail_detect_sup
  StatShowsT,     \* /proc/<tid>/stat says "T" for a ptrace-stopped thread
  GraceSuffices,  \* a SIGSTOP takes effect within GracePeriodBNSignals
  MaxSigPolls,    \* nMaxEvs of the signal handler (15 in the code)
  MpirSteps,      \* what RM_job writes into MPIR_debug_state: <<from, to>>
  MaxHits,        \* bound: breakpoint hits, per breakpoint
  Forks,          \* RM_job may fork a process
  EngineSignals,  \* the engine may receive one of its monitored signals
  MaxSignals,     \* bound: signals RM_job receives
  Requests,       \* the kinds of messages the front end sends
  MaxRequests     \* bound: how many of them

Threads == {Master} \cup Slaves
Bps == {"launch", "loader"}
MpirStates == {"null", "spawned", "aborting"}
Messages == {"detach", "kill", "shutdownbe", "cont_launch_bp", "bad"}

ASSUME EngineAssumption ==
  /\ Master \notin Slaves
  /\ IsFiniteSet(Slaves)
  /\ AttachMode \in BOOLEAN /\ ApiMode \in BOOLEAN /\ Coloc \in BOOLEAN
  /\ ContOnAttach \in BOOLEAN /\ FailDetect \in BOOLEAN
  /\ StatShowsT \in BOOLEAN /\ GraceSuffices \in BOOLEAN
  /\ Forks \in BOOLEAN /\ EngineSignals \in BOOLEAN
  /\ MaxSigPolls \in Nat \ {0}
  /\ MpirSteps \subseteq MpirStates \X MpirStates
  /\ MaxHits \in [Bps -> Nat]
  /\ Requests \subseteq Messages
  /\ MaxSignals \in Nat /\ MaxRequests \in Nat

VARIABLES
  \* the engine process: linux_launchmon_t and process_base_t
  eng,           \* up, or how it ended: exited, aborted, killed (SIGPIPE)
  loop,          \* which poll comes next: fe, procs; sig in the signal handler
  polls,         \* polls the signal handler has made
  neverTrapped, pleaseDetach, pleaseKill, reason,
  thrlist,       \* threads with a thread_base_t
  traced,        \* those with get_traced
  evreg,         \* those with get_event_registered: parked at the launch bp
  mpir,          \* engine_state
  bp,            \* breakpoint status; enabled = the trap is in RM_job's text
  hosts,         \* the hosts file of launch_tool_daemons exists
  \* RM_job and the kernel's view of it
  ts,            \* thread state, see ThreadStates
  pc,            \* where a thread is with respect to the breakpoints
  pend,          \* threads with a pending SIGSTOP
  clonee,        \* the thread a clone event is about (PTRACE_GETEVENTMSG)
  debugState,    \* MPIR_debug_state
  beingDebugged, \* MPIR_being_debugged
  hits, signals, \* how often a breakpoint was reached, signals received
  child,         \* a process RM_job forked
  childTraps,    \* the traps it inherited in its text
  jobKilled,     \* the engine sent RM_job its kill signals
  \* RM_daemon, the process that launched the tool daemons
  dm,            \* the one toollauncherpid names
  orphans,       \* earlier ones, still alive, whose pid was overwritten
  \* the socket between engine and front end
  feUp, toEngine, sent, toFE

engineVars == <<eng, loop, polls>>
reqVars == <<pleaseDetach, pleaseKill, reason>>
jobVars == <<debugState, hits, signals>>
childVars == <<child, childTraps>>
daemonVars == <<dm, orphans, hosts>>
feVars == <<feUp, toEngine, sent>>
vars == <<engineVars, neverTrapped, reqVars, thrlist, traced, evreg, mpir, bp,
          ts, pc, pend, clonee, jobVars, childVars, beingDebugged, jobKilled, daemonVars, feVars,
          toFE>>

\* Stops waitpid has not reported yet, named by what caused them.
Stops == {"exec", "trap", "stepped", "signal", "sigstop", "clone",
          "fork", "newthread"}

\* held: stopped and already reported to the engine; free: no longer traced.
ThreadStates ==
  {"none", "run", "step", "held", "zombie", "gone", "free"} \cup Stops

\* at: on the breakpoint's address; trapped: the trap was executed instead of
\* the original instruction; past: the original instruction was executed and
\* the pc is still in the range is_pc_part_of_bp_op accepts.
App == <<"app", "app">>
PCs == {App} \cup (Bps \X {"at", "trapped", "past"})

Reasons == {"reserved_for_rent", "RM_BE_daemon_exited", "FE_requested_detach",
            "FE_requested_kill", "FE_requested_shutdown_dmon",
            "FE_disconnected", "ENGINE_dying_wsignal"}

Shipment == <<"proctable_avail", "resourcehandle_avail", "rminfo">>

\* Messages after which the engine says nothing more.
Terminal == {"bedmon_exited", "stop_at_launch_bp_abort", "detach_done",
             "stop_tracing", "kill_done", "exited"}

FEMessages == Terminal \cup
  {"proctable_avail", "resourcehandle_avail", "rminfo",
   "stop_at_first_attach", "stop_at_launch_bp_spawned"}

TypeOK ==
  /\ eng \in {"up", "exited", "aborted", "killed"}
  /\ loop \in {"fe", "procs", "sig"}
  /\ polls \in 0 .. MaxSigPolls
  /\ neverTrapped \in BOOLEAN
  /\ pleaseDetach \in BOOLEAN
  /\ pleaseKill \in BOOLEAN
  /\ reason \in Reasons
  /\ thrlist \subseteq Threads
  /\ traced \subseteq Threads
  /\ evreg \subseteq Threads
  /\ mpir \in {"start", "null", "spawned"}
  /\ bp \in [Bps -> {"null", "enabled", "disabled"}]
  /\ hosts \in BOOLEAN
  /\ ts \in [Threads -> ThreadStates]
  /\ pc \in [Threads -> PCs]
  /\ pend \subseteq Threads
  /\ clonee \in [Threads -> SUBSET Slaves]
  /\ debugState \in MpirStates
  /\ beingDebugged \in BOOLEAN
  /\ hits \in [Bps -> Nat]
  /\ signals \in Nat
  /\ child \in {"none", "new", "stopped", "free"}
  /\ childTraps \subseteq Bps
  /\ jobKilled \in BOOLEAN
  /\ dm \in {"none", "run", "zombie", "gone", "killed"}
  /\ orphans \in Nat
  /\ feUp \in BOOLEAN
  /\ toEngine \in Seq(Messages)
  /\ sent \in Nat
  /\ toFE \in Seq(FEMessages)

\* drive_engine up to the event loop: fork and exec RM_job under PTRACE_TRACEME
\* and let it stop at the exec, or PTRACE_ATTACH to it (a SIGSTOP is pending).
Init ==
  /\ eng = "up" /\ loop = "fe" /\ polls = 0
  /\ neverTrapped = TRUE
  /\ pleaseDetach = FALSE /\ pleaseKill = FALSE /\ reason = "reserved_for_rent"
  /\ thrlist = {Master} /\ traced = {} /\ evreg = {}
  /\ mpir = "start"
  /\ bp = [b \in Bps |-> "null"]
  /\ hosts = FALSE
  /\ ts = [t \in Threads |-> IF t # Master THEN "none"
                             ELSE IF AttachMode THEN "run" ELSE "exec"]
  /\ pc = [t \in Threads |-> App]
  /\ pend = IF AttachMode THEN {Master} ELSE {}
  /\ clonee = [t \in Threads |-> {}]
  /\ debugState = "null" /\ beingDebugged = FALSE
  /\ hits = [b \in Bps |-> 0] /\ signals = 0
  /\ child = "none" /\ childTraps = {}
  /\ jobKilled = FALSE
  /\ dm = "none" /\ orphans = 0
  /\ feUp = ApiMode /\ toEngine = << >> /\ sent = 0
  /\ toFE = << >>

-----------------------------------------------------------------------------
(* RM_job and the kernel.                                                   *)

Running(t) == ts[t] \in {"run", "step"}

kernelFrame == UNCHANGED <<engineVars, neverTrapped, reqVars, thrlist, traced,
                 evreg, mpir, bp, childVars, beingDebugged, jobKilled, daemonVars, feVars,
                 toFE>>

\* A running thread reaches the address of a breakpoint; before it calls
\* MPIR_Breakpoint, RM_job stores the job's state in MPIR_debug_state.
JobHits(t, b) ==
  /\ ts[t] = "run" /\ pc[t] = App /\ ~neverTrapped
  /\ hits[b] < MaxHits[b]
  /\ hits' = [hits EXCEPT ![b] = @ + 1]
  /\ pc' = [pc EXCEPT ![t] = <<b, "at">>]
  /\ debugState' \in IF b = "launch"
                     THEN {d \in MpirStates : <<debugState, d>> \in MpirSteps}
                     ELSE {debugState}
  /\ UNCHANGED <<clonee, ts, pend, signals>>
  /\ kernelFrame

\* The thread executes what is at the breakpoint: the trap if it is inserted,
\* the original instruction otherwise; a single step stops after either.
JobExecutes(t, b) ==
  /\ Running(t) /\ pc[t] = <<b, "at">>
  /\ IF bp[b] = "enabled"
     THEN /\ ts' = [ts EXCEPT ![t] = "trap"]
          /\ pc' = [pc EXCEPT ![t] = <<b, "trapped">>]
     ELSE /\ ts' = [ts EXCEPT ![t] = IF @ = "step" THEN "stepped" ELSE @]
          /\ pc' = [pc EXCEPT ![t] = <<b, "past">>]
  /\ UNCHANGED <<clonee, pend, jobVars>>
  /\ kernelFrame

\* The thread leaves the breakpoint's range.
JobLeaves(t, b) ==
  /\ ts[t] = "run" /\ pc[t] = <<b, "past">>
  /\ pc' = [pc EXCEPT ![t] = App]
  /\ UNCHANGED <<clonee, ts, pend, jobVars>>
  /\ kernelFrame

\* A pending SIGSTOP stops the thread.
KernelStops(t) ==
  /\ Running(t) /\ t \in pend
  /\ ts' = [ts EXCEPT ![t] = "sigstop"]
  /\ pend' = pend \ {t}
  /\ UNCHANGED <<clonee, pc, jobVars>>
  /\ kernelFrame

\* The thread receives another signal (SIGCHLD, SIGALRM...): it stops for the
\* tracer, before it executes anything.
JobSignalled(t) ==
  /\ Running(t) /\ signals < MaxSignals
  /\ signals' = signals + 1
  /\ ts' = [ts EXCEPT ![t] = "signal"]
  /\ UNCHANGED <<clonee, pc, pend, debugState, hits>>
  /\ kernelFrame

\* pthread_create under PTRACE_O_TRACECLONE: the creator stops with the clone
\* event and the new thread starts stopped.
JobClones(t, s) ==
  /\ ~AttachMode
  /\ ts[t] = "run" /\ pc[t] = App /\ ts[s] = "none"
  /\ ts' = [ts EXCEPT ![t] = "clone", ![s] = "newthread"]
  /\ clonee' = [clonee EXCEPT ![t] = {s}]
  /\ UNCHANGED <<pc, pend, jobVars>>
  /\ kernelFrame

\* fork under PTRACE_O_TRACEFORK: the child's text is a copy, traps included,
\* and the child stops some time after its parent.
JobForks(t) ==
  /\ Forks /\ ~AttachMode
  /\ ts[t] = "run" /\ pc[t] = App /\ child = "none" /\ ~neverTrapped
  /\ ts' = [ts EXCEPT ![t] = "fork"]
  /\ child' = "new"
  /\ childTraps' = {b \in Bps : bp[b] = "enabled"}
  /\ UNCHANGED <<engineVars, neverTrapped, reqVars, thrlist, traced, evreg,
       mpir, bp, pc, pend, clonee, jobVars, beingDebugged, jobKilled,
       daemonVars, feVars, toFE>>

ChildStops ==
  /\ child = "new" /\ eng = "up"
  /\ child' = "stopped"
  /\ UNCHANGED <<engineVars, neverTrapped, reqVars, thrlist, traced, evreg,
       mpir, bp, ts, pc, pend, clonee, jobVars, childTraps, beingDebugged,
       jobKilled, daemonVars, feVars, toFE>>

ThreadExits(s) ==
  /\ s \in Slaves /\ ts[s] = "run" /\ pc[s] = App
  /\ ts' = [ts EXCEPT ![s] = "zombie"]
  /\ UNCHANGED <<clonee, pc, pend, jobVars>>
  /\ kernelFrame

\* exit_group by a thread of RM_job, or SIGKILL from outside: every thread dies.
Dead(k) == [t \in Threads |-> IF k[t] \in {"none", "gone"} THEN k[t] ELSE "zombie"]

JobExits ==
  /\ ts[Master] \notin {"zombie", "gone", "free"}
  /\ ts' = Dead(ts)
  /\ UNCHANGED <<clonee, pc, pend, jobVars>>
  /\ kernelFrame

DaemonExits ==
  /\ eng = "up" /\ dm = "run"
  /\ dm' = "zombie"
  /\ UNCHANGED <<engineVars, neverTrapped, reqVars, thrlist, traced, evreg,
       mpir, bp, ts, pc, pend, clonee, jobVars, childVars, beingDebugged,
       jobKilled, orphans, hosts, feVars, toFE>>

-----------------------------------------------------------------------------
(* The front end.                                                           *)

feFrame == UNCHANGED <<engineVars, neverTrapped, reqVars, thrlist, traced,
             evreg, mpir, bp, ts, pc, pend, clonee, jobVars, childVars,
             beingDebugged, jobKilled, daemonVars, toFE>>

\* LMON_fe_detach, LMON_fe_kill, LMON_fe_shutdownDaemons, or the end of the
\* handshake with the daemons, for which the job must have been spawned.
FESends(m) ==
  /\ eng = "up" /\ feUp /\ sent < MaxRequests
  /\ m = "cont_launch_bp" =>
       \E i \in DOMAIN toFE : toFE[i] = "stop_at_launch_bp_spawned"
  /\ toEngine' = Append(toEngine, m)
  /\ sent' = sent + 1
  /\ UNCHANGED feUp
  /\ feFrame

\* The front end dies or closes its socket.
FEDies ==
  /\ eng = "up" /\ feUp
  /\ feUp' = FALSE
  /\ UNCHANGED <<toEngine, sent>>
  /\ feFrame

-----------------------------------------------------------------------------
(* The engine's requests, messages and kill signals.                        *)

\* linux_ptracer_t::status: only a "T" in /proc counts as stopped.
StatusRunning(t) == ts[t] # "gone" /\ ~(StatShowsT /\ ts[t] \in Stops \cup {"held"})

Requested == pleaseDetach \/ pleaseKill

\* Mistake: the leader gets no SIGSTOP.
request_detachSlavesOnly(why) ==
  IF Requested THEN UNCHANGED <<reqVars, pend>>
  ELSE /\ pend' = pend \cup {t \in thrlist \cap Slaves : StatusRunning(t)}
       /\ pleaseDetach' = TRUE
       /\ reason' = why
       /\ UNCHANGED pleaseKill

\* request_detach: the first request wins; SIGSTOP for every running thread.
request_detach(why) ==
  IF Requested THEN UNCHANGED <<reqVars, pend>>
  ELSE /\ pend' = pend \cup {t \in thrlist : StatusRunning(t)}
       /\ pleaseDetach' = TRUE
       /\ reason' = why
       /\ UNCHANGED pleaseKill

\* Mistake: the kill request does not look at an earlier detach request.
request_killAlways(why) ==
  /\ pend' = pend \cup {t \in thrlist : StatusRunning(t)}
  /\ pleaseKill' = TRUE
  /\ reason' = why
  /\ UNCHANGED pleaseDetach

\* request_kill
request_kill(why) ==
  IF Requested THEN UNCHANGED <<reqVars, pend>>
  ELSE /\ pend' = pend \cup {t \in thrlist : StatusRunning(t)}
       /\ pleaseKill' = TRUE
       /\ reason' = why
       /\ UNCHANGED pleaseDetach

\* Mistake: what is shipped first arrives last.
SayReversed(ms) ==
  toFE' = IF feUp THEN toFE \o [i \in DOMAIN ms |-> ms[Len(ms) + 1 - i]] ELSE toFE

\* say_fetofe_msg and the ship_ functions: nothing is said in standalone mode,
\* and what is written to a front end that has gone is lost.
Say(ms) == toFE' = IF feUp THEN toFE \o ms ELSE toFE

\* rc_rm_t::graceful_rmkill(toollauncherpid): nothing for pid -1, no effect on
\* a process that has exited.
KillDaemons == dm' = IF dm = "run" THEN "killed" ELSE dm

\* launch_tool_daemons: with co-location the RM spawned the daemons; otherwise
\* the hosts file is written and a launcher forked, whose pid replaces the old.
launch_tool_daemons ==
  IF Coloc THEN UNCHANGED daemonVars
  ELSE /\ dm' = "run"
       /\ orphans' = IF dm = "run" THEN orphans + 1 ELSE orphans
       /\ hosts' = TRUE

-----------------------------------------------------------------------------
(* The poll of the front end's socket: handle_incoming_socket_event.        *)

PollsFE == eng = "up" /\ loop = "fe"

pollFrame == UNCHANGED <<neverTrapped, thrlist, traced, mpir, bp, pc, clonee,
               jobVars, childVars, beingDebugged, jobKilled, daemonVars, feUp, sent, toFE>>

Receives(m) ==
  /\ PollsFE /\ toEngine # << >> /\ Head(toEngine) = m
  /\ toEngine' = Tail(toEngine)

PollsProcsNext == loop' = "procs" /\ UNCHANGED <<eng, polls>>

FESilent ==
  /\ PollsFE /\ toEngine = << >> /\ (ApiMode => feUp)
  /\ PollsProcsNext
  /\ UNCHANGED <<reqVars, pend, ts, evreg, toEngine>>
  /\ pollFrame

FEDetach ==
  /\ Receives("detach")
  /\ request_detach("FE_requested_detach")
  /\ PollsProcsNext
  /\ UNCHANGED <<ts, evreg>>
  /\ pollFrame

FEKill ==
  /\ Receives("kill")
  /\ request_kill("FE_requested_kill")
  /\ PollsProcsNext
  /\ UNCHANGED <<ts, evreg>>
  /\ pollFrame

FEShutdown ==
  /\ Receives("shutdownbe")
  /\ request_detach("FE_requested_shutdown_dmon")
  /\ PollsProcsNext
  /\ UNCHANGED <<ts, evreg>>
  /\ pollFrame

\* Mistake: the event stays registered.
FEContKeepsEvent ==
  /\ Receives("cont_launch_bp")
  /\ \A t \in evreg : ts[t] = "held"
  /\ ts' = [t \in Threads |-> IF t \in evreg THEN "run" ELSE ts[t]]
  /\ PollsProcsNext
  /\ UNCHANGED <<reqVars, pend, evreg>>
  /\ pollFrame

\* request_cont_launch_bp: continue every thread with a registered event.  If
\* one of them has died, PTRACE_CONT throws, FEContFails.
FECont ==
  /\ Receives("cont_launch_bp")
  /\ \A t \in evreg : ts[t] = "held"
  /\ ts' = [t \in Threads |-> IF t \in evreg THEN "run" ELSE ts[t]]
  /\ evreg' = {}
  /\ PollsProcsNext
  /\ UNCHANGED <<reqVars, pend>>
  /\ pollFrame

\* The tracees of a tracer that ends are released where they are.
Released(k) ==
  [t \in Threads |-> IF k[t] \in {"none", "zombie", "gone"} THEN k[t] ELSE "free"]

FEContFails ==
  /\ Receives("cont_launch_bp")
  /\ \E t \in evreg : ts[t] # "held"
  /\ eng' = "exited" /\ ts' = Released(ts)
  /\ UNCHANGED <<loop, polls, reqVars, pend, evreg>>
  /\ pollFrame

\* read_lmonp_msgheader returns -1, now and in every later poll.
FEDisconnected ==
  /\ PollsFE /\ ApiMode /\ ~feUp /\ toEngine = << >>
  /\ request_detach("FE_disconnected")
  /\ PollsProcsNext
  /\ UNCHANGED <<ts, evreg, toEngine>>
  /\ pollFrame

\* An ill-formed message ends the event loop.
FEIllFormed ==
  /\ Receives("bad")
  /\ eng' = "exited" /\ ts' = Released(ts)
  /\ UNCHANGED <<loop, polls, reqVars, pend, evreg>>
  /\ pollFrame

-----------------------------------------------------------------------------
(* The poll of the tracees: wait_for_all and poll_processes.                *)

\* A leader's exit is reported once the tracer has reaped the other threads.
Reportable(t) ==
  \/ ts[t] \in Stops
  \/ ts[t] = "zombie" /\ (t = Master => \A s \in Slaves : ts[s] \in {"none", "gone"})

ProcessEvent == Reportable(Master) \/ dm = "zombie" \/ child = "stopped"

\* The usleep of request_detach and request_kill has passed.
GraceOver == GraceSuffices => \A t \in thrlist : ~(Running(t) /\ t \in pend)

PollsProcs == eng = "up" /\ loop \in {"procs", "sig"} /\ GraceOver

\* waitpid for processes first, __WCLONE for threads only if there is none.
Reports(t) ==
  /\ PollsProcs /\ Reportable(t)
  /\ t # Master => ~ProcessEvent

\* is_pc_part_of_bp_op
InBpOp(t, b) == bp[b] # "null" /\ pc[t] \in {<<b, "trapped">>, <<b, "past">>}

\* decipher_an_event
decipher_an_event(t) ==
  IF ts[t] = "zombie" THEN "LM_EXITED"
  ELSE IF neverTrapped THEN "LM_STOP_AT_FIRST"
  ELSE IF pleaseDetach THEN "LM_STOP_FOR_DETACH"
  ELSE IF pleaseKill THEN "LM_STOP_FOR_KILL"
  ELSE IF InBpOp(t, "launch") THEN "LM_STOP_AT_LAUNCH_BP"
  ELSE IF InBpOp(t, "loader") THEN "LM_STOP_AT_LOADER_BP"
  ELSE IF ts[t] = "clone" THEN "LM_STOP_AT_THREAD_CREATION"
  ELSE IF ts[t] \in {"exec", "trap", "stepped", "fork"} THEN "LM_STOP_NOT_INTERESTED"
  ELSE IF ts[t] \in {"sigstop", "newthread"} /\ t \notin traced
       THEN "LM_STOP_NEW_THREAD_TRACE"
  ELSE "LM_RELAY_SIGNAL"

Event(t, ev) == Reports(t) /\ decipher_an_event(t) = ev

\* Mistake: the signal handler polls once too often.
ReturnsLate(ok, k) ==
  LET goes == ok /\ (loop = "sig" => polls < MaxSigPolls)
  IN  /\ eng' = IF goes THEN "up" ELSE IF loop = "sig" THEN "aborted" ELSE "exited"
      /\ loop' = IF loop = "sig" THEN "sig" ELSE "fe"
      /\ polls' = IF loop = "sig" THEN polls + 1 ELSE polls
      /\ ts' = IF goes THEN k ELSE Released(k)

\* What poll_processes makes of a handler's return code: FALSE ends the event
\* loop, and in the signal handler so does the last of its polls, by abort().
Returns(ok, k) ==
  LET goes == ok /\ (loop = "sig" => polls + 1 < MaxSigPolls)
  IN  /\ eng' = IF goes THEN "up" ELSE IF loop = "sig" THEN "aborted" ELSE "exited"
      /\ loop' = IF loop = "sig" THEN "sig" ELSE "fe"
      /\ polls' = IF loop = "sig" THEN polls + 1 ELSE polls
      /\ ts' = IF goes THEN k ELSE Released(k)

\* tracer_continue and tracer_singlestep
Continued(t) == [ts EXCEPT ![t] = "run"]
Stepped(t) == [ts EXCEPT ![t] = "step"]

handlerFrame == UNCHANGED <<clonee, jobVars, childVars, feVars>>

NoEvent ==
  /\ PollsProcs /\ ~ProcessEvent /\ \A t \in Slaves : ~Reportable(t)
  /\ Returns(TRUE, ts)
  /\ UNCHANGED <<neverTrapped, reqVars, thrlist, traced, evreg, mpir, bp, pc,
       pend, beingDebugged, jobKilled, daemonVars, toFE>>
  /\ handlerFrame

\* handle_daemon_exit_event, called when waitpid reports toollauncherpid.
handle_daemon_exit_event ==
  /\ PollsProcs /\ dm = "zombie"
  /\ dm' = "gone"
  /\ IF FailDetect THEN request_detach("RM_BE_daemon_exited")
                   ELSE UNCHANGED <<reqVars, pend>>
  /\ Returns(TRUE, ts)
  /\ UNCHANGED <<neverTrapped, thrlist, traced, evreg, mpir, bp, pc,
       beingDebugged, jobKilled, orphans, hosts, toFE>>
  /\ handlerFrame

\* handle_newproc_forked_event: remove the traps from the new process, those
\* whose status is enabled now, and detach from it.
handle_newproc_forked_event ==
  /\ PollsProcs /\ child = "stopped"
  /\ child' = "free"
  /\ childTraps' = childTraps \ {b \in Bps : bp[b] = "enabled"}
  /\ Returns(TRUE, ts)
  /\ UNCHANGED <<neverTrapped, reqVars, thrlist, traced, evreg, mpir, bp, pc,
       pend, beingDebugged, jobKilled, daemonVars, toFE, clonee,
       jobVars, feVars>>

\* handle_trap_after_exec_event: both breakpoints, MPIR_being_debugged, go on.
handle_trap_after_exec_event(t) ==
  /\ Event(t, "LM_STOP_AT_FIRST") /\ ~AttachMode
  /\ bp' = [b \in Bps |-> "enabled"]
  /\ beingDebugged' = TRUE
  /\ neverTrapped' = FALSE
  /\ Returns(TRUE, Continued(t))
  /\ UNCHANGED <<reqVars, thrlist, traced, evreg, mpir, pc, pend, jobKilled,
       daemonVars, toFE>>
  /\ handlerFrame

\* handle_trap_after_attach_event: as above; unless the RM spawns the daemons
\* itself or has yet to build its table, ship the table and launch them now.
handle_trap_after_attach_event(t) ==
  /\ Event(t, "LM_STOP_AT_FIRST") /\ AttachMode
  /\ bp' = [b \in Bps |-> "enabled"]
  /\ beingDebugged' = TRUE
  /\ neverTrapped' = FALSE
  /\ IF Coloc \/ ContOnAttach
     THEN UNCHANGED <<toFE, daemonVars>>
     ELSE Say(Shipment \o <<"stop_at_first_attach">>) /\ launch_tool_daemons
  /\ Returns(TRUE, Continued(t))
  /\ UNCHANGED <<reqVars, thrlist, traced, evreg, mpir, pc, pend, jobKilled>>
  /\ handlerFrame

\* is_bp_prologue_done, answering no: handle_bp_prologue removes the trap,
\* moves the pc back to the breakpoint and steps over it.
handle_bp_prologue(t, b) ==
  /\ bp[b] # "disabled"
  /\ bp' = [bp EXCEPT ![b] = "disabled"]
  /\ pc' = [pc EXCEPT ![t] = <<b, "at">>]
  /\ Returns(TRUE, Stepped(t))
  /\ thrlist' = thrlist \cup {t}
  /\ UNCHANGED <<neverTrapped, reqVars, traced, evreg, mpir, pend,
       beingDebugged, jobKilled, daemonVars, toFE>>
  /\ handlerFrame

BpPrologue(t) ==
  \/ Event(t, "LM_STOP_AT_LAUNCH_BP") /\ handle_bp_prologue(t, "launch")
  \/ Event(t, "LM_STOP_AT_LOADER_BP") /\ handle_bp_prologue(t, "loader")

\* Mistake: the trap stays out.
PrologueDoneOnly(b) == bp[b] = "disabled" /\ UNCHANGED bp

\* is_bp_prologue_done, answering yes: the trap goes back in.
PrologueDone(b) ==
  /\ bp[b] = "disabled"
  /\ bp' = [bp EXCEPT ![b] = "enabled"]

\* handle_loader_bp_event
handle_loader_bp_event(t) ==
  /\ Event(t, "LM_STOP_AT_LOADER_BP") /\ PrologueDone("loader")
  /\ Returns(TRUE, Continued(t))
  /\ thrlist' = thrlist \cup {t}
  /\ UNCHANGED <<neverTrapped, reqVars, traced, evreg, mpir, pc, pend,
       beingDebugged, jobKilled, daemonVars, toFE>>
  /\ handlerFrame

\* validate_mpir_state_transition
validate_mpir_state_transition(s) ==
  IF s = "spawned" THEN mpir \in {"start", "null"}
                   ELSE mpir \in {"start", "null", "spawned"}

LaunchBp(t) == Event(t, "LM_STOP_AT_LAUNCH_BP") /\ bp["launch"] = "disabled"

\* handle_launch_bp_event, MPIR_DEBUG_SPAWNED: ship the table, launch the
\* daemons, and in API mode park the thread until lmonp_cont_launch_bp.
LaunchBpSpawned(t) ==
  /\ LaunchBp(t) /\ PrologueDone("launch")
  /\ debugState = "spawned" /\ validate_mpir_state_transition("spawned")
  /\ Say(Shipment \o <<"stop_at_launch_bp_spawned">>)
  /\ launch_tool_daemons
  /\ mpir' = "spawned"
  /\ evreg' = IF ApiMode THEN evreg \cup {t} ELSE evreg
  /\ Returns(TRUE, IF ApiMode THEN [ts EXCEPT ![t] = "held"] ELSE Continued(t))
  /\ thrlist' = thrlist \cup {t}
  /\ UNCHANGED <<neverTrapped, reqVars, traced, pc, pend, beingDebugged,
       jobKilled>>
  /\ handlerFrame

\* handle_launch_bp_event, MPIR_DEBUG_ABORTING: remove the traps, reset
\* MPIR_being_debugged, detach from the stopped threads and end the loop.  A
\* local variable hides the state read, so engine_state becomes mpir_null.
LaunchBpAborting(t) ==
  /\ LaunchBp(t)
  /\ debugState = "aborting" /\ validate_mpir_state_transition("aborting")
  /\ bp' = [b \in Bps |-> "disabled"]
  /\ beingDebugged' = FALSE
  /\ Say(<<"stop_at_launch_bp_abort">>)
  /\ mpir' = "null"
  /\ Returns(FALSE, [ts EXCEPT ![t] = "held"])
  /\ thrlist' = thrlist \cup {t}
  /\ UNCHANGED <<neverTrapped, reqVars, traced, evreg, pc, pend, jobKilled,
       daemonVars>>
  /\ handlerFrame

\* handle_launch_bp_event, MPIR_NULL or an invalid transition: go on.
LaunchBpContinued(t) ==
  /\ LaunchBp(t) /\ PrologueDone("launch")
  /\ \/ debugState = "null" /\ validate_mpir_state_transition("null") /\ mpir' = "null"
     \/ ~validate_mpir_state_transition(debugState) /\ UNCHANGED mpir
  /\ Returns(TRUE, Continued(t))
  /\ thrlist' = thrlist \cup {t}
  /\ UNCHANGED <<neverTrapped, reqVars, traced, evreg, pc, pend,
       beingDebugged, jobKilled, daemonVars, toFE>>
  /\ handlerFrame

\* The front end died after this iteration's poll of its socket: the second
\* write to it raises SIGPIPE, which the engine neither ignores nor handles.
ShipSigPipe(t) ==
  /\ ApiMode /\ ~feUp
  /\ \/ LaunchBp(t) /\ PrologueDone("launch") /\ debugState = "spawned"
        /\ validate_mpir_state_transition("spawned")
        /\ UNCHANGED <<beingDebugged, neverTrapped>>
     \/ /\ Event(t, "LM_STOP_AT_FIRST") /\ AttachMode /\ ~Coloc /\ ~ContOnAttach
        /\ bp' = [b \in Bps |-> "enabled"]
        /\ beingDebugged' = TRUE
        /\ neverTrapped' = FALSE
  /\ eng' = "killed" /\ ts' = Released(ts)
  /\ UNCHANGED <<loop, polls, reqVars, thrlist, traced, evreg, mpir, pc, pend,
       jobKilled, daemonVars, toFE>>
  /\ handlerFrame

\* What both command handlers need: writes to RM_job go through its leader,
\* which must be stopped (ESRCH otherwise).
LeaderStopped == ts[Master] \in Stops \cup {"held"}

\* Mistake: the loader breakpoint is forgotten.
DetachesLaunchBpOnly ==
  /\ LeaderStopped
  /\ bp' = [bp EXCEPT !["launch"] = "disabled"]
  /\ beingDebugged' = FALSE
  /\ Returns(FALSE, ts)

\* disable_all_BPs and MPIR_being_debugged = 0, through the leader; then every
\* thread is detached from, here or by the kernel when the engine ends.
Detaches ==
  /\ LeaderStopped
  /\ bp' = [b \in Bps |-> IF bp[b] = "enabled" THEN "disabled" ELSE bp[b]]
  /\ beingDebugged' = FALSE
  /\ Returns(FALSE, ts)

DetachAnswer ==
  IF reason = "RM_BE_daemon_exited" THEN <<"bedmon_exited">>
  ELSE IF reason \in {"FE_requested_detach", "FE_requested_shutdown_dmon"}
       THEN <<"detach_done">>
  ELSE IF reason = "ENGINE_dying_wsignal" THEN <<"stop_tracing">>
  ELSE << >>

\* Mistake: a missing break, so that every detach kills the daemons.
handle_detach_cmd_eventFallsThrough(t) ==
  /\ Event(t, "LM_STOP_FOR_DETACH")
  /\ Detaches
  /\ KillDaemons
  /\ Say(DetachAnswer)
  /\ hosts' = FALSE
  /\ thrlist' = thrlist \cup {t}
  /\ UNCHANGED <<neverTrapped, reqVars, traced, evreg, mpir, pc, pend,
       jobKilled, orphans>>
  /\ handlerFrame

\* handle_detach_cmd_event
handle_detach_cmd_event(t) ==
  /\ Event(t, "LM_STOP_FOR_DETACH")
  /\ Detaches
  /\ IF reason \in {"FE_requested_shutdown_dmon", "FE_disconnected"}
     THEN KillDaemons ELSE UNCHANGED dm
  /\ Say(DetachAnswer)
  /\ hosts' = FALSE
  /\ thrlist' = thrlist \cup {t}
  /\ UNCHANGED <<neverTrapped, reqVars, traced, evreg, mpir, pc, pend,
       jobKilled, orphans>>
  /\ handlerFrame

\* handle_kill_cmd_event
handle_kill_cmd_event(t) ==
  /\ Event(t, "LM_STOP_FOR_KILL")
  /\ Detaches
  /\ jobKilled' = TRUE
  /\ IF Coloc THEN UNCHANGED dm ELSE KillDaemons
  /\ Say(<<"kill_done">>)
  /\ hosts' = FALSE
  /\ thrlist' = thrlist \cup {t}
  /\ UNCHANGED <<neverTrapped, reqVars, traced, evreg, mpir, pc, pend, orphans>>
  /\ handlerFrame

\* Either handler when the leader is not stopped: the exception of
\* disable_all_BPs is swallowed, that of the write to MPIR_being_debugged
\* makes the handler fail before it answers or kills anything.
CommandFails(t) ==
  /\ Event(t, "LM_STOP_FOR_DETACH") \/ Event(t, "LM_STOP_FOR_KILL")
  /\ ~LeaderStopped
  /\ Returns(FALSE, ts)
  /\ thrlist' = thrlist \cup {t}
  /\ UNCHANGED <<neverTrapped, reqVars, traced, evreg, mpir, bp, pc, pend,
       beingDebugged, jobKilled, daemonVars, toFE>>
  /\ handlerFrame

\* handle_exit_event: a slave is forgotten, the leader's exit ends the loop.
SlaveExit(t) ==
  /\ t \in Slaves /\ Event(t, "LM_EXITED")
  /\ thrlist' = thrlist \ {t}
  /\ traced' = traced \ {t}
  /\ evreg' = evreg \ {t}
  /\ Returns(TRUE, [ts EXCEPT ![t] = "gone"])
  /\ UNCHANGED <<neverTrapped, reqVars, mpir, bp, pc, pend, beingDebugged,
       jobKilled, daemonVars, toFE>>
  /\ handlerFrame

\* Mistake: the exit of the leader returns LAUNCHMON_OK, as a slave's does.
LeaderExitGoesOn ==
  /\ Event(Master, "LM_EXITED")
  /\ Say(<<"exited">>)
  /\ hosts' = FALSE
  /\ Returns(TRUE, [ts EXCEPT ![Master] = "gone"])
  /\ UNCHANGED <<neverTrapped, reqVars, thrlist, traced, evreg, mpir, bp, pc,
       pend, beingDebugged, jobKilled, dm, orphans>>
  /\ handlerFrame

LeaderExit ==
  /\ Event(Master, "LM_EXITED")
  /\ Say(<<"exited">>)
  /\ hosts' = FALSE
  /\ Returns(FALSE, [ts EXCEPT ![Master] = "gone"])
  /\ UNCHANGED <<neverTrapped, reqVars, thrlist, traced, evreg, mpir, bp, pc,
       pend, beingDebugged, jobKilled, dm, orphans>>
  /\ handlerFrame

\* handle_thrcreate_trap_event
handle_thrcreate_trap_event(t) ==
  /\ Event(t, "LM_STOP_AT_THREAD_CREATION")
  /\ thrlist' = thrlist \cup {t} \cup clonee[t]
  /\ Returns(TRUE, Continued(t))
  /\ UNCHANGED <<neverTrapped, reqVars, traced, evreg, mpir, bp, pc, pend,
       beingDebugged, jobKilled, daemonVars, toFE>>
  /\ handlerFrame

\* handle_newthread_trace_event
handle_newthread_trace_event(t) ==
  /\ Event(t, "LM_STOP_NEW_THREAD_TRACE")
  /\ thrlist' = thrlist \cup {t}
  /\ traced' = traced \cup {t}
  /\ Returns(TRUE, Continued(t))
  /\ UNCHANGED <<neverTrapped, reqVars, evreg, mpir, bp, pc, pend,
       beingDebugged, jobKilled, daemonVars, toFE>>
  /\ handlerFrame

\* handle_not_interested_event, handle_relay_signal_event: the thread goes on
\* at full speed, also one that was being single-stepped.
handle_relay_signal_event(t) ==
  /\ Event(t, "LM_STOP_NOT_INTERESTED") \/ Event(t, "LM_RELAY_SIGNAL")
  /\ thrlist' = thrlist \cup {t}
  /\ Returns(TRUE, Continued(t))
  /\ UNCHANGED <<neverTrapped, reqVars, traced, evreg, mpir, bp, pc, pend,
       beingDebugged, jobKilled, daemonVars, toFE>>
  /\ handlerFrame

\* sighandler: request the detach, then poll the tracees up to nMaxEvs times.
sighandler ==
  /\ EngineSignals /\ eng = "up" /\ loop # "sig"
  /\ request_detach("ENGINE_dying_wsignal")
  /\ loop' = "sig" /\ polls' = 0
  /\ UNCHANGED <<eng, neverTrapped, thrlist, traced, evreg, mpir, bp, ts, pc,
       beingDebugged, jobKilled, daemonVars, toFE>>
  /\ handlerFrame

-----------------------------------------------------------------------------
JobStep(t) ==
  \/ \E b \in Bps : JobHits(t, b) \/ JobExecutes(t, b) \/ JobLeaves(t, b)
  \/ KernelStops(t)
  \/ JobSignalled(t)
  \/ \E s \in Slaves : JobClones(t, s)
  \/ JobForks(t)
  \/ ThreadExits(t)

SocketPoll ==
  \/ FESilent \/ FEDetach \/ FEKill \/ FEShutdown \/ FECont \/ FEContFails
  \/ FEDisconnected \/ FEIllFormed

TraceePoll(t) ==
  \/ handle_trap_after_exec_event(t) \/ handle_trap_after_attach_event(t)
  \/ BpPrologue(t) \/ handle_loader_bp_event(t)
  \/ LaunchBpSpawned(t) \/ LaunchBpAborting(t) \/ LaunchBpContinued(t)
  \/ ShipSigPipe(t)
  \/ handle_detach_cmd_event(t) \/ handle_kill_cmd_event(t) \/ CommandFails(t)
  \/ SlaveExit(t)
  \/ handle_thrcreate_trap_event(t) \/ handle_newthread_trace_event(t)
  \/ handle_relay_signal_event(t)

\* One iteration of multiplex_events is a socket poll and a process poll.
EngineStep ==
  \/ SocketPoll
  \/ NoEvent
  \/ handle_daemon_exit_event
  \/ handle_newproc_forked_event
  \/ \E t \in Threads : TraceePoll(t)
  \/ LeaderExit

Next ==
  \/ \E t \in Threads : JobStep(t)
  \/ JobExits \/ ChildStops \/ DaemonExits
  \/ \E m \in Requests : FESends(m)
  \/ FEDies
  \/ EngineStep
  \/ sighandler

Spec == Init /\ [][Next]_vars

\* The engine's loop never blocks, and the kernel delivers what is pending:
\* a SIGSTOP, the end of a single step, the stop of a forked process.
Fairness ==
  /\ WF_vars(EngineStep)
  /\ \A t \in Threads : WF_vars(KernelStops(t))
  /\ \A t \in Threads : WF_vars(\E b \in Bps : JobExecutes(t, b))
  /\ WF_vars(ChildStops)

FairSpec == Spec /\ Fairness

-----------------------------------------------------------------------------
(* Properties.                                                              *)

\* request_detach and request_kill: whatever comes later, from the socket, from
\* RM_daemon's exit or from a signal, the first request and its reason stay.
FirstRequestWins == [][Requested => UNCHANGED reqVars]_vars

\* The first message of Terminal is the last thing the engine says, and it has
\* left its loop when it has said it: the front end's watchdog stops reading.
TerminalIsLast ==
  \A i \in DOMAIN toFE : toFE[i] \in Terminal => i = Len(toFE) /\ eng # "up"

LastSaid == IF toFE = << >> THEN "nothing" ELSE toFE[Len(toFE)]

\* A front end that is told detach_done, kill_done, bedmon_exited or
\* stop_tracing, or that the job aborts, can rely on RM_job being as it was:
\* no trap in its text and MPIR_being_debugged reset.
AnsweredMeansReleased ==
  LastSaid \in Terminal \ {"exited"} =>
    /\ \A b \in Bps : bp[b] # "enabled"
    /\ ~beingDebugged
    /\ \A t \in Threads : ts[t] \in {"none", "zombie", "gone", "free"}

\* README.ERROR_HANDLING: daemons outlive a failing engine (A.1.2) and a
\* failing job (D.1); they are killed for a front end that asked (kill,
\* shutdown) or died (C.1), RM_job only for one that asked for the kill.
KillsAreAsked ==
  /\ jobKilled => pleaseKill /\ reason = "FE_requested_kill"
  /\ dm = "killed" =>
       \/ jobKilled
       \/ pleaseDetach /\ reason \in {"FE_requested_shutdown_dmon", "FE_disconnected"}

\* The engine never forgets a thread it holds: while it runs, a thread stays
\* stopped after its stop was reported only if it is registered to be continued
\* by lmonp_cont_launch_bp, and one that is registered is still stopped.
HeldIffParked ==
  eng = "up" =>
    \A t \in Threads : /\ ts[t] = "held" => t \in evreg
                       /\ t \in evreg => ts[t] \in {"held", "zombie"}

Announces == {"stop_at_first_attach", "stop_at_launch_bp_spawned"}

\* Tool daemons are started only after the front end was sent what it needs
\* to serve them: table, resource handle and RM info, in that order.
ShippedBeforeLaunch ==
  /\ \A i \in DOMAIN toFE : toFE[i] \in Announces =>
       i > 3 /\ SubSeq(toFE, i - 3, i - 1) = Shipment
  /\ dm # "none" /\ feUp => \E i \in DOMAIN toFE : toFE[i] \in Announces

\* Once asked to go, the engine does not leave its loop with its traps still in
\* the text of a live RM_job, which would die of the next one.
TrapsRemovedOnRequest ==
  eng = "exited" /\ Requested /\ ts[Master] = "free" =>
    \A b \in Bps : bp[b] # "enabled"

\* No thread passes MPIR_Breakpoint at full speed without the engine seeing it,
\* unless a request is pending: the job's spawning would go unnoticed.
LaunchBpNeverMissed ==
  [][\A t \in Threads :
       ts[t] = "run" /\ pc[t] = <<"launch", "at">> /\ pc'[t] = <<"launch", "past">>
         => Requested]_vars

\* A request made while no thread is parked is served: the engine ends.
RequestServed == (Requested /\ evreg = {} /\ ~neverTrapped) ~> (eng # "up")

\* What the repository says of the engine and the code does not always do, as a
\* run shows.

\* README.ERROR_HANDLING C.1: when the front end fails the engine kills
\* RM_daemon and detaches from RM_job.
FEFailureCleanedUp == (ApiMode /\ ~feUp) ~> (eng # "up")
=============================================================================
