---------------------------- MODULE EngineProofs ----------------------------
(***************************************************************************)
(* Theorems about the engine, for every number of threads, every kind of   *)
(* resource manager and kernel, and without the bounds of the runs.        *)
(***************************************************************************)
EXTENDS Engine, SequenceTheorems, TLAPS

USE DEF engineVars, reqVars, jobVars, childVars, daemonVars, feVars

-----------------------------------------------------------------------------
(* Type correctness.                                                        *)

LEMMA ReleasedType ==
  ASSUME NEW k \in [Threads -> ThreadStates]
  PROVE  Released(k) \in [Threads -> ThreadStates]
BY DEF Released, ThreadStates

\* The signal handler aborts at its last poll, so the loop never makes more.
PollsLeft == eng = "up" => polls < MaxSigPolls

TypeInv == TypeOK /\ PollsLeft

\* The part of the type invariant that Returns establishes.
LoopType ==
  /\ eng \in {"up", "exited", "aborted", "killed"}
  /\ loop \in {"fe", "procs", "sig"}
  /\ polls \in 0 .. MaxSigPolls
  /\ ts \in [Threads -> ThreadStates]
  /\ PollsLeft

LEMMA ReturnsType ==
  ASSUME TypeInv, eng = "up", NEW ok \in BOOLEAN,
         NEW k \in [Threads -> ThreadStates], Returns(ok, k)
  PROVE  LoopType'
BY ReleasedType, EngineAssumption DEF Returns, TypeOK, TypeInv, PollsLeft, LoopType

LEMMA SayType ==
  ASSUME TypeOK, NEW ms \in Seq(FEMessages), Say(ms)
  PROVE  toFE' \in Seq(FEMessages)
BY DEF Say, TypeOK

LEMMA InitType == Init => TypeInv
<1> SUFFICES ASSUME Init PROVE TypeInv
  OBVIOUS
<1>1. Master \in Threads
  BY DEF Threads
<1>2. ts \in [Threads -> ThreadStates]
  BY DEF Init, ThreadStates, Stops
<1>3. toEngine \in Seq(Messages) /\ toFE \in Seq(FEMessages)
  BY DEF Init
<1>4. pc \in [Threads -> PCs] /\ clonee \in [Threads -> SUBSET Slaves]
  BY DEF Init, PCs
<1>5. /\ thrlist \subseteq Threads /\ traced \subseteq Threads
      /\ evreg \subseteq Threads /\ pend \subseteq Threads
  BY <1>1 DEF Init
<1>6. /\ polls \in 0 .. MaxSigPolls /\ feUp \in BOOLEAN
      /\ bp \in [Bps -> {"null", "enabled", "disabled"}]
      /\ hits \in [Bps -> Nat] /\ childTraps \subseteq Bps
      /\ PollsLeft
  BY EngineAssumption DEF Init, PollsLeft
<1> QED
  BY <1>2, <1>3, <1>4, <1>5, <1>6 DEF Init, TypeInv, TypeOK, Reasons, MpirStates

LEMMA JobType ==
  ASSUME TypeInv, NEW t \in Threads, JobStep(t)
  PROVE  TypeInv'
<1> USE DEF TypeInv, TypeOK, PollsLeft, kernelFrame
<1>1. ASSUME NEW b \in Bps, JobHits(t, b) PROVE TypeInv'
  BY <1>1 DEF JobHits, PCs
<1>2. ASSUME NEW b \in Bps, JobExecutes(t, b) PROVE TypeInv'
  <2>1. ts' \in [Threads -> ThreadStates]
    BY <1>2 DEF JobExecutes, ThreadStates, Stops
  <2>2. <<b, "trapped">> \in PCs /\ <<b, "past">> \in PCs
    BY DEF PCs
  <2>3. pc' \in [Threads -> PCs]
    BY <1>2, <2>2 DEF JobExecutes
  <2> QED
    BY <1>2, <2>1, <2>3 DEF JobExecutes
<1>3. ASSUME NEW b \in Bps, JobLeaves(t, b) PROVE TypeInv'
  BY <1>3 DEF JobLeaves, PCs
<1>4. CASE KernelStops(t)
  BY <1>4 DEF KernelStops, ThreadStates, Stops
<1>5. CASE JobSignalled(t)
  BY <1>5 DEF JobSignalled, ThreadStates, Stops
<1>6. ASSUME NEW s \in Slaves, JobClones(t, s) PROVE TypeInv'
  BY <1>6 DEF JobClones, ThreadStates, Stops, Threads
<1>7. CASE JobForks(t)
  BY <1>7 DEF JobForks, ThreadStates, Stops
<1>8. CASE ThreadExits(t)
  BY <1>8 DEF ThreadExits, ThreadStates, Stops
<1> QED
  BY <1>1, <1>2, <1>3, <1>4, <1>5, <1>6, <1>7, <1>8 DEF JobStep

LEMMA RequestType ==
  ASSUME TypeOK, NEW why \in Reasons,
         request_detach(why) \/ request_kill(why)
  PROVE  /\ pleaseDetach' \in BOOLEAN /\ pleaseKill' \in BOOLEAN
         /\ reason' \in Reasons
         /\ pend' \subseteq Threads
BY DEF request_detach, request_kill, TypeOK

LEMMA SocketType ==
  ASSUME TypeInv, SocketPoll
  PROVE  TypeInv'
<1> USE DEF TypeInv, TypeOK, PollsLeft, pollFrame, PollsFE, PollsProcsNext
<1>0. ASSUME NEW m, Receives(m) PROVE toEngine' \in Seq(Messages)
  BY <1>0 DEF Receives
<1>1. CASE FESilent
  BY <1>1 DEF FESilent
<1>2. CASE FEDetach
  BY <1>2, <1>0, RequestType DEF FEDetach, Reasons
<1>3. CASE FEKill
  BY <1>3, <1>0, RequestType DEF FEKill, Reasons
<1>4. CASE FEShutdown
  BY <1>4, <1>0, RequestType DEF FEShutdown, Reasons
<1>5. CASE FECont
  <2>1. ts' \in [Threads -> ThreadStates]
    BY <1>5 DEF FECont, ThreadStates
  <2> QED
    BY <1>5, <1>0, <2>1 DEF FECont
<1>6. CASE FEContFails
  BY <1>6, <1>0, ReleasedType DEF FEContFails
<1>7. CASE FEDisconnected
  BY <1>7, RequestType DEF FEDisconnected, Reasons
<1>8. CASE FEIllFormed
  BY <1>8, <1>0, ReleasedType DEF FEIllFormed
<1> QED
  BY <1>1, <1>2, <1>3, <1>4, <1>5, <1>6, <1>7, <1>8 DEF SocketPoll

LEMMA LaunchType ==
  ASSUME TypeOK, launch_tool_daemons
  PROVE  /\ dm' \in {"none", "run", "zombie", "gone", "killed"}
         /\ orphans' \in Nat /\ hosts' \in BOOLEAN
<1>1. dm' \in {"none", "run", "zombie", "gone", "killed"}
  BY DEF launch_tool_daemons, TypeOK
<1>2. orphans' \in Nat
  BY DEF launch_tool_daemons, TypeOK
<1>3. hosts' \in BOOLEAN
  BY DEF launch_tool_daemons, TypeOK
<1> QED
  BY <1>1, <1>2, <1>3

\* What a handler may do to a thread, and what it may say.
LEMMA HandlerTypes ==
  ASSUME TypeOK, NEW t \in Threads
  PROVE  /\ Continued(t) \in [Threads -> ThreadStates]
         /\ Stepped(t) \in [Threads -> ThreadStates]
         /\ [ts EXCEPT ![t] = "held"] \in [Threads -> ThreadStates]
         /\ [ts EXCEPT ![t] = "gone"] \in [Threads -> ThreadStates]
         /\ ts \in [Threads -> ThreadStates]
         /\ Shipment \o <<"stop_at_first_attach">> \in Seq(FEMessages)
         /\ Shipment \o <<"stop_at_launch_bp_spawned">> \in Seq(FEMessages)
         /\ \A m \in Terminal : <<m>> \in Seq(FEMessages)
         /\ DetachAnswer \in Seq(FEMessages)
<1>1. /\ Continued(t) \in [Threads -> ThreadStates]
      /\ Stepped(t) \in [Threads -> ThreadStates]
      /\ [ts EXCEPT ![t] = "held"] \in [Threads -> ThreadStates]
      /\ [ts EXCEPT ![t] = "gone"] \in [Threads -> ThreadStates]
      /\ ts \in [Threads -> ThreadStates]
  BY DEF TypeOK, Continued, Stepped, ThreadStates
<1>2. /\ Shipment \in Seq(FEMessages)
      /\ <<"stop_at_first_attach">> \in Seq(FEMessages)
      /\ <<"stop_at_launch_bp_spawned">> \in Seq(FEMessages)
  BY DEF Shipment, FEMessages
<1>3. \A m \in Terminal : <<m>> \in Seq(FEMessages)
  BY DEF FEMessages
<1>4. DetachAnswer \in Seq(FEMessages)
  <2>1. /\ <<"bedmon_exited">> \in Seq(FEMessages)
        /\ <<"detach_done">> \in Seq(FEMessages)
        /\ <<"stop_tracing">> \in Seq(FEMessages)
        /\ << >> \in Seq(FEMessages)
    BY <1>3 DEF Terminal
  <2> QED
    BY <2>1 DEF DetachAnswer
<1> QED
  BY <1>1, <1>2, <1>3, <1>4

LEMMA TraceeType ==
  ASSUME TypeInv, NEW t \in Threads, TraceePoll(t)
  PROVE  TypeInv'
<1> DEFINE DaemonType == /\ dm \in {"none", "run", "zombie", "gone", "killed"}
                         /\ orphans \in Nat /\ hosts \in BOOLEAN
<1>0. /\ TypeOK
      /\ Continued(t) \in [Threads -> ThreadStates]
      /\ Stepped(t) \in [Threads -> ThreadStates]
      /\ [ts EXCEPT ![t] = "held"] \in [Threads -> ThreadStates]
      /\ [ts EXCEPT ![t] = "gone"] \in [Threads -> ThreadStates]
      /\ ts \in [Threads -> ThreadStates]
  BY HandlerTypes DEF TypeInv
<1> USE DEF handlerFrame
<1>1. CASE handle_trap_after_exec_event(t)
  <2>1. LoopType'
    BY <1>1, <1>0, ReturnsType
    DEF handle_trap_after_exec_event, Event, Reports, PollsProcs
  <2>2. beingDebugged' \in BOOLEAN /\ neverTrapped' \in BOOLEAN
    BY <1>1 DEF handle_trap_after_exec_event
  <2>3. bp' \in [Bps -> {"null", "enabled", "disabled"}]
    BY <1>1 DEF handle_trap_after_exec_event
  <2> QED
    BY <1>1, <2>1, <2>2, <2>3
    DEF handle_trap_after_exec_event, TypeInv, TypeOK, LoopType
<1>2. CASE handle_trap_after_attach_event(t)
  <2>1. LoopType'
    BY <1>2, <1>0, ReturnsType
    DEF handle_trap_after_attach_event, Event, Reports, PollsProcs
  <2>2. toFE' \in Seq(FEMessages) /\ DaemonType'
    <3>1. CASE Coloc \/ ContOnAttach
      BY <1>2, <3>1, <1>0 DEF handle_trap_after_attach_event, TypeOK
    <3>2. CASE ~(Coloc \/ ContOnAttach)
      BY <1>2, <3>2, <1>0, HandlerTypes, SayType, LaunchType
      DEF handle_trap_after_attach_event
    <3> QED
      BY <3>1, <3>2
  <2> QED
    BY <1>2, <2>1, <2>2
    DEF handle_trap_after_attach_event, TypeInv, TypeOK, LoopType
<1>3. ASSUME NEW b \in Bps, handle_bp_prologue(t, b), eng = "up"
      PROVE  TypeInv'
  <2>1. LoopType'
    BY <1>3, <1>0, ReturnsType DEF handle_bp_prologue
  <2>2. pc' \in [Threads -> PCs]
    BY <1>3, <1>0 DEF handle_bp_prologue, PCs, TypeOK
  <2> QED
    BY <1>3, <2>1, <2>2 DEF handle_bp_prologue, TypeInv, TypeOK, LoopType
<1>4. CASE handle_loader_bp_event(t)
  <2>1. LoopType'
    BY <1>4, <1>0, ReturnsType
    DEF handle_loader_bp_event, Event, Reports, PollsProcs
  <2>2. bp' \in [Bps -> {"null", "enabled", "disabled"}]
    BY <1>4, <1>0 DEF handle_loader_bp_event, PrologueDone, TypeOK
  <2> QED
    BY <1>4, <2>1, <2>2 DEF handle_loader_bp_event, TypeInv, TypeOK, LoopType
<1>5. CASE LaunchBpSpawned(t)
  <2>1. LoopType'
    BY <1>5, <1>0, ReturnsType
    DEF LaunchBpSpawned, LaunchBp, Event, Reports, PollsProcs
  <2>2. toFE' \in Seq(FEMessages) /\ DaemonType'
    BY <1>5, <1>0, HandlerTypes, SayType, LaunchType DEF LaunchBpSpawned
  <2> QED
    BY <1>5, <2>1, <2>2
    DEF LaunchBpSpawned, PrologueDone, TypeInv, TypeOK, LoopType
<1>6. CASE LaunchBpAborting(t)
  <2>1. LoopType'
    BY <1>6, <1>0, ReturnsType
    DEF LaunchBpAborting, LaunchBp, Event, Reports, PollsProcs
  <2>2. toFE' \in Seq(FEMessages)
    BY <1>6, <1>0, HandlerTypes, SayType DEF LaunchBpAborting, Terminal
  <2> QED
    BY <1>6, <2>1, <2>2, ZenonT(60) DEF LaunchBpAborting, TypeInv, TypeOK, LoopType
<1>7. CASE LaunchBpContinued(t)
  <2>1. LoopType'
    BY <1>7, <1>0, ReturnsType
    DEF LaunchBpContinued, LaunchBp, Event, Reports, PollsProcs
  <2>2. /\ bp' \in [Bps -> {"null", "enabled", "disabled"}]
        /\ mpir' \in {"start", "null", "spawned"}
    BY <1>7, <1>0 DEF LaunchBpContinued, PrologueDone, TypeOK
  <2> QED
    BY <1>7, <2>1, <2>2 DEF LaunchBpContinued, TypeInv, TypeOK, LoopType
<1>8. CASE ShipSigPipe(t)
  <2>1. ts' \in [Threads -> ThreadStates]
    BY <1>8, <1>0, ReleasedType DEF ShipSigPipe
  <2>2. /\ bp' \in [Bps -> {"null", "enabled", "disabled"}]
        /\ beingDebugged' \in BOOLEAN /\ neverTrapped' \in BOOLEAN
    BY <1>8, <1>0 DEF ShipSigPipe, PrologueDone, TypeOK
  <2> QED
    BY <1>8, <2>1, <2>2 DEF ShipSigPipe, TypeInv, TypeOK, PollsLeft
<1>9. CASE handle_detach_cmd_event(t)
  <2>1. LoopType'
    BY <1>9, <1>0, ReturnsType
    DEF handle_detach_cmd_event, Detaches, Event, Reports, PollsProcs
  <2>2. toFE' \in Seq(FEMessages)
    BY <1>9, <1>0, HandlerTypes, SayType DEF handle_detach_cmd_event
  <2>3. hosts' \in BOOLEAN /\ beingDebugged' \in BOOLEAN
    BY <1>9 DEF handle_detach_cmd_event, Detaches
  <2>4. /\ dm' \in {"none", "run", "zombie", "gone", "killed"}
        /\ bp' \in [Bps -> {"null", "enabled", "disabled"}]
    BY <1>9, <1>0 DEF handle_detach_cmd_event, Detaches, KillDaemons, TypeOK
  <2> QED
    BY <1>9, <2>1, <2>2, <2>3, <2>4
    DEF handle_detach_cmd_event, TypeInv, TypeOK, LoopType
<1>10. CASE handle_kill_cmd_event(t)
  <2>1. LoopType'
    BY <1>10, <1>0, ReturnsType
    DEF handle_kill_cmd_event, Detaches, Event, Reports, PollsProcs
  <2>2. toFE' \in Seq(FEMessages)
    BY <1>10, <1>0, HandlerTypes, SayType DEF handle_kill_cmd_event, Terminal
  <2> QED
    BY <1>10, <2>1, <2>2, ZenonT(60)
    DEF handle_kill_cmd_event, Detaches, KillDaemons, TypeInv, TypeOK, LoopType
<1>11. CASE CommandFails(t)
  <2>1. LoopType'
    BY <1>11, <1>0, ReturnsType DEF CommandFails, Event, Reports, PollsProcs
  <2> QED
    BY <1>11, <2>1 DEF CommandFails, TypeInv, TypeOK, LoopType
<1>12. CASE SlaveExit(t)
  <2>1. LoopType'
    BY <1>12, <1>0, ReturnsType DEF SlaveExit, Event, Reports, PollsProcs
  <2> QED
    BY <1>12, <2>1 DEF SlaveExit, TypeInv, TypeOK, LoopType
<1>13. CASE handle_thrcreate_trap_event(t)
  <2>1. LoopType'
    BY <1>13, <1>0, ReturnsType
    DEF handle_thrcreate_trap_event, Event, Reports, PollsProcs
  <2>2. thrlist' \subseteq Threads
    BY <1>13, <1>0 DEF handle_thrcreate_trap_event, Threads, TypeOK
  <2> QED
    BY <1>13, <2>1, <2>2
    DEF handle_thrcreate_trap_event, TypeInv, TypeOK, LoopType
<1>14. CASE handle_newthread_trace_event(t)
  <2>1. LoopType'
    BY <1>14, <1>0, ReturnsType
    DEF handle_newthread_trace_event, Event, Reports, PollsProcs
  <2> QED
    BY <1>14, <2>1
    DEF handle_newthread_trace_event, TypeInv, TypeOK, LoopType
<1>15. CASE handle_relay_signal_event(t)
  <2>1. LoopType'
    BY <1>15, <1>0, ReturnsType
    DEF handle_relay_signal_event, Event, Reports, PollsProcs
  <2> QED
    BY <1>15, <2>1
    DEF handle_relay_signal_event, TypeInv, TypeOK, LoopType
<1>16. CASE BpPrologue(t)
  <2>1. eng = "up"
    BY <1>16 DEF BpPrologue, Event, Reports, PollsProcs
  <2> QED
    BY <1>16, <2>1, <1>3 DEF BpPrologue, Bps
<1> QED
  BY <1>1, <1>2, <1>4, <1>5, <1>6, <1>7, <1>8, <1>9, <1>10, <1>11, <1>12,
     <1>13, <1>14, <1>15, <1>16 DEF TraceePoll

LEMMA NextType == TypeInv /\ [Next]_vars => TypeInv'
<1> SUFFICES ASSUME TypeInv, [Next]_vars PROVE TypeInv'
  OBVIOUS
<1>0. TypeOK /\ ts \in [Threads -> ThreadStates] /\ Master \in Threads
  BY DEF TypeInv, TypeOK, Threads
<1> USE DEF handlerFrame
<1>1. ASSUME NEW t \in Threads, JobStep(t) PROVE TypeInv'
  BY <1>1, JobType
<1>2. CASE JobExits
  <2>1. ts' \in [Threads -> ThreadStates]
    BY <1>2, <1>0 DEF JobExits, Dead, ThreadStates
  <2> QED
    BY <1>2, <2>1 DEF JobExits, kernelFrame, TypeInv, TypeOK, PollsLeft
<1>3. CASE ChildStops
  BY <1>3 DEF ChildStops, TypeInv, TypeOK, PollsLeft
<1>4. CASE DaemonExits
  BY <1>4 DEF DaemonExits, TypeInv, TypeOK, PollsLeft
<1>5. ASSUME NEW m \in Requests, FESends(m) PROVE TypeInv'
  <2>1. toEngine' \in Seq(Messages)
    BY <1>5, <1>0, EngineAssumption DEF FESends, TypeOK
  <2> QED
    BY <1>5, <2>1 DEF FESends, feFrame, TypeInv, TypeOK, PollsLeft
<1>6. CASE FEDies
  <2>1. feUp' \in BOOLEAN
    BY <1>6 DEF FEDies
  <2>2. toEngine' = toEngine /\ sent' = sent /\ feFrame
    BY <1>6 DEF FEDies
  <2> QED
    BY <2>1, <2>2 DEF feFrame, TypeInv, TypeOK, PollsLeft
<1>7. CASE SocketPoll
  BY <1>7, SocketType
<1>8. CASE NoEvent
  <2>1. LoopType'
    BY <1>8, <1>0, ReturnsType DEF NoEvent, PollsProcs
  <2> QED
    BY <1>8, <2>1 DEF NoEvent, TypeInv, TypeOK, LoopType
<1>9. CASE handle_daemon_exit_event
  <2>1. LoopType'
    BY <1>9, <1>0, ReturnsType DEF handle_daemon_exit_event, PollsProcs
  <2>2. /\ pleaseDetach' \in BOOLEAN /\ pleaseKill' \in BOOLEAN
        /\ reason' \in Reasons /\ pend' \subseteq Threads
    <3>1. CASE FailDetect
      BY <1>9, <1>0, <3>1, RequestType DEF handle_daemon_exit_event, Reasons
    <3>2. CASE ~FailDetect
      BY <1>9, <1>0, <3>2 DEF handle_daemon_exit_event, TypeOK
    <3> QED
      BY <3>1, <3>2
  <2> QED
    BY <1>9, <2>1, <2>2 DEF handle_daemon_exit_event, TypeInv, TypeOK, LoopType
<1>10. CASE handle_newproc_forked_event
  <2>1. LoopType'
    BY <1>10, <1>0, ReturnsType DEF handle_newproc_forked_event, PollsProcs
  <2> QED
    BY <1>10, <2>1 DEF handle_newproc_forked_event, TypeInv, TypeOK, LoopType
<1>11. ASSUME NEW t \in Threads, TraceePoll(t) PROVE TypeInv'
  BY <1>11, TraceeType
<1>12. CASE LeaderExit
  <2>1. LoopType'
    BY <1>12, <1>0, HandlerTypes, ReturnsType
    DEF LeaderExit, Event, Reports, PollsProcs
  <2>2. toFE' \in Seq(FEMessages)
    BY <1>12, <1>0, HandlerTypes, SayType DEF LeaderExit, Terminal
  <2>3. hosts' \in BOOLEAN
    BY <1>12 DEF LeaderExit
  <2> QED
    BY <1>12, <2>1, <2>2, <2>3 DEF LeaderExit, TypeInv, TypeOK, LoopType
<1>13. CASE sighandler
  <2>1. /\ pleaseDetach' \in BOOLEAN /\ pleaseKill' \in BOOLEAN
        /\ reason' \in Reasons /\ pend' \subseteq Threads
    BY <1>13, <1>0, RequestType DEF sighandler, Reasons
  <2>2. polls' \in 0 .. MaxSigPolls /\ PollsLeft'
    BY <1>13, EngineAssumption DEF sighandler, PollsLeft
  <2> QED
    BY <1>13, <2>1, <2>2 DEF sighandler, TypeInv, TypeOK
<1>14. CASE UNCHANGED vars
  BY <1>14 DEF vars, TypeInv, TypeOK, PollsLeft
<1> QED
  BY <1>1, <1>2, <1>3, <1>4, <1>5, <1>6, <1>7, <1>8, <1>9, <1>10, <1>11,
     <1>12, <1>13, <1>14 DEF Next, EngineStep

\* Every behaviour of the engine is type correct; the signal handler never
\* polls more often than nMaxEvs.
THEOREM TypeCorrect == Spec => []TypeOK
<1>1. Init => TypeInv
  BY InitType
<1>2. TypeInv /\ [Next]_vars => TypeInv'
  BY NextType
<1>3. TypeInv => TypeOK
  BY DEF TypeInv
<1> QED
  BY <1>1, <1>2, <1>3, PTL DEF Spec

-----------------------------------------------------------------------------
(* The first request decides.                                               *)

LEMMA RequestsKept ==
  ASSUME NEW why, request_detach(why) \/ request_kill(why), Requested
  PROVE  UNCHANGED reqVars
BY DEF request_detach, request_kill

\* Once please_detach or please_kill is set, no message of the front end, exit
\* of RM_daemon or signal replaces the request or its reason.
THEOREM FirstRequestStays == Spec => FirstRequestWins
<1>1. ASSUME [Next]_vars PROVE [Requested => UNCHANGED reqVars]_vars
  <2> SUFFICES ASSUME Requested, Next PROVE UNCHANGED reqVars
    BY <1>1
  <2>1. CASE \E t \in Threads : JobStep(t)
    BY <2>1 DEF JobStep, JobHits, JobExecutes, JobLeaves, KernelStops,
         JobSignalled, JobClones, JobForks, ThreadExits, kernelFrame
  <2>2. CASE JobExits \/ ChildStops \/ DaemonExits
    BY <2>2 DEF JobExits, ChildStops, DaemonExits, kernelFrame
  <2>3. CASE (\E m \in Requests : FESends(m)) \/ FEDies
    BY <2>3 DEF FESends, FEDies, feFrame
  <2>4. CASE SocketPoll
    BY <2>4, RequestsKept DEF SocketPoll, FESilent, FEDetach, FEKill,
         FEShutdown, FECont, FEContFails, FEDisconnected, FEIllFormed
  <2>5. CASE \E t \in Threads : TraceePoll(t)
    BY <2>5 DEF TraceePoll, handle_trap_after_exec_event,
         handle_trap_after_attach_event, BpPrologue, handle_bp_prologue,
         handle_loader_bp_event, LaunchBpSpawned, LaunchBpAborting,
         LaunchBpContinued, ShipSigPipe, handle_detach_cmd_event,
         handle_kill_cmd_event, CommandFails, SlaveExit,
         handle_thrcreate_trap_event, handle_newthread_trace_event,
         handle_relay_signal_event
  <2>6. CASE NoEvent \/ handle_newproc_forked_event \/ LeaderExit
    BY <2>6 DEF NoEvent, handle_newproc_forked_event, LeaderExit
  <2>7. CASE handle_daemon_exit_event
    BY <2>7, RequestsKept DEF handle_daemon_exit_event
  <2>8. CASE sighandler
    BY <2>8, RequestsKept DEF sighandler
  <2> QED
    BY <2>1, <2>2, <2>3, <2>4, <2>5, <2>6, <2>7, <2>8 DEF Next, EngineStep
<1> QED
  BY <1>1, PTL DEF Spec, FirstRequestWins

-----------------------------------------------------------------------------
(* The end of the engine: its last message, and what RM_job is then.        *)

Ended == {"none", "zombie", "gone", "free"}

\* An engine that has ended traces nothing.
Over == eng # "up" => \A t \in Threads : ts[t] \in Ended

Clean == (\A b \in Bps : bp[b] # "enabled") /\ ~beingDebugged

\* Neither of the two properties is inductive without Over: RM_job must not be
\* able to move, or the engine to speak, once the terminal message is out.
EndInv == TerminalIsLast /\ Over /\ AnsweredMeansReleased

LEMMA ReturnsOver ==
  ASSUME NEW ok \in BOOLEAN, NEW k \in [Threads -> ThreadStates], Returns(ok, k)
  PROVE  Over' /\ (~ok => eng' # "up")
BY DEF Returns, Released, Over, Ended

LEMMA QuietWhileUp ==
  ASSUME TerminalIsLast, eng = "up"
  PROVE  \A i \in DOMAIN toFE : toFE[i] \notin Terminal
BY DEF TerminalIsLast

\* A step that says nothing.
LEMMA SilentStep ==
  ASSUME TypeOK, EndInv, eng = "up", toFE' = toFE, Over'
  PROVE  EndInv'
<1>1. \A i \in DOMAIN toFE : toFE[i] \notin Terminal
  BY QuietWhileUp DEF EndInv
<1>2. TerminalIsLast'
  BY <1>1 DEF TerminalIsLast
<1>3. LastSaid' \notin Terminal
  BY <1>1 DEF LastSaid, TypeOK, Terminal
<1> QED
  BY <1>2, <1>3 DEF EndInv, AnsweredMeansReleased

\* A step that ships the table.
LEMMA AnnouncingStep ==
  ASSUME TypeOK, EndInv, eng = "up", Over',
         NEW ms \in Seq(FEMessages), Say(ms),
         \A i \in DOMAIN ms : ms[i] \notin Terminal
  PROVE  EndInv'
<1>1. \A i \in DOMAIN toFE : toFE[i] \notin Terminal
  BY QuietWhileUp DEF EndInv
<1>2. toFE' \in Seq(FEMessages) /\ \A i \in DOMAIN toFE' : toFE'[i] \notin Terminal
  <2>1. CASE ~feUp
    BY <2>1, <1>1 DEF Say, TypeOK
  <2>2. CASE feUp
    BY <2>2, <1>1 DEF Say, TypeOK
  <2> QED
    BY <2>1, <2>2
<1>3. TerminalIsLast'
  BY <1>2 DEF TerminalIsLast
<1>4. LastSaid' \notin Terminal
  BY <1>2 DEF LastSaid, Terminal
<1> QED
  BY <1>3, <1>4 DEF EndInv, AnsweredMeansReleased

\* A step that ends the engine with at most one message.
LEMMA AnsweringStep ==
  ASSUME TypeOK, EndInv, eng = "up", Over', eng' # "up",
         NEW ms \in Seq(FEMessages), Say(ms), Len(ms) <= 1,
         ms = <<"exited">> \/ Clean'
  PROVE  EndInv'
<1>1. \A i \in DOMAIN toFE : toFE[i] \notin Terminal
  BY QuietWhileUp DEF EndInv
<1>2. toFE' \in Seq(FEMessages)
  BY SayType
<1>3. \A i \in DOMAIN toFE' : toFE'[i] \in Terminal => i = Len(toFE')
  <2>1. CASE ~feUp
    BY <2>1, <1>1 DEF Say, TypeOK
  <2>2. CASE feUp
    BY <2>2, <1>1 DEF Say, TypeOK
  <2> QED
    BY <2>1, <2>2
<1>4. ms = <<"exited">> => LastSaid' \notin Terminal \ {"exited"}
  <2>1. CASE ~feUp
    BY <2>1, <1>1 DEF Say, TypeOK, LastSaid, Terminal
  <2>2. CASE feUp
    BY <2>2 DEF Say, TypeOK, LastSaid, Terminal
  <2> QED
    BY <2>1, <2>2
<1> QED
  BY <1>3, <1>4 DEF EndInv, AnsweredMeansReleased, TerminalIsLast, Over, Ended, Clean

\* Nothing of RM_job that the engine's end depends on moves by itself.
LEMMA JobEnd ==
  ASSUME TypeInv, EndInv, NEW t \in Threads, JobStep(t)
  PROVE  EndInv'
<1>1. ts[t] \notin Ended
  BY DEF JobStep, JobHits, JobExecutes, JobLeaves, KernelStops, JobSignalled,
    JobClones, JobForks, ThreadExits, Running, Ended
<1>2. eng = "up"
  BY <1>1 DEF EndInv, Over
<1>3. toFE' = toFE /\ eng' = eng
  BY DEF JobStep, JobHits, JobExecutes, JobLeaves, KernelStops, JobSignalled,
    JobClones, JobForks, ThreadExits, kernelFrame
<1> QED
  BY <1>2, <1>3, SilentStep DEF TypeInv, Over

LEMMA SocketEnd ==
  ASSUME TypeInv, EndInv, SocketPoll
  PROVE  EndInv'
<1>1. toFE' = toFE /\ eng = "up"
  BY DEF SocketPoll, FESilent, FEDetach, FEKill, FEShutdown, FECont,
    FEContFails, FEDisconnected, FEIllFormed, Receives, PollsFE, pollFrame
<1>2. eng' = eng \/ ts' = Released(ts)
  BY DEF SocketPoll, FESilent, FEDetach, FEKill, FEShutdown, FECont,
    FEContFails, FEDisconnected, FEIllFormed, PollsProcsNext
<1>3. Over'
  BY <1>1, <1>2 DEF Over, Ended, Released
<1> QED
  BY <1>1, <1>3, SilentStep DEF TypeInv

LEMMA ConcatNotTerminal ==
  ASSUME NEW a \in Seq(FEMessages), \A i \in DOMAIN a : a[i] \notin Terminal,
         NEW z \in Seq(FEMessages), \A i \in DOMAIN z : z[i] \notin Terminal
  PROVE  \A i \in DOMAIN (a \o z) : (a \o z)[i] \notin Terminal
OBVIOUS

\* What is shipped when the job is found is not the last message.
LEMMA ShipmentNotTerminal ==
  ASSUME NEW m \in Announces
  PROVE  \A i \in DOMAIN (Shipment \o <<m>>) : (Shipment \o <<m>>)[i] \notin Terminal
<1> DEFINE z == <<m>>
<1>1. Shipment \in Seq(FEMessages) /\ z \in Seq(FEMessages)
  BY DEF Shipment, FEMessages, Announces
<1>2. \A i \in DOMAIN Shipment : Shipment[i] \notin Terminal
  BY DEF Shipment, Terminal
<1>3. \A i \in DOMAIN z : z[i] \notin Terminal
  BY DEF Announces, Terminal
<1> HIDE DEF z
<1>4. \A i \in DOMAIN (Shipment \o z) : (Shipment \o z)[i] \notin Terminal
  BY <1>1, <1>2, <1>3, ConcatNotTerminal
<1> QED
  BY <1>4 DEF z

LEMMA TraceeEnd ==
  ASSUME TypeInv, EndInv, NEW t \in Threads, TraceePoll(t)
  PROVE  EndInv'
<1>0. /\ TypeOK
      /\ Continued(t) \in [Threads -> ThreadStates]
      /\ Stepped(t) \in [Threads -> ThreadStates]
      /\ [ts EXCEPT ![t] = "held"] \in [Threads -> ThreadStates]
      /\ [ts EXCEPT ![t] = "gone"] \in [Threads -> ThreadStates]
      /\ ts \in [Threads -> ThreadStates]
  BY HandlerTypes DEF TypeInv
<1>u. eng = "up"
  BY DEF TraceePoll, handle_trap_after_exec_event,
    handle_trap_after_attach_event, BpPrologue, handle_loader_bp_event,
    LaunchBpSpawned, LaunchBpAborting, LaunchBpContinued, ShipSigPipe,
    LaunchBp, handle_detach_cmd_event, handle_kill_cmd_event, CommandFails,
    SlaveExit, handle_thrcreate_trap_event, handle_newthread_trace_event,
    handle_relay_signal_event, Event, Reports, PollsProcs
<1>1. CASE handle_trap_after_attach_event(t)
  <2>1. Over'
    BY <1>1, <1>0, ReturnsOver DEF handle_trap_after_attach_event
  <2>2. CASE Coloc \/ ContOnAttach
    BY <1>1, <1>0, <1>u, <2>1, <2>2, SilentStep DEF handle_trap_after_attach_event
  <2>3. CASE ~(Coloc \/ ContOnAttach)
    <3> DEFINE ms == Shipment \o <<"stop_at_first_attach">>
    <3>1. Say(ms) /\ ms \in Seq(FEMessages)
      BY <1>1, <2>3, <1>0, HandlerTypes DEF handle_trap_after_attach_event
    <3>2. \A i \in DOMAIN ms : ms[i] \notin Terminal
      BY ShipmentNotTerminal DEF Announces
    <3> QED
      BY <1>0, <1>u, <2>1, <3>1, <3>2, AnnouncingStep
  <2> QED
    BY <2>2, <2>3
<1>2. CASE LaunchBpSpawned(t)
  <2> DEFINE ms == Shipment \o <<"stop_at_launch_bp_spawned">>
  <2>1. Over'
    <3>1. (IF ApiMode THEN [ts EXCEPT ![t] = "held"] ELSE Continued(t))
            \in [Threads -> ThreadStates]
      BY <1>0
    <3> QED
      BY <1>2, <3>1, ReturnsOver DEF LaunchBpSpawned
  <2>2. Say(ms) /\ ms \in Seq(FEMessages)
    BY <1>2, <1>0, HandlerTypes DEF LaunchBpSpawned
  <2>3. \A i \in DOMAIN ms : ms[i] \notin Terminal
    BY ShipmentNotTerminal DEF Announces
  <2> QED
    BY <1>0, <1>u, <2>1, <2>2, <2>3, AnnouncingStep
<1>3. CASE LaunchBpAborting(t)
  <2>1. Over' /\ eng' # "up"
    BY <1>3, <1>0, ReturnsOver DEF LaunchBpAborting
  <2>2. Clean'
    BY <1>3 DEF LaunchBpAborting, Clean
  <2>3. <<"stop_at_launch_bp_abort">> \in Seq(FEMessages) /\ Len(<<"stop_at_launch_bp_abort">>) <= 1
    BY <1>0, HandlerTypes DEF Terminal
  <2> QED
    BY <1>3, <1>0, <1>u, <2>1, <2>2, <2>3, AnsweringStep DEF LaunchBpAborting
<1>4. CASE handle_detach_cmd_event(t)
  <2>1. Over' /\ eng' # "up"
    BY <1>4, <1>0, ReturnsOver DEF handle_detach_cmd_event, Detaches
  <2>2. Clean'
    BY <1>4, <1>0 DEF handle_detach_cmd_event, Detaches, Clean, TypeOK
  <2>3. DetachAnswer \in Seq(FEMessages) /\ Len(DetachAnswer) <= 1
    BY <1>0, HandlerTypes DEF DetachAnswer
  <2> QED
    BY <1>4, <1>0, <1>u, <2>1, <2>2, <2>3, AnsweringStep
    DEF handle_detach_cmd_event
<1>5. CASE handle_kill_cmd_event(t)
  <2>1. Over' /\ eng' # "up"
    BY <1>5, <1>0, ReturnsOver DEF handle_kill_cmd_event, Detaches
  <2>2. Clean'
    BY <1>5, <1>0 DEF handle_kill_cmd_event, Detaches, Clean, TypeOK
  <2>3. <<"kill_done">> \in Seq(FEMessages) /\ Len(<<"kill_done">>) <= 1
    BY <1>0, HandlerTypes DEF Terminal
  <2> QED
    BY <1>5, <1>0, <1>u, <2>1, <2>2, <2>3, AnsweringStep
    DEF handle_kill_cmd_event
<1>6. CASE ShipSigPipe(t)
  <2>1. Over' /\ toFE' = toFE
    BY <1>6 DEF ShipSigPipe, Over, Ended, Released
  <2> QED
    BY <1>0, <1>u, <2>1, SilentStep
<1>7. ASSUME NEW b \in Bps, handle_bp_prologue(t, b) PROVE EndInv'
  <2>1. Over' /\ toFE' = toFE
    BY <1>7, <1>0, ReturnsOver DEF handle_bp_prologue
  <2> QED
    BY <1>0, <1>u, <2>1, SilentStep
<1>8. CASE \/ handle_trap_after_exec_event(t) \/ handle_loader_bp_event(t)
           \/ LaunchBpContinued(t) \/ CommandFails(t) \/ SlaveExit(t)
           \/ handle_thrcreate_trap_event(t) \/ handle_newthread_trace_event(t)
           \/ handle_relay_signal_event(t)
  <2>1. toFE' = toFE
    BY <1>8 DEF handle_trap_after_exec_event, handle_loader_bp_event,
      LaunchBpContinued, CommandFails, SlaveExit, handle_thrcreate_trap_event,
      handle_newthread_trace_event, handle_relay_signal_event
  <2>2. \/ Returns(TRUE, Continued(t)) \/ Returns(FALSE, ts)
        \/ Returns(TRUE, [ts EXCEPT ![t] = "gone"])
    BY <1>8 DEF handle_trap_after_exec_event, handle_loader_bp_event,
      LaunchBpContinued, CommandFails, SlaveExit, handle_thrcreate_trap_event,
      handle_newthread_trace_event, handle_relay_signal_event
  <2>3. Over'
    BY <2>2, <1>0, ReturnsOver
  <2> QED
    BY <1>0, <1>u, <2>1, <2>3, SilentStep
<1> QED
  BY <1>1, <1>2, <1>3, <1>4, <1>5, <1>6, <1>7, <1>8 DEF TraceePoll, BpPrologue, Bps

LEMMA NextEnd == TypeInv /\ EndInv /\ [Next]_vars => EndInv'
<1> SUFFICES ASSUME TypeInv, EndInv, [Next]_vars PROVE EndInv'
  OBVIOUS
<1>0. TypeOK /\ ts \in [Threads -> ThreadStates] /\ Master \in Threads
  BY DEF TypeInv, TypeOK, Threads
<1>1. CASE \E t \in Threads : JobStep(t)
  BY <1>1, JobEnd
<1>2. CASE JobExits
  <2>1. UNCHANGED <<toFE, eng, bp, beingDebugged>>
    BY <1>2 DEF JobExits, kernelFrame
  <2>2. \A t \in Threads : ts[t] \in Ended => ts'[t] \in Ended
    BY <1>2 DEF JobExits, Dead, Ended
  <2> QED
    BY <2>1, <2>2 DEF EndInv, TerminalIsLast, Over, AnsweredMeansReleased, LastSaid, Ended
<1>3. CASE ChildStops \/ DaemonExits \/ (\E m \in Requests : FESends(m)) \/ FEDies \/ sighandler
  <2>1. UNCHANGED <<toFE, eng, ts>> /\ eng = "up"
    BY <1>3 DEF ChildStops, DaemonExits, FESends, FEDies, sighandler, feFrame
  <2> QED
    BY <2>1, <1>0, SilentStep DEF Over
<1>4. CASE SocketPoll
  BY <1>4, SocketEnd
<1>5. CASE \E t \in Threads : TraceePoll(t)
  BY <1>5, TraceeEnd
<1>6. CASE NoEvent \/ handle_daemon_exit_event \/ handle_newproc_forked_event
  <2>1. eng = "up" /\ toFE' = toFE /\ Returns(TRUE, ts)
    BY <1>6 DEF NoEvent, handle_daemon_exit_event, handle_newproc_forked_event,
      PollsProcs
  <2> QED
    BY <2>1, <1>0, ReturnsOver, SilentStep
<1>7. CASE LeaderExit
  <2>1. Over' /\ eng' # "up"
    BY <1>7, <1>0, HandlerTypes, ReturnsOver DEF LeaderExit
  <2>2. eng = "up" /\ <<"exited">> \in Seq(FEMessages) /\ Len(<<"exited">>) <= 1
    BY <1>7, <1>0, HandlerTypes DEF LeaderExit, Event, Reports, PollsProcs, Terminal
  <2> QED
    BY <1>7, <1>0, <2>1, <2>2, AnsweringStep DEF LeaderExit
<1>8. CASE UNCHANGED vars
  BY <1>8 DEF vars, EndInv, TerminalIsLast, Over, AnsweredMeansReleased, LastSaid
<1> QED
  BY <1>1, <1>2, <1>3, <1>4, <1>5, <1>6, <1>7, <1>8 DEF Next, EngineStep

LEMMA EndInvHolds == Spec => [](TypeInv /\ EndInv)
<1>1. Init => TypeInv /\ EndInv
  <2>1. Init => EndInv
    BY DEF Init, EndInv, TerminalIsLast, Over, AnsweredMeansReleased, LastSaid, Terminal
  <2> QED
    BY <2>1, InitType
<1>2. TypeInv /\ EndInv /\ [Next]_vars => (TypeInv /\ EndInv)'
  BY NextType, NextEnd
<1> QED
  BY <1>1, <1>2, PTL DEF Spec

\* Whichever handler ends the engine, a terminal message is the last one, and
\* the event loop has been left when it is sent.
THEOREM TerminalEndsAll == Spec => []TerminalIsLast
BY EndInvHolds, PTL DEF EndInv

\* A front end that has been answered can rely on the answer: RM_job has no
\* trap in its text, is not marked as debugged, and no thread of it is held.
THEOREM AnswersAreTrue == Spec => []AnsweredMeansReleased
BY EndInvHolds, PTL DEF EndInv

-----------------------------------------------------------------------------
(* What is killed.                                                          *)

\* A kill request is only ever the front end's.
KillInv == KillsAreAsked /\ (pleaseKill => reason = "FE_requested_kill")

LEMMA KillsKept ==
  ASSUME KillInv, UNCHANGED <<reqVars, jobKilled>>, dm' = dm \/ dm' # "killed"
  PROVE  KillInv'
BY DEF KillInv, KillsAreAsked

LEMMA RequestKills ==
  ASSUME KillInv, UNCHANGED jobKilled, dm' = dm \/ dm' # "killed",
         \/ \E why \in Reasons : request_detach(why)
         \/ request_kill("FE_requested_kill")
  PROVE  KillInv'
<1>1. CASE Requested
  BY <1>1, RequestsKept, KillsKept
<1>2. CASE ~Requested
  BY <1>2 DEF KillInv, KillsAreAsked, Requested, request_detach, request_kill
<1> QED
  BY <1>1, <1>2

LEMMA TraceeKills ==
  ASSUME KillInv, NEW t \in Threads, TraceePoll(t)
  PROVE  KillInv'
<1>1. CASE handle_detach_cmd_event(t)
  <2>1. pleaseDetach
    BY <1>1 DEF handle_detach_cmd_event, Event, decipher_an_event
  <2> QED
    BY <1>1, <2>1
    DEF handle_detach_cmd_event, KillDaemons, KillInv, KillsAreAsked
<1>2. CASE handle_kill_cmd_event(t)
  <2>1. pleaseKill
    BY <1>2 DEF handle_kill_cmd_event, Event, decipher_an_event
  <2> QED
    BY <1>2, <2>1 DEF handle_kill_cmd_event, KillInv, KillsAreAsked
<1>3. CASE \/ handle_trap_after_exec_event(t) \/ handle_trap_after_attach_event(t)
           \/ BpPrologue(t) \/ handle_loader_bp_event(t)
           \/ LaunchBpSpawned(t) \/ LaunchBpAborting(t) \/ LaunchBpContinued(t)
           \/ ShipSigPipe(t) \/ CommandFails(t) \/ SlaveExit(t)
           \/ handle_thrcreate_trap_event(t) \/ handle_newthread_trace_event(t)
           \/ handle_relay_signal_event(t)
  BY <1>3, KillsKept DEF handle_trap_after_exec_event,
    handle_trap_after_attach_event, BpPrologue, handle_bp_prologue,
    handle_loader_bp_event, LaunchBpSpawned, LaunchBpAborting,
    LaunchBpContinued, ShipSigPipe, CommandFails, SlaveExit,
    handle_thrcreate_trap_event, handle_newthread_trace_event,
    handle_relay_signal_event, launch_tool_daemons
<1> QED
  BY <1>1, <1>2, <1>3 DEF TraceePoll

\* No failure of the engine, of the job or of a daemon makes the engine kill
\* RM_job or the tool daemons: only a front end that asks, or dies, does.
THEOREM OnlyAskedKills == Spec => []KillsAreAsked
<1>1. Init => KillInv
  BY DEF Init, KillInv, KillsAreAsked
<1>2. KillInv /\ [Next]_vars => KillInv'
  <2> SUFFICES ASSUME KillInv, [Next]_vars PROVE KillInv'
    OBVIOUS
  <2>1. CASE \E t \in Threads : JobStep(t)
    BY <2>1, KillsKept DEF JobStep, JobHits, JobExecutes, JobLeaves,
      KernelStops, JobSignalled, JobClones, JobForks, ThreadExits, kernelFrame
  <2>2. CASE JobExits \/ ChildStops \/ DaemonExits
    BY <2>2, KillsKept DEF JobExits, ChildStops, DaemonExits, kernelFrame
  <2>3. CASE (\E m \in Requests : FESends(m)) \/ FEDies
    BY <2>3, KillsKept DEF FESends, FEDies, feFrame
  <2>4. CASE FEDetach \/ FEKill \/ FEShutdown \/ FEDisconnected
    BY <2>4, RequestKills
    DEF FEDetach, FEKill, FEShutdown, FEDisconnected, pollFrame, Reasons
  <2>5. CASE FESilent \/ FECont \/ FEContFails \/ FEIllFormed
    BY <2>5, KillsKept DEF FESilent, FECont, FEContFails, FEIllFormed, pollFrame
  <2>6. CASE NoEvent \/ handle_newproc_forked_event \/ LeaderExit
    BY <2>6, KillsKept DEF NoEvent, handle_newproc_forked_event, LeaderExit
  <2>7. CASE handle_daemon_exit_event
    BY <2>7, KillsKept, RequestKills DEF handle_daemon_exit_event, Reasons
  <2>8. CASE sighandler
    BY <2>8, RequestKills DEF sighandler, Reasons
  <2>9. CASE \E t \in Threads : TraceePoll(t)
    BY <2>9, TraceeKills
  <2>10. CASE UNCHANGED vars
    BY <2>10, KillsKept DEF vars
  <2> QED
    BY <2>1, <2>2, <2>3, <2>4, <2>5, <2>6, <2>7, <2>8, <2>9, <2>10
    DEF Next, EngineStep, SocketPoll
<1>3. KillInv => KillsAreAsked
  BY DEF KillInv
<1> QED
  BY <1>1, <1>2, <1>3, PTL DEF Spec

-----------------------------------------------------------------------------
(* Parked threads.                                                          *)

\* A handler that resumes the thread whose stop it was called for leaves the
\* parked threads alone.
LEMMA ResumedNotParked ==
  ASSUME TypeInv, HeldIffParked, NEW t \in Threads, eng = "up",
         ts[t] \in Stops, evreg' = evreg, NEW ok \in BOOLEAN,
         \/ Returns(ok, Continued(t)) \/ Returns(ok, Stepped(t))
         \/ Returns(FALSE, ts) \/ Returns(FALSE, [ts EXCEPT ![t] = "held"])
  PROVE  HeldIffParked'
<1>1. t \notin evreg
  BY DEF HeldIffParked, Stops
<1> QED
  BY <1>1 DEF HeldIffParked, Returns, Continued, Stepped, TypeInv, TypeOK

LEMMA TraceeParks ==
  ASSUME TypeInv, HeldIffParked, NEW t \in Threads, TraceePoll(t)
  PROVE  HeldIffParked'
<1>u. eng = "up" /\ Reportable(t)
  BY DEF TraceePoll, handle_trap_after_exec_event,
    handle_trap_after_attach_event, BpPrologue, handle_loader_bp_event,
    LaunchBpSpawned, LaunchBpAborting, LaunchBpContinued, ShipSigPipe,
    LaunchBp, handle_detach_cmd_event, handle_kill_cmd_event, CommandFails,
    SlaveExit, handle_thrcreate_trap_event, handle_newthread_trace_event,
    handle_relay_signal_event, Event, Reports, PollsProcs
<1>s. ASSUME NEW ev, ev # "LM_EXITED", Event(t, ev) PROVE ts[t] \in Stops
  BY <1>s, <1>u DEF Event, decipher_an_event, Reportable
<1>1. CASE SlaveExit(t)
  <2>1. evreg' = evreg \ {t} /\ Returns(TRUE, [ts EXCEPT ![t] = "gone"])
    BY <1>1 DEF SlaveExit
  <2> QED
    BY <2>1, <1>u DEF HeldIffParked, Returns, TypeInv, TypeOK
<1>2. CASE LaunchBpSpawned(t)
  <2>1. ts[t] \in Stops
    BY <1>2, <1>s DEF LaunchBpSpawned, LaunchBp
  <2>2. CASE ApiMode
    <3>1. evreg' = evreg \cup {t} /\ Returns(TRUE, [ts EXCEPT ![t] = "held"])
      BY <1>2, <2>2 DEF LaunchBpSpawned
    <3> QED
      BY <3>1, <1>u DEF HeldIffParked, Returns, TypeInv, TypeOK
  <2>3. CASE ~ApiMode
    BY <1>2, <2>1, <2>3, <1>u, ResumedNotParked DEF LaunchBpSpawned
  <2> QED
    BY <2>2, <2>3
<1>3. CASE ShipSigPipe(t)
  BY <1>3 DEF ShipSigPipe, HeldIffParked
<1>4. CASE \/ handle_trap_after_exec_event(t) \/ handle_trap_after_attach_event(t)
           \/ handle_loader_bp_event(t) \/ LaunchBpContinued(t) \/ LaunchBpAborting(t)
           \/ handle_thrcreate_trap_event(t) \/ handle_newthread_trace_event(t)
           \/ handle_relay_signal_event(t) \/ BpPrologue(t) \/ CommandFails(t)
           \/ handle_detach_cmd_event(t) \/ handle_kill_cmd_event(t)
  <2>1. ts[t] \in Stops
    BY <1>4, <1>s DEF handle_trap_after_exec_event,
      handle_trap_after_attach_event, handle_loader_bp_event, LaunchBpAborting,
      LaunchBpContinued, LaunchBp, handle_thrcreate_trap_event,
      handle_newthread_trace_event, handle_relay_signal_event, BpPrologue,
      CommandFails, handle_detach_cmd_event, handle_kill_cmd_event
  <2>2. evreg' = evreg
    BY <1>4 DEF handle_trap_after_exec_event,
      handle_trap_after_attach_event, handle_loader_bp_event, LaunchBpAborting,
      LaunchBpContinued, handle_thrcreate_trap_event,
      handle_newthread_trace_event, handle_relay_signal_event, BpPrologue,
      handle_bp_prologue, CommandFails, handle_detach_cmd_event,
      handle_kill_cmd_event
  <2>3. \/ Returns(TRUE, Continued(t)) \/ Returns(TRUE, Stepped(t))
        \/ Returns(FALSE, ts) \/ Returns(FALSE, [ts EXCEPT ![t] = "held"])
    BY <1>4 DEF handle_trap_after_exec_event,
      handle_trap_after_attach_event, handle_loader_bp_event, LaunchBpAborting,
      LaunchBpContinued, handle_thrcreate_trap_event,
      handle_newthread_trace_event, handle_relay_signal_event, BpPrologue,
      handle_bp_prologue, CommandFails, handle_detach_cmd_event,
      handle_kill_cmd_event, Detaches
  <2> QED
    BY <2>1, <2>2, <2>3, <1>u, ResumedNotParked
<1> QED
  BY <1>1, <1>2, <1>3, <1>4 DEF TraceePoll

LEMMA NextParks == TypeInv /\ HeldIffParked /\ [Next]_vars => HeldIffParked'
<1> SUFFICES ASSUME TypeInv, HeldIffParked, [Next]_vars PROVE HeldIffParked'
  OBVIOUS
<1>0. ts \in [Threads -> ThreadStates] /\ evreg \subseteq Threads /\ Slaves \subseteq Threads
  BY DEF TypeInv, TypeOK, Threads
<1>1. ASSUME NEW t \in Threads, JobStep(t) PROVE HeldIffParked'
  <2>1. UNCHANGED <<eng, evreg>>
    BY <1>1 DEF JobStep, JobHits, JobExecutes, JobLeaves, KernelStops,
      JobSignalled, JobClones, JobForks, ThreadExits, kernelFrame
  <2>2. \A u \in Threads :
          \/ ts'[u] = ts[u]
          \/ ts[u] \in {"run", "step", "none"} /\ ts'[u] # "held"
    BY <1>1, <1>0 DEF JobStep, JobHits, JobExecutes, JobLeaves, KernelStops,
      JobSignalled, JobClones, JobForks, ThreadExits, Running
  <2> QED
    BY <2>1, <2>2 DEF HeldIffParked
<1>2. CASE JobExits
  BY <1>2, <1>0 DEF JobExits, kernelFrame, Dead, HeldIffParked
<1>3. CASE \/ ChildStops \/ DaemonExits \/ (\E m \in Requests : FESends(m))
           \/ FEDies \/ sighandler
  BY <1>3 DEF ChildStops, DaemonExits, FESends, FEDies, sighandler, feFrame,
    HeldIffParked
<1>4. CASE FECont
  BY <1>4, <1>0 DEF FECont, HeldIffParked, PollsProcsNext, Receives, PollsFE
<1>5. CASE FEContFails \/ FEIllFormed
  BY <1>5 DEF FEContFails, FEIllFormed, HeldIffParked
<1>6. CASE FESilent \/ FEDetach \/ FEKill \/ FEShutdown \/ FEDisconnected
  BY <1>6 DEF FESilent, FEDetach, FEKill, FEShutdown, FEDisconnected,
    PollsProcsNext, HeldIffParked
<1>7. CASE NoEvent \/ handle_daemon_exit_event \/ handle_newproc_forked_event
  BY <1>7 DEF NoEvent, handle_daemon_exit_event, handle_newproc_forked_event,
    Returns, HeldIffParked, PollsProcs
<1>8. CASE LeaderExit
  BY <1>8 DEF LeaderExit, Returns, HeldIffParked
<1>9. CASE \E t \in Threads : TraceePoll(t)
  BY <1>9, TraceeParks
<1>10. CASE UNCHANGED vars
  BY <1>10 DEF vars, HeldIffParked
<1> QED
  BY <1>1, <1>2, <1>3, <1>4, <1>5, <1>6, <1>7, <1>8, <1>9, <1>10
  DEF Next, EngineStep, SocketPoll

\* The engine forgets no thread it keeps stopped, and none that waits for
\* lmonp_cont_launch_bp runs, however many threads RM_job has.
THEOREM ParkedThreadsKnown == Spec => []HeldIffParked
<1>1. Init => TypeInv /\ HeldIffParked
  <2>1. Init => HeldIffParked
    BY DEF Init, HeldIffParked
  <2> QED
    BY <2>1, InitType
<1>2. TypeInv /\ HeldIffParked /\ [Next]_vars => (TypeInv /\ HeldIffParked)'
  BY NextType, NextParks
<1> QED
  BY <1>1, <1>2, PTL DEF Spec

-----------------------------------------------------------------------------
(* The front end has what the daemons need before they are launched.        *)

Announced == \E i \in DOMAIN toFE : toFE[i] \in Announces

Preceded(q) ==
  \A i \in DOMAIN q : q[i] \in Announces => i > 3 /\ SubSeq(q, i - 3, i - 1) = Shipment

LEMMA PrecededAppend ==
  ASSUME NEW q \in Seq(FEMessages), Preceded(q),
         NEW ms \in Seq(FEMessages), Preceded(ms)
  PROVE  Preceded(q \o ms)
<1> DEFINE r == q \o ms
<1> SUFFICES ASSUME NEW i \in DOMAIN r, r[i] \in Announces
             PROVE  i > 3 /\ SubSeq(r, i - 3, i - 1) = Shipment
  BY DEF Preceded
<1>1. CASE i <= Len(q)
  <2>1. i \in DOMAIN q /\ q[i] \in Announces
    BY <1>1
  <2>2. i > 3 /\ SubSeq(q, i - 3, i - 1) = Shipment
    BY <2>1 DEF Preceded
  <2>3. SubSeq(r, i - 3, i - 1) = SubSeq(q, i - 3, i - 1)
    BY <1>1, <2>2, SubSeqOfConcat1
  <2> QED
    BY <2>2, <2>3
<1>2. CASE i > Len(q)
  <2> DEFINE j == i - Len(q)
  <2>1. i \in Nat /\ j \in DOMAIN ms /\ ms[j] \in Announces
    BY <1>2
  <2>2. j > 3 /\ SubSeq(ms, j - 3, j - 1) = Shipment
    BY <2>1 DEF Preceded
  <2>3. /\ i - 3 \in Len(q) + 1 .. Len(q) + Len(ms)
        /\ i - 1 \in Len(q) + 1 .. Len(q) + Len(ms)
        /\ j - 3 = i - 3 - Len(q) /\ j - 1 = i - 1 - Len(q)
        /\ i > 3
    BY <2>1, <2>2
  <2> HIDE DEF j
  <2>4. SubSeq(q \o ms, i - 3, i - 1) = SubSeq(ms, i - 3 - Len(q), i - 1 - Len(q))
    BY <2>3, SubSeqOfConcat2, Zenon
  <2> QED
    BY <2>2, <2>3, <2>4, Zenon
<1> QED
  BY <1>1, <1>2

LEMMA ShipmentPrecedes ==
  ASSUME NEW m \in FEMessages
  PROVE  Preceded(Shipment \o <<m>>)
<1> DEFINE z == <<m>>
           q == Shipment \o z
<1>1. /\ Shipment \in Seq(FEMessages) /\ z \in Seq(FEMessages)
      /\ Len(Shipment) = 3 /\ Len(z) = 1
      /\ \A i \in 1 .. 3 : Shipment[i] \notin Announces
  BY DEF Shipment, FEMessages, Announces
<1> HIDE DEF z
<1>2. \A i \in DOMAIN q : q[i] \in Announces => i = 4
  <2>0. q \in Seq(FEMessages) /\ Len(q) = Len(Shipment) + Len(z)
    BY <1>1, ConcatProperties
  <2>1. DOMAIN q = 1 .. 4
    BY <1>1, <2>0
  <2>2. \A i \in 1 .. 3 : q[i] = Shipment[i]
    BY <1>1, ConcatProperties
  <2> QED
    BY <1>1, <2>1, <2>2
<1>3. SubSeq(q, 1, 3) = Shipment
  <2>1. SubSeq(q, 1, 3) = SubSeq(Shipment, 1, 3)
    BY <1>1, SubSeqOfConcat1
  <2>2. SubSeq(Shipment, 1, 3) = Shipment
    BY <1>1, SubSeqFull
  <2> QED
    BY <2>1, <2>2
<1> QED
  BY <1>2, <1>3 DEF Preceded, z

\* What a step says, and that daemons are launched by the step that announces.
Quiet == /\ UNCHANGED toFE
         /\ feUp' \in {feUp, FALSE}
         /\ dm' # "none" => dm # "none"

Speaks(ms) == /\ Say(ms) /\ Preceded(ms)
              /\ UNCHANGED feUp
              /\ dm' # "none" => dm # "none" \/ \E i \in DOMAIN ms : ms[i] \in Announces

ShipInv == Preceded(toFE) /\ (dm # "none" /\ feUp => Announced)

LEMMA QuietShips ==
  ASSUME ShipInv, Quiet
  PROVE  ShipInv'
<1>1. Preceded(toFE)' /\ (Announced => Announced')
  BY DEF ShipInv, Quiet, Preceded, Announced
<1>2. CASE feUp' = feUp
  BY <1>1, <1>2 DEF ShipInv, Quiet
<1>3. CASE feUp' = FALSE
  BY <1>1, <1>3 DEF ShipInv
<1> QED
  BY <1>2, <1>3 DEF Quiet

LEMMA SpeaksShips ==
  ASSUME TypeOK, ShipInv, NEW ms \in Seq(FEMessages), Speaks(ms)
  PROVE  ShipInv'
<1>0. toFE \in Seq(FEMessages)
  BY DEF TypeOK
<1>1. CASE ~feUp
  BY <1>1 DEF ShipInv, Speaks, Say, Preceded, Announced
<1>2. CASE feUp
  <2>1. toFE' = toFE \o ms
    BY <1>2 DEF Speaks, Say
  <2>2. Preceded(toFE')
    BY <1>0, <2>1, PrecededAppend DEF ShipInv, Speaks
  <2>3. ASSUME dm' # "none" PROVE Announced'
    <3>1. CASE dm # "none"
      <4>1. PICK i \in DOMAIN toFE : toFE[i] \in Announces
        BY <1>2, <3>1 DEF ShipInv, Announced
      <4>2. i \in DOMAIN toFE' /\ toFE'[i] = toFE[i]
        BY <1>0, <2>1, <4>1
      <4> QED
        BY <4>1, <4>2 DEF Announced
    <3>2. CASE dm = "none"
      <4>1. PICK i \in DOMAIN ms : ms[i] \in Announces
        BY <2>3, <3>2 DEF Speaks
      <4>2. Len(toFE) + i \in DOMAIN toFE' /\ toFE'[Len(toFE) + i] = ms[i]
        BY <1>0, <2>1, <4>1
      <4> QED
        BY <4>1, <4>2 DEF Announced
    <3> QED
      BY <3>1, <3>2
  <2>4. Preceded(toFE)'
    BY <2>2 DEF Preceded
  <2> QED
    BY <2>3, <2>4 DEF ShipInv
<1> QED
  BY <1>1, <1>2

\* A single message that announces nothing, or none at all.
LEMMA AnswerPreceded ==
  /\ \A m \in Terminal : <<m>> \in Seq(FEMessages) /\ Preceded(<<m>>)
  /\ << >> \in Seq(FEMessages) /\ Preceded(<< >>)
BY DEF Preceded, Terminal, Announces, FEMessages

LEMMA DetachAnswerPreceded == DetachAnswer \in Seq(FEMessages) /\ Preceded(DetachAnswer)
<1>1. \/ DetachAnswer = << >>
      \/ \E m \in Terminal : DetachAnswer = <<m>>
  BY DEF DetachAnswer, Terminal
<1> QED
  BY <1>1, AnswerPreceded

LEMMA ShipmentSpeaks ==
  ASSUME NEW m \in Announces
  PROVE  /\ Shipment \o <<m>> \in Seq(FEMessages)
         /\ Preceded(Shipment \o <<m>>)
         /\ \E i \in DOMAIN (Shipment \o <<m>>) : (Shipment \o <<m>>)[i] \in Announces
<1> DEFINE z == <<m>>
<1>1. /\ Shipment \in Seq(FEMessages) /\ z \in Seq(FEMessages)
      /\ Len(Shipment) = 3 /\ Len(z) = 1 /\ z[1] = m
  BY DEF Shipment, FEMessages, Announces
<1>2. m \in FEMessages
  BY DEF FEMessages, Announces
<1> HIDE DEF z
<1>3. /\ Shipment \o z \in Seq(FEMessages) /\ Len(Shipment \o z) = 4
      /\ (Shipment \o z)[4] = m
  <2>0. Shipment \o z \in Seq(FEMessages) /\ Len(Shipment \o z) = Len(Shipment) + Len(z)
    BY <1>1, ConcatProperties
  <2>1. Len(Shipment \o z) = 4
    BY <1>1, <2>0
  <2>2. (Shipment \o z)[4] = IF 4 <= Len(Shipment) THEN Shipment[4] ELSE z[4 - Len(Shipment)]
    <3>1. 4 \in 1 .. Len(Shipment) + Len(z)
      BY <1>1
    <3> QED
      BY <1>1, <3>1, ConcatProperties, Zenon
  <2> QED
    BY <1>1, <2>0, <2>1, <2>2
<1>4. 4 \in DOMAIN (Shipment \o z)
  BY <1>3
<1> QED
  BY <1>2, <1>3, <1>4, ShipmentPrecedes DEF z

LEMMA TraceeShips ==
  ASSUME TypeInv, ShipInv, NEW t \in Threads, TraceePoll(t)
  PROVE  ShipInv'
<1> USE DEF handlerFrame
<1>0. TypeOK
  BY DEF TypeInv
<1>1. CASE handle_trap_after_attach_event(t)
  <2>1. CASE Coloc \/ ContOnAttach
    BY <1>1, <2>1, QuietShips DEF handle_trap_after_attach_event, Quiet
  <2>2. CASE ~(Coloc \/ ContOnAttach)
    <3>1. "stop_at_first_attach" \in Announces
      BY DEF Announces
    <3> DEFINE ms == Shipment \o <<"stop_at_first_attach">>
    <3>2. Say(ms) /\ UNCHANGED feUp
      BY <1>1, <2>2 DEF handle_trap_after_attach_event
    <3>3. ms \in Seq(FEMessages) /\ Speaks(ms)
      BY <3>1, <3>2, ShipmentSpeaks DEF Speaks
    <3> QED
      BY <1>0, <3>3, SpeaksShips
  <2> QED
    BY <2>1, <2>2
<1>2. CASE LaunchBpSpawned(t)
  <2>1. "stop_at_launch_bp_spawned" \in Announces
    BY DEF Announces
  <2> DEFINE ms == Shipment \o <<"stop_at_launch_bp_spawned">>
  <2>2. Say(ms) /\ UNCHANGED feUp
    BY <1>2 DEF LaunchBpSpawned
  <2>3. ms \in Seq(FEMessages) /\ Speaks(ms)
    BY <2>1, <2>2, ShipmentSpeaks DEF Speaks
  <2> QED
    BY <1>0, <2>3, SpeaksShips
<1>3. CASE LaunchBpAborting(t)
  <2>1. "stop_at_launch_bp_abort" \in Terminal
    BY DEF Terminal
  <2>2. Speaks(<<"stop_at_launch_bp_abort">>)
    BY <1>3, <2>1, AnswerPreceded DEF LaunchBpAborting, Speaks
  <2> QED
    BY <1>0, <2>1, <2>2, AnswerPreceded, SpeaksShips
<1>4. CASE handle_detach_cmd_event(t)
  <2>1. Speaks(DetachAnswer)
    BY <1>4, DetachAnswerPreceded DEF handle_detach_cmd_event, KillDaemons, Speaks
  <2> QED
    BY <1>0, <2>1, DetachAnswerPreceded, SpeaksShips
<1>5. CASE handle_kill_cmd_event(t)
  <2>1. "kill_done" \in Terminal
    BY DEF Terminal
  <2>2. Speaks(<<"kill_done">>)
    BY <1>5, <2>1, AnswerPreceded DEF handle_kill_cmd_event, KillDaemons, Speaks
  <2> QED
    BY <1>0, <2>1, <2>2, AnswerPreceded, SpeaksShips
<1>6. CASE \/ handle_trap_after_exec_event(t) \/ BpPrologue(t)
           \/ handle_loader_bp_event(t) \/ LaunchBpContinued(t) \/ ShipSigPipe(t)
  <2>1. Quiet
    BY <1>6 DEF handle_trap_after_exec_event, BpPrologue, handle_bp_prologue,
      handle_loader_bp_event, LaunchBpContinued, ShipSigPipe, Quiet
  <2> QED
    BY <2>1, QuietShips
<1>7. CASE \/ CommandFails(t) \/ SlaveExit(t) \/ handle_thrcreate_trap_event(t)
           \/ handle_newthread_trace_event(t) \/ handle_relay_signal_event(t)
  <2>1. Quiet
    BY <1>7 DEF CommandFails, SlaveExit, handle_thrcreate_trap_event,
      handle_newthread_trace_event, handle_relay_signal_event, Quiet
  <2> QED
    BY <2>1, QuietShips
<1> QED
  BY <1>1, <1>2, <1>3, <1>4, <1>5, <1>6, <1>7 DEF TraceePoll

LEMMA NextShips == TypeInv /\ ShipInv /\ [Next]_vars => ShipInv'
<1> SUFFICES ASSUME TypeInv, ShipInv, [Next]_vars PROVE ShipInv'
  OBVIOUS
<1> USE DEF handlerFrame, kernelFrame, feFrame, pollFrame
<1>1. CASE \/ \E t \in Threads : JobStep(t)
           \/ JobExits \/ ChildStops \/ DaemonExits
  <2>1. Quiet
    BY <1>1, ZenonT(60) DEF JobStep, JobHits, JobExecutes, JobLeaves, KernelStops, JobSignalled,
      JobClones, JobForks, ThreadExits, JobExits, ChildStops, DaemonExits, Quiet
  <2> QED
    BY <2>1, QuietShips
<1>2. CASE (\E m \in Requests : FESends(m)) \/ FEDies
  BY <1>2, QuietShips DEF FESends, FEDies, Quiet
<1>3. CASE SocketPoll
  <2>1. Quiet
    BY <1>3 DEF SocketPoll, FESilent, FEDetach, FEKill, FEShutdown, FECont,
      FEContFails, FEDisconnected, FEIllFormed, Quiet
  <2> QED
    BY <2>1, QuietShips
<1>4. CASE \/ NoEvent \/ handle_daemon_exit_event \/ handle_newproc_forked_event
           \/ sighandler
  <2>1. CASE NoEvent \/ handle_newproc_forked_event \/ sighandler
    <3>1. Quiet
      BY <2>1 DEF NoEvent, handle_newproc_forked_event, sighandler, Quiet
    <3> QED
      BY <3>1, QuietShips
  <2>2. CASE handle_daemon_exit_event
    <3>1. Quiet
      BY <2>2 DEF handle_daemon_exit_event, Quiet
    <3> QED
      BY <3>1, QuietShips
  <2> QED
    BY <1>4, <2>1, <2>2
<1>5. CASE \E t \in Threads : TraceePoll(t)
  BY <1>5, TraceeShips
<1>6. CASE LeaderExit
  <2>1. "exited" \in Terminal
    BY DEF Terminal
  <2>2. Speaks(<<"exited">>)
    BY <1>6, <2>1, AnswerPreceded DEF LeaderExit, Speaks
  <2> QED
    BY <2>1, <2>2, AnswerPreceded, SpeaksShips DEF TypeInv
<1>7. CASE UNCHANGED vars
  BY <1>7, QuietShips DEF vars, Quiet
<1> QED
  BY <1>1, <1>2, <1>3, <1>4, <1>5, <1>6, <1>7 DEF Next, EngineStep

\* The engine launches no daemon before it has sent the front end the process
\* table, the resource handle and the RM's description, in this order.
THEOREM DaemonsAfterTable == Spec => []ShippedBeforeLaunch
<1>1. Init => TypeInv /\ ShipInv
  <2>1. Init => ShipInv
    BY DEF Init, ShipInv, Preceded
  <2> QED
    BY <2>1, InitType
<1>2. TypeInv /\ ShipInv /\ [Next]_vars => (TypeInv /\ ShipInv)'
  BY NextType, NextShips
<1>3. ShipInv => ShippedBeforeLaunch
  BY DEF ShipInv, Preceded, Announced, ShippedBeforeLaunch
<1> QED
  BY <1>1, <1>2, <1>3, PTL DEF Spec

-----------------------------------------------------------------------------
(* No trap is left in RM_job when the engine ends upon a request.           *)

Unborn == \A s \in Slaves : ts[s] = "none"
Live == {"run", "step", "held"}

WellFormed == toEngine \in Seq(Messages \ {"bad"})

\* Both command handlers write to RM_job through its leader.  A leader that may
\* run when a request is pending has a SIGSTOP pending, so that the engine
\* looks at nothing before it has stopped (GraceOver); or there is no thread
\* yet whose stop could be reported before the leader's.
LeaderWillStop ==
  /\ ts[Master] \notin {"none", "free", "gone"}
  /\ \A t \in evreg : ts[t] = "zombie" => ts[Master] = "zombie"
  /\ neverTrapped => Unborn /\ (~AttachMode => ts[Master] \in {"exec", "zombie"})
  /\ Requested /\ ts[Master] \in Live => Master \in pend \/ Unborn

TrapInv == /\ WellFormed
           /\ Master \in thrlist
           /\ eng = "up" => LeaderWillStop
           /\ TrapsRemovedOnRequest

LEMMA RequestStopsLeader ==
  ASSUME TypeInv, LeaderWillStop, Master \in thrlist, ~StatShowsT,
         NEW why, request_detach(why) \/ request_kill(why),
         UNCHANGED <<ts, evreg, neverTrapped>>
  PROVE  LeaderWillStop'
<1>1. CASE Requested
  BY <1>1 DEF request_detach, request_kill, LeaderWillStop, Requested, Unborn
<1>2. CASE ~Requested
  <2>1. Master \in pend'
    BY <1>2 DEF request_detach, request_kill, StatusRunning, LeaderWillStop
  <2> QED
    BY <2>1 DEF LeaderWillStop, Unborn
<1> QED
  BY <1>1, <1>2

\* A step of RM_job.
LEMMA JobTraps ==
  ASSUME TypeInv, HeldIffParked, LeaderWillStop, eng = "up", NEW t \in Threads, JobStep(t)
  PROVE  LeaderWillStop'
<1>0. /\ ts \in [Threads -> ThreadStates]
      /\ Master \in Threads /\ Master \notin Slaves /\ Slaves \subseteq Threads
  BY EngineAssumption DEF TypeInv, TypeOK, Threads
<1>u. UNCHANGED <<reqVars, evreg, neverTrapped>>
  BY DEF JobStep, JobHits, JobExecutes, JobLeaves, KernelStops, JobSignalled,
    JobClones, JobForks, ThreadExits, kernelFrame
<1>n. /\ ts[t] \in {"run", "step"}
      /\ neverTrapped => t = Master /\ AttachMode
  <2>1. ts[t] \in {"run", "step"}
    BY DEF JobStep, JobHits, JobExecutes, JobLeaves, KernelStops, JobSignalled,
      JobClones, JobForks, ThreadExits, Running
  <2> QED
    BY <2>1, <1>0 DEF LeaderWillStop, Unborn, Threads
<1>1. ASSUME NEW b \in Bps, JobHits(t, b) \/ JobLeaves(t, b) PROVE LeaderWillStop'
  BY <1>1, <1>u DEF JobHits, JobLeaves, LeaderWillStop, Unborn, Requested
<1>2. ASSUME ts' = ts \/ \E e \in Stops : ts' = [ts EXCEPT ![t] = e],
             pend' = pend \/ (pend' = pend \ {t} /\ ts' # ts)
      PROVE  LeaderWillStop'
  <2>1. \A u \in Threads : u # t => ts'[u] = ts[u]
    BY <1>2, <1>0
  <2>2. ts' = ts \/ ts'[t] \in Stops
    BY <1>2, <1>0
  <2>3. ts'[Master] \notin {"none", "free", "gone"}
    BY <2>1, <2>2, <1>0 DEF LeaderWillStop, Stops
  <2>4. \A u \in evreg : ts'[u] = "zombie" => ts'[Master] = "zombie"
    BY <2>1, <2>2, <1>0, <1>n DEF LeaderWillStop, Stops, TypeInv, TypeOK
  <2>5. Unborn => Unborn' \/ t \in Slaves
    BY <2>1, <1>0 DEF Unborn
  <2>6. Unborn => Unborn'
    BY <2>5, <1>n DEF Unborn
  <2>7. neverTrapped => Unborn /\ AttachMode
    BY <1>n DEF LeaderWillStop
  <2>8. ASSUME Requested, ts'[Master] \in Live PROVE Master \in pend' \/ Unborn
    <3>1. CASE t = Master
      <4>1. ts' = ts
        BY <3>1, <2>2, <2>8 DEF Live, Stops
      <4> QED
        BY <4>1, <1>2, <2>8 DEF LeaderWillStop
    <3>2. CASE t # Master
      BY <3>2, <2>1, <1>0, <1>2, <2>8 DEF LeaderWillStop
    <3> QED
      BY <3>1, <3>2
  <2> QED
    BY <2>3, <2>4, <2>6, <2>7, <2>8, <1>u DEF LeaderWillStop, Requested
<1>3. ASSUME NEW b \in Bps, JobExecutes(t, b) PROVE LeaderWillStop'
  <2>1. ts' = ts \/ \E e \in Stops : ts' = [ts EXCEPT ![t] = e]
    <3>1. CASE bp[b] = "enabled"
      BY <3>1, <1>3 DEF JobExecutes, Stops
    <3>2. CASE bp[b] # "enabled" /\ ts[t] = "step"
      BY <3>2, <1>3, <1>0 DEF JobExecutes, Stops
    <3>3. CASE bp[b] # "enabled" /\ ts[t] # "step"
      BY <3>3, <1>3, <1>0 DEF JobExecutes
    <3> QED
      BY <3>1, <3>2, <3>3
  <2>2. pend' = pend
    BY <1>3 DEF JobExecutes
  <2> QED
    BY <2>1, <2>2, <1>2
<1>4. CASE KernelStops(t)
  <2>1. ts' = [ts EXCEPT ![t] = "sigstop"] /\ ts' # ts /\ pend' = pend \ {t}
    BY <1>4, <1>0 DEF KernelStops, Running
  <2> QED
    BY <2>1, <1>2 DEF Stops
<1>5. CASE JobSignalled(t) \/ JobForks(t)
  <2>1. /\ pend' = pend
        /\ \/ ts' = [ts EXCEPT ![t] = "signal"]
           \/ ts' = [ts EXCEPT ![t] = "fork"]
    BY <1>5 DEF JobSignalled, JobForks
  <2>2. "signal" \in Stops /\ "fork" \in Stops
    BY DEF Stops
  <2> QED
    BY <2>1, <2>2, <1>2
<1>6. ASSUME NEW s \in Slaves, JobClones(t, s) PROVE LeaderWillStop'
  <2>1. ~neverTrapped
    BY <1>6, <1>n DEF JobClones
  <2>2. /\ \A u \in Threads : u \notin {s, t} => ts'[u] = ts[u]
        /\ ts'[t] = "clone" /\ ts'[s] = "newthread"
    BY <1>6, <1>0 DEF JobClones
  <2>3. s # Master /\ evreg \subseteq Threads /\ pend' = pend
    BY <1>6, <1>0 DEF JobClones, TypeInv, TypeOK
  <2>4. ASSUME Requested, ts'[Master] \in Live PROVE Master \in pend
    <3>1. t # Master
      BY <2>2, <2>4 DEF Live
    <3>2. ~Unborn
      BY <3>1, <1>n DEF Unborn, Threads
    <3> QED
      BY <3>1, <3>2, <2>2, <2>3, <2>4, <1>0 DEF LeaderWillStop
  <2>5. ts'[Master] = ts[Master] \/ ts'[Master] = "clone"
    BY <2>2, <2>3, <1>0
  <2>6. \A u \in evreg : ts'[u] = "zombie" => ts'[Master] = "zombie"
    BY <2>2, <2>3, <1>0, <1>n DEF LeaderWillStop
  <2> QED
    BY <2>1, <2>3, <2>4, <2>5, <2>6, <1>u DEF LeaderWillStop, Requested
<1>7. CASE ThreadExits(t)
  <2>1. t # Master /\ ~Unborn /\ t \notin evreg
    BY <1>7, <1>0 DEF ThreadExits, Unborn, HeldIffParked
  <2>2. /\ \A u \in Threads : u # t => ts'[u] = ts[u]
        /\ pend' = pend
    BY <1>7, <1>0 DEF ThreadExits
  <2>3. ts'[Master] = ts[Master] /\ \A u \in evreg : ts'[u] = ts[u]
    BY <2>1, <2>2, <1>0 DEF TypeInv, TypeOK
  <2> QED
    BY <2>1, <2>2, <2>3, <1>u DEF LeaderWillStop, Requested
<1> QED
  BY <1>1, <1>3, <1>4, <1>5, <1>6, <1>7 DEF JobStep

\* What the reported event says about pending requests.
LEMMA EventMeans ==
  ASSUME TypeInv, NEW t \in Threads, NEW ev, Event(t, ev)
  PROVE  /\ eng = "up" /\ PollsProcs
         /\ ts[t] \in Stops \cup {"zombie"}
         /\ ev # "LM_EXITED" => ts[t] \in Stops
         /\ ev = "LM_EXITED" => ts[t] = "zombie"
         /\ ev = "LM_STOP_AT_FIRST" => neverTrapped
         /\ ev \notin {"LM_EXITED", "LM_STOP_AT_FIRST"} => ~neverTrapped
         /\ ev \notin {"LM_EXITED", "LM_STOP_AT_FIRST", "LM_STOP_FOR_DETACH", "LM_STOP_FOR_KILL"}
              => ~Requested
         /\ ts[Master] \in Stops => t = Master
<1>1. ts[t] \in Stops \cup {"zombie"} /\ "zombie" \notin Stops
  BY DEF Event, Reports, Reportable, Stops
<1>2. ts[Master] \in Stops => t = Master
  BY DEF Event, Reports, Reportable, ProcessEvent
<1>3. ev = decipher_an_event(t)
  BY DEF Event
<1>4. /\ ev = "LM_EXITED" <=> ts[t] = "zombie"
      /\ ts[t] # "zombie" => (ev = "LM_STOP_AT_FIRST" <=> neverTrapped)
  BY <1>3, Zenon DEF decipher_an_event
<1>5. ASSUME ts[t] # "zombie", ~neverTrapped, Requested
      PROVE  ev \in {"LM_STOP_FOR_DETACH", "LM_STOP_FOR_KILL"}
  BY <1>3, <1>5 DEF decipher_an_event, Requested
<1> QED
  BY <1>1, <1>2, <1>4, <1>5 DEF Event, Reports, PollsProcs

LEMMA ReturnsCases ==
  ASSUME NEW ok, NEW k, Returns(ok, k)
  PROVE  /\ eng' = "up" => ts' = k
         /\ eng' # "up" => ts' = Released(k)
         /\ ok => eng' \in {"up", "aborted"}
         /\ ok = FALSE => eng' # "up"
BY DEF Returns

\* A handler that lets its thread go on, when no request is pending.
LEMMA HandlerTraps ==
  ASSUME TypeInv, LeaderWillStop, NEW t \in Threads, ts[t] \in Stops,
         NEW st \in {"run", "step", "held"}, NEW k, k = [ts EXCEPT ![t] = st],
         ~Requested, ~neverTrapped, UNCHANGED <<reqVars, neverTrapped>>,
         evreg' \in {evreg, evreg \cup {t}},
         Returns(TRUE, k)
  PROVE  /\ eng' = "up" => LeaderWillStop'
         /\ eng' # "exited"
<1>1. ASSUME eng' = "up" PROVE LeaderWillStop'
  <2>1. ts' = [ts EXCEPT ![t] = st]
    BY <1>1, ReturnsCases
  <2>2. ts \in [Threads -> ThreadStates] /\ Master \in Threads /\ evreg \subseteq Threads
    BY DEF TypeInv, TypeOK, Threads
  <2>3. ts'[t] = st /\ \A u \in Threads : u # t => ts'[u] = ts[u]
    BY <2>1, <2>2
  <2>4. ts'[Master] \notin {"none", "free", "gone"}
    BY <2>2, <2>3 DEF LeaderWillStop
  <2>5. \A u \in evreg' : ts'[u] = "zombie" => ts'[Master] = "zombie"
    BY <2>2, <2>3 DEF LeaderWillStop, Stops
  <2> QED
    BY <2>4, <2>5 DEF LeaderWillStop, Requested
<1>2. eng' # "exited"
  BY ReturnsCases
<1> QED
  BY <1>1, <1>2

\* The first stop of RM_job: whatever is requested, there is only the leader.
LEMMA FirstTraps ==
  ASSUME TypeInv, LeaderWillStop, NEW t \in Threads, Event(t, "LM_STOP_AT_FIRST"),
         UNCHANGED <<reqVars, evreg, pend>>, neverTrapped' = FALSE,
         Returns(TRUE, Continued(t))
  PROVE  /\ eng' = "up" => LeaderWillStop'
         /\ eng' # "exited"
<1>1. ASSUME eng' = "up" PROVE LeaderWillStop'
  <2>1. ts' = [ts EXCEPT ![t] = "run"]
    BY <1>1, ReturnsCases DEF Continued
  <2>2. /\ ts \in [Threads -> ThreadStates] /\ Master \in Threads /\ Slaves \subseteq Threads
        /\ Master \notin Slaves /\ evreg \subseteq Threads
    BY EngineAssumption DEF TypeInv, TypeOK, Threads
  <2>3. Unborn /\ ts[t] \in Stops \cup {"zombie"}
    BY EventMeans DEF LeaderWillStop
  <2>4. t = Master
    BY <2>2, <2>3 DEF Unborn, Threads, Stops
  <2>5. Unborn' /\ ts'[Master] = "run"
    BY <2>1, <2>2, <2>3, <2>4 DEF Unborn
  <2>6. \A u \in evreg : ts'[u] # "zombie"
    BY <2>2, <2>4, <2>5 DEF Unborn, Threads
  <2> QED
    BY <2>5, <2>6 DEF LeaderWillStop
<1>2. eng' # "exited"
  BY ReturnsCases
<1> QED
  BY <1>1, <1>2

\* The heart of it: no command handler runs while RM_job's leader does.
LEMMA CommandsFindLeader ==
  ASSUME TypeInv, LeaderWillStop, Master \in thrlist, GraceSuffices,
         NEW t \in Threads, NEW ev \in {"LM_STOP_FOR_DETACH", "LM_STOP_FOR_KILL"},
         Event(t, ev)
  PROVE  LeaderStopped \/ ts[Master] = "zombie"
<1>1. ts[t] \in Stops /\ Requested /\ GraceOver
  <2>1. ts[t] \in Stops /\ GraceOver
    BY EventMeans DEF PollsProcs
  <2>2. Requested
    BY DEF Event, decipher_an_event, Requested
  <2> QED
    BY <2>1, <2>2
<1>2. ts[Master] \in ThreadStates
  BY DEF TypeInv, TypeOK, Threads
<1>3. CASE ts[Master] \in {"run", "step"}
  <2>1. Master \notin pend
    BY <1>1, <1>3 DEF GraceOver, Running
  <2>2. Unborn
    BY <1>1, <1>3, <2>1 DEF LeaderWillStop, Live
  <2>3. t = Master
    BY <1>1, <2>2 DEF Unborn, Threads, Stops
  <2> QED
    BY <1>1, <1>3, <2>3 DEF Stops
<1>4. CASE ts[Master] \notin {"run", "step"}
  BY <1>2, <1>4 DEF LeaderWillStop, LeaderStopped, ThreadStates
<1> QED
  BY <1>3, <1>4

LEMMA TraceeTraps ==
  ASSUME TypeInv, LeaderWillStop, Master \in thrlist, GraceSuffices,
         NEW t \in Threads, TraceePoll(t)
  PROVE  /\ eng' = "up" => LeaderWillStop'
         /\ TrapsRemovedOnRequest'
<1> USE DEF handlerFrame
<1>0. /\ ts \in [Threads -> ThreadStates] /\ Master \in Threads /\ evreg \subseteq Threads
      /\ Master \notin Slaves /\ Slaves \subseteq Threads
  BY EngineAssumption DEF TypeInv, TypeOK, Threads
<1>1. CASE handle_trap_after_exec_event(t) \/ handle_trap_after_attach_event(t)
  <2>1. /\ Event(t, "LM_STOP_AT_FIRST") /\ UNCHANGED <<reqVars, evreg, pend>>
        /\ neverTrapped' = FALSE /\ Returns(TRUE, Continued(t))
    BY <1>1 DEF handle_trap_after_exec_event, handle_trap_after_attach_event
  <2> QED
    BY <2>1, FirstTraps DEF TrapsRemovedOnRequest
<1>2. ASSUME NEW ev, Event(t, ev),
             ev \notin {"LM_EXITED", "LM_STOP_AT_FIRST", "LM_STOP_FOR_DETACH", "LM_STOP_FOR_KILL"},
             NEW st \in {"run", "step", "held"}, Returns(TRUE, [ts EXCEPT ![t] = st]),
             UNCHANGED <<reqVars, neverTrapped>>, evreg' \in {evreg, evreg \cup {t}}
      PROVE  /\ eng' = "up" => LeaderWillStop'
             /\ TrapsRemovedOnRequest'
  BY <1>2, EventMeans, HandlerTraps DEF TrapsRemovedOnRequest
<1>3. CASE BpPrologue(t) \/ handle_loader_bp_event(t) \/ LaunchBpContinued(t)
  <2>1. \E ev \in {"LM_STOP_AT_LAUNCH_BP", "LM_STOP_AT_LOADER_BP"},
           st \in {"run", "step"} :
          Event(t, ev) /\ Returns(TRUE, [ts EXCEPT ![t] = st])
    BY <1>3 DEF BpPrologue, handle_bp_prologue, handle_loader_bp_event,
      LaunchBpContinued, LaunchBp, Continued, Stepped
  <2>2. UNCHANGED <<reqVars, neverTrapped, evreg>>
    BY <1>3 DEF BpPrologue, handle_bp_prologue, handle_loader_bp_event, LaunchBpContinued
  <2> QED
    BY <2>1, <2>2, <1>2
<1>4. CASE LaunchBpSpawned(t)
  <2>1. \E st \in {"run", "held"} : Returns(TRUE, [ts EXCEPT ![t] = st])
    BY <1>4 DEF LaunchBpSpawned, Continued
  <2>2. /\ UNCHANGED <<reqVars, neverTrapped>> /\ Event(t, "LM_STOP_AT_LAUNCH_BP")
        /\ evreg' \in {evreg, evreg \cup {t}}
    BY <1>4 DEF LaunchBpSpawned, LaunchBp
  <2> QED
    BY <2>1, <2>2, <1>2
<1>5. CASE \/ handle_thrcreate_trap_event(t) \/ handle_newthread_trace_event(t)
           \/ handle_relay_signal_event(t)
  <2>1. /\ \E ev \in {"LM_STOP_AT_THREAD_CREATION", "LM_STOP_NEW_THREAD_TRACE",
                      "LM_STOP_NOT_INTERESTED", "LM_RELAY_SIGNAL"} : Event(t, ev)
        /\ Returns(TRUE, [ts EXCEPT ![t] = "run"])
    BY <1>5 DEF handle_thrcreate_trap_event, handle_newthread_trace_event,
      handle_relay_signal_event, Continued
  <2>2. UNCHANGED <<reqVars, neverTrapped, evreg>>
    BY <1>5 DEF handle_thrcreate_trap_event, handle_newthread_trace_event,
      handle_relay_signal_event
  <2> QED
    BY <2>1, <2>2, <1>2
<1>6. CASE LaunchBpAborting(t)
  <2>1. eng' # "up" /\ \A b \in Bps : bp'[b] # "enabled"
    BY <1>6, ReturnsCases DEF LaunchBpAborting
  <2> QED
    BY <2>1 DEF TrapsRemovedOnRequest
<1>7. CASE ShipSigPipe(t)
  BY <1>7 DEF ShipSigPipe, TrapsRemovedOnRequest
<1>8. CASE handle_detach_cmd_event(t) \/ handle_kill_cmd_event(t)
  <2>1. Detaches
    BY <1>8 DEF handle_detach_cmd_event, handle_kill_cmd_event
  <2>2. eng' # "up" /\ \A b \in Bps : bp'[b] # "enabled"
    BY <2>1, ReturnsCases DEF Detaches
  <2> QED
    BY <2>2 DEF TrapsRemovedOnRequest
<1>9. CASE CommandFails(t)
  <2>1. ts[Master] = "zombie"
    BY <1>9, CommandsFindLeader DEF CommandFails
  <2>2. eng' # "up" /\ ts' = Released(ts)
    BY <1>9, ReturnsCases DEF CommandFails
  <2>3. ts'[Master] = "zombie"
    BY <2>1, <2>2, <1>0 DEF Released
  <2> QED
    BY <2>2, <2>3 DEF TrapsRemovedOnRequest
<1>10. CASE SlaveExit(t)
  <2>1. /\ t \in Slaves /\ ts[t] = "zombie" /\ Returns(TRUE, [ts EXCEPT ![t] = "gone"])
        /\ evreg' = evreg \ {t} /\ UNCHANGED <<reqVars, neverTrapped, pend>>
    BY <1>10, EventMeans DEF SlaveExit
  <2>2. ~Unborn /\ ~neverTrapped /\ t # Master
    BY <2>1, <1>0 DEF Unborn, LeaderWillStop
  <2>3. ASSUME eng' = "up" PROVE LeaderWillStop'
    <3>1. ts' = [ts EXCEPT ![t] = "gone"]
      BY <2>1, <2>3, ReturnsCases
    <3>2. \A u \in Threads : u # t => ts'[u] = ts[u]
      BY <3>1, <1>0
    <3> QED
      BY <2>1, <2>2, <3>2, <1>0 DEF LeaderWillStop, Requested
  <2>4. eng' # "exited"
    BY <2>1, ReturnsCases
  <2> QED
    BY <2>3, <2>4 DEF TrapsRemovedOnRequest
<1> QED
  BY <1>1, <1>3, <1>4, <1>5, <1>6, <1>7, <1>8, <1>9, <1>10 DEF TraceePoll

LEMMA SocketTraps ==
  ASSUME TypeInv, HeldIffParked, TrapInv, eng = "up", ~StatShowsT, SocketPoll
  PROVE  /\ eng' = "up" => LeaderWillStop'
         /\ TrapsRemovedOnRequest'
<1> USE DEF pollFrame, PollsProcsNext, TrapInv
<1>0. /\ ts \in [Threads -> ThreadStates] /\ Master \in Threads /\ evreg \subseteq Threads
      /\ Master \notin Slaves /\ Slaves \subseteq Threads
  BY EngineAssumption DEF TypeInv, TypeOK, Threads
<1>1. CASE FESilent
  BY <1>1 DEF FESilent, TrapsRemovedOnRequest, LeaderWillStop, Requested, Unborn
<1>2. CASE FEDetach \/ FEKill \/ FEShutdown \/ FEDisconnected
  <2>1. \E why : request_detach(why) \/ request_kill(why)
    BY <1>2 DEF FEDetach, FEKill, FEShutdown, FEDisconnected
  <2>2. UNCHANGED <<ts, evreg, neverTrapped, eng>>
    BY <1>2 DEF FEDetach, FEKill, FEShutdown, FEDisconnected
  <2> QED
    BY <2>1, <2>2, RequestStopsLeader DEF TrapsRemovedOnRequest
<1>3. CASE FECont
  <2>1. /\ \A t \in evreg : ts[t] = "held" /\ ts'[t] = "run"
        /\ \A t \in Threads \ evreg : ts'[t] = ts[t]
        /\ evreg' = {} /\ UNCHANGED <<reqVars, pend, neverTrapped, eng>>
    BY <1>3, <1>0 DEF FECont
  <2>2. Unborn => Unborn'
    BY <2>1, <1>0 DEF Unborn
  <2>3. ts'[Master] = ts[Master] \/ (ts[Master] = "held" /\ ts'[Master] = "run")
    BY <2>1, <1>0
  <2>4. LeaderWillStop'
    BY <2>1, <2>2, <2>3 DEF LeaderWillStop, Requested, Live
  <2> QED
    BY <2>1, <2>4 DEF TrapsRemovedOnRequest
<1>4. CASE FEContFails
  <2>1. ts[Master] = "zombie"
    BY <1>4, <1>0 DEF FEContFails, HeldIffParked, LeaderWillStop
  <2>2. ts'[Master] = "zombie" /\ eng' = "exited"
    BY <1>4, <2>1, <1>0 DEF FEContFails, Released
  <2> QED
    BY <2>2 DEF TrapsRemovedOnRequest
<1>5. CASE FEIllFormed
  <2>1. Head(toEngine) = "bad" /\ toEngine # << >> /\ toEngine \in Seq(Messages \ {"bad"})
    BY <1>5 DEF FEIllFormed, Receives, WellFormed
  <2>2. Head(toEngine) \in Messages \ {"bad"}
    BY <2>1, HeadTailProperties
  <2> QED
    BY <2>1, <2>2
<1> QED
  BY <1>1, <1>2, <1>3, <1>4, <1>5 DEF SocketPoll

\* The messages and the list of threads.
LEMMA NextWellFormed ==
  ASSUME TypeInv, WellFormed, Master \in thrlist, "bad" \notin Requests, [Next]_vars
  PROVE  WellFormed' /\ Master \in thrlist'
<1> USE DEF handlerFrame, kernelFrame, feFrame, pollFrame
<1>0. Master \notin Slaves
  BY EngineAssumption
<1>1. CASE \/ \E t \in Threads : JobStep(t)
           \/ JobExits \/ ChildStops \/ DaemonExits \/ FEDies
  <2>1. UNCHANGED <<toEngine, thrlist>>
    BY <1>1 DEF JobStep, JobHits, JobExecutes, JobLeaves, KernelStops, JobSignalled,
      JobClones, JobForks, ThreadExits, JobExits, ChildStops, DaemonExits, FEDies
  <2> QED
    BY <2>1 DEF WellFormed
<1>2. ASSUME NEW m \in Requests, FESends(m) PROVE WellFormed' /\ Master \in thrlist'
  <2>1. m \in Messages \ {"bad"}
    BY EngineAssumption
  <2> QED
    BY <2>1, <1>2 DEF FESends, WellFormed
<1>3. CASE SocketPoll
  <2>1. thrlist' = thrlist
    BY <1>3 DEF SocketPoll, FESilent, FEDetach, FEKill, FEShutdown, FECont,
      FEContFails, FEDisconnected, FEIllFormed
  <2>2. toEngine' = toEngine \/ (toEngine # << >> /\ toEngine' = Tail(toEngine))
    BY <1>3 DEF SocketPoll, FESilent, FEDetach, FEKill, FEShutdown, FECont,
      FEContFails, FEDisconnected, FEIllFormed, Receives
  <2>3. toEngine' \in Seq(Messages \ {"bad"})
    BY <2>2, HeadTailProperties DEF WellFormed
  <2> QED
    BY <2>1, <2>3 DEF WellFormed
<1>4. CASE \/ NoEvent \/ handle_daemon_exit_event \/ handle_newproc_forked_event
           \/ LeaderExit \/ sighandler
  <2>1. UNCHANGED <<toEngine, thrlist>>
    BY <1>4 DEF NoEvent, handle_daemon_exit_event, handle_newproc_forked_event,
      LeaderExit, sighandler
  <2> QED
    BY <2>1 DEF WellFormed
<1>5. ASSUME NEW t \in Threads, TraceePoll(t) PROVE WellFormed' /\ Master \in thrlist'
  <2>1. UNCHANGED toEngine
    BY <1>5 DEF TraceePoll, handle_trap_after_exec_event,
      handle_trap_after_attach_event, BpPrologue, handle_bp_prologue,
      handle_loader_bp_event, LaunchBpSpawned, LaunchBpAborting,
      LaunchBpContinued, ShipSigPipe, handle_detach_cmd_event,
      handle_kill_cmd_event, CommandFails, SlaveExit,
      handle_thrcreate_trap_event, handle_newthread_trace_event,
      handle_relay_signal_event
  <2>2. thrlist \subseteq thrlist' \/ (t \in Slaves /\ thrlist' = thrlist \ {t})
    BY <1>5 DEF TraceePoll, handle_trap_after_exec_event,
      handle_trap_after_attach_event, BpPrologue, handle_bp_prologue,
      handle_loader_bp_event, LaunchBpSpawned, LaunchBpAborting,
      LaunchBpContinued, ShipSigPipe, handle_detach_cmd_event,
      handle_kill_cmd_event, CommandFails, SlaveExit,
      handle_thrcreate_trap_event, handle_newthread_trace_event,
      handle_relay_signal_event
  <2> QED
    BY <2>1, <2>2, <1>0 DEF WellFormed
<1>6. CASE UNCHANGED vars
  BY <1>6 DEF vars, WellFormed
<1> QED
  BY <1>1, <1>2, <1>3, <1>4, <1>5, <1>6 DEF Next, EngineStep

\* Nothing happens once the engine has ended.
LEMMA NothingAfterEnd ==
  ASSUME TypeInv, Over, Next
  PROVE  eng = "up" \/ JobExits
<1>0. ASSUME NEW t \in Threads, ts[t] \notin Ended
      PROVE  eng = "up"
  BY <1>0 DEF Over
<1>1. ASSUME NEW t \in Threads, JobStep(t)
      PROVE  eng = "up"
  <2>1. CASE \E b \in Bps : JobHits(t, b) \/ JobExecutes(t, b) \/ JobLeaves(t, b)
    BY <2>1, <1>0 DEF JobHits, JobExecutes, JobLeaves, Running, Ended
  <2>2. CASE KernelStops(t) \/ JobSignalled(t)
    BY <2>2, <1>0 DEF KernelStops, JobSignalled, Running, Ended
  <2>3. CASE JobForks(t) \/ ThreadExits(t) \/ \E s \in Slaves : JobClones(t, s)
    BY <2>3, <1>0 DEF JobForks, ThreadExits, JobClones, Ended
  <2> QED
    BY <1>1, <2>1, <2>2, <2>3 DEF JobStep
<1>2. CASE \/ ChildStops \/ DaemonExits \/ FEDies \/ sighandler
           \/ \E m \in Requests : FESends(m)
  BY <1>2 DEF ChildStops, DaemonExits, FEDies, sighandler, FESends
<1>3. CASE SocketPoll
  BY <1>3 DEF SocketPoll, FESilent, FEDetach, FEKill, FEShutdown, FECont, FEContFails,
    FEDisconnected, FEIllFormed, Receives, PollsFE
<1>4. CASE NoEvent \/ handle_daemon_exit_event \/ handle_newproc_forked_event \/ LeaderExit
  BY <1>4 DEF NoEvent, handle_daemon_exit_event, handle_newproc_forked_event, LeaderExit,
    Event, Reports, PollsProcs
<1>5. ASSUME NEW t \in Threads, TraceePoll(t)
      PROVE  eng = "up"
  <2>1. \E ev : Event(t, ev)
    <3>1. CASE \/ handle_trap_after_exec_event(t) \/ handle_trap_after_attach_event(t)
               \/ BpPrologue(t) \/ handle_loader_bp_event(t)
      BY <3>1 DEF handle_trap_after_exec_event, handle_trap_after_attach_event,
        BpPrologue, handle_loader_bp_event
    <3>2. CASE \/ LaunchBpSpawned(t) \/ LaunchBpAborting(t) \/ LaunchBpContinued(t)
               \/ ShipSigPipe(t)
      BY <3>2 DEF LaunchBpSpawned, LaunchBpAborting, LaunchBpContinued, ShipSigPipe,
        LaunchBp
    <3>3. CASE \/ handle_detach_cmd_event(t) \/ handle_kill_cmd_event(t) \/ CommandFails(t)
               \/ SlaveExit(t)
      BY <3>3 DEF handle_detach_cmd_event, handle_kill_cmd_event, CommandFails, SlaveExit
    <3>4. CASE \/ handle_thrcreate_trap_event(t) \/ handle_newthread_trace_event(t)
               \/ handle_relay_signal_event(t)
      BY <3>4 DEF handle_thrcreate_trap_event, handle_newthread_trace_event,
        handle_relay_signal_event
    <3> QED
      BY <1>5, <3>1, <3>2, <3>3, <3>4 DEF TraceePoll
  <2> QED
    BY <2>1 DEF Event, Reports, PollsProcs
<1> QED
  BY <1>1, <1>2, <1>3, <1>4, <1>5 DEF Next, EngineStep

LEMMA NextTraps ==
  ASSUME GraceSuffices, ~StatShowsT, "bad" \notin Requests,
         TypeInv, Over, HeldIffParked, TrapInv, [Next]_vars
  PROVE  TrapInv'
<1>0. /\ ts \in [Threads -> ThreadStates] /\ Master \in Threads /\ evreg \subseteq Threads
      /\ Master \notin Slaves /\ Slaves \subseteq Threads
  BY EngineAssumption DEF TypeInv, TypeOK, Threads
<1>1. WellFormed' /\ Master \in thrlist'
  BY NextWellFormed DEF TrapInv
<1>2. CASE UNCHANGED vars
  BY <1>1, <1>2 DEF vars, TrapInv, LeaderWillStop, TrapsRemovedOnRequest, Requested, Unborn
<1>3. CASE JobExits
  <2>1. ts'[Master] # "free" /\ UNCHANGED <<eng, evreg, neverTrapped, reqVars>>
    BY <1>0, <1>3 DEF JobExits, Dead, kernelFrame, Ended
  <2>2. ASSUME LeaderWillStop PROVE LeaderWillStop'
    <3>1. ts'[Master] = "zombie"
      BY <2>2, <1>0, <1>3 DEF JobExits, Dead, LeaderWillStop
    <3>2. Unborn => Unborn'
      BY <1>0, <1>3 DEF JobExits, Dead, Unborn
    <3> QED
      BY <2>1, <2>2, <3>1, <3>2 DEF LeaderWillStop, Live
  <2> QED
    BY <1>1, <2>1, <2>2 DEF TrapInv, TrapsRemovedOnRequest
<1>4. CASE Next /\ ~JobExits
  <2>0. eng = "up" /\ LeaderWillStop /\ Master \in thrlist
    BY <1>4, NothingAfterEnd DEF TrapInv
  <2> USE DEF handlerFrame, kernelFrame, feFrame
  <2> SUFFICES /\ eng' = "up" => LeaderWillStop'
               /\ TrapsRemovedOnRequest'
    BY <1>1 DEF TrapInv
  <2>1. ASSUME NEW t \in Threads, JobStep(t) PROVE eng' = "up" /\ LeaderWillStop'
    <3>1. eng' = eng
      BY <2>1 DEF JobStep, JobHits, JobExecutes, JobLeaves, KernelStops,
        JobSignalled, JobClones, JobForks, ThreadExits
    <3> QED
      BY <2>0, <2>1, <3>1, JobTraps
  <2>3. CASE \/ ChildStops \/ DaemonExits \/ FEDies
             \/ \E m \in Requests : FESends(m)
    <3>1. UNCHANGED <<eng, ts, evreg, pend, neverTrapped, reqVars>>
      BY <2>3 DEF ChildStops, DaemonExits, FEDies, FESends
    <3> QED
      BY <2>0, <3>1 DEF LeaderWillStop, TrapsRemovedOnRequest, Requested, Unborn
  <2>4. CASE SocketPoll
    BY <2>0, <2>4, SocketTraps
  <2>5. CASE NoEvent \/ handle_newproc_forked_event
    <3>1. /\ Returns(TRUE, ts) /\ UNCHANGED <<evreg, pend, neverTrapped, reqVars>>
      BY <2>5 DEF NoEvent, handle_newproc_forked_event
    <3>2. eng' = "up" => UNCHANGED ts
      BY <3>1, ReturnsCases
    <3>3. eng' # "exited"
      BY <3>1, ReturnsCases
    <3> QED
      BY <2>0, <3>1, <3>2, <3>3 DEF LeaderWillStop, TrapsRemovedOnRequest, Requested, Unborn
  <2>6. CASE handle_daemon_exit_event
    <3>1. Returns(TRUE, ts) /\ UNCHANGED <<evreg, neverTrapped>>
      BY <2>6 DEF handle_daemon_exit_event
    <3>2. eng' = "up" => UNCHANGED ts
      BY <3>1, ReturnsCases
    <3>3. eng' # "exited"
      BY <3>1, ReturnsCases
    <3>4. (\E why : request_detach(why) \/ request_kill(why)) \/ UNCHANGED <<reqVars, pend>>
      BY <2>6 DEF handle_daemon_exit_event
    <3>5. eng' = "up" => LeaderWillStop'
      <4>1. CASE UNCHANGED <<reqVars, pend>>
        BY <4>1, <2>0, <3>1, <3>2 DEF LeaderWillStop, Requested, Unborn
      <4>2. CASE \E why : request_detach(why) \/ request_kill(why)
        BY <4>2, <2>0, <3>1, <3>2, RequestStopsLeader
      <4> QED
        BY <4>1, <4>2, <3>4
    <3> QED
      BY <3>3, <3>5 DEF TrapsRemovedOnRequest
  <2>7. CASE sighandler
    <3>1. /\ \E why : request_detach(why) \/ request_kill(why)
          /\ UNCHANGED <<eng, ts, evreg, neverTrapped>>
      BY <2>7 DEF sighandler
    <3> QED
      BY <2>0, <3>1, RequestStopsLeader DEF TrapsRemovedOnRequest
  <2>8. CASE LeaderExit
    <3>1. /\ eng' # "up" /\ ts' = Released([ts EXCEPT ![Master] = "gone"])
      BY <2>8, ReturnsCases DEF LeaderExit
    <3>2. ts'[Master] = "gone"
      BY <3>1, <1>0 DEF Released
    <3> QED
      BY <3>1, <3>2 DEF TrapsRemovedOnRequest
  <2>9. ASSUME NEW t \in Threads, TraceePoll(t)
        PROVE  (eng' = "up" => LeaderWillStop') /\ TrapsRemovedOnRequest'
    BY <2>0, <2>9, TraceeTraps
  <2>10. eng' = "up" => TrapsRemovedOnRequest'
    BY DEF TrapsRemovedOnRequest
  <2> QED
    BY <1>4, <2>1, <2>3, <2>4, <2>5, <2>6, <2>7, <2>8, <2>9, <2>10
    DEF Next, EngineStep
<1> QED
  BY <1>2, <1>3, <1>4

\* Where a SIGSTOP takes effect within the grace period and request_detach and
\* request_kill send one to every thread (the kernel shows a traced stop as "t",
\* which the code does not look for), an engine that was asked to go leaves no
\* trap in the text of a living RM_job, whatever the threads are doing.
THEOREM NoTrapLeft ==
  ASSUME GraceSuffices, ~StatShowsT, "bad" \notin Requests
  PROVE  Spec => []TrapsRemovedOnRequest
<1> DEFINE Inv == TypeInv /\ EndInv /\ HeldIffParked /\ TrapInv
<1>1. Init => Inv
  <2> SUFFICES ASSUME Init PROVE Inv
    OBVIOUS
  <2>1. TypeInv
    BY InitType
  <2>2. EndInv /\ HeldIffParked
    BY EngineAssumption
    DEF Init, EndInv, TerminalIsLast, Over, AnsweredMeansReleased, LastSaid, Terminal, HeldIffParked
  <2>3. Master \in thrlist /\ WellFormed /\ TrapsRemovedOnRequest
    BY DEF Init, WellFormed, TrapsRemovedOnRequest
  <2>4. /\ Master \in Threads /\ Master \notin Slaves /\ Slaves \subseteq Threads
    BY EngineAssumption DEF Threads
  <2>5. Unborn /\ (AttachMode => ts[Master] = "run") /\ (~AttachMode => ts[Master] = "exec")
    BY <2>4 DEF Init, Unborn
  <2>6. LeaderWillStop
    <3>1. ~Requested /\ evreg = {} /\ ts[Master] \in {"run", "exec"}
      BY <2>5, EngineAssumption DEF Init, Requested
    <3> QED
      BY <2>5, <3>1 DEF LeaderWillStop
  <2> QED
    BY <2>1, <2>2, <2>3, <2>6 DEF TrapInv
<1>2. Inv /\ [Next]_vars => Inv'
  <2> SUFFICES ASSUME Inv, [Next]_vars PROVE Inv'
    OBVIOUS
  <2>1. TypeInv' /\ EndInv' /\ HeldIffParked'
    BY NextType, NextEnd, NextParks
  <2>2. TrapInv'
    BY NextTraps DEF EndInv
  <2> QED
    BY <2>1, <2>2
<1>3. Inv => TrapsRemovedOnRequest
  BY DEF TrapInv
<1> QED
  BY <1>1, <1>2, <1>3, PTL DEF Spec

-----------------------------------------------------------------------------
(* No call of MPIR_Breakpoint goes unseen.                                  *)

\* The trap of the launch breakpoint is out of the text only while the leader
\* steps over it, or has done so and not been looked at yet.
SteppedOver ==
  \/ ts[Master] \in {"zombie", "gone"}
  \/ ts[Master] = "step" /\ pc[Master] = <<"launch", "at">>
  \/ ts[Master] = "stepped" /\ pc[Master] = <<"launch", "past">>

\* Before the first stop RM_job has no breakpoint; after it nothing is pending
\* that could turn the end of a single step into another stop.
Seen ==
  /\ neverTrapped => /\ pc[Master] = App
                     /\ ts[Master] \in Stops => pend = {}
  /\ ~neverTrapped => /\ bp["launch"] # "null"
                      /\ bp["launch"] = "enabled" \/ SteppedOver
                      /\ pend = {} \/ ts[Master] \in {"zombie", "gone"}

SeenInv == ~Requested /\ eng = "up" => Seen

Alone == Slaves = {} /\ MaxSignals = 0

LEMMA AloneMeans ==
  ASSUME Alone
  PROVE  Threads = {Master} /\ \A t \in Threads : t = Master
BY DEF Alone, Threads

\* What RM_job does by itself leaves the trap where it is.
LEMMA JobSeen ==
  ASSUME Alone, TypeInv, SeenInv, JobStep(Master)
  PROVE  SeenInv'
<1> SUFFICES ASSUME ~Requested', eng' = "up" PROVE Seen'
  BY DEF SeenInv
<1>0. /\ ts \in [Threads -> ThreadStates] /\ pc \in [Threads -> PCs]
      /\ Master \in Threads /\ Bps = {"launch", "loader"}
  BY DEF TypeInv, TypeOK, Threads, Bps
<1>1. UNCHANGED <<reqVars, eng, neverTrapped, bp>>
  BY DEF JobStep, JobHits, JobExecutes, JobLeaves, KernelStops,
    JobSignalled, JobClones, JobForks, ThreadExits, kernelFrame
<1>2. Seen
  BY <1>1 DEF SeenInv, Requested
<1>3. ASSUME NEW b \in Bps, JobHits(Master, b) PROVE Seen'
  BY <1>0, <1>1, <1>2, <1>3 DEF JobHits, Seen, SteppedOver
<1>4. ASSUME NEW b \in Bps, JobExecutes(Master, b) PROVE Seen'
  <2>1. ~neverTrapped /\ pend' = pend
    BY <1>0, <1>2, <1>4 DEF JobExecutes, Seen, App
  <2>2. pend = {} /\ bp["launch"] # "null"
    BY <1>2, <1>4, <2>1 DEF JobExecutes, Running, Seen
  <2>3. bp["launch"] # "enabled" => b = "launch" /\ ts[Master] = "step"
    BY <1>0, <1>2, <1>4, <2>1 DEF JobExecutes, Running, Seen, SteppedOver
  <2>4. bp["launch"] # "enabled" => ts'[Master] = "stepped" /\ pc'[Master] = <<"launch", "past">>
    BY <1>0, <1>4, <2>3 DEF JobExecutes
  <2> QED BY <1>1, <2>1, <2>2, <2>4 DEF Seen, SteppedOver
<1>5. ASSUME NEW b \in Bps, JobLeaves(Master, b) PROVE Seen'
  BY <1>0, <1>1, <1>2, <1>5 DEF JobLeaves, Seen, SteppedOver, App
<1>6. CASE KernelStops(Master)
  <2>1. ts[Master] \in {"run", "step"} /\ Master \in pend /\ pend' = pend \ {Master}
        /\ pc' = pc
    BY <1>6 DEF KernelStops, Running
  <2>2. neverTrapped
    BY <1>2, <2>1 DEF Seen
  <2>3. pend' = {}
    BY <2>1, AloneMeans DEF TypeInv, TypeOK
  <2> QED BY <1>1, <1>2, <2>1, <2>2, <2>3 DEF Seen
<1>7. ~JobSignalled(Master)
  BY DEF JobSignalled, Alone, TypeInv, TypeOK
<1>8. ASSUME NEW x \in Slaves, JobClones(Master, x) PROVE Seen'
  BY DEF Alone
<1>9. CASE JobForks(Master)
  <2>1. ~neverTrapped /\ ts[Master] = "run" /\ pend' = pend
    BY <1>9 DEF JobForks
  <2>2. pend = {} /\ bp["launch"] = "enabled"
    BY <1>2, <2>1 DEF Seen, SteppedOver
  <2> QED BY <1>1, <2>1, <2>2 DEF Seen
<1>10. ~ThreadExits(Master)
  BY DEF ThreadExits, Alone
<1> QED
  BY <1>3, <1>4, <1>5, <1>6, <1>7, <1>8, <1>9, <1>10 DEF JobStep

LEMMA StoppedOnEvent ==
  ASSUME NEW ev, ev # "LM_EXITED", Event(Master, ev)
  PROVE  ts[Master] \in Stops
BY DEF Event, Reports, Reportable, decipher_an_event

\* The trap is taken out only to step over it, and the end of the step is what
\* the engine looks at next.
LEMMA TraceeSeen ==
  ASSUME Alone, TypeInv, SeenInv, TraceePoll(Master)
  PROVE  SeenInv'
<1> SUFFICES ASSUME ~Requested', eng' = "up" PROVE Seen'
  BY DEF SeenInv
<1>0. /\ ts \in [Threads -> ThreadStates] /\ pc \in [Threads -> PCs]
      /\ bp \in [Bps -> {"null", "enabled", "disabled"}]
      /\ Master \in Threads /\ Bps = {"launch", "loader"} /\ Master \notin Slaves
  BY EngineAssumption DEF TypeInv, TypeOK, Threads, Bps
<1>1. UNCHANGED <<reqVars, pend>> /\ eng = "up" /\ Reportable(Master)
  BY DEF TraceePoll, handle_trap_after_exec_event,
    handle_trap_after_attach_event, BpPrologue, handle_bp_prologue, handle_loader_bp_event,
    LaunchBpSpawned, LaunchBpAborting, LaunchBpContinued, ShipSigPipe,
    LaunchBp, handle_detach_cmd_event, handle_kill_cmd_event, CommandFails,
    SlaveExit, handle_thrcreate_trap_event, handle_newthread_trace_event,
    handle_relay_signal_event, Event, Reports, PollsProcs
<1>2. Seen /\ ~Requested /\ ~pleaseDetach /\ ~pleaseKill
  BY <1>1 DEF SeenInv, Requested
<1>3. ASSUME NEW ok \in BOOLEAN, NEW k, Returns(ok, k) PROVE ok /\ ts' = k
  BY <1>3 DEF Returns
<1>4. CASE handle_trap_after_exec_event(Master) \/ handle_trap_after_attach_event(Master)
  <2>1. Event(Master, "LM_STOP_AT_FIRST")
    BY <1>4 DEF handle_trap_after_exec_event, handle_trap_after_attach_event
  <2>2. ts[Master] \in Stops /\ neverTrapped
    BY <2>1, StoppedOnEvent DEF Event, decipher_an_event
  <2>3. pend = {}
    BY <1>2, <2>2 DEF Seen
  <2>4. ~neverTrapped' /\ bp' = [b \in Bps |-> "enabled"]
    BY <1>4 DEF handle_trap_after_exec_event, handle_trap_after_attach_event
  <2> QED BY <1>0, <1>1, <2>3, <2>4 DEF Seen
<1>5. ASSUME NEW b \in Bps, handle_bp_prologue(Master, b),
             b = "launch" \/ (b = "loader" /\ Event(Master, "LM_STOP_AT_LOADER_BP")),
             ts[Master] \in Stops, ~neverTrapped
      PROVE  Seen'
  <2>1. /\ bp[b] # "disabled" /\ bp' = [bp EXCEPT ![b] = "disabled"]
        /\ pc' = [pc EXCEPT ![Master] = <<b, "at">>] /\ Returns(TRUE, Stepped(Master))
        /\ neverTrapped' = neverTrapped
    BY <1>5 DEF handle_bp_prologue
  <2>2. ts'[Master] = "step" /\ pc'[Master] = <<b, "at">>
    <3>1. ts' = Stepped(Master)
      BY <2>1, <1>3
    <3> QED BY <1>0, <2>1, <3>1 DEF Stepped
  <2>3. pend = {}
    BY <1>2, <1>5 DEF Seen, Stops
  <2>4. CASE b = "launch"
    <3>1. bp'["launch"] = "disabled"
      BY <1>0, <2>1, <2>4
    <3> QED BY <1>1, <1>5, <2>1, <2>2, <2>3, <2>4, <3>1 DEF Seen, SteppedOver
  <2>5. CASE b = "loader"
    <3>1. ~InBpOp(Master, "launch")
      BY <1>5, <2>5 DEF Event, decipher_an_event
    <3>2. bp["launch"] = "enabled"
      BY <1>2, <1>5, <3>1 DEF Seen, SteppedOver, InBpOp, Stops
    <3>3. bp'["launch"] = "enabled"
      BY <1>0, <2>1, <2>5, <3>2
    <3> QED BY <1>1, <1>5, <2>1, <2>3, <3>3 DEF Seen
  <2> QED BY <1>0, <2>4, <2>5
<1>6. CASE BpPrologue(Master)
  <2>1. \E b \in Bps : /\ handle_bp_prologue(Master, b)
                       /\ \/ b = "launch" /\ Event(Master, "LM_STOP_AT_LAUNCH_BP")
                          \/ b = "loader" /\ Event(Master, "LM_STOP_AT_LOADER_BP")
    BY <1>0, <1>6 DEF BpPrologue
  <2>2. ts[Master] \in Stops /\ ~neverTrapped
    BY <2>1, StoppedOnEvent DEF Event, decipher_an_event
  <2> QED BY <1>5, <2>1, <2>2
<1>7. CASE LaunchBpSpawned(Master) \/ LaunchBpContinued(Master)
  <2>1. Event(Master, "LM_STOP_AT_LAUNCH_BP") /\ bp' = [bp EXCEPT !["launch"] = "enabled"]
        /\ neverTrapped' = neverTrapped
    BY <1>7 DEF LaunchBpSpawned, LaunchBpContinued, LaunchBp, PrologueDone
  <2>2. ts[Master] \in Stops /\ ~neverTrapped
    BY <2>1, StoppedOnEvent DEF Event, decipher_an_event
  <2>3. pend = {}
    BY <1>2, <2>2 DEF Seen, Stops
  <2> QED BY <1>0, <1>1, <2>1, <2>2, <2>3 DEF Seen
<1>8. CASE \/ handle_loader_bp_event(Master) \/ handle_thrcreate_trap_event(Master)
           \/ handle_newthread_trace_event(Master) \/ handle_relay_signal_event(Master)
  <2>1. \E ev \in {"LM_STOP_AT_LOADER_BP", "LM_STOP_AT_THREAD_CREATION",
                   "LM_STOP_NEW_THREAD_TRACE", "LM_STOP_NOT_INTERESTED", "LM_RELAY_SIGNAL"} :
          Event(Master, ev)
    BY <1>8 DEF handle_loader_bp_event, handle_thrcreate_trap_event,
      handle_newthread_trace_event, handle_relay_signal_event
  <2>2. ts[Master] \in Stops /\ ~neverTrapped /\ ~InBpOp(Master, "launch")
    BY <2>1, StoppedOnEvent DEF Event, decipher_an_event
  <2>3. bp["launch"] = "enabled" /\ pend = {}
    BY <1>2, <2>2 DEF Seen, SteppedOver, InBpOp, Stops
  <2>4. bp'["launch"] = "enabled" /\ neverTrapped' = neverTrapped
    BY <1>0, <1>8, <2>3 DEF handle_loader_bp_event, PrologueDone, handle_thrcreate_trap_event,
      handle_newthread_trace_event, handle_relay_signal_event
  <2> QED BY <1>1, <2>2, <2>3, <2>4 DEF Seen
<1>9. ~SlaveExit(Master)
  BY <1>0 DEF SlaveExit
<1>10. ~LaunchBpAborting(Master) /\ ~ShipSigPipe(Master)
  BY <1>3 DEF LaunchBpAborting, ShipSigPipe
<1>11. ~handle_detach_cmd_event(Master) /\ ~handle_kill_cmd_event(Master) /\ ~CommandFails(Master)
  BY <1>3 DEF handle_detach_cmd_event, handle_kill_cmd_event, CommandFails, Detaches
<1> QED
  BY <1>4, <1>6, <1>7, <1>8, <1>9, <1>10, <1>11 DEF TraceePoll

LEMMA RequestsEndIt ==
  ASSUME NEW why, request_detach(why) \/ request_kill(why)
  PROVE  Requested'
BY DEF request_detach, request_kill, Requested

LEMMA NextSeen ==
  ASSUME Alone, TypeInv, EndInv, SeenInv, [Next]_vars
  PROVE  SeenInv'
<1> SUFFICES ASSUME ~Requested', eng' = "up" PROVE Seen'
  BY DEF SeenInv
<1>0. /\ ts \in [Threads -> ThreadStates] /\ Master \in Threads /\ evreg \subseteq Threads
  BY DEF TypeInv, TypeOK, Threads
<1>1. ASSUME NEW t \in Threads, JobStep(t) \/ TraceePoll(t) PROVE Seen'
  BY <1>1, AloneMeans, JobSeen, TraceeSeen DEF SeenInv
<1>2. CASE JobExits
  <2>1. Seen
    BY <1>2 DEF JobExits, kernelFrame, SeenInv, Requested
  <2>2. ts'[Master] \in {"none", "gone", "zombie"} /\ UNCHANGED <<neverTrapped, bp, pc, pend>>
    BY <1>0, <1>2 DEF JobExits, kernelFrame, Dead
  <2>3. ts[Master] \notin {"zombie", "gone"} /\ (ts[Master] # "none" => ts'[Master] = "zombie")
    BY <1>0, <1>2 DEF JobExits, Dead
  <2> QED BY <2>1, <2>2, <2>3 DEF Seen, SteppedOver, Stops
<1>3. CASE \/ ChildStops \/ DaemonExits \/ (\E m \in Requests : FESends(m)) \/ FEDies
           \/ FESilent \/ UNCHANGED vars
  BY <1>3 DEF ChildStops, DaemonExits, FESends, FEDies, FESilent, feFrame, pollFrame,
    PollsProcsNext, vars, SeenInv, Seen, SteppedOver, Requested
<1>4. CASE FEDetach \/ FEKill \/ FEShutdown \/ FEDisconnected \/ sighandler
  BY <1>4, RequestsEndIt DEF FEDetach, FEKill, FEShutdown, FEDisconnected, sighandler
<1>5. CASE FECont
  <2>1. UNCHANGED <<reqVars, eng, neverTrapped, bp, pc, pend>>
    BY <1>5 DEF FECont, pollFrame, PollsProcsNext
  <2>2. Seen
    BY <2>1 DEF SeenInv, Requested
  <2>3. ts'[Master] = ts[Master] \/ (ts[Master] = "held" /\ ts'[Master] = "run")
    BY <1>0, <1>5 DEF FECont
  <2> QED BY <2>1, <2>2, <2>3 DEF Seen, SteppedOver, Stops
<1>6. CASE FEContFails \/ FEIllFormed
  BY <1>6 DEF FEContFails, FEIllFormed
<1>7. CASE NoEvent \/ handle_newproc_forked_event
  <2>1. UNCHANGED <<reqVars, neverTrapped, bp, pc, pend>> /\ eng = "up" /\ Returns(TRUE, ts)
    BY <1>7 DEF NoEvent, handle_newproc_forked_event, PollsProcs
  <2>2. ts' = ts
    BY <2>1 DEF Returns
  <2> QED BY <2>1, <2>2 DEF SeenInv, Seen, SteppedOver, Requested
<1>8. CASE handle_daemon_exit_event
  <2>1. /\ \E why : request_detach(why) \/ UNCHANGED <<reqVars, pend>>
        /\ UNCHANGED <<neverTrapped, bp, pc>> /\ eng = "up" /\ Returns(TRUE, ts)
    BY <1>8 DEF handle_daemon_exit_event, PollsProcs
  <2>2. UNCHANGED <<reqVars, pend>>
    BY <2>1, RequestsEndIt
  <2>3. ts' = ts
    BY <2>1 DEF Returns
  <2> QED BY <2>1, <2>2, <2>3 DEF SeenInv, Seen, SteppedOver, Requested
<1>9. CASE LeaderExit
  BY <1>9 DEF LeaderExit, Returns
<1> QED
  BY <1>1, <1>2, <1>3, <1>4, <1>5, <1>6, <1>7, <1>8, <1>9 DEF Next, EngineStep, SocketPoll

\* A thread goes past the breakpoint only by executing what is there.
LEMMA PassesByExecuting ==
  ASSUME TypeInv, [Next]_vars, NEW u \in Threads,
         pc[u] = <<"launch", "at">>, pc'[u] = <<"launch", "past">>
  PROVE  bp["launch"] # "enabled"
<1>0. pc \in [Threads -> PCs]
  BY DEF TypeInv, TypeOK
<1>1. ASSUME NEW t \in Threads, JobStep(t) PROVE bp["launch"] # "enabled"
  <2>1. ASSUME NEW b \in Bps, JobHits(t, b) \/ JobLeaves(t, b) PROVE FALSE
    BY <1>0, <2>1 DEF JobHits, JobLeaves, App
  <2>2. ASSUME NEW b \in Bps, JobExecutes(t, b) PROVE bp["launch"] # "enabled"
    BY <1>0, <2>2 DEF JobExecutes
  <2>3. CASE KernelStops(t) \/ JobSignalled(t) \/ (\E x \in Slaves : JobClones(t, x))
             \/ JobForks(t) \/ ThreadExits(t)
    BY <2>3 DEF KernelStops, JobSignalled, JobClones, JobForks, ThreadExits
  <2> QED BY <1>1, <2>1, <2>2, <2>3 DEF JobStep
<1>2. ASSUME NEW t \in Threads, TraceePoll(t) PROVE FALSE
  <2>1. CASE BpPrologue(t)
    <3>1. PICK b \in Bps : handle_bp_prologue(t, b)
      BY <2>1 DEF BpPrologue, Bps
    <3>2. pc' = [pc EXCEPT ![t] = <<b, "at">>]
      BY <3>1 DEF handle_bp_prologue
    <3> QED BY <1>0, <3>2
  <2>2. CASE ~BpPrologue(t)
    <3>1. pc' = pc
     BY <1>2, <2>2 DEF TraceePoll, handle_trap_after_exec_event,
      handle_trap_after_attach_event, handle_loader_bp_event,
      LaunchBpSpawned, LaunchBpAborting, LaunchBpContinued, ShipSigPipe,
      handle_detach_cmd_event, handle_kill_cmd_event, CommandFails, SlaveExit,
      handle_thrcreate_trap_event, handle_newthread_trace_event, handle_relay_signal_event
    <3> QED BY <3>1
  <2> QED BY <2>1, <2>2
<1>3. CASE JobExits \/ ChildStops \/ DaemonExits \/ (\E m \in Requests : FESends(m)) \/ FEDies
  BY <1>3 DEF JobExits, ChildStops, DaemonExits, FESends, FEDies, feFrame
<1>4. CASE SocketPoll
  BY <1>4 DEF SocketPoll, FESilent, FEDetach, FEKill, FEShutdown, FECont, FEContFails,
    FEDisconnected, FEIllFormed, pollFrame
<1>5. CASE NoEvent \/ handle_daemon_exit_event \/ handle_newproc_forked_event \/ LeaderExit
           \/ sighandler \/ UNCHANGED vars
  <2>1. pc' = pc
    BY <1>5 DEF NoEvent, handle_daemon_exit_event, handle_newproc_forked_event, LeaderExit,
      sighandler, vars
  <2> QED BY <2>1
<1> QED
  BY <1>1, <1>2, <1>3, <1>4, <1>5 DEF Next, EngineStep

\* With one thread in RM_job and no signal sent to it, no call of
\* MPIR_Breakpoint goes unseen, in whatever order the loader's breakpoint, forks,
\* the front end's messages and the daemons' end come.  Neither hypothesis can be
\* dropped: a relayed signal lets a stepped thread go on at full speed, and a
\* second thread can pass while the first is stepped over the missing trap.
THEOREM LaunchIsSeen ==
  ASSUME Slaves = {}, MaxSignals = 0
  PROVE  Spec => LaunchBpNeverMissed
<1> DEFINE Inv == TypeInv /\ EndInv /\ SeenInv
<1>0. Alone
  BY DEF Alone
<1>1. Init => Inv
  <2> SUFFICES ASSUME Init PROVE Inv
    OBVIOUS
  <2>1. TypeInv
    BY InitType
  <2>2. EndInv
    BY EngineAssumption
    DEF Init, EndInv, TerminalIsLast, Over, AnsweredMeansReleased, LastSaid, Terminal
  <2>3. Master \in Threads
    BY DEF Threads
  <2>4. neverTrapped /\ pc[Master] = App /\ (ts[Master] \in Stops => pend = {})
    BY <2>3, EngineAssumption DEF Init, Stops
  <2>5. SeenInv
    BY <2>4, EngineAssumption DEF Init, SeenInv, Seen
  <2> QED BY <2>1, <2>2, <2>5
<1>2. Inv /\ [Next]_vars => Inv'
  BY <1>0, NextType, NextEnd, NextSeen
<1>3. Inv /\ [Next]_vars =>
        [\A t \in Threads :
           ts[t] = "run" /\ pc[t] = <<"launch", "at">> /\ pc'[t] = <<"launch", "past">>
             => Requested]_vars
  <2> SUFFICES ASSUME Inv, [Next]_vars, NEW t \in Threads, ~Requested,
                      ts[t] = "run", pc[t] = <<"launch", "at">>, pc'[t] = <<"launch", "past">>
               PROVE  FALSE
    OBVIOUS
  <2>1. t = Master
    BY <1>0, AloneMeans
  <2>2. eng = "up"
    BY DEF EndInv, Over, Ended
  <2>3. Seen
    BY <2>2 DEF SeenInv
  <2>4. bp["launch"] # "enabled"
    BY PassesByExecuting
  <2>5. ~neverTrapped
    BY <2>1, <2>3 DEF Seen, App
  <2> QED BY <2>1, <2>3, <2>4, <2>5 DEF Seen, SteppedOver
<1> QED
  BY <1>1, <1>2, <1>3, PTL DEF Spec, LaunchBpNeverMissed
=============================================================================
