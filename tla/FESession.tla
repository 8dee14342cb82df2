------------------------------ MODULE FESession ------------------------------
(***************************************************************************)
(* The front-end API (launchmon/src/linux/lmon_api/lmon_fe.cxx): the       *)
(* tool's main thread calls LMON_fe_ functions on session descriptors,     *)
(* and one watchdog thread per launched engine reads that engine's         *)
(* messages into its descriptor.  The two meet at a mutex and a condition  *)
(* variable per descriptor.  A step is what a thread does between two      *)
(* points where it can block: a lock, a wait, an accept or a read.         *)
(*                                                                         *)
(* The engine is external here (module Engine models it): it ships the     *)
(* table, answers the first request, and ends.                             *)
(***************************************************************************)
EXTENDS Integers, Sequences

CONSTANTS
  MaxSession,   \* MAX_LMON_SESSION
  MaxEngines,   \* bound: how many engines are launched, over all sessions
  MaxCalls,     \* bound: API calls of the main thread
  Ops,          \* the API functions the tool calls
  Timeouts,     \* LMON_FE_DMONCTL_TIMEOUT and LMON_FE_ENGINE_TIMEOUT may expire
  Spurious,     \* a condition wait may end without a signal
  ShortWrites,  \* a request may fail to be written
  MwMayFail,    \* the middleware handshake may fail
  Crashes       \* the engine may end without a last message

Slots == 0 .. MaxSession - 1
Engines == 1 .. MaxEngines

\* Who has a mutex: nobody, the main thread, or the watchdog of an engine.
Free == 0
Main == -1

Controls == {"detach", "kill", "shutdown"}
Spawns == {"launch", "attach"}
Queries == {"getProctable", "getResourceHandle", "getRMInfo", "getStatus"}
AllOps == {"create", "mw", "recv"} \cup Controls \cup Spawns \cup Queries

ASSUME FEAssumption ==
  /\ MaxSession \in Nat \ {0} /\ MaxEngines \in Nat /\ MaxCalls \in Nat
  /\ Ops \subseteq AllOps
  /\ Timeouts \in BOOLEAN /\ Spurious \in BOOLEAN /\ ShortWrites \in BOOLEAN
  /\ MwMayFail \in BOOLEAN /\ Crashes \in BOOLEAN

VARIABLES
  ptrIndex,   \* sess.sessionPtrIndex
  desc,       \* sess.sessionDescArray
  mutex,      \* who has eventMutex
  \* the main thread
  op, slot,   \* the call it is in, and on which session
  at,         \* where in the call, see Places
  launching,  \* the engine it waits for in LMON_fe_acceptEngine
  signalled,  \* its condition wait was signalled
  calls,      \* calls made
  rc,         \* what the last call returned
  \* engines and their watchdogs
  engine,     \* none, starting, up, ended
  slotOf,     \* the session an engine was launched for
  said,       \* everything an engine wrote to its socket
  got,        \* how many of these messages its watchdog has read
  asked,      \* the first request an engine received, which decides
  wd,         \* watchdog: none, reading, locking, locked, done
  open        \* the engines whose socket the front end has not closed

mainVars == <<op, slot, at, launching, signalled, calls, rc>>
engineVars == <<engine, said, asked>>
watchdogVars == <<got, wd>>
vars == <<ptrIndex, desc, mutex, mainVars, engineVars, slotOf, watchdogVars, open>>

Places == {"idle", "lock", "accept", "spawnwait", "waiting", "spawned",
           "be_accept", "be_table", "be_cont", "be_ready",
           "recv", "mw", "mw_bad"}

Codes == {"OK", "EINVAL", "EBDARG", "ETOUT", "ESYS", "EBUG", "EBDMSG",
          "EDUNAV", "NOTIMPL"}

\* What an engine ships for a job it found, in this order.
Script == <<"proctable_avail", "resourcehandle_avail", "rminfo", "spawned">>

JobEnds == {"exited", "stop_at_launch_bp_abort"}
Detachments == {"detach_done", "stop_tracing", "bedmon_exited"}
FEMessages == {"proctable_avail", "resourcehandle_avail", "rminfo", "spawned",
               "kill_done"} \cup JobEnds \cup Detachments

Descriptors ==
  [registered : BOOLEAN, spawned : BOOLEAN, mw : BOOLEAN, detached : BOOLEAN,
   killed : BOOLEAN, proctab : BOOLEAN, rid : BOOLEAN, rm : BOOLEAN,
   eng : 0 .. MaxEngines]

Results == [op : AllOps, code : Codes, eng : 0 .. MaxEngines]

TypeOK ==
  /\ ptrIndex \in Slots
  /\ desc \in [Slots -> Descriptors]
  /\ mutex \in [Slots -> -1 .. MaxEngines]
  /\ op \in AllOps /\ slot \in Slots /\ at \in Places
  /\ launching \in 0 .. MaxEngines
  /\ signalled \in BOOLEAN
  /\ calls \in 0 .. MaxCalls
  /\ rc \in Results
  /\ engine \in [Engines -> {"none", "starting", "up", "ended"}]
  /\ slotOf \in [Engines -> Slots]
  /\ said \in [Engines -> Seq(FEMessages)]
  /\ got \in [Engines -> Nat]
  /\ asked \in [Engines -> {"none"} \cup Controls]
  /\ wd \in [Engines -> {"none", "reading", "locking", "locked", "done"}]
  /\ open \subseteq Engines

\* LMON_init_sess; the connection is 0 for an accept socket of LMON_INIT.
LMON_init_sess ==
  [registered |-> FALSE, spawned |-> FALSE, mw |-> FALSE, detached |-> FALSE,
   killed |-> FALSE, proctab |-> FALSE, rid |-> FALSE, rm |-> FALSE, eng |-> 0]

\* LMON_fe_init
Init ==
  /\ ptrIndex = 0
  /\ desc = [s \in Slots |-> LMON_init_sess]
  /\ mutex = [s \in Slots |-> Free]
  /\ op = "create" /\ slot = 0 /\ at = "idle"
  /\ launching = 0 /\ signalled = FALSE /\ calls = 0
  /\ rc = [op |-> "create", code |-> "EINVAL", eng |-> 0]
  /\ engine = [g \in Engines |-> "none"]
  /\ slotOf = [g \in Engines |-> 0]
  /\ said = [g \in Engines |-> << >>]
  /\ got = [g \in Engines |-> 0]
  /\ asked = [g \in Engines |-> "none"]
  /\ wd = [g \in Engines |-> "none"]
  /\ open = {}

-----------------------------------------------------------------------------
(* The engine, as the front end sees it.                                    *)

engineFrame == UNCHANGED <<ptrIndex, desc, mutex, mainVars, slotOf, asked,
                 watchdogVars, open>>

EngineShips(g) ==
  /\ engine[g] = "up" /\ Len(said[g]) < Len(Script)
  /\ said' = [said EXCEPT ![g] = Append(@, Script[Len(@) + 1])]
  /\ UNCHANGED engine
  /\ engineFrame

\* What may be an engine's last message: the job ended, the engine received a
\* signal, the daemons it launched exited, or the first request is answered.
LastWords(g) ==
  JobEnds \cup {"stop_tracing"}
  \cup (IF Len(said[g]) = Len(Script) THEN {"bedmon_exited"} ELSE {})
  \cup (IF asked[g] = "kill" THEN {"kill_done"} ELSE {})
  \cup (IF asked[g] \in {"detach", "shutdown"} THEN {"detach_done"} ELSE {})

EngineEnds(g) ==
  /\ engine[g] = "up"
  /\ engine' = [engine EXCEPT ![g] = "ended"]
  /\ \E m \in LastWords(g) : said' = [said EXCEPT ![g] = Append(@, m)]
  /\ engineFrame

EngineCrashes(g) ==
  /\ Crashes /\ engine[g] = "up"
  /\ engine' = [engine EXCEPT ![g] = "ended"]
  /\ UNCHANGED said
  /\ engineFrame

-----------------------------------------------------------------------------
(* LMON_fetofe_watchdog_thread.                                             *)

Message(g) == said[g][got[g]]

watchdogFrame == UNCHANGED <<ptrIndex, op, slot, at, launching, calls, rc,
                   engineVars, slotOf, open>>

\* A message header arrives.  A read that was blocked when the socket was
\* closed still returns it; the next one fails.
WdReads(g) ==
  /\ wd[g] = "reading" /\ got[g] < Len(said[g])
  /\ got' = [got EXCEPT ![g] = @ + 1]
  /\ wd' = [wd EXCEPT ![g] = IF said[g][got[g] + 1] # "spawned" THEN "locking"
                             ELSE IF g \in open THEN "reading" ELSE "done"]
  /\ UNCHANGED <<desc, mutex, signalled>>
  /\ watchdogFrame

\* read_lmonp_msgheader fails: the engine is gone, or the socket was closed.
WdDisconnected(g) ==
  /\ wd[g] = "reading"
  /\ g \notin open \/ (engine[g] = "ended" /\ got[g] = Len(said[g]))
  /\ wd' = [wd EXCEPT ![g] = "done"]
  /\ UNCHANGED <<desc, mutex, signalled, got>>
  /\ watchdogFrame

WdLocks(g) ==
  /\ wd[g] = "locking" /\ mutex[slotOf[g]] = Free
  /\ mutex' = [mutex EXCEPT ![slotOf[g]] = g]
  /\ wd' = [wd EXCEPT ![g] = "locked"]
  /\ UNCHANGED <<desc, signalled, got>>
  /\ watchdogFrame

\* Mistake: the job's end leaves the mutex locked.
WdUnlocksUnlessExit(g, next) ==
  /\ mutex' = IF Message(g) = "exited" THEN mutex
              ELSE [mutex EXCEPT ![slotOf[g]] = Free]
  /\ wd' = [wd EXCEPT ![g] = next]
  /\ UNCHANGED got
  /\ watchdogFrame

\* The end of every case of the switch: unlock, and read on or exit.
WdUnlocks(g, next) ==
  /\ mutex' = [mutex EXCEPT ![slotOf[g]] = Free]
  /\ wd' = [wd EXCEPT ![g] = next]
  /\ UNCHANGED got
  /\ watchdogFrame

Signal(s) == signalled' = (signalled \/ (at = "waiting" /\ slot = s))

Handles(g, ms) == wd[g] = "locked" /\ Message(g) \in ms

Payloads == {"proctable_avail", "resourcehandle_avail", "rminfo"}

\* LMON_handle_proctab_event, then spawned.
WdProctab(g) ==
  /\ Handles(g, {"proctable_avail"}) /\ g \in open
  /\ desc' = [desc EXCEPT ![slotOf[g]].proctab = TRUE, ![slotOf[g]].spawned = TRUE]
  /\ Signal(slotOf[g])
  /\ WdUnlocks(g, "reading")

\* LMON_handle_resourcehandle_event, LMON_handle_rminfo_event
WdStores(g) ==
  /\ g \in open
  /\ \/ Handles(g, {"resourcehandle_avail"}) /\ desc' = [desc EXCEPT ![slotOf[g]].rid = TRUE]
     \/ Handles(g, {"rminfo"}) /\ desc' = [desc EXCEPT ![slotOf[g]].rm = TRUE]
  /\ UNCHANGED signalled
  /\ WdUnlocks(g, "reading")

\* The payload cannot be read: the socket was closed, or the engine died.
WdPayloadFails(g) ==
  /\ Handles(g, Payloads) /\ (g \notin open \/ engine[g] = "ended")
  /\ UNCHANGED <<desc, signalled>>
  /\ WdUnlocks(g, "done")

WdDetached(g) ==
  /\ Handles(g, {"detach_done", "stop_tracing"})
  /\ desc' = [desc EXCEPT ![slotOf[g]].detached = TRUE]
  /\ Signal(slotOf[g])
  /\ WdUnlocks(g, "done")

WdDaemonsExited(g) ==
  /\ Handles(g, {"bedmon_exited"})
  /\ desc' = [desc EXCEPT ![slotOf[g]].detached = TRUE, ![slotOf[g]].spawned = FALSE]
  /\ Signal(slotOf[g])
  /\ WdUnlocks(g, "done")

WdKilled(g) ==
  /\ Handles(g, {"kill_done"})
  /\ desc' = [desc EXCEPT ![slotOf[g]].killed = TRUE]
  /\ Signal(slotOf[g])
  /\ WdUnlocks(g, "done")

\* The job ended by itself: killed, but the condition is not signalled.
WdJobEnded(g) ==
  /\ Handles(g, JobEnds)
  /\ desc' = [desc EXCEPT ![slotOf[g]].killed = TRUE]
  /\ UNCHANGED signalled
  /\ WdUnlocks(g, "done")

Watchdog(g) ==
  \/ WdReads(g) \/ WdDisconnected(g) \/ WdLocks(g)
  \/ WdProctab(g) \/ WdStores(g) \/ WdPayloadFails(g)
  \/ WdDetached(g) \/ WdDaemonsExited(g) \/ WdKilled(g) \/ WdJobEnded(g)

-----------------------------------------------------------------------------
(* The main thread.                                                         *)

mainFrame == UNCHANGED <<slotOf, engineVars, watchdogVars>>

\* The tool calls o on session s.  It launches once per session.  Unless writes
\* may fail it makes requests only of an engine it is connected to, and unless
\* the middleware's handshake may fail it launches that for a created session.
Call(o, s) ==
  /\ at = "idle" /\ calls < MaxCalls
  /\ o = "create" => s = ptrIndex
  /\ o \in Spawns => desc[s].eng = 0 /\ \E g \in Engines : engine[g] = "none"
  /\ o \in Controls /\ ~ShortWrites => desc[s].eng # 0
  /\ o = "mw" /\ ~MwMayFail => desc[s].registered
  /\ op' = o /\ slot' = s /\ at' = "lock" /\ calls' = calls + 1
  /\ UNCHANGED <<ptrIndex, desc, mutex, launching, signalled, rc, open>>
  /\ mainFrame

\* The call gets the mutex of its session.
Enters(o) == at = "lock" /\ op = o /\ mutex[slot] = Free

callFrame == UNCHANGED <<op, slot, launching, signalled, calls>>

Goes(next) == at' = next /\ UNCHANGED rc /\ callFrame

Return(code) ==
  /\ at' = "idle"
  /\ rc' = [op |-> op, code |-> code, eng |-> desc[slot].eng]
  /\ callFrame

\* Mistake: the index is not wrapped around.
NextIndexNoWrap == ptrIndex + 1

NextIndex == (ptrIndex + 1) % MaxSession

\* LMON_fe_createSession: after the index has wrapped around, lrc is left at
\* its initial LMON_EINVAL, or set to it, although the session was granted.
LMON_fe_createSession ==
  /\ Enters("create")
  /\ \/ /\ desc[slot].registered
        /\ Return("EINVAL")
        /\ UNCHANGED <<desc, ptrIndex>>
     \/ /\ ~desc[slot].registered
        /\ desc' = [desc EXCEPT ![slot].registered = TRUE]
        /\ ptrIndex' = NextIndex
        /\ Return(IF ptrIndex + 1 = MaxSession THEN "EINVAL" ELSE "OK")
     \/ /\ ~desc[slot].registered
        /\ Return("ESYS")
        /\ UNCHANGED <<desc, ptrIndex>>
  /\ UNCHANGED <<mutex, open>>
  /\ mainFrame

\* LMON_fe_launchAndSpawnDaemons and LMON_fe_attachAndSpawnDaemons up to fork.
SpawnForks(o) ==
  /\ Enters(o) /\ o \in Spawns
  /\ \/ /\ ~desc[slot].registered
        /\ Return("EBDARG")
        /\ UNCHANGED <<engine, slotOf>>
     \/ /\ desc[slot].registered
        /\ \E g \in Engines :
             /\ engine[g] = "none" /\ \A h \in 1 .. g - 1 : engine[h] # "none"
             /\ engine' = [engine EXCEPT ![g] = "starting"]
             /\ slotOf' = [slotOf EXCEPT ![g] = slot]
             /\ launching' = g
        /\ at' = "accept"
        /\ UNCHANGED <<op, slot, signalled, calls, rc>>
  /\ UNCHANGED <<ptrIndex, desc, mutex, said, asked, watchdogVars, open>>

Accepts(state) ==
  /\ at = "accept"
  /\ engine' = [engine EXCEPT ![launching] = state]
  /\ UNCHANGED <<ptrIndex, mutex, said, asked, slotOf, got>>

Connected ==
  /\ desc' = [desc EXCEPT ![slot].eng = launching]
  /\ open' = open \cup {launching}

\* LMON_fe_acceptEngine succeeds and the watchdog is created.
EngineAccepted ==
  /\ Accepts("up") /\ Connected
  /\ wd' = [wd EXCEPT ![launching] = "reading"]
  /\ Goes("spawnwait")

\* No engine in time; one whose acknowledgement is missing or bad; or no
\* thread for the watchdog.
EngineNotAccepted ==
  /\ \/ Accepts("ended") /\ Return("ETOUT") /\ UNCHANGED <<desc, open>>
     \/ Accepts("ended") /\ Connected /\ (Return("ESYS") \/ Return("EINVAL"))
     \/ Accepts("up") /\ Connected /\ Return("ESYS")
  /\ UNCHANGED wd

\* The wait for the engine to find the job.
SpawnWaits ==
  /\ at = "spawnwait" /\ mutex[slot] = Free
  /\ at' = IF desc[slot].spawned THEN "spawned" ELSE "waiting"
  /\ signalled' = FALSE
  /\ UNCHANGED <<ptrIndex, desc, mutex, op, slot, launching, calls, rc, open>>
  /\ mainFrame

\* pthread_cond_timedwait returns, with the mutex.
WakesUp == at = "waiting" /\ mutex[slot] = Free /\ (signalled \/ Spurious)
TimesOut == at = "waiting" /\ mutex[slot] = Free /\ Timeouts /\ ~signalled

SpawnWakes ==
  /\ op \in Spawns
  /\ \/ WakesUp /\ Goes("spawned")
     \/ TimesOut /\ Return("ETOUT")
  /\ UNCHANGED <<ptrIndex, desc, mutex, open>>
  /\ mainFrame

\* Attaching looks at spawned again, without the mutex; launching does not.
SpawnProceeds ==
  /\ at = "spawned"
  /\ IF op = "attach" /\ ~desc[slot].spawned
     THEN Return("EBUG")
     ELSE Goes("be_accept")
  /\ UNCHANGED <<ptrIndex, desc, mutex, open>>
  /\ mainFrame

\* LMON_fe_beHandshakeSequence, in the order of what it waits for: the master
\* daemon's connection, security check and host names; the table is sent; the
\* daemon's lmonp_befe_cont_launch_bp, which is passed on to the engine; its
\* ready message.  Nothing here holds the mutex.
BeHandshake ==
  /\ \/ at = "be_accept" /\ Goes("be_table")
     \/ at = "be_table" /\ IF desc[slot].proctab THEN Goes("be_cont") ELSE Return("EBUG")
     \/ at = "be_cont" /\ Goes("be_ready")
     \/ at = "be_ready" /\ Return("OK")
  /\ UNCHANGED <<ptrIndex, desc, mutex, open>>
  /\ mainFrame

BeHandshakeFails ==
  /\ at \in {"be_accept", "be_table", "be_cont", "be_ready"}
  /\ Return("ESYS") \/ Return("EBDMSG") \/ (at = "be_accept" /\ Return("ETOUT"))
  /\ UNCHANGED <<ptrIndex, desc, mutex, open>>
  /\ mainFrame

\* The flag LMON_fe_detach, LMON_fe_kill and LMON_fe_shutdownDaemons wait for.
Awaited == IF op = "kill" THEN desc[slot].killed ELSE desc[slot].detached

\* Mistake: the descriptor keeps a flag of its last session.
ReinitKeepsFlag(d) == [LMON_init_sess EXCEPT !.detached = d.detached]

\* LMON_destroy_sess, then LMON_init_sess.
Reinit(d) == LMON_init_sess

\* The end of the three functions: detach keeps the session.
Finishes(code) ==
  /\ IF op = "detach" THEN UNCHANGED <<desc, open>>
     ELSE /\ desc' = [desc EXCEPT ![slot] = Reinit(@)]
          /\ open' = open \ {desc[slot].eng}
  /\ Return(code)

ControlRefused(o) ==
  /\ Enters(o)
  /\ \/ ~desc[slot].registered
     \/ o # "shutdown" /\ (desc[slot].detached \/ desc[slot].killed)
  /\ Return("EBDARG")
  /\ UNCHANGED <<ptrIndex, desc, mutex, open>>
  /\ mainFrame

ControlAdmitted(o) ==
  /\ Enters(o) /\ desc[slot].registered
  /\ o # "shutdown" => ~desc[slot].detached /\ ~desc[slot].killed

\* Mistake: nothing is waited for.
ControlWaitsNot(o) ==
  /\ ControlAdmitted(o) /\ desc[slot].eng # 0
  /\ asked' = [asked EXCEPT ![desc[slot].eng] =
                 IF @ = "none" /\ engine[desc[slot].eng] = "up" THEN o ELSE @]
  /\ Finishes("OK")
  /\ UNCHANGED <<ptrIndex, mutex, engine, said, slotOf, watchdogVars>>

\* The request is written; the call is over if the flag is set already.
ControlSends(o) ==
  /\ ControlAdmitted(o) /\ desc[slot].eng # 0
  /\ asked' = [asked EXCEPT ![desc[slot].eng] =
                 IF @ = "none" /\ engine[desc[slot].eng] = "up" THEN o ELSE @]
  /\ IF Awaited THEN Finishes("OK")
     ELSE /\ at' = "waiting" /\ signalled' = FALSE
          /\ UNCHANGED <<desc, open, op, slot, launching, calls, rc>>
  /\ UNCHANGED <<ptrIndex, mutex, engine, said, slotOf, watchdogVars>>

\* write_lmonp_long_msg does not write it all, there being no connection or
\* nobody at its other end: the early return leaves the mutex locked.
ControlShortWrite(o) ==
  /\ ControlAdmitted(o) /\ ShortWrites
  /\ desc[slot].eng \in {0} \cup {g \in Engines : engine[g] = "ended"}
  /\ mutex' = [mutex EXCEPT ![slot] = Main]
  /\ Return("EINVAL")
  /\ UNCHANGED <<ptrIndex, desc, open>>
  /\ mainFrame

\* Mistake: any signal will do.
ControlWakesOnce ==
  /\ op \in Controls /\ WakesUp
  /\ Finishes("OK")
  /\ UNCHANGED <<ptrIndex, mutex>>
  /\ mainFrame

\* The while loop around pthread_cond_timedwait.
ControlWakes ==
  /\ op \in Controls /\ WakesUp
  /\ IF Awaited THEN Finishes("OK")
     ELSE /\ signalled' = FALSE
          /\ UNCHANGED <<desc, open, op, slot, at, launching, calls, rc>>
  /\ UNCHANGED <<ptrIndex, mutex>>
  /\ mainFrame

ControlTimesOut ==
  /\ op \in Controls /\ TimesOut
  /\ Finishes("ETOUT")
  /\ UNCHANGED <<ptrIndex, mutex>>
  /\ mainFrame

\* LMON_fe_getProctable and LMON_fe_getProctableSize, LMON_fe_getResourceHandle,
\* LMON_fe_getRMInfo, LMON_fe_getStatus.
Answer(o) ==
  LET d == desc[slot] IN
  IF o = "getStatus" THEN "OK"
  ELSE IF ~d.registered THEN IF o = "getRMInfo" THEN "EINVAL" ELSE "EBDARG"
  ELSE IF \/ o = "getProctable" /\ d.spawned /\ d.proctab
          \/ o = "getResourceHandle" /\ d.spawned /\ d.rid
          \/ o = "getRMInfo" /\ d.rm
       THEN "OK" ELSE "EDUNAV"

Query(o) ==
  /\ Enters(o)
  /\ Return(Answer(o))
  /\ UNCHANGED <<ptrIndex, desc, mutex, open>>
  /\ mainFrame

\* LMON_fe_recvUsrDataBe: the mutex is held while the daemon's data is awaited.
\* EBDMSG stands for all its failures.
RecvEnters ==
  /\ Enters("recv")
  /\ IF desc[slot].registered
     THEN Goes("recv") /\ mutex' = [mutex EXCEPT ![slot] = Main]
     ELSE Return("EBDARG") /\ UNCHANGED mutex
  /\ UNCHANGED <<ptrIndex, desc, open>>
  /\ mainFrame

\* Mistake: an early return on a bad message.
RecvDoneEarly ==
  /\ at = "recv"
  /\ \/ Return("OK") /\ mutex' = [mutex EXCEPT ![slot] = Free]
     \/ Return("EBDMSG") /\ UNCHANGED mutex
  /\ UNCHANGED <<ptrIndex, desc, open>>
  /\ mainFrame

RecvDone ==
  /\ at = "recv"
  /\ Return("OK") \/ Return("EBDMSG")
  /\ mutex' = [mutex EXCEPT ![slot] = Free]
  /\ UNCHANGED <<ptrIndex, desc, open>>
  /\ mainFrame

\* Mistake: the session lock is not acquired.
MwEntersUnlocked ==
  /\ Enters("mw")
  /\ Goes("mw") \/ Return("NOTIMPL")
  /\ UNCHANGED <<ptrIndex, desc, mutex, open>>
  /\ mainFrame

\* LMON_fe_launchMwDaemons holds the mutex throughout the handshake, unless a
\* request is of a kind that is not implemented.
MwEnters ==
  /\ Enters("mw")
  /\ \/ Goes("mw") /\ mutex' = [mutex EXCEPT ![slot] = Main]
     \/ Return("NOTIMPL") /\ UNCHANGED mutex
  /\ UNCHANGED <<ptrIndex, desc, open>>
  /\ mainFrame

\* The handshake's LMON_fe_handleFeMwUsrData refuses a session not created.
MwDone ==
  /\ at = "mw" /\ desc[slot].registered
  /\ desc' = [desc EXCEPT ![slot].mw = TRUE]
  /\ mutex' = [mutex EXCEPT ![slot] = Free]
  /\ Return("OK")
  /\ UNCHANGED <<ptrIndex, open>>
  /\ mainFrame

\* When the handshake fails the mutex is unlocked, and unlocked again at
\* op_went_bad, whoever has it then.
MwFails ==
  /\ \/ at = "mw" /\ MwMayFail /\ Goes("mw_bad")
     \/ at = "mw_bad" /\ Return("EBDMSG")
  /\ mutex' = [mutex EXCEPT ![slot] = Free]
  /\ UNCHANGED <<ptrIndex, desc, open>>
  /\ mainFrame

MainStep ==
  \/ LMON_fe_createSession
  \/ \E o \in Spawns : SpawnForks(o)
  \/ EngineAccepted \/ EngineNotAccepted
  \/ SpawnWaits \/ SpawnWakes \/ SpawnProceeds
  \/ BeHandshake \/ BeHandshakeFails
  \/ \E o \in Controls : ControlRefused(o) \/ ControlSends(o) \/ ControlShortWrite(o)
  \/ ControlWakes \/ ControlTimesOut
  \/ \E o \in Queries : Query(o)
  \/ RecvEnters \/ RecvDone
  \/ MwEnters \/ MwDone \/ MwFails

Next ==
  \/ \E g \in Engines : EngineShips(g) \/ EngineEnds(g) \/ EngineCrashes(g)
  \/ \E g \in Engines : Watchdog(g)
  \/ \E o \in Ops : \E s \in Slots : Call(o, s)
  \/ MainStep

Spec == Init /\ [][Next]_vars

\* Threads that can run do, deadlines pass, and daemons answer or disconnect.
FairSpec == Spec /\ WF_vars(MainStep) /\ \A g \in Engines : WF_vars(Watchdog(g))

-----------------------------------------------------------------------------
(* Properties.                                                              *)

MainHolds(s) == at \in {"recv", "mw"} /\ slot = s
WatchdogHolds(g, s) == wd[g] = "locked" /\ slotOf[g] = s

\* eventMutex does its work: no two threads are between its lock and unlock
\* for the same session, the main thread and any number of watchdogs included.
MutualExclusion ==
  \A s \in Slots : \A g \in Engines : WatchdogHolds(g, s) =>
    ~MainHolds(s) /\ \A h \in Engines \ {g} : ~WatchdogHolds(h, s)

\* LMON_fe_detach, LMON_fe_kill, LMON_fe_shutdownDaemons: at their end all
\* locks must have been released, and so for every other call.
LocksReleased == at = "idle" => \A s \in Slots : mutex[s] # Main

Heard(g) == {said[g][i] : i \in 1 .. got[g]}

\* A call that returns LMON_OK does so because the engine of its own session
\* said so: the job is dead after a kill, detached from after the other two.
AnswerIsEngines ==
  rc.code = "OK" =>
    /\ rc.op = "kill" => Heard(rc.eng) \cap (JobEnds \cup {"kill_done"}) # {}
    /\ rc.op \in {"detach", "shutdown"} => Heard(rc.eng) \cap Detachments # {}

\* A descriptor that can be granted carries nothing of an earlier session:
\* LMON_fe_createSession sets registered and resets nothing.
FreshSession == \A s \in Slots : ~desc[s].registered => desc[s] = LMON_init_sess

\* LMON_fetofe_watchdog_thread: while the per-session watchdog thread is alive,
\* the session descriptor cannot be destroyed and re-initialized.
WatchdogGoneBeforeReinit ==
  [][\A s \in Slots : desc[s].registered /\ ~desc'[s].registered =>
       \A g \in Engines : slotOf[g] = s => wd[g] \in {"none", "done"}]_vars

\* Every call returns to the tool, whatever the engine and the daemons do.
CallReturns == (at # "idle") ~> (at = "idle")
=============================================================================
