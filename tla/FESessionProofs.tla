--------------------------- MODULE FESessionProofs ---------------------------
(***************************************************************************)
(* Theorems about the front end, for any number of descriptors, engines    *)
(* and calls.                                                              *)
(***************************************************************************)
EXTENDS FESession, TLAPS

USE DEF mainVars, engineVars, watchdogVars

-----------------------------------------------------------------------------
(* Type correctness.                                                        *)

LEMMA ResultType ==
  ASSUME TypeOK, NEW code \in Codes, Return(code)
  PROVE  /\ rc' \in Results /\ at' = "idle"
         /\ UNCHANGED <<op, slot, launching, signalled, calls>>
<1>1. desc[slot] \in Descriptors
  BY DEF TypeOK
<1>2. desc[slot].eng \in 0 .. MaxEngines
  BY <1>1 DEF Descriptors
<1> QED
  BY <1>2 DEF Return, callFrame, Results, TypeOK

LEMMA GoesType ==
  ASSUME TypeOK, NEW next, Goes(next)
  PROVE  /\ rc' \in Results /\ at' = next
         /\ UNCHANGED <<op, slot, launching, signalled, calls>>
BY DEF Goes, callFrame, TypeOK

LEMMA InitSessType == LMON_init_sess \in Descriptors
BY FEAssumption DEF LMON_init_sess, Descriptors

\* What a descriptor's owner writes keeps its type.
LEMMA FlagsType ==
  ASSUME TypeOK, NEW s \in Slots
  PROVE  LET D == [Slots -> Descriptors] IN
         /\ [desc EXCEPT ![s].registered = TRUE] \in D
         /\ [desc EXCEPT ![s].proctab = TRUE, ![s].spawned = TRUE] \in D
         /\ [desc EXCEPT ![s].rid = TRUE] \in D
         /\ [desc EXCEPT ![s].rm = TRUE] \in D
         /\ [desc EXCEPT ![s].mw = TRUE] \in D
         /\ [desc EXCEPT ![s].killed = TRUE] \in D
         /\ [desc EXCEPT ![s].detached = TRUE] \in D
         /\ [desc EXCEPT ![s].detached = TRUE, ![s].spawned = FALSE] \in D
         /\ [desc EXCEPT ![s].eng = launching] \in D
         /\ [desc EXCEPT ![s] = LMON_init_sess] \in D
<1>1. desc \in [Slots -> Descriptors] /\ launching \in 0 .. MaxEngines
  BY DEF TypeOK
<1> QED
  BY <1>1, InitSessType DEF Descriptors

LEMMA InitType == Init => TypeOK
<1> SUFFICES ASSUME Init PROVE TypeOK
  OBVIOUS
<1>1. 0 \in Slots
  BY FEAssumption DEF Slots
<1>2. desc \in [Slots -> Descriptors]
  BY InitSessType DEF Init
<1>3. rc \in Results
  BY FEAssumption DEF Init, Results, AllOps, Codes
<1>4. said \in [Engines -> Seq(FEMessages)]
  BY DEF Init
<1>5. /\ mutex \in [Slots -> -1 .. MaxEngines]
      /\ launching \in 0 .. MaxEngines /\ calls \in 0 .. MaxCalls
  BY FEAssumption DEF Init, Free
<1> QED
  BY <1>1, <1>2, <1>3, <1>4, <1>5 DEF Init, TypeOK, AllOps, Places

LEMMA EngineType ==
  ASSUME TypeOK, NEW g \in Engines,
         EngineShips(g) \/ EngineEnds(g) \/ EngineCrashes(g)
  PROVE  TypeOK'
<1> USE DEF engineFrame
<1>1. CASE EngineShips(g)
  <2>1. Len(said[g]) \in Nat /\ said[g] \in Seq(FEMessages)
    BY DEF TypeOK
  <2>2. Len(said[g]) + 1 \in 1 .. 4
    BY <1>1, <2>1 DEF EngineShips, Script
  <2>3. Script[Len(said[g]) + 1] \in FEMessages
    BY <2>2 DEF Script, FEMessages
  <2>4. Append(said[g], Script[Len(said[g]) + 1]) \in Seq(FEMessages)
    BY <2>1, <2>3
  <2>5. said' \in [Engines -> Seq(FEMessages)]
    BY <1>1, <2>4 DEF EngineShips, TypeOK
  <2> QED
    BY <1>1, <2>5 DEF EngineShips, TypeOK
<1>2. CASE EngineEnds(g)
  <2>1. PICK m \in LastWords(g) : said' = [said EXCEPT ![g] = Append(@, m)]
    BY <1>2 DEF EngineEnds
  <2>2. m \in FEMessages
    BY DEF LastWords, FEMessages, JobEnds, Detachments
  <2>3. Append(said[g], m) \in Seq(FEMessages)
    BY <2>2 DEF TypeOK
  <2>4. said' \in [Engines -> Seq(FEMessages)]
    BY <2>1, <2>3 DEF TypeOK
  <2> QED
    BY <1>2, <2>4 DEF EngineEnds, TypeOK
<1>3. CASE EngineCrashes(g)
  BY <1>3 DEF EngineCrashes, TypeOK
<1> QED
  BY <1>1, <1>2, <1>3

LEMMA UnlockType ==
  ASSUME TypeOK, NEW g \in Engines, NEW next \in {"reading", "done"},
         WdUnlocks(g, next), desc' \in [Slots -> Descriptors],
         signalled' \in BOOLEAN
  PROVE  TypeOK'
<1>1. Free \in -1 .. MaxEngines
  BY FEAssumption DEF Free
<1>2. mutex' \in [Slots -> -1 .. MaxEngines]
  BY <1>1 DEF WdUnlocks, TypeOK
<1>3. wd' \in [Engines -> {"none", "reading", "locking", "locked", "done"}]
  BY DEF WdUnlocks, TypeOK
<1> QED
  BY <1>2, <1>3 DEF WdUnlocks, watchdogFrame, TypeOK

LEMMA WatchdogType ==
  ASSUME TypeOK, NEW g \in Engines, Watchdog(g)
  PROVE  TypeOK'
<1>0. slotOf[g] \in Slots /\ \A s \in Slots : Signal(s) => signalled' \in BOOLEAN
  BY DEF TypeOK, Signal
<1>1. CASE WdReads(g)
  BY <1>1 DEF WdReads, watchdogFrame, TypeOK
<1>2. CASE WdDisconnected(g)
  BY <1>2 DEF WdDisconnected, watchdogFrame, TypeOK
<1>3. CASE WdLocks(g)
  <2>1. g \in -1 .. MaxEngines
    BY FEAssumption DEF Engines
  <2>2. mutex' \in [Slots -> -1 .. MaxEngines]
    BY <1>3, <2>1 DEF WdLocks, TypeOK
  <2>3. wd' \in [Engines -> {"none", "reading", "locking", "locked", "done"}]
    BY <1>3 DEF WdLocks, TypeOK
  <2> QED
    BY <1>3, <2>2, <2>3 DEF WdLocks, watchdogFrame, TypeOK
<1>4. CASE WdProctab(g)
  BY <1>0, <1>4, FlagsType, UnlockType DEF WdProctab
<1>5. CASE WdStores(g)
  <2>1. signalled' \in BOOLEAN
    BY <1>5 DEF WdStores, TypeOK
  <2>2. [desc EXCEPT ![slotOf[g]].rid = TRUE] \in [Slots -> Descriptors]
    BY <1>0, FlagsType
  <2>3. [desc EXCEPT ![slotOf[g]].rm = TRUE] \in [Slots -> Descriptors]
    BY <1>0, FlagsType
  <2>4. desc' \in [Slots -> Descriptors]
    BY <1>5, <2>2, <2>3, Zenon DEF WdStores
  <2> QED
    BY <1>5, <2>1, <2>4, UnlockType DEF WdStores
<1>6. CASE WdPayloadFails(g)
  <2>1. signalled' \in BOOLEAN /\ desc' \in [Slots -> Descriptors]
    BY <1>6 DEF WdPayloadFails, TypeOK
  <2> QED
    BY <1>6, <2>1, UnlockType DEF WdPayloadFails
<1>7. CASE WdDetached(g)
  BY <1>0, <1>7, FlagsType, UnlockType DEF WdDetached
<1>8. CASE WdDaemonsExited(g)
  BY <1>0, <1>8, FlagsType, UnlockType DEF WdDaemonsExited
<1>9. CASE WdKilled(g)
  BY <1>0, <1>9, FlagsType, UnlockType DEF WdKilled
<1>10. CASE WdJobEnded(g)
  <2>1. signalled' \in BOOLEAN
    BY <1>10 DEF WdJobEnded, TypeOK
  <2> QED
    BY <1>0, <1>10, <2>1, FlagsType, UnlockType DEF WdJobEnded
<1> QED
  BY <1>1, <1>2, <1>3, <1>4, <1>5, <1>6, <1>7, <1>8, <1>9, <1>10 DEF Watchdog

LEMMA MutexType ==
  ASSUME TypeOK
  PROVE  \A s \in Slots :
           /\ [mutex EXCEPT ![s] = Main] \in [Slots -> -1 .. MaxEngines]
           /\ [mutex EXCEPT ![s] = Free] \in [Slots -> -1 .. MaxEngines]
BY FEAssumption DEF TypeOK, Main, Free

LEMMA CallType ==
  ASSUME TypeOK, NEW o \in Ops, NEW s \in Slots, Call(o, s)
  PROVE  TypeOK'
<1>1. calls' \in 0 .. MaxCalls
  BY FEAssumption DEF Call, TypeOK
<1>2. op' \in AllOps /\ slot' \in Slots /\ at' \in Places
  BY FEAssumption DEF Call, Places
<1> QED
  BY <1>1, <1>2 DEF Call, mainFrame, TypeOK

LEMMA FinishesType ==
  ASSUME TypeOK, NEW code \in Codes, Finishes(code)
  PROVE  /\ desc' \in [Slots -> Descriptors] /\ open' \subseteq Engines
         /\ rc' \in Results /\ at' = "idle"
         /\ UNCHANGED <<op, slot, launching, signalled, calls>>
<1>1. slot \in Slots /\ desc \in [Slots -> Descriptors] /\ open \subseteq Engines
  BY SMTT(30) DEF TypeOK
<1>2. [desc EXCEPT ![slot] = LMON_init_sess] \in [Slots -> Descriptors]
  BY <1>1, FlagsType, Zenon
<1>3. Return(code)
  BY DEF Finishes
<1>4. desc' \in [Slots -> Descriptors] /\ open' \subseteq Engines
  BY <1>1, <1>2 DEF Finishes, Reinit
<1> QED
  BY <1>3, <1>4, ResultType
\* LMON_fe_acceptEngine is entered for an engine that was forked.
Launched == at = "accept" => launching \in Engines

TypeInv == TypeOK /\ Launched

LEMMA SpawnType ==
  ASSUME TypeInv,
         \/ \E o \in Spawns : SpawnForks(o)
         \/ EngineAccepted \/ EngineNotAccepted
         \/ SpawnWaits \/ SpawnWakes \/ SpawnProceeds
  PROVE  TypeOK'
<1>0. TypeOK /\ slot \in Slots
  BY DEF TypeInv, TypeOK
<1>1. ASSUME NEW o \in Spawns, SpawnForks(o) PROVE TypeOK'
  <2>1. CASE desc[slot].registered
    <3>1. launching' \in 0 .. MaxEngines
      BY <1>1, <2>1, FEAssumption DEF SpawnForks, Return, Engines
    <3>2. /\ engine' \in [Engines -> {"none", "starting", "up", "ended"}]
          /\ slotOf' \in [Engines -> Slots]
      BY <1>0, <1>1, <2>1, ZenonT(60) DEF SpawnForks, TypeOK
    <3> QED
      BY <1>0, <1>1, <2>1, <3>1, <3>2 DEF SpawnForks, TypeOK, Places
  <2>2. CASE ~desc[slot].registered
    <3>1. Return("EBDARG") /\ UNCHANGED <<engine, slotOf>>
      BY <1>1, <2>2 DEF SpawnForks
    <3>2. "EBDARG" \in Codes
      BY DEF Codes
    <3> QED
      BY <1>0, <1>1, <3>1, <3>2, ResultType DEF SpawnForks, TypeOK, Places
  <2> QED
    BY <2>1, <2>2
<1>2. ASSUME NEW state \in {"up", "ended"}, Accepts(state)
      PROVE  engine' \in [Engines -> {"none", "starting", "up", "ended"}]
  BY <1>0, <1>2 DEF Accepts, TypeOK
<1>3. ASSUME Connected, at = "accept"
      PROVE  desc' \in [Slots -> Descriptors] /\ open' \subseteq Engines
  <2>1. [desc EXCEPT ![slot].eng = launching] \in [Slots -> Descriptors]
    BY <1>0, FlagsType
  <2> QED
    BY <1>0, <1>3, <2>1 DEF Connected, TypeInv, Launched, TypeOK
<1>4. CASE EngineAccepted
  <2>1. /\ engine' \in [Engines -> {"none", "starting", "up", "ended"}]
        /\ desc' \in [Slots -> Descriptors] /\ open' \subseteq Engines
    BY <1>2, <1>3, <1>4 DEF EngineAccepted, Accepts
  <2>2. wd' \in [Engines -> {"none", "reading", "locking", "locked", "done"}]
    BY <1>0, <1>4 DEF EngineAccepted, TypeOK
  <2>3. Goes("spawnwait")
    BY <1>4 DEF EngineAccepted
  <2> QED
    BY <1>0, <1>4, <2>1, <2>2, <2>3, GoesType DEF EngineAccepted, Accepts, TypeOK, Places
<1>5. CASE EngineNotAccepted
  <2>1. engine' \in [Engines -> {"none", "starting", "up", "ended"}]
    BY <1>2, <1>5 DEF EngineNotAccepted
  <2>2. desc' \in [Slots -> Descriptors] /\ open' \subseteq Engines
    <3>1. at = "accept"
      BY <1>5 DEF EngineNotAccepted, Accepts
    <3>2. Connected \/ UNCHANGED <<desc, open>>
      BY <1>5 DEF EngineNotAccepted
    <3>3. CASE Connected
      BY <1>3, <3>1, <3>3
    <3>4. CASE UNCHANGED <<desc, open>>
      BY <1>0, <3>4 DEF TypeOK
    <3> QED
      BY <3>2, <3>3, <3>4
  <2>3. \E code \in Codes : Return(code)
    BY <1>5 DEF EngineNotAccepted, Codes
  <2>4. /\ rc' \in Results /\ at' = "idle"
        /\ UNCHANGED <<op, slot, launching, signalled, calls>>
    BY <1>0, <2>3, ResultType
  <2>5. UNCHANGED <<ptrIndex, mutex, said, asked, slotOf, got, wd>>
    BY <1>5 DEF EngineNotAccepted, Accepts
  <2> QED
    BY <1>0, <2>1, <2>2, <2>4, <2>5 DEF TypeOK, Places
<1>6. CASE SpawnWaits
  BY <1>0, <1>6 DEF SpawnWaits, mainFrame, TypeOK, Places
<1>7. CASE SpawnWakes
  <2>1. CASE Goes("spawned")
    BY <1>0, <1>7, <2>1, GoesType DEF SpawnWakes, mainFrame, TypeOK, Places
  <2>2. CASE Return("ETOUT")
    <3>1. "ETOUT" \in Codes
      BY DEF Codes
    <3> QED
      BY <1>0, <1>7, <2>2, <3>1, ResultType DEF SpawnWakes, mainFrame, TypeOK, Places
  <2> QED
    BY <1>7, <2>1, <2>2 DEF SpawnWakes
<1>8. CASE SpawnProceeds
  <2>1. CASE Goes("be_accept")
    BY <1>0, <1>8, <2>1, GoesType DEF SpawnProceeds, mainFrame, TypeOK, Places
  <2>2. CASE Return("EBUG")
    <3>1. "EBUG" \in Codes
      BY DEF Codes
    <3> QED
      BY <1>0, <1>8, <2>2, <3>1, ResultType DEF SpawnProceeds, mainFrame, TypeOK, Places
  <2> QED
    BY <1>8, <2>1, <2>2 DEF SpawnProceeds
<1> QED
  BY <1>1, <1>4, <1>5, <1>6, <1>7, <1>8
\* A step that moves on in its call, or returns, and leaves the rest alone.
LEMMA MoveType ==
  ASSUME TypeOK, mainFrame, UNCHANGED <<ptrIndex, open>>,
         desc' \in [Slots -> Descriptors], mutex' \in [Slots -> -1 .. MaxEngines],
         (\E code \in Codes : Return(code)) \/ (\E next \in Places : Goes(next))
  PROVE  TypeOK'
<1>1. rc' \in Results /\ at' \in Places
  BY ResultType, GoesType DEF Places
<1>2. UNCHANGED <<op, slot, launching, signalled, calls>>
  BY ResultType, GoesType
<1> QED
  BY <1>1, <1>2 DEF mainFrame, TypeOK

LEMMA ControlType ==
  ASSUME TypeOK, NEW o \in Controls,
         ControlRefused(o) \/ ControlSends(o) \/ ControlShortWrite(o)
  PROVE  TypeOK'
<1>0. slot \in Slots /\ UNCHANGED desc => desc' \in [Slots -> Descriptors]
  BY DEF TypeOK
<1>1. CASE ControlRefused(o)
  <2>1. \E code \in Codes : Return(code)
    BY <1>1 DEF ControlRefused, Codes
  <2> QED
    BY <1>1, <2>1, MoveType DEF ControlRefused, TypeOK
<1>2. CASE ControlSends(o)
  <2>1. asked' \in [Engines -> {"none"} \cup Controls]
    BY <1>2 DEF ControlSends, TypeOK
  <2>2. /\ desc' \in [Slots -> Descriptors] /\ open' \subseteq Engines
        /\ rc' \in Results /\ at' \in Places /\ signalled' \in BOOLEAN
        /\ UNCHANGED <<op, slot, launching, calls>>
    <3>1. CASE Awaited
      <4>1. Finishes("OK") /\ "OK" \in Codes
        BY <1>2, <3>1 DEF ControlSends, Codes
      <4> QED
        BY <4>1, FinishesType DEF TypeOK, Places
    <3>2. CASE ~Awaited
      BY <1>2, <3>2 DEF ControlSends, TypeOK, Places
    <3> QED
      BY <3>1, <3>2
  <2> QED
    BY <1>2, <2>1, <2>2 DEF ControlSends, TypeOK
<1>3. CASE ControlShortWrite(o)
  <2>1. \E code \in Codes : Return(code)
    BY <1>3 DEF ControlShortWrite, Codes
  <2>2. mutex' \in [Slots -> -1 .. MaxEngines]
    BY <1>0, <1>3, MutexType DEF ControlShortWrite, TypeOK
  <2> QED
    BY <1>3, <2>1, <2>2, MoveType DEF ControlShortWrite, TypeOK
<1> QED
  BY <1>1, <1>2, <1>3

LEMMA WaitType ==
  ASSUME TypeOK, ControlWakes \/ ControlTimesOut
  PROVE  TypeOK'
<1>1. CASE ControlWakes /\ ~Awaited
  BY <1>1 DEF ControlWakes, mainFrame, TypeOK
<1>2. CASE (ControlWakes /\ Awaited) \/ ControlTimesOut
  <2>1. \E code \in Codes : Finishes(code)
    BY <1>2 DEF ControlWakes, ControlTimesOut, Codes
  <2>2. /\ desc' \in [Slots -> Descriptors] /\ open' \subseteq Engines
        /\ rc' \in Results /\ at' = "idle"
        /\ UNCHANGED <<op, slot, launching, signalled, calls>>
    BY <2>1, FinishesType
  <2> QED
    BY <1>2, <2>2 DEF ControlWakes, ControlTimesOut, mainFrame, TypeOK, Places
<1> QED
  BY <1>1, <1>2

LEMMA OtherType ==
  ASSUME TypeOK,
         \/ BeHandshake \/ BeHandshakeFails
         \/ \E o \in Queries : Query(o)
         \/ RecvEnters \/ RecvDone \/ MwEnters \/ MwDone \/ MwFails
  PROVE  TypeOK'
<1>0. /\ slot \in Slots
      /\ UNCHANGED desc => desc' \in [Slots -> Descriptors]
      /\ UNCHANGED mutex => mutex' \in [Slots -> -1 .. MaxEngines]
      /\ mutex' = [mutex EXCEPT ![slot] = Main] => mutex' \in [Slots -> -1 .. MaxEngines]
      /\ mutex' = [mutex EXCEPT ![slot] = Free] => mutex' \in [Slots -> -1 .. MaxEngines]
  BY MutexType DEF TypeOK
<1>1. CASE BeHandshake
  BY <1>0, <1>1, MoveType DEF BeHandshake, Codes, Places
<1>2. CASE BeHandshakeFails
  BY <1>0, <1>2, MoveType DEF BeHandshakeFails, Codes
<1>3. ASSUME NEW o \in Queries, Query(o) PROVE TypeOK'
  <2>1. Answer(o) \in Codes
    BY DEF Answer, Codes
  <2> QED
    BY <1>0, <1>3, <2>1, MoveType DEF Query
<1>4. CASE RecvEnters
  BY <1>0, <1>4, MoveType DEF RecvEnters, Codes, Places
<1>5. CASE RecvDone
  BY <1>0, <1>5, MoveType DEF RecvDone, Codes
<1>6. CASE MwEnters
  BY <1>0, <1>6, MoveType DEF MwEnters, Codes, Places
<1>7. CASE MwDone
  <2>1. desc' \in [Slots -> Descriptors]
    BY <1>0, <1>7, FlagsType DEF MwDone
  <2> QED
    BY <1>0, <1>7, <2>1, MoveType DEF MwDone, Codes
<1>8. CASE MwFails
  BY <1>0, <1>8, MoveType DEF MwFails, Codes, Places
<1> QED
  BY <1>1, <1>2, <1>3, <1>4, <1>5, <1>6, <1>7, <1>8

LEMMA CreateType ==
  ASSUME TypeOK, LMON_fe_createSession
  PROVE  TypeOK'
<1>0. slot \in Slots /\ ptrIndex \in Slots /\ desc \in [Slots -> Descriptors]
  BY DEF TypeOK
<1>1. NextIndex \in Slots
  BY <1>0, FEAssumption, SMTT(30) DEF NextIndex, Slots
<1>2. [desc EXCEPT ![slot].registered = TRUE] \in [Slots -> Descriptors]
  BY <1>0, FlagsType, Zenon
<1>3. ptrIndex' \in Slots /\ desc' \in [Slots -> Descriptors]
  BY <1>0, <1>1, <1>2, Zenon DEF LMON_fe_createSession
<1>4. \E code \in Codes : Return(code)
  BY DEF LMON_fe_createSession, Codes
<1>5. /\ rc' \in Results /\ at' = "idle"
      /\ UNCHANGED <<op, slot, launching, signalled, calls>>
  BY <1>4, ResultType
<1> QED
  BY <1>3, <1>5 DEF LMON_fe_createSession, mainFrame, TypeOK, Places
LEMMA LaunchedStays ==
  ASSUME TypeInv, Next
  PROVE  Launched'
<1> USE DEF TypeInv, Launched
<1>0. \A code : Return(code) => at' # "accept"
  BY DEF Return
<1>1. ASSUME NEW g \in Engines,
             EngineShips(g) \/ EngineEnds(g) \/ EngineCrashes(g) \/ Watchdog(g)
      PROVE  Launched'
  <2>1. UNCHANGED <<at, launching>>
    BY <1>1 DEF EngineShips, EngineEnds, EngineCrashes, engineFrame, Watchdog,
         WdReads, WdDisconnected, WdLocks, WdProctab, WdStores, WdPayloadFails,
         WdDetached, WdDaemonsExited, WdKilled, WdJobEnded, WdUnlocks, watchdogFrame
  <2> QED
    BY <2>1
<1>2. ASSUME NEW o \in Ops, NEW s \in Slots, Call(o, s) PROVE Launched'
  BY <1>2 DEF Call
<1>3. ASSUME NEW o \in Spawns, SpawnForks(o) PROVE Launched'
  BY <1>0, <1>3 DEF SpawnForks
<1>4. CASE EngineAccepted \/ EngineNotAccepted \/ SpawnWaits \/ SpawnWakes
           \/ SpawnProceeds \/ BeHandshake \/ BeHandshakeFails
  <2>1. at' # "accept"
    BY <1>0, <1>4 DEF EngineAccepted, EngineNotAccepted, SpawnWaits, SpawnWakes,
         SpawnProceeds, BeHandshake, BeHandshakeFails, Goes
  <2> QED
    BY <2>1
<1>5. ASSUME NEW o \in Controls,
             ControlRefused(o) \/ ControlSends(o) \/ ControlShortWrite(o)
      PROVE  Launched'
  BY <1>0, <1>5 DEF ControlRefused, ControlSends, ControlShortWrite, Finishes
<1>6. CASE ControlWakes \/ ControlTimesOut
  BY <1>0, <1>6 DEF ControlWakes, ControlTimesOut, WakesUp, Finishes
<1>7. CASE LMON_fe_createSession \/ \E o \in Queries : Query(o)
  BY <1>0, <1>7 DEF LMON_fe_createSession, Query
<1>8. CASE RecvEnters \/ RecvDone \/ MwEnters \/ MwDone \/ MwFails
  BY <1>0, <1>8 DEF RecvEnters, RecvDone, MwEnters, MwDone, MwFails, Goes
<1> QED
  BY <1>1, <1>2, <1>3, <1>4, <1>5, <1>6, <1>7, <1>8 DEF Next, MainStep

LEMMA NextType ==
  ASSUME TypeInv, [Next]_vars
  PROVE  TypeInv'
<1>1. CASE Next
  <2>1. TypeOK'
    BY <1>1, EngineType, WatchdogType, CallType, SpawnType, ControlType, WaitType,
       OtherType, CreateType DEF Next, MainStep, TypeInv
  <2> QED
    BY <1>1, <2>1, LaunchedStays DEF TypeInv
<1>2. CASE UNCHANGED vars
  BY <1>2 DEF vars, TypeInv, TypeOK, Launched
<1> QED
  BY <1>1, <1>2

\* The types of the front end's state are kept by both threads and the engine:
\* in particular sessionPtrIndex stays inside the array of descriptors.
THEOREM TypeCorrect == Spec => []TypeOK
<1>1. Init => TypeInv
  BY InitType DEF Init, TypeInv, Launched
<1>2. TypeInv /\ [Next]_vars => TypeInv'
  BY NextType
<1>3. TypeInv => TypeOK
  BY DEF TypeInv
<1> QED
  BY <1>1, <1>2, <1>3, PTL DEF Spec

-----------------------------------------------------------------------------
(* The mutex of a session.                                                  *)

\* The shared data access policy of LMON_fetofe_watchdog_thread: of the locks a
\* watchdog takes, only its own routine releases them.
WatchdogKeepsLock ==
  \A g \in Engines : wd[g] = "locked" => mutex[slotOf[g]] = g

\* Whoever is in a critical section is who has the mutex.
LockInv ==
  /\ WatchdogKeepsLock
  /\ \A g \in Engines : engine[g] = "none" => wd[g] = "none"
  /\ at \in {"recv", "mw"} => mutex[slot] = Main
  /\ at # "mw_bad"

LEMMA LockStays ==
  ASSUME TypeInv, LockInv, Next, ~MwMayFail
  PROVE  LockInv'
<1> USE DEF LockInv, WatchdogKeepsLock
<1>t. /\ mutex \in [Slots -> -1 .. MaxEngines] /\ slot \in Slots
      /\ slotOf \in [Engines -> Slots]
      /\ wd \in [Engines -> {"none", "reading", "locking", "locked", "done"}]
      /\ engine \in [Engines -> {"none", "starting", "up", "ended"}]
      /\ Free # Main /\ \A g \in Engines : g # Free /\ g # Main
  BY DEF TypeInv, TypeOK, Engines, Free, Main
<1>0. \A code : Return(code) => at' = "idle" /\ UNCHANGED slot
  BY DEF Return, callFrame
<1>1. ASSUME NEW g \in Engines, EngineShips(g) \/ EngineEnds(g) \/ EngineCrashes(g)
      PROVE  LockInv'
  BY <1>t, <1>1 DEF EngineShips, EngineEnds, EngineCrashes, engineFrame
<1>2. ASSUME NEW g \in Engines, Watchdog(g) PROVE LockInv'
  <2>1. UNCHANGED <<at, slot, slotOf, engine>>
    BY <1>2 DEF Watchdog, WdReads, WdDisconnected, WdLocks, WdProctab, WdStores,
         WdPayloadFails, WdDetached, WdDaemonsExited, WdKilled, WdJobEnded,
         WdUnlocks, watchdogFrame
  <2>2. CASE WdReads(g) \/ WdDisconnected(g)
    BY <1>t, <2>1, <2>2 DEF WdReads, WdDisconnected
  <2>3. CASE WdLocks(g)
    BY <1>t, <2>1, <2>3 DEF WdLocks
  <2>4. ASSUME NEW next \in {"reading", "done"}, wd[g] = "locked", WdUnlocks(g, next)
        PROVE  LockInv'
    BY <1>t, <2>1, <2>4 DEF WdUnlocks
  <2>5. CASE \/ WdProctab(g) \/ WdStores(g) \/ WdPayloadFails(g) \/ WdDetached(g)
             \/ WdDaemonsExited(g) \/ WdKilled(g) \/ WdJobEnded(g)
    <3>1. wd[g] = "locked" /\ (WdUnlocks(g, "reading") \/ WdUnlocks(g, "done"))
      BY <2>5 DEF WdProctab, WdStores, WdPayloadFails, WdDetached,
           WdDaemonsExited, WdKilled, WdJobEnded, Handles
    <3> QED
      BY <2>4, <3>1
  <2> QED
    BY <1>2, <2>2, <2>3, <2>5 DEF Watchdog
<1>3. ASSUME NEW o \in Ops, NEW s \in Slots, Call(o, s) PROVE LockInv'
  BY <1>3 DEF Call, mainFrame
<1>4. ASSUME NEW o \in Spawns, SpawnForks(o) PROVE LockInv'
  BY <1>t, <1>0, <1>4 DEF SpawnForks, Enters
<1>5. CASE EngineAccepted \/ EngineNotAccepted
  <2>1. /\ UNCHANGED <<mutex, slotOf, slot>> /\ at' \in {"idle", "spawnwait"}
        /\ \A g \in Engines : engine'[g] = "none" => engine[g] = "none" /\ wd'[g] = wd[g]
        /\ \A g \in Engines : wd'[g] = "locked" => wd[g] = "locked"
    BY <1>t, <1>0, <1>5 DEF EngineAccepted, EngineNotAccepted, Accepts, Goes, callFrame
  <2> QED
    BY <2>1
<1>6. CASE \/ SpawnWaits \/ SpawnWakes \/ SpawnProceeds \/ BeHandshake
           \/ BeHandshakeFails \/ ControlWakes \/ ControlTimesOut
           \/ LMON_fe_createSession \/ \E o \in Queries : Query(o)
  <2>1. at' \notin {"recv", "mw", "mw_bad"}
    BY <1>0, <1>6 DEF SpawnWaits, SpawnWakes, SpawnProceeds, BeHandshake,
         BeHandshakeFails, ControlWakes, ControlTimesOut, WakesUp, Finishes,
         LMON_fe_createSession, Query, Goes
  <2>2. UNCHANGED <<mutex, wd, engine, slotOf>>
    BY <1>6 DEF SpawnWaits, SpawnWakes, SpawnProceeds, BeHandshake,
         BeHandshakeFails, ControlWakes, ControlTimesOut,
         LMON_fe_createSession, Query, mainFrame
  <2> QED
    BY <2>1, <2>2
<1>7. ASSUME NEW o \in Controls,
             ControlRefused(o) \/ ControlSends(o) \/ ControlShortWrite(o)
      PROVE  LockInv'
  <2>1. at' \in {"idle", "waiting"}
    BY <1>0, <1>7 DEF ControlRefused, ControlSends, ControlShortWrite, Finishes
  <2>2. UNCHANGED <<wd, engine, slotOf>> /\ mutex[slot] = Free
    BY <1>7 DEF ControlRefused, ControlSends, ControlShortWrite, ControlAdmitted,
         Enters, mainFrame
  <2>3. mutex' \in {mutex, [mutex EXCEPT ![slot] = Main]}
    BY <1>7 DEF ControlRefused, ControlSends, ControlShortWrite
  <2> QED
    BY <1>t, <2>1, <2>2, <2>3
<1>8. CASE RecvEnters \/ MwEnters
  BY <1>t, <1>0, <1>8 DEF RecvEnters, MwEnters, Enters, Goes, callFrame, mainFrame
<1>9. CASE RecvDone \/ MwDone \/ MwFails
  BY <1>t, <1>0, <1>9 DEF RecvDone, MwDone, MwFails, mainFrame
<1> QED
  BY <1>1, <1>2, <1>3, <1>4, <1>5, <1>6, <1>7, <1>8, <1>9 DEF Next, MainStep

\* The main thread and the watchdogs are never in the critical section of one
\* session together, as long as the middleware's handshake does not fail: its
\* double unlock is the one thing that breaks it.
THEOREM MutexExcludes ==
  ASSUME ~MwMayFail
  PROVE  Spec => []MutualExclusion
<1>1. Init => TypeInv /\ LockInv
  BY InitType DEF Init, TypeInv, Launched, LockInv, WatchdogKeepsLock
<1>2. TypeInv /\ LockInv /\ [Next]_vars => (TypeInv /\ LockInv)'
  <2>1. CASE Next
    BY <2>1, NextType, LockStays
  <2>2. CASE UNCHANGED vars
    BY <2>2, NextType DEF vars, LockInv, WatchdogKeepsLock
  <2> QED
    BY <2>1, <2>2
<1>3. TypeInv /\ LockInv => MutualExclusion
  BY DEF LockInv, WatchdogKeepsLock, MutualExclusion, MainHolds, WatchdogHolds,
     TypeInv, TypeOK, Engines, Main
<1> QED
  BY <1>1, <1>2, <1>3, PTL DEF Spec
\* A mutex the main thread has is one its present call is about to unlock.
HeldByCall ==
  \A s \in Slots : mutex[s] = Main => at \in {"recv", "mw"} /\ slot = s

LEMMA HeldByCallStays ==
  ASSUME TypeInv, HeldByCall, Next, ~ShortWrites
  PROVE  HeldByCall'
<1> USE DEF HeldByCall
<1>t. /\ mutex \in [Slots -> -1 .. MaxEngines] /\ slot \in Slots
      /\ slotOf \in [Engines -> Slots]
      /\ Free # Main /\ \A g \in Engines : g # Free /\ g # Main
  BY DEF TypeInv, TypeOK, Engines, Free, Main
<1>0. \A code : Return(code) => at' = "idle" /\ UNCHANGED slot
  BY DEF Return, callFrame
<1>1. ASSUME NEW g \in Engines, EngineShips(g) \/ EngineEnds(g) \/ EngineCrashes(g)
      PROVE  HeldByCall'
  BY <1>1 DEF EngineShips, EngineEnds, EngineCrashes, engineFrame
<1>2. ASSUME NEW g \in Engines, Watchdog(g) PROVE HeldByCall'
  <2>1. UNCHANGED <<at, slot>>
    BY <1>2 DEF Watchdog, WdReads, WdDisconnected, WdLocks, WdProctab, WdStores,
         WdPayloadFails, WdDetached, WdDaemonsExited, WdKilled, WdJobEnded,
         WdUnlocks, watchdogFrame
  <2>2. mutex' \in {mutex, [mutex EXCEPT ![slotOf[g]] = g], [mutex EXCEPT ![slotOf[g]] = Free]}
    BY <1>2 DEF Watchdog, WdReads, WdDisconnected, WdLocks, WdProctab, WdStores,
         WdPayloadFails, WdDetached, WdDaemonsExited, WdKilled, WdJobEnded, WdUnlocks
  <2> QED
    BY <1>t, <2>1, <2>2
<1>3. CASE \/ \E o \in Ops : \E s \in Slots : Call(o, s)
           \/ \E o \in Spawns : SpawnForks(o)
           \/ EngineAccepted \/ EngineNotAccepted \/ SpawnWaits \/ SpawnWakes
           \/ SpawnProceeds \/ BeHandshake \/ BeHandshakeFails \/ ControlWakes
           \/ ControlTimesOut \/ LMON_fe_createSession
           \/ \E o \in Queries : Query(o)
           \/ \E o \in Controls : ControlRefused(o) \/ ControlSends(o)
  <2>1. at \notin {"recv", "mw"}
    BY <1>3 DEF Call, SpawnForks, EngineAccepted, EngineNotAccepted, Accepts,
         SpawnWaits, SpawnWakes, SpawnProceeds, BeHandshake, BeHandshakeFails,
         ControlWakes, ControlTimesOut, WakesUp, TimesOut, LMON_fe_createSession,
         Query, ControlRefused, ControlSends, ControlAdmitted, Enters
  <2>2. UNCHANGED mutex
    BY <1>3 DEF Call, SpawnForks, EngineAccepted, EngineNotAccepted, Accepts,
         SpawnWaits, SpawnWakes, SpawnProceeds, BeHandshake, BeHandshakeFails,
         ControlWakes, ControlTimesOut, LMON_fe_createSession, Query,
         ControlRefused, ControlSends
  <2> QED
    BY <2>1, <2>2
<1>4. ASSUME NEW o \in Controls, ControlShortWrite(o) PROVE HeldByCall'
  BY <1>4 DEF ControlShortWrite
<1>5. CASE RecvEnters \/ MwEnters
  BY <1>t, <1>0, <1>5 DEF RecvEnters, MwEnters, Enters, Goes, callFrame
<1>6. CASE RecvDone \/ MwDone \/ MwFails
  BY <1>t, <1>0, <1>6 DEF RecvDone, MwDone, MwFails, Goes, callFrame
<1> QED
  BY <1>1, <1>2, <1>3, <1>4, <1>5, <1>6 DEF Next, MainStep

\* Every call gives back the mutex it took, on all of its paths, as long as its
\* requests are written whole.
THEOREM CallsUnlock ==
  ASSUME ~ShortWrites
  PROVE  Spec => []LocksReleased
<1>1. Init => TypeInv /\ HeldByCall
  BY InitType DEF Init, TypeInv, Launched, HeldByCall, Free, Main
<1>2. TypeInv /\ HeldByCall /\ [Next]_vars => (TypeInv /\ HeldByCall)'
  <2>1. CASE Next
    BY <2>1, NextType, HeldByCallStays
  <2>2. CASE UNCHANGED vars
    BY <2>2, NextType DEF vars, HeldByCall
  <2> QED
    BY <2>1, <2>2
<1>3. HeldByCall => LocksReleased
  BY DEF HeldByCall, LocksReleased
<1> QED
  BY <1>1, <1>2, <1>3, PTL DEF Spec
-----------------------------------------------------------------------------
(* Sessions: what is in a descriptor is of its own engine.                  *)

\* The watchdogs' progress through their engines' messages.
ReadInv ==
  \A g \in Engines :
    /\ got[g] <= Len(said[g])
    /\ wd[g] \in {"locking", "locked"} => got[g] > 0
    /\ engine[g] = "none" => wd[g] = "none"

\* Where the main thread is tells what it called; between the call and the
\* acceptance of its engine, a launch has a session without one.
PlaceInv ==
  /\ at \in {"accept", "spawnwait", "spawned", "be_accept", "be_table", "be_cont",
             "be_ready"} => op \in Spawns
  /\ at = "recv" => op = "recv"
  /\ at \in {"mw", "mw_bad"} => op = "mw"
  /\ at = "lock" /\ op \in Spawns => desc[slot].eng = 0
  /\ at = "accept" =>
       /\ engine[launching] # "none" /\ wd[launching] = "none"
       /\ slotOf[launching] = slot
       /\ desc[slot].eng = 0 /\ desc[slot].registered

Alive(g) == wd[g] \in {"reading", "locking", "locked"}

Deaths == JobEnds \cup {"kill_done"}

\* The watchdog of g is done, having read one of ms.
ToldBy(g, ms) == g \in Engines /\ wd[g] = "done" /\ Heard(g) \cap ms # {}

\* A watchdog that is alive works for the session that has its engine.
Owned ==
  \A g \in Engines : Alive(g) => desc[slotOf[g]].eng = g /\ desc[slotOf[g]].registered

\* The flags of a session were set by the last act of its engine's watchdog.
Told ==
  \A s \in Slots : \A g \in 0 .. MaxEngines : desc[s].eng = g =>
    /\ desc[s].killed => ToldBy(g, Deaths)
    /\ desc[s].detached => ToldBy(g, Detachments)

\* And so were the answers.
Answered ==
  \A g \in 0 .. MaxEngines : rc.eng = g /\ rc.code = "OK" =>
    /\ rc.op = "kill" => ToldBy(g, Deaths)
    /\ rc.op \in {"detach", "shutdown"} => ToldBy(g, Detachments)

SessionInv == Owned /\ Told /\ Answered /\ FreshSession

\* The main thread's steps after it has been accepted, or with no engine.
LEMMA MainFrame ==
  ASSUME MainStep, ~EngineAccepted, ~EngineNotAccepted,
         ~ \E o \in Spawns : SpawnForks(o)
  PROVE  UNCHANGED <<slotOf, engine, said, got, wd>>
BY DEF MainStep, mainFrame, SpawnWaits, SpawnWakes, SpawnProceeds, BeHandshake,
   BeHandshakeFails, ControlRefused, ControlSends, ControlShortWrite, ControlWakes,
   ControlTimesOut, LMON_fe_createSession, Query, RecvEnters, RecvDone, MwEnters,
   MwDone, MwFails

\* What is said is appended, and read once.
LEMMA Reading ==
  ASSUME TypeInv, ReadInv, Next
  PROVE  /\ ReadInv'
         /\ \A g \in Engines : Heard(g) \subseteq Heard(g)'
<1>t. /\ said \in [Engines -> Seq(FEMessages)] /\ got \in [Engines -> Nat]
      /\ wd \in [Engines -> {"none", "reading", "locking", "locked", "done"}]
      /\ engine \in [Engines -> {"none", "starting", "up", "ended"}]
  BY DEF TypeInv, TypeOK
<1>0. ASSUME UNCHANGED <<said, got>> PROVE \A g \in Engines : Heard(g)' = Heard(g)
  BY <1>0 DEF Heard
<1>1. ASSUME NEW g \in Engines, EngineShips(g) \/ EngineEnds(g) \/ EngineCrashes(g)
      PROVE  ReadInv' /\ \A h \in Engines : Heard(h) \subseteq Heard(h)'
  <2>1. UNCHANGED <<got, wd>>
    BY <1>1 DEF EngineShips, EngineEnds, EngineCrashes, engineFrame
  <2>2. \E m \in FEMessages : said' = said \/ said' = [said EXCEPT ![g] = Append(said[g], m)]
    <3>1. CASE EngineShips(g)
      <4>1. Len(said[g]) + 1 \in 1 .. 4
        BY <1>t, <3>1 DEF EngineShips, Script
      <4>2. Script[Len(said[g]) + 1] \in FEMessages
        BY <4>1 DEF Script, FEMessages
      <4>3. said' = [said EXCEPT ![g] = Append(said[g], Script[Len(said[g]) + 1])]
        BY <3>1 DEF EngineShips
      <4> QED
        BY <4>2, <4>3
    <3>2. CASE EngineEnds(g)
      <4>1. PICK m \in LastWords(g) : said' = [said EXCEPT ![g] = Append(said[g], m)]
        BY <3>2 DEF EngineEnds
      <4>2. m \in FEMessages
        BY DEF LastWords, FEMessages, JobEnds, Detachments
      <4> QED
        BY <4>1, <4>2
    <3>3. CASE EngineCrashes(g)
      <4>1. "spawned" \in FEMessages /\ said' = said
        BY <3>3 DEF EngineCrashes, FEMessages
      <4> QED
        BY <4>1
    <3> QED
      BY <1>1, <3>1, <3>2, <3>3
  <2>3. \A h \in Engines : /\ Len(said'[h]) \in Nat /\ Len(said'[h]) >= Len(said[h])
                           /\ \A i \in 1 .. got[h] : said'[h][i] = said[h][i]
    <3> SUFFICES ASSUME NEW h \in Engines
                 PROVE  /\ Len(said'[h]) \in Nat /\ Len(said'[h]) >= Len(said[h])
                        /\ \A i \in 1 .. got[h] : said'[h][i] = said[h][i]
      OBVIOUS
    <3>0. PICK m \in FEMessages :
            said' = said \/ said' = [said EXCEPT ![g] = Append(said[g], m)]
      BY <2>2
    <3>1. said[h] \in Seq(FEMessages) /\ got[h] <= Len(said[h]) /\ got[h] \in Nat
      BY <1>t DEF ReadInv
    <3>2. said'[h] = said[h] \/ said'[h] = Append(said[h], m)
      BY <1>t, <3>0
    <3> QED
      BY <3>1, <3>2
  <2>4. \A h \in Engines : engine'[h] = "none" => engine[h] = "none"
    BY <1>t, <1>1 DEF EngineShips, EngineEnds, EngineCrashes
  <2>5. ReadInv'
    <3> SUFFICES ASSUME NEW h \in Engines
                 PROVE  /\ got'[h] <= Len(said'[h])
                        /\ wd'[h] \in {"locking", "locked"} => got'[h] > 0
                        /\ engine'[h] = "none" => wd'[h] = "none"
      BY DEF ReadInv
    <3>1. got'[h] <= Len(said'[h])
      <4>1. /\ got[h] \in Nat /\ Len(said[h]) \in Nat /\ got[h] <= Len(said[h])
            /\ Len(said'[h]) \in Nat /\ Len(said'[h]) >= Len(said[h])
        BY <1>t, <2>3 DEF ReadInv
      <4> QED
        BY <2>1, <4>1
    <3> QED
      BY <2>1, <2>4, <3>1 DEF ReadInv
  <2> QED
    BY <2>1, <2>3, <2>5 DEF Heard
<1>2. ASSUME NEW g \in Engines, Watchdog(g)
      PROVE  ReadInv' /\ \A h \in Engines : Heard(h) \subseteq Heard(h)'
  <2>1. UNCHANGED <<said, engine>>
    BY <1>2 DEF Watchdog, WdReads, WdDisconnected, WdLocks, WdProctab, WdStores,
         WdPayloadFails, WdDetached, WdDaemonsExited, WdKilled, WdJobEnded,
         WdUnlocks, watchdogFrame
  <2>2. CASE WdReads(g)
    <3>1. \A h \in Engines : got'[h] = IF h = g THEN got[h] + 1 ELSE got[h]
      BY <1>t, <2>2 DEF WdReads
    <3>2. got[g] + 1 <= Len(said[g])
      BY <1>t, <2>2 DEF WdReads
    <3>3. ReadInv'
      <4> SUFFICES ASSUME NEW h \in Engines
                   PROVE  /\ got'[h] <= Len(said'[h])
                          /\ wd'[h] \in {"locking", "locked"} => got'[h] > 0
                          /\ engine'[h] = "none" => wd'[h] = "none"
        BY DEF ReadInv
      <4>1. h # g => wd'[h] = wd[h]
        BY <1>t, <2>2 DEF WdReads
      <4>2. h = g => engine[h] # "none"
        BY <2>2 DEF WdReads, ReadInv
      <4>3. got[h] \in Nat
        BY <1>t
      <4> QED
        BY <2>1, <3>1, <3>2, <4>1, <4>2, <4>3 DEF ReadInv
    <3>4. \A h \in Engines : Heard(h) \subseteq Heard(h)'
      <4> SUFFICES ASSUME NEW h \in Engines PROVE Heard(h) \subseteq Heard(h)'
        OBVIOUS
      <4>1. got[h] \in Nat /\ got'[h] \in Nat /\ got[h] <= got'[h]
        <5>1. got[h] \in Nat /\ (got'[h] = got[h] \/ got'[h] = got[h] + 1)
          BY <1>t, <3>1
        <5> QED
          BY <5>1
      <4>2. 1 .. got[h] \subseteq 1 .. got'[h]
        BY <4>1
      <4> QED
        BY <2>1, <4>2 DEF Heard
    <3> QED
      BY <3>3, <3>4
  <2>3. CASE WdDisconnected(g) \/ WdLocks(g)
    <3>1. UNCHANGED got
      BY <2>3 DEF WdDisconnected, WdLocks
    <3>2. ReadInv'
      BY <1>t, <2>1, <2>3, <3>1 DEF WdDisconnected, WdLocks, ReadInv
    <3> QED
      BY <1>0, <2>1, <3>1, <3>2
  <2>4. CASE \/ WdProctab(g) \/ WdStores(g) \/ WdPayloadFails(g) \/ WdDetached(g)
             \/ WdDaemonsExited(g) \/ WdKilled(g) \/ WdJobEnded(g)
    <3>1. wd[g] = "locked" /\ (WdUnlocks(g, "reading") \/ WdUnlocks(g, "done"))
      BY <2>4 DEF WdProctab, WdStores, WdPayloadFails, WdDetached,
           WdDaemonsExited, WdKilled, WdJobEnded, Handles
    <3>2. UNCHANGED got /\ ReadInv'
      BY <1>t, <2>1, <3>1 DEF WdUnlocks, ReadInv
    <3> QED
      BY <1>0, <2>1, <3>2
  <2> QED
    BY <1>2, <2>2, <2>3, <2>4 DEF Watchdog
<1>3. ASSUME UNCHANGED <<said, got, wd, engine>>
      PROVE  ReadInv' /\ \A h \in Engines : Heard(h) \subseteq Heard(h)'
  BY <1>3, <1>0 DEF ReadInv
<1>4. ASSUME NEW o \in Ops, NEW s \in Slots, Call(o, s)
      PROVE  UNCHANGED <<said, got, wd, engine>>
  BY <1>4 DEF Call, mainFrame
<1>5. CASE \E o \in Spawns : SpawnForks(o)
  <2>1. /\ UNCHANGED <<said, got, wd>>
        /\ \A g \in Engines : engine'[g] = "none" => engine[g] = "none"
    BY <1>t, <1>5 DEF SpawnForks
  <2> QED
    BY <1>0, <2>1 DEF ReadInv
<1>6. CASE EngineAccepted \/ EngineNotAccepted
  <2>1. /\ UNCHANGED <<said, got>>
        /\ \A g \in Engines : engine'[g] = "none" => engine[g] = "none" /\ wd'[g] = wd[g]
        /\ \A g \in Engines : wd'[g] \in {wd[g], "reading"}
    BY <1>t, <1>6 DEF EngineAccepted, EngineNotAccepted, Accepts
  <2> QED
    BY <1>0, <2>1 DEF ReadInv
<1> QED
  BY <1>1, <1>2, <1>3, <1>4, <1>5, <1>6, MainFrame DEF Next
\* The watchdogs leave the main thread and the identity of sessions alone.
LEMMA WatchdogFrame ==
  ASSUME TypeInv, NEW g \in Engines, Watchdog(g)
  PROVE  /\ UNCHANGED <<op, slot, at, launching, rc, engine, slotOf>>
         /\ \A h \in Engines : h # g => wd'[h] = wd[h]
         /\ wd[g] \in {"reading", "locking", "locked"}
         /\ \A s \in Slots : /\ desc'[s].eng = desc[s].eng
                             /\ desc'[s].registered = desc[s].registered
                             /\ s # slotOf[g] => desc'[s] = desc[s]
<1>t. /\ desc \in [Slots -> Descriptors] /\ slotOf \in [Engines -> Slots]
      /\ wd \in [Engines -> {"none", "reading", "locking", "locked", "done"}]
  BY DEF TypeInv, TypeOK
<1>1. UNCHANGED <<op, slot, at, launching, rc, engine, slotOf>>
  BY DEF Watchdog, WdReads, WdDisconnected, WdLocks, WdProctab, WdStores,
     WdPayloadFails, WdDetached, WdDaemonsExited, WdKilled, WdJobEnded,
     WdUnlocks, watchdogFrame
<1>2. /\ wd[g] \in {"reading", "locking", "locked"}
      /\ \A h \in Engines : h # g => wd'[h] = wd[h]
  BY <1>t DEF Watchdog, WdReads, WdDisconnected, WdLocks, WdProctab, WdStores,
     WdPayloadFails, WdDetached, WdDaemonsExited, WdKilled, WdJobEnded,
     WdUnlocks, Handles
<1>3. \A s \in Slots : /\ desc'[s].eng = desc[s].eng
                       /\ desc'[s].registered = desc[s].registered
                       /\ s # slotOf[g] => desc'[s] = desc[s]
  <2>0. slotOf[g] \in Slots
    BY <1>t
  <2>1. CASE \/ WdReads(g) \/ WdDisconnected(g) \/ WdLocks(g) \/ WdPayloadFails(g)
    BY <2>1 DEF WdReads, WdDisconnected, WdLocks, WdPayloadFails
  <2>2. CASE WdProctab(g)
    BY <1>t, <2>0, <2>2 DEF WdProctab, Descriptors
  <2>3. CASE WdStores(g)
    <3>1. \/ desc' = [desc EXCEPT ![slotOf[g]].rid = TRUE]
          \/ desc' = [desc EXCEPT ![slotOf[g]].rm = TRUE]
      BY <2>3 DEF WdStores
    <3> QED
      BY <1>t, <2>0, <3>1 DEF Descriptors
  <2>4. CASE WdDetached(g)
    BY <1>t, <2>0, <2>4 DEF WdDetached, Descriptors
  <2>5. CASE WdDaemonsExited(g)
    BY <1>t, <2>0, <2>5 DEF WdDaemonsExited, Descriptors
  <2>6. CASE WdKilled(g) \/ WdJobEnded(g)
    BY <1>t, <2>0, <2>6 DEF WdKilled, WdJobEnded, Descriptors
  <2> QED
    BY <2>1, <2>2, <2>3, <2>4, <2>5, <2>6 DEF Watchdog
<1> QED
  BY <1>1, <1>2, <1>3

LEMMA PlaceStays ==
  ASSUME TypeInv, ReadInv, PlaceInv, Next
  PROVE  PlaceInv'
<1> USE DEF PlaceInv
<1>t. /\ slot \in Slots /\ desc \in [Slots -> Descriptors]
      /\ slotOf \in [Engines -> Slots]
      /\ engine \in [Engines -> {"none", "starting", "up", "ended"}]
      /\ at = "accept" => launching \in Engines
  BY DEF TypeInv, Launched, TypeOK
<1>0. \A code : Return(code) => at' = "idle"
  BY DEF Return
<1>1. ASSUME NEW g \in Engines, EngineShips(g) \/ EngineEnds(g) \/ EngineCrashes(g)
      PROVE  PlaceInv'
  <2>1. /\ UNCHANGED <<desc, op, slot, at, launching, slotOf, wd>>
        /\ \A h \in Engines : engine'[h] = "none" => engine[h] = "none"
    BY <1>t, <1>1 DEF EngineShips, EngineEnds, EngineCrashes, engineFrame
  <2> QED
    BY <1>t, <2>1
<1>2. ASSUME NEW g \in Engines, Watchdog(g) PROVE PlaceInv'
  <2>1. at = "accept" => launching # g
    BY <1>2, WatchdogFrame
  <2> QED
    BY <1>t, <1>2, <2>1, WatchdogFrame
<1>3. ASSUME NEW o \in Ops, NEW s \in Slots, Call(o, s) PROVE PlaceInv'
  BY <1>3 DEF Call
<1>4. ASSUME NEW o \in Spawns, SpawnForks(o) PROVE PlaceInv'
  <2>1. CASE desc[slot].registered
    <3>1. PICK g \in Engines :
            /\ engine[g] = "none"
            /\ engine' = [engine EXCEPT ![g] = "starting"]
            /\ slotOf' = [slotOf EXCEPT ![g] = slot]
            /\ launching' = g
      BY <1>4, <2>1 DEF SpawnForks
    <3>2. wd[g] = "none"
      BY <3>1 DEF ReadInv
    <3> QED
      BY <1>t, <1>4, <2>1, <3>1, <3>2 DEF SpawnForks, Enters
  <2>2. CASE ~desc[slot].registered
    BY <1>0, <1>4, <2>2 DEF SpawnForks
  <2> QED
    BY <2>1, <2>2
<1>5. CASE EngineAccepted \/ EngineNotAccepted \/ SpawnWaits \/ SpawnWakes
           \/ SpawnProceeds \/ BeHandshake \/ BeHandshakeFails
  <2>1. \/ at' \in {"idle", "waiting"}
        \/ /\ at' \in {"spawnwait", "spawned", "be_accept", "be_table", "be_cont", "be_ready"}
           /\ op' \in Spawns
    BY <1>0, <1>5 DEF EngineAccepted, EngineNotAccepted, Accepts, SpawnWaits, SpawnWakes,
         SpawnProceeds, BeHandshake, BeHandshakeFails, Goes, callFrame
  <2> QED
    BY <2>1
<1>6. ASSUME NEW o \in Controls,
             ControlRefused(o) \/ ControlSends(o) \/ ControlShortWrite(o)
      PROVE  PlaceInv'
  BY <1>0, <1>6 DEF ControlRefused, ControlSends, ControlShortWrite, Finishes
<1>7. CASE ControlWakes \/ ControlTimesOut
  BY <1>0, <1>7 DEF ControlWakes, ControlTimesOut, WakesUp, Finishes
<1>8. CASE LMON_fe_createSession \/ \E o \in Queries : Query(o)
  BY <1>0, <1>8 DEF LMON_fe_createSession, Query
<1>9. CASE RecvEnters \/ RecvDone \/ MwEnters \/ MwDone \/ MwFails
  BY <1>0, <1>9 DEF RecvEnters, RecvDone, MwEnters, MwDone, MwFails, Goes,
       callFrame, Enters
<1> QED
  BY <1>1, <1>2, <1>3, <1>4, <1>5, <1>6, <1>7, <1>8, <1>9 DEF Next, MainStep
\* What a session was told stays told while its watchdog is done.
LEMMA ToldStays ==
  ASSUME TypeInv, ReadInv, Next, NEW g, NEW ms, ToldBy(g, ms), wd'[g] = wd[g]
  PROVE  ToldBy(g, ms)'
BY Reading DEF ToldBy

\* A step that neither ends a watchdog's life nor touches a descriptor, and
\* returns no answer of an engine.
LEMMA SessionFrame ==
  ASSUME TypeInv, ReadInv, SessionInv, Next, UNCHANGED <<desc, wd>>,
         \A g \in Engines : wd[g] # "none" => slotOf'[g] = slotOf[g],
         rc' = rc \/ rc'.code # "OK" \/ rc'.op \notin Controls
  PROVE  SessionInv'
<1>0. Owned /\ Told /\ Answered /\ FreshSession
  BY DEF SessionInv
<1>1. Owned'
  BY <1>0 DEF Owned, Alive
<1>2. Told'
  BY <1>0, ToldStays DEF Told
<1>3. Answered'
  BY <1>0, ToldStays DEF Answered, Controls
<1>4. FreshSession'
  BY <1>0 DEF FreshSession, LMON_init_sess
<1> QED
  BY <1>1, <1>2, <1>3, <1>4 DEF SessionInv

LEMMA SessionWatchdog ==
  ASSUME TypeInv, ReadInv, SessionInv, Next, NEW g \in Engines, Watchdog(g)
  PROVE  SessionInv'
<1>t. /\ desc \in [Slots -> Descriptors] /\ slotOf \in [Engines -> Slots]
      /\ wd \in [Engines -> {"none", "reading", "locking", "locked", "done"}]
      /\ got \in [Engines -> Nat] /\ g \in 0 .. MaxEngines
  BY DEF TypeInv, TypeOK, Engines
<1>f. /\ UNCHANGED <<op, slot, at, launching, rc, engine, slotOf>>
      /\ \A h \in Engines : h # g => wd'[h] = wd[h]
      /\ wd[g] \in {"reading", "locking", "locked"}
      /\ \A s \in Slots : /\ desc'[s].eng = desc[s].eng
                          /\ desc'[s].registered = desc[s].registered
                          /\ s # slotOf[g] => desc'[s] = desc[s]
  BY WatchdogFrame
<1>0. Owned /\ Told /\ Answered /\ FreshSession
  BY DEF SessionInv
<1>1. desc[slotOf[g]].eng = g /\ desc[slotOf[g]].registered /\ slotOf[g] \in Slots
  BY <1>0, <1>f, <1>t DEF Owned, Alive
<1>2. ~desc[slotOf[g]].killed /\ ~desc[slotOf[g]].detached
  BY <1>0, <1>t, <1>f, <1>1 DEF Told, ToldBy
<1>3. ASSUME NEW ms, NEW h, ToldBy(h, ms) PROVE ToldBy(h, ms)'
  <2>1. h \in Engines /\ h # g
    BY <1>3, <1>f DEF ToldBy
  <2> QED
    BY <1>3, <1>f, <2>1, ToldStays
<1>4. Owned'
  BY <1>0, <1>t, <1>f, <1>1 DEF Owned, Alive
<1>5. Answered'
  BY <1>0, <1>f, <1>3 DEF Answered
<1>6. FreshSession'
  BY <1>0, <1>f, <1>1 DEF FreshSession, LMON_init_sess
<1>8. /\ desc'[slotOf[g]].killed => ToldBy(g, Deaths)'
      /\ desc'[slotOf[g]].detached => ToldBy(g, Detachments)'
  <2>1. ASSUME NEW ms, Handles(g, ms), UNCHANGED <<said, got>>, wd'[g] = "done"
        PROVE  ToldBy(g, ms)'
    <3>1. got[g] \in Nat /\ got[g] > 0
      BY <1>t, <2>1 DEF Handles, ReadInv
    <3>2. said[g][got[g]] \in Heard(g)
      BY <3>1 DEF Heard
    <3>3. Heard(g)' = Heard(g)
      BY <2>1 DEF Heard
    <3> QED
      BY <2>1, <3>2, <3>3 DEF ToldBy, Handles, Message
  <2>2. ASSUME NEW next, WdUnlocks(g, next)
        PROVE  UNCHANGED <<said, got>> /\ wd'[g] = next
    BY <1>t, <2>2 DEF WdUnlocks, watchdogFrame
  <2>3. CASE WdReads(g) \/ WdDisconnected(g) \/ WdLocks(g) \/ WdPayloadFails(g)
    BY <1>2, <2>3 DEF WdReads, WdDisconnected, WdLocks, WdPayloadFails
  <2>4. CASE WdProctab(g) \/ WdStores(g)
    <3>1. /\ desc'[slotOf[g]].killed = desc[slotOf[g]].killed
          /\ desc'[slotOf[g]].detached = desc[slotOf[g]].detached
      <4>1. CASE WdProctab(g)
        BY <1>t, <1>1, <4>1 DEF WdProctab, Descriptors
      <4>2. CASE WdStores(g)
        <5>1. \/ desc' = [desc EXCEPT ![slotOf[g]].rid = TRUE]
              \/ desc' = [desc EXCEPT ![slotOf[g]].rm = TRUE]
          BY <4>2 DEF WdStores
        <5> QED
          BY <1>t, <1>1, <5>1 DEF Descriptors
      <4> QED
        BY <2>4, <4>1, <4>2
    <3> QED
      BY <1>2, <3>1
  <2>5. CASE WdDetached(g) \/ WdDaemonsExited(g)
    <3>1. desc'[slotOf[g]].killed = desc[slotOf[g]].killed
      <4>1. CASE WdDetached(g)
        BY <1>t, <1>1, <4>1 DEF WdDetached, Descriptors
      <4>2. CASE WdDaemonsExited(g)
        BY <1>t, <1>1, <4>2 DEF WdDaemonsExited, Descriptors
      <4> QED
        BY <2>5, <4>1, <4>2
    <3>2. WdUnlocks(g, "done") /\ Handles(g, Detachments)
      BY <2>5 DEF WdDetached, WdDaemonsExited, Handles, Detachments
    <3> QED
      BY <1>2, <2>1, <2>2, <3>1, <3>2
  <2>6. CASE WdKilled(g) \/ WdJobEnded(g)
    <3>1. desc'[slotOf[g]].detached = desc[slotOf[g]].detached
      BY <1>t, <1>1, <2>6 DEF WdKilled, WdJobEnded, Descriptors
    <3>2. WdUnlocks(g, "done") /\ Handles(g, Deaths)
      BY <2>6 DEF WdKilled, WdJobEnded, Handles, Deaths
    <3> QED
      BY <1>2, <2>1, <2>2, <3>1, <3>2
  <2> QED
    BY <2>3, <2>4, <2>5, <2>6 DEF Watchdog
<1>9. Told'
  <2> SUFFICES ASSUME NEW s \in Slots, NEW h \in 0 .. MaxEngines, desc'[s].eng = h
               PROVE  /\ desc'[s].killed => ToldBy(h, Deaths)'
                      /\ desc'[s].detached => ToldBy(h, Detachments)'
    BY DEF Told
  <2>1. CASE s = slotOf[g]
    BY <1>f, <1>1, <1>8, <2>1
  <2>2. CASE s # slotOf[g]
    BY <1>0, <1>f, <1>3, <2>2 DEF Told
  <2> QED
    BY <2>1, <2>2
<1> QED
  BY <1>4, <1>5, <1>6, <1>9 DEF SessionInv
\* The end of a kill, a detach or a shutdown whose flag is set.
LEMMA SessionFinishes ==
  ASSUME TypeInv, ReadInv, SessionInv, Next, op \in Controls, Awaited,
         Finishes("OK"), UNCHANGED <<wd, slotOf>>
  PROVE  /\ SessionInv'
         /\ \A g \in Engines : slotOf[g] = slot => ~Alive(g)
<1>t. /\ desc \in [Slots -> Descriptors] /\ slotOf \in [Engines -> Slots]
      /\ slot \in Slots /\ 0 \in 0 .. MaxEngines
  BY FEAssumption DEF TypeInv, TypeOK
<1>0. Owned /\ Told /\ Answered /\ FreshSession
  BY DEF SessionInv
<1>1. PICK e \in 0 .. MaxEngines : e = desc[slot].eng
  BY <1>t DEF Descriptors
<1>2. /\ op = "kill" => ToldBy(e, Deaths)
      /\ op \in {"detach", "shutdown"} => ToldBy(e, Detachments)
  BY <1>0, <1>t, <1>1 DEF Told, Awaited
<1>3. e \in Engines /\ wd[e] = "done"
  BY <1>2 DEF ToldBy, Controls
<1>4. \A g \in Engines : slotOf[g] = slot => ~Alive(g)
  BY <1>0, <1>1, <1>3 DEF Owned, Alive
<1>5. \/ UNCHANGED desc
      \/ desc' = [desc EXCEPT ![slot] = LMON_init_sess]
  BY DEF Finishes, Reinit
<1>6. Owned'
  BY <1>0, <1>t, <1>4, <1>5 DEF Owned, Alive
<1>7. Told'
  <2> SUFFICES ASSUME NEW s \in Slots, NEW g \in 0 .. MaxEngines, desc'[s].eng = g
               PROVE  /\ desc'[s].killed => ToldBy(g, Deaths)'
                      /\ desc'[s].detached => ToldBy(g, Detachments)'
    BY DEF Told
  <2>1. CASE desc'[s] = desc[s]
    BY <1>0, <2>1, ToldStays DEF Told
  <2>2. CASE desc'[s] = LMON_init_sess
    BY <2>2 DEF LMON_init_sess
  <2> QED
    BY <1>t, <1>5, <2>1, <2>2
<1>8. Answered'
  <2>1. rc'.op = op /\ rc'.eng = e
    BY <1>1 DEF Finishes, Return
  <2>2. \A ms : ToldBy(e, ms) => ToldBy(e, ms)'
    BY ToldStays
  <2> QED
    BY <1>2, <2>1, <2>2 DEF Answered
<1>9. FreshSession'
  BY <1>0, <1>t, <1>5 DEF FreshSession, LMON_init_sess
<1> QED
  BY <1>4, <1>6, <1>7, <1>8, <1>9 DEF SessionInv

\* A session gets its engine, with or without a watchdog.
LEMMA SessionAccepts ==
  ASSUME TypeInv, ReadInv, PlaceInv, SessionInv, Next,
         EngineAccepted \/ EngineNotAccepted
  PROVE  SessionInv'
<1>t. /\ desc \in [Slots -> Descriptors] /\ slotOf \in [Engines -> Slots]
      /\ wd \in [Engines -> {"none", "reading", "locking", "locked", "done"}]
      /\ slot \in Slots /\ 0 \in 0 .. MaxEngines
  BY FEAssumption DEF TypeInv, TypeOK
<1>0. Owned /\ Told /\ Answered /\ FreshSession
  BY DEF SessionInv
<1>1. /\ at = "accept" /\ launching \in Engines
      /\ wd[launching] = "none" /\ slotOf[launching] = slot
      /\ desc[slot].eng = 0 /\ desc[slot].registered
  BY DEF EngineAccepted, EngineNotAccepted, Accepts, PlaceInv, TypeInv, Launched
<1>2. ~desc[slot].killed /\ ~desc[slot].detached
  BY <1>0, <1>t, <1>1 DEF Told, ToldBy, Engines
<1>3. UNCHANGED slotOf
  BY DEF EngineAccepted, EngineNotAccepted, Accepts
<1>4. \/ UNCHANGED <<wd, desc>>
      \/ UNCHANGED wd /\ desc' = [desc EXCEPT ![slot].eng = launching]
      \/ /\ wd' = [wd EXCEPT ![launching] = "reading"]
         /\ desc' = [desc EXCEPT ![slot].eng = launching]
  BY DEF EngineAccepted, EngineNotAccepted, Connected
<1>5. ASSUME NEW g, NEW ms, ToldBy(g, ms) PROVE ToldBy(g, ms)'
  <2>1. g # launching /\ g \in Engines
    BY <1>1, <1>5 DEF ToldBy
  <2>2. wd'[g] = wd[g]
    BY <1>t, <1>4, <2>1
  <2> QED
    BY <1>5, <2>2, ToldStays
<1>6. \A s \in Slots : s # slot => desc'[s] = desc[s]
  BY <1>t, <1>4
<1>7. /\ desc'[slot].registered
      /\ ~desc'[slot].killed /\ ~desc'[slot].detached
      /\ desc'[slot].eng = desc[slot].eng \/ desc'[slot].eng = launching
      /\ wd' # wd => desc'[slot].eng = launching
  BY <1>t, <1>1, <1>2, <1>4 DEF Descriptors
<1>8. Owned'
  <2> SUFFICES ASSUME NEW g \in Engines, Alive(g)'
               PROVE  desc'[slotOf[g]].eng = g /\ desc'[slotOf[g]].registered
    BY <1>3 DEF Owned
  <2>1. CASE g = launching
    <3>1. wd' # wd
      BY <1>1, <2>1 DEF Alive
    <3> QED
      BY <1>1, <1>7, <2>1, <3>1
  <2>2. CASE g # launching
    <3>1. Alive(g)
      BY <1>t, <1>4, <2>2 DEF Alive
    <3>2. desc[slotOf[g]].eng = g /\ desc[slotOf[g]].registered
      BY <1>0, <3>1 DEF Owned
    <3>3. slotOf[g] # slot /\ slotOf[g] \in Slots
      BY <1>t, <1>1, <3>2 DEF Engines
    <3> QED
      BY <1>6, <3>2, <3>3
  <2> QED
    BY <2>1, <2>2
<1>9. Told'
  <2> SUFFICES ASSUME NEW s \in Slots, NEW g \in 0 .. MaxEngines, desc'[s].eng = g
               PROVE  /\ desc'[s].killed => ToldBy(g, Deaths)'
                      /\ desc'[s].detached => ToldBy(g, Detachments)'
    BY DEF Told
  <2>1. CASE s = slot
    BY <1>7, <2>1
  <2>2. CASE s # slot
    BY <1>0, <1>5, <1>6, <2>2 DEF Told
  <2> QED
    BY <2>1, <2>2
<1>10. Answered'
  <2>1. rc' = rc \/ rc'.code # "OK"
    BY DEF EngineAccepted, EngineNotAccepted, Goes, Return
  <2> QED
    BY <1>0, <1>5, <2>1 DEF Answered
<1>11. FreshSession'
  BY <1>0, <1>6, <1>7 DEF FreshSession, LMON_init_sess
<1> QED
  BY <1>8, <1>9, <1>10, <1>11 DEF SessionInv

\* The steps that only set registered or mw.
LEMMA SessionMarks ==
  ASSUME TypeInv, ReadInv, PlaceInv, SessionInv, Next, LMON_fe_createSession \/ MwDone
  PROVE  SessionInv'
<1>t. desc \in [Slots -> Descriptors] /\ slotOf \in [Engines -> Slots] /\ slot \in Slots
  BY DEF TypeInv, TypeOK
<1>0. Owned /\ Told /\ Answered /\ FreshSession
  BY DEF SessionInv
<1>1. UNCHANGED <<wd, slotOf>>
  BY DEF LMON_fe_createSession, MwDone, mainFrame
<1>2. \/ desc' = desc
      \/ desc' = [desc EXCEPT ![slot].registered = TRUE]
      \/ desc' = [desc EXCEPT ![slot].mw = TRUE] /\ desc[slot].registered
  BY DEF LMON_fe_createSession, MwDone
<1>3. \A s \in Slots :
        /\ desc'[s].eng = desc[s].eng
        /\ desc'[s].killed = desc[s].killed /\ desc'[s].detached = desc[s].detached
        /\ desc[s].registered => desc'[s].registered
        /\ ~desc'[s].registered => desc'[s] = desc[s]
  BY <1>t, <1>2 DEF Descriptors
<1>4. rc'.op \notin Controls
  <2>1. rc'.op = op /\ op \in {"create", "mw"}
    BY DEF LMON_fe_createSession, MwDone, PlaceInv, Enters, Return
  <2> QED
    BY <2>1 DEF Controls
<1>5. Owned'
  BY <1>0, <1>t, <1>1, <1>3 DEF Owned, Alive
<1>6. Told'
  BY <1>0, <1>1, <1>3, ToldStays DEF Told
<1>7. Answered'
  BY <1>4 DEF Answered, Controls
<1>8. FreshSession'
  BY <1>0, <1>3 DEF FreshSession, LMON_init_sess
<1> QED
  BY <1>5, <1>6, <1>7, <1>8 DEF SessionInv
LEMMA SessionStays ==
  ASSUME TypeInv, ReadInv, PlaceInv, SessionInv, Next, ~Timeouts
  PROVE  SessionInv'
<1>0. \A code : Return(code) => rc'.code = code /\ rc'.op = op
  BY DEF Return
<1>1. ASSUME NEW g \in Engines, EngineShips(g) \/ EngineEnds(g) \/ EngineCrashes(g)
      PROVE  SessionInv'
  <2>1. UNCHANGED <<desc, wd, slotOf, rc>>
    BY <1>1 DEF EngineShips, EngineEnds, EngineCrashes, engineFrame
  <2> QED
    BY <2>1, SessionFrame
<1>2. ASSUME NEW o \in Ops, NEW s \in Slots, Call(o, s) PROVE SessionInv'
  <2>1. UNCHANGED <<desc, wd, slotOf, rc>>
    BY <1>2 DEF Call, mainFrame
  <2> QED
    BY <2>1, SessionFrame
<1>3. ASSUME NEW o \in Spawns, SpawnForks(o) PROVE SessionInv'
  <2>1. /\ UNCHANGED <<desc, wd>>
        /\ rc' = rc \/ rc'.code # "OK"
    BY <1>0, <1>3 DEF SpawnForks
  <2>2. \A g \in Engines : engine[g] # "none" => slotOf'[g] = slotOf[g]
    <3>1. slotOf \in [Engines -> Slots]
      BY DEF TypeInv, TypeOK
    <3> QED
      BY <1>3, <3>1 DEF SpawnForks
  <2>3. \A g \in Engines : wd[g] # "none" => slotOf'[g] = slotOf[g]
    BY <2>2 DEF ReadInv
  <2> QED
    BY <2>1, <2>3, SessionFrame
<1>4. CASE SpawnWaits \/ SpawnWakes \/ SpawnProceeds \/ BeHandshake \/ BeHandshakeFails
  <2>1. UNCHANGED <<desc, wd, slotOf>>
    BY <1>4 DEF SpawnWaits, SpawnWakes, SpawnProceeds, BeHandshake,
         BeHandshakeFails, mainFrame
  <2>2. rc' = rc \/ rc'.code # "OK" \/ rc'.op \in Spawns
    BY <1>0, <1>4 DEF SpawnWaits, SpawnWakes, SpawnProceeds, BeHandshake,
         BeHandshakeFails, Goes, PlaceInv
  <2>3. rc'.op \in Spawns => rc'.op \notin Controls
    BY DEF Spawns, Controls
  <2> QED
    BY <2>1, <2>2, <2>3, SessionFrame
<1>5. ASSUME NEW o \in Controls, ControlRefused(o) \/ ControlShortWrite(o)
      PROVE  SessionInv'
  <2>1. UNCHANGED <<desc, wd, slotOf>> /\ rc'.code # "OK"
    BY <1>0, <1>5 DEF ControlRefused, ControlShortWrite, mainFrame
  <2> QED
    BY <2>1, SessionFrame
<1>6. ASSUME op \in Controls, UNCHANGED <<wd, slotOf>>,
             IF Awaited THEN Finishes("OK") ELSE UNCHANGED <<desc, rc>>
      PROVE  SessionInv'
  BY <1>6, SessionFinishes, SessionFrame
<1>7. ASSUME NEW o \in Controls, ControlSends(o) PROVE SessionInv'
  BY <1>6, <1>7 DEF ControlSends, ControlAdmitted, Enters
<1>8. CASE ControlWakes
  BY <1>6, <1>8 DEF ControlWakes, mainFrame
<1>9. CASE ControlTimesOut
  BY <1>9 DEF ControlTimesOut, TimesOut
<1>10. CASE (\E o \in Queries : Query(o)) \/ RecvEnters \/ RecvDone \/ MwEnters \/ MwFails
  <2>1. UNCHANGED <<desc, wd, slotOf>>
    BY <1>10 DEF Query, RecvEnters, RecvDone, MwEnters, MwFails, mainFrame
  <2>2. rc' = rc \/ rc'.op \in Queries \cup {"recv", "mw"}
    BY <1>0, <1>10 DEF Query, RecvEnters, RecvDone, MwEnters, MwFails, Enters, Goes,
         PlaceInv
  <2>3. rc'.op \in Queries \cup {"recv", "mw"} => rc'.op \notin Controls
    BY DEF Queries, Controls
  <2> QED
    BY <2>1, <2>2, <2>3, SessionFrame
<1> QED
  BY <1>1, <1>2, <1>3, <1>4, <1>5, <1>7, <1>8, <1>9, <1>10, SessionWatchdog,
     SessionAccepts, SessionMarks DEF Next, MainStep

\* The inductive invariant of a front end whose waits do not time out.
FEInv == TypeInv /\ ReadInv /\ PlaceInv /\ SessionInv

LEMMA FEInvInit == Init => FEInv
<1> SUFFICES ASSUME Init PROVE FEInv
  OBVIOUS
<1>1. TypeInv
  BY InitType DEF Init, TypeInv, Launched
<1>2. ReadInv /\ PlaceInv
  BY DEF Init, ReadInv, PlaceInv
<1>3. \A s \in Slots : desc[s] = LMON_init_sess
  BY DEF Init
<1>4. SessionInv
  BY <1>3 DEF Init, SessionInv, Owned, Told, Answered, FreshSession, Alive, LMON_init_sess
<1> QED
  BY <1>1, <1>2, <1>4 DEF FEInv

LEMMA FEInvStays ==
  ASSUME FEInv, [Next]_vars, ~Timeouts
  PROVE  FEInv'
<1>1. CASE Next
  BY <1>1, NextType, Reading, PlaceStays, SessionStays DEF FEInv
<1>2. CASE UNCHANGED vars
  <2>1. TypeInv'
    BY NextType DEF FEInv
  <2>2. ReadInv' /\ PlaceInv'
    BY <1>2 DEF vars, FEInv, ReadInv, PlaceInv
  <2>3. SessionInv'
    BY <1>2 DEF vars, FEInv, SessionInv, Owned, Told, Answered, FreshSession, Alive,
         ToldBy, Heard, LMON_init_sess
  <2> QED
    BY <2>1, <2>2, <2>3 DEF FEInv
<1> QED
  BY <1>1, <1>2

\* A call that returns LMON_OK was answered by the engine of its own session,
\* over any number of sessions that use the same descriptor one after another,
\* with crashing engines, failed writes and spurious wake-ups.
THEOREM AnswersAreOwn ==
  ASSUME ~Timeouts
  PROVE  Spec => []AnswerIsEngines
<1>1. FEInv => AnswerIsEngines
  <2> SUFFICES ASSUME FEInv, rc.code = "OK"
               PROVE  /\ rc.op = "kill" => Heard(rc.eng) \cap (JobEnds \cup {"kill_done"}) # {}
                      /\ rc.op \in {"detach", "shutdown"} => Heard(rc.eng) \cap Detachments # {}
    BY DEF AnswerIsEngines
  <2>1. rc.eng \in 0 .. MaxEngines
    BY DEF FEInv, TypeInv, TypeOK, Results
  <2> QED
    BY <2>1 DEF FEInv, SessionInv, Answered, ToldBy, Deaths
<1> QED
  BY <1>1, FEInvInit, FEInvStays, PTL DEF Spec

\* A descriptor that LMON_fe_createSession can grant is as LMON_init_sess left it.
THEOREM GrantsAreFresh ==
  ASSUME ~Timeouts
  PROVE  Spec => []FreshSession
<1>1. FEInv => FreshSession
  BY DEF FEInv, SessionInv
<1> QED
  BY <1>1, FEInvInit, FEInvStays, PTL DEF Spec

\* The watchdog has ended when its descriptor is destroyed and initialised, as
\* its comment demands; a timeout is the only way around it.
THEOREM WatchdogOutlived ==
  ASSUME ~Timeouts
  PROVE  Spec => WatchdogGoneBeforeReinit
<1> DEFINE Reinits(s) == desc[s].registered /\ ~desc'[s].registered
           Gone(s) == \A g \in Engines : slotOf[g] = s => wd[g] \in {"none", "done"}
<1>1. ASSUME FEInv, Next, NEW s \in Slots, Reinits(s) PROVE Gone(s)
  <2>t. /\ desc \in [Slots -> Descriptors] /\ slot \in Slots
        /\ wd \in [Engines -> {"none", "reading", "locking", "locked", "done"}]
        /\ TypeInv /\ ReadInv /\ PlaceInv /\ SessionInv
    BY <1>1 DEF FEInv, TypeInv, TypeOK
  <2>1. ASSUME op \in Controls, Awaited, Finishes("OK"), UNCHANGED <<wd, slotOf>>
        PROVE  Gone(s)
    <3>1. \A g \in Engines : slotOf[g] = slot => ~Alive(g)
      BY <1>1, <2>t, <2>1, SessionFinishes
    <3>2. s = slot
      BY <1>1, <2>t, <2>1 DEF Finishes
    <3> QED
      BY <2>t, <3>1, <3>2 DEF Alive
  <2>2. ASSUME NEW o \in Controls, ControlSends(o) PROVE Gone(s)
    BY <1>1, <2>1, <2>2 DEF ControlSends, ControlAdmitted, Enters
  <2>3. CASE ControlWakes
    BY <1>1, <2>1, <2>3 DEF ControlWakes, mainFrame
  <2>4. CASE ControlTimesOut
    BY <2>4 DEF ControlTimesOut, TimesOut
  <2>5. CASE \E g \in Engines : EngineShips(g) \/ EngineEnds(g) \/ EngineCrashes(g)
    BY <1>1, <2>5 DEF EngineShips, EngineEnds, EngineCrashes, engineFrame
  <2>6. CASE \E g \in Engines : Watchdog(g)
    BY <1>1, <2>t, <2>6, WatchdogFrame
  <2>7. CASE EngineAccepted \/ EngineNotAccepted
    <3>1. UNCHANGED desc \/ desc' = [desc EXCEPT ![slot].eng = launching]
      BY <2>7 DEF EngineAccepted, EngineNotAccepted, Connected
    <3> QED
      BY <1>1, <2>t, <3>1 DEF Descriptors
  <2>8. CASE LMON_fe_createSession \/ MwDone
    <3>1. \/ UNCHANGED desc
          \/ desc' = [desc EXCEPT ![slot].registered = TRUE]
          \/ desc' = [desc EXCEPT ![slot].mw = TRUE]
      BY <2>8 DEF LMON_fe_createSession, MwDone
    <3> QED
      BY <1>1, <2>t, <3>1, SMTT(30) DEF Descriptors
  <2>9. CASE \/ \E o \in Ops : \E r \in Slots : Call(o, r)
             \/ \E o \in Spawns : SpawnForks(o)
             \/ SpawnWaits \/ SpawnWakes \/ SpawnProceeds \/ BeHandshake
             \/ BeHandshakeFails \/ RecvEnters \/ RecvDone \/ MwEnters \/ MwFails
             \/ \E o \in Queries : Query(o)
             \/ \E o \in Controls : ControlRefused(o) \/ ControlShortWrite(o)
    <3>1. UNCHANGED desc
      BY <2>9 DEF Call, SpawnForks, SpawnWaits, SpawnWakes, SpawnProceeds,
           BeHandshake, BeHandshakeFails, RecvEnters, RecvDone, MwEnters, MwFails,
           Query, ControlRefused, ControlShortWrite
    <3> QED
      BY <1>1, <3>1
  <2> QED
    BY <1>1, <2>2, <2>3, <2>4, <2>5, <2>6, <2>7, <2>8, <2>9 DEF Next, MainStep
<1>2. FEInv /\ [Next]_vars =>
        [\A s \in Slots : desc[s].registered /\ ~desc'[s].registered =>
           \A g \in Engines : slotOf[g] = s => wd[g] \in {"none", "done"}]_vars
  BY <1>1
<1> QED
  BY <1>2, FEInvInit, FEInvStays, PTL DEF Spec, WatchdogGoneBeforeReinit
=============================================================================
