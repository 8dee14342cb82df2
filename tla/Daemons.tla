------------------------------- MODULE Daemons -------------------------------
(***************************************************************************)
(* The handshake between the front end and its daemons, and the calls that *)
(* follow it: lmon_be.cxx, lmon_mw.cxx, lmon_daemon_internal.cxx, the      *)
(* handshake sequences of lmon_fe.cxx and the co-location spawner.         *)
(*                                                                         *)
(* The front end talks to rank 0, the master, over the socket COBO opened  *)
(* (module CoboOpen); the master shares what it learns with the others by  *)
(* collectives (modules Collectives and Cobo).  Nothing in a message says  *)
(* which call it belongs to, so the two sides have to write and read in    *)
(* the same order, and the daemons have to make the same collective calls  *)
(* whatever happens to the master.                                         *)
(*                                                                         *)
(* A function of the API is the sequence of the steps it takes: messages,  *)
(* collectives and calls of the process control layer (module ProcCtl).    *)
(* A step that fails makes the function return; the tool then ends, as the *)
(* tools of test/src do, and what the others notice of it is that its      *)
(* connections close.                                                      *)
(***************************************************************************)
EXTENDS Integers, Sequences

CONSTANTS N,           \* daemons
          MaxUsr,      \* calls of the tool after the handshake
          MaxFaults,   \* things that go wrong
          Asked,       \* the modes the front end's environment asks for
          BigEndian    \* the first byte of an integer is its highest

ASSUME DaemonsAssumption ==
  /\ N \in Nat \ {0} /\ MaxUsr \in Nat /\ MaxFaults \in Nat /\ BigEndian \in BOOLEAN
  /\ Asked \subseteq {"launch", "launch_dontstop", "attach", "attach_stop"}

FE     == -1                      \* the front end
Ranks  == 0 .. N - 1
Procs  == Ranks \cup {FE}
Modes  == {"launch", "launch_dontstop", "attach", "attach_stop"}   \* trm_*
Words  == 4                       \* LMON_KEY_LENGTH / sizeof(int32_t)
Block  == 2                       \* words of a cipher block: the id is in the first

VARIABLES
  kind,      \* "be" or "mw"
  script,    \* the calls of the tool after the handshake, daemons and front end alike
  prog,      \* the steps each process has still to take
  st,        \* "up", "failed" (a call returned an error), "gone" or "closed"
  codes,     \* what the API calls of each process have returned
  chan,      \* chan[p]: written to p and not read (p is FE or the master)
  cut,       \* the front end has closed the connection of a stranger
  hdr,       \* the type in the header p read last
  words,     \* words of the encrypted id the front end has got
  called,    \* collectives each rank has entered
  inside,    \* the rank is in a collective
  root,      \* what the master put in for each collective
  know,      \* what each process knows of the job, and lrc of the call it is in
  synced,    \* the job procctl_init has synchronized with, <<>> before
  engine,    \* the engine has been told to continue the launcher
  faults

vars == <<kind, script, prog, st, codes, chan, cut, hdr, words, called, inside, root,
          know, synced, engine, faults>>

\* the collectives are those COBO promises
Promise == INSTANCE Collectives WITH Ops <- {"barrier", "bcast", "gather"}, MaxOps <- 0,
                                     MaxDeaths <- MaxFaults, prog <- script,
                                     called <- called, res <- codes, st <- st, deaths <- faults

-----------------------------------------------------------------------------
(* The daemons' side. *)

Do(what, arg)   == [do |-> what, arg |-> arg]
Barrier         == Do("barrier", "none")
LastBarrier     == Do("barrier", "returns")
Bcast(field)    == Do("bcast", field)
Return          == Do("return", "none")
MasterOnly(d, s) == IF d = 0 THEN s ELSE <<>>

\* the master proves with the session's id, encrypted, that it is the session's
SecurityCheck(d) ==
  MasterOnly(d, <<Do("key", "none")>> \o [i \in 1 .. Words |-> Do("write", "security_chk")])

LMON_be_init(d) == SecurityCheck(d) \o <<LastBarrier>>

LMON_mw_init(d) == SecurityCheck(d) \o <<LastBarrier>>

SendHostnames(d) == <<Do("gather", "none")>> \o MasterOnly(d, <<Do("write", "hostname")>>)

JobFromFE(d) ==
  MasterOnly(d, <<Do("read", "proctab"), Do("read", "mode"), Do("read", "rm_type"),
                  Do("read", "usrdata")>>)

\* Mistake: the type of the resource manager is not broadcast.
ForgetsRM(d) == <<Bcast("mode"), Bcast("size"), Bcast("table")>>

ShareJob(d) == <<Bcast("mode"), Bcast("rm"), Bcast("size"), Bcast("table")>>

\* Mistake: the launcher is continued before all daemons have their processes.
ContinuesEarly(d) ==
  <<Do("procctl_init", "none")>> \o MasterOnly(d, <<Do("write", "cont_launch_bp")>>)
    \o <<Barrier, Do("procctl_initdone", "none"), LastBarrier>>

\* Mistake: no barrier at the end.
NoLastBarrier(d) ==
  <<Do("procctl_init", "none"), Barrier>> \o MasterOnly(d, <<Do("write", "cont_launch_bp")>>)
    \o <<Do("procctl_initdone", "none"), Bcast("lrc")>>

SyncWithMPI(d) ==
  <<Do("procctl_init", "none"), Barrier>> \o MasterOnly(d, <<Do("write", "cont_launch_bp")>>)
    \o <<Do("procctl_initdone", "none"), LastBarrier>>

LMON_be_handshake(d) ==
  SendHostnames(d) \o JobFromFE(d) \o ShareJob(d) \o SyncWithMPI(d)

LMON_mw_handshake(d) ==
  SendHostnames(d) \o MasterOnly(d, <<Do("read", "usrdata")>>) \o <<LastBarrier>>

LMON_be_ready(d) == MasterOnly(d, <<Do("write", "ready")>>) \o <<LastBarrier>>

LMON_mw_ready(d) == MasterOnly(d, <<Do("write", "ready")>>) \o <<LastBarrier>>

\* something_bad: the master's return code goes to all
LMON_be_recvUsrData(d) == MasterOnly(d, <<Do("recvUsrData", "none")>>) \o <<Bcast("lrc")>>

LMON_be_sendUsrData(d) == MasterOnly(d, <<Do("sendUsrData", "none")>>) \o <<Bcast("lrc")>>

LMON_mw_recvUsrData(d) == MasterOnly(d, <<Do("recvUsrData", "none")>>) \o <<Bcast("lrc")>>

LMON_mw_sendUsrData(d) == MasterOnly(d, <<Do("sendUsrData", "none")>>) \o <<Bcast("lrc")>>

\* do_bemaster, do_beslave: the payload's length, the payload, then fork
LMON_be_assist_mw_coloc(d) ==
  MasterOnly(d, <<Do("do_bemaster", "none")>>) \o <<Bcast("leng"), Bcast("lmonpl")>>

DaemonCall(d, c) ==
  CASE c = "coloc" -> LMON_be_assist_mw_coloc(d)
    [] c = "recv"  -> IF kind = "be" THEN LMON_be_recvUsrData(d) ELSE LMON_mw_recvUsrData(d)
    [] c = "send"  -> IF kind = "be" THEN LMON_be_sendUsrData(d) ELSE LMON_mw_sendUsrData(d)

-----------------------------------------------------------------------------
(* The front end's side. *)

CheckDaemons == [i \in 1 .. Words |-> Do("read", "security_chk")]
                  \o <<Do("is_secure", "none"), Do("read", "hostname")>>

\* Mistake: the type of the resource manager goes out before the mode.
RMTypeFirst == <<Do("write", "proctab"), Do("write", "rm_type"), Do("write", "mode"),
                 Do("handleFeBeUsrData", "handshake")>>

JobToDaemons == <<Do("write", "proctab"), Do("write", "mode"), Do("write", "rm_type"),
                  Do("handleFeBeUsrData", "handshake")>>

AwaitReady == <<Do("read", "cont_launch_bp"), Do("engine", "none"),
                Do("handleBeFeUsrData", "handshake")>>

LMON_fe_beHandshakeSequence == CheckDaemons \o JobToDaemons \o AwaitReady \o <<Return>>

LMON_fe_mwHandshakeSequence ==
  CheckDaemons \o <<Do("handleFeMwUsrData", "handshake"), Do("handleMwFeUsrData", "handshake"), Return>>

FECall(c) ==
  CASE c = "coloc" -> <<Do("write", "assist_mw_coloc"), Return>>
    [] c = "recv"  -> <<Do(IF kind = "be" THEN "handleFeBeUsrData" ELSE "handleFeMwUsrData", "call")>>
    [] c = "send"  -> <<Do(IF kind = "be" THEN "handleBeFeUsrData" ELSE "handleMwFeUsrData", "call")>>

-----------------------------------------------------------------------------
Calls(k) == IF k = "be" THEN {"recv", "send", "coloc"} ELSE {"recv", "send"}

DaemonProgram(d) ==
  IF kind = "be" THEN LMON_be_init(d) \o LMON_be_handshake(d) \o LMON_be_ready(d)
                 ELSE LMON_mw_init(d) \o LMON_mw_handshake(d) \o LMON_mw_ready(d)

FEProgram ==
  IF kind = "be" THEN LMON_fe_beHandshakeSequence ELSE LMON_fe_mwHandshakeSequence

Nothing == [mode |-> "unset", rm |-> "unset", size |-> "unset", table |-> "unset",
            leng |-> "unset", lmonpl |-> "unset", key |-> "right", lrc |-> "OK"]

Init ==
  /\ kind \in {"be", "mw"}
  /\ script = <<>>
  /\ prog = [p \in Procs |-> IF p = FE THEN FEProgram ELSE DaemonProgram(p)]
  /\ st = [p \in Procs |-> "up"]
  /\ codes = [p \in Procs |-> <<>>]
  /\ chan = [p \in {FE, 0} |-> <<>>]
  /\ cut = FALSE
  /\ hdr = [p \in {FE, 0} |-> "junk"]          \* uninitialized
  /\ words = 0
  /\ called = [d \in Ranks |-> 0]
  /\ inside = [d \in Ranks |-> FALSE]
  /\ root = <<>>
  /\ know = [p \in Procs |-> IF p = FE THEN [Nothing EXCEPT !.rm = "rm", !.table = "T", !.size = "sizeT"]
                                       ELSE Nothing]
  /\ synced = [d \in Ranks |-> <<>>]
  /\ engine = FALSE
  /\ faults = 0

At(p, what) == st[p] = "up" /\ prog[p] # <<>> /\ Head(prog[p]).do = what

Fault == faults < MaxFaults /\ faults' = faults + 1

\* the step is done
Advance(p) == prog' = [prog EXCEPT ![p] = Tail(@)] /\ UNCHANGED <<st, codes>>

\* the function returns code in the middle
Fails(p, code) ==
  /\ codes' = [codes EXCEPT ![p] = Append(@, code)]
  /\ st' = [st EXCEPT ![p] = "failed"]
  /\ prog' = [prog EXCEPT ![p] = <<>>]

\* the process dies: exit(1), a signal
Dies(p) ==
  /\ st' = [st EXCEPT ![p] = "gone"]
  /\ prog' = [prog EXCEPT ![p] = <<>>]
  /\ UNCHANGED codes

\* the codes of user data calls that the tools end for (be_kicker, fe_launch_smoketest)
Fatal == {"EINVAL", "EBDARG", "ENOMEM", "ENEGCB"}

\* a call returns code to the tool
ReturnsCode(p, code) ==
  /\ codes' = [codes EXCEPT ![p] = Append(@, code)]
  /\ IF code \in Fatal
     THEN prog' = [prog EXCEPT ![p] = <<>>] /\ st' = [st EXCEPT ![p] = "failed"]
     ELSE prog' = [prog EXCEPT ![p] = Tail(@)] /\ UNCHANGED st

job == <<kind, script>>                      \* groups of variables, for UNCHANGED
wire == <<chan, hdr, words>>
coll == <<called, inside, root>>
data == <<know, synced, engine>>

-----------------------------------------------------------------------------
(* Messages. *)

Peer(p) == IF p = FE THEN 0 ELSE FE

\* nobody will write to p any more
Ended(p) == st[Peer(p)] \in {"gone", "closed"} \/ cut

Message(type, val, pay) == [type |-> type, val |-> val, pay |-> pay]
Lost == Message("eof", "none", FALSE)

\* What a read may find: the next message or, when the peer has closed, the end
\* of the connection.  A peer that closed with input unread has reset it: what it
\* had written may be lost.
Arrivals(p) ==
  (IF chan[p] # <<>> THEN {Head(chan[p])} ELSE {})
    \cup (IF Ended(p) /\ (chan[p] = <<>> \/ chan[Peer(p)] # <<>>) THEN {Lost} ELSE {})

Taken(p, m) == chan' = [chan EXCEPT ![p] = IF m = Lost THEN <<>> ELSE Tail(@)]

\* A write to a closed connection is lost and resets it, or its SIGPIPE ends the
\* process.
Sent(p, m) ==
  \/ ~Ended(p) /\ chan' = [chan EXCEPT ![Peer(p)] = Append(@, m)] /\ Advance(p)
  \/ Ended(p) /\ chan' \in {chan, [chan EXCEPT ![p] = <<>>]} /\ (Advance(p) \/ Dies(p))

\* what p has to say in a message of this type
Content(p, type) ==
  CASE type = "proctab" -> know[p].table
    [] type = "rm_type" -> know[p].rm
    [] type = "security_chk" -> know[p].key
    [] OTHER -> "none"

write_lmonp_long_msg(p) ==
  /\ At(p, "write") /\ Head(prog[p]).arg # "mode"
  /\ \E pay \in IF Head(prog[p]).arg = "ready" THEN BOOLEAN ELSE {FALSE} :
       Sent(p, Message(Head(prog[p]).arg, Content(p, Head(prog[p]).arg), pay))
  /\ UNCHANGED <<job, cut, hdr, words, coll, data, faults>>

\* is_launch and LMON_DONT_STOP_APP
WriteMode ==
  /\ At(FE, "write") /\ Head(prog[FE]).arg = "mode"
  /\ \E m \in Asked : Sent(FE, Message(m, "none", FALSE)) /\ know' = [know EXCEPT ![FE].mode = m]
  /\ UNCHANGED <<job, cut, hdr, words, coll, synced, engine, faults>>

Expected(type) == IF type = "mode" THEN Modes ELSE {type}

\* only these reads look at what read_lmonp_msgheader returns
Checked(type) == type \in {"hostname", "cont_launch_bp"}

\* the others look at the header, which is the last one when nothing was read
Accepted(p, type, m) ==
  IF m = Lost THEN ~Checked(type) /\ hdr[p] \in Expected(type) ELSE m.type \in Expected(type)

\* what process p keeps of a message
Learned(p, m) ==
  CASE m.type = "proctab" -> [know EXCEPT ![p].table = m.val, ![p].size = "sizeT"]
    [] m.type \in Modes   -> [know EXCEPT ![p].mode = m.type]
    [] m.type = "rm_type" -> [know EXCEPT ![p].rm = m.val]
    [] OTHER -> know

read_lmonp_msgheader(p) ==
  /\ At(p, "read")
  /\ \E m \in Arrivals(p) :
       LET type == Head(prog[p]).arg IN
       /\ Taken(p, m)
       /\ hdr' = [hdr EXCEPT ![p] = IF m = Lost THEN @ ELSE m.type]
       /\ words' = IF m.type = "security_chk" /\ m.val = "right" THEN words + 1 ELSE words
       /\ \/ /\ Accepted(p, type, m)
             /\ know' = Learned(p, m) /\ Advance(p) /\ UNCHANGED faults
          \/ /\ ~Accepted(p, type, m)
             /\ Fails(p, IF m = Lost /\ Checked(type) THEN "ESYS" ELSE "EBDMSG")
             /\ UNCHANGED <<know, faults>>
          \/ \* unpack is called through a null pointer
             m.pay /\ Dies(p) /\ Fault /\ UNCHANGED know
  /\ UNCHANGED <<job, cut, coll, synced, engine>>

-----------------------------------------------------------------------------
(* The daemons' own steps. *)

\* LMON_daemon_getSharedKeyAndID; a truncated command line has no key
GetSharedKeyAndID ==
  /\ At(0, "key")
  /\ \/ Advance(0) /\ UNCHANGED <<know, faults>>
     \/ Fails(0, "ESYS") /\ Fault /\ UNCHANGED know
     \/ Advance(0) /\ Fault /\ know' = [know EXCEPT ![0].key = "wrong"]
  /\ UNCHANGED <<job, wire, cut, coll, synced, engine>>

Collective(d) == \E op \in {"barrier", "bcast", "gather"} : At(d, op)

Enter(d) ==
  /\ Collective(d) /\ ~inside[d]
  /\ called' = [called EXCEPT ![d] = @ + 1]
  /\ inside' = [inside EXCEPT ![d] = TRUE]
  /\ root' = IF d = 0
             THEN Append(root, IF At(d, "bcast") THEN know[0][Head(prog[0]).arg] ELSE "none")
             ELSE root
  /\ UNCHANGED <<job, prog, st, codes, wire, cut, data, faults>>

\* Mistake: each daemon keeps its own code.
OwnCode(d, field, v) == IF field = "lrc" THEN know ELSE [know EXCEPT ![d][field] = v]

\* A slave starts with lrc = LMON_OK; the broadcast of lrc passes
\* `sizeof(lrc) != LMON_OK', one byte, over it.
Broadcast(d, field, v) ==
  [know EXCEPT ![d][field] = IF field = "lrc" /\ BigEndian /\ d # 0 THEN "OK" ELSE v]

Leave(d) ==
  LET op    == Head(prog[d]).do
      field == Head(prog[d]).arg
  IN
  /\ Collective(d) /\ inside[d]
  /\ \A q \in Promise!Awaited(op, d) : called[q] >= called[d]
  /\ inside' = [inside EXCEPT ![d] = FALSE]
  /\ know' = IF op = "bcast" THEN Broadcast(d, field, root[called[d]]) ELSE know
  /\ CASE field \in {"returns", "lmonpl"} -> ReturnsCode(d, "OK")
       [] field = "lrc"                   -> ReturnsCode(d, know'[d].lrc)
       [] OTHER                           -> Advance(d)
  /\ UNCHANGED <<job, wire, cut, called, root, synced, engine, faults>>

\* Mistake: a read that finds the end of the connection is tried again.
TriesAgain(d) == Collective(d) /\ inside[d] /\ UNCHANGED vars

\* COBO exits in the middle of a collective when another daemon has gone
GivesUp(d) ==
  /\ Collective(d) /\ inside[d] /\ \E q \in Ranks : st[q] = "gone"
  /\ Dies(d)
  /\ UNCHANGED <<job, wire, cut, coll, data, faults>>

Job(p) == <<know[p].mode, know[p].rm, know[p].size, know[p].table>>

\* includes getMyProctab: a host that is not in the table has no processes, no error
procctl_init(d) ==
  /\ At(d, "procctl_init")
  /\ \/ Advance(d) /\ synced' = [synced EXCEPT ![d] = Job(d)] /\ UNCHANGED faults
     \/ Fails(d, "ESUBSYNC") /\ Fault /\ UNCHANGED synced
  /\ UNCHANGED <<job, wire, cut, coll, know, engine>>

\* and procctl_run, for launch_dontstop and attach
procctl_initdone(d) ==
  /\ At(d, "procctl_initdone")
  /\ \/ Advance(d) /\ UNCHANGED faults
     \/ Fails(d, "ESUBSYNC") /\ Fault
  /\ UNCHANGED <<job, wire, cut, coll, data>>

SetCode(code) == know' = [know EXCEPT ![0].lrc = code]

MasterReceives ==
  /\ At(0, "recvUsrData")
  /\ \E m \in Arrivals(0) :
       /\ Taken(0, m)
       /\ \/ m = Lost /\ SetCode("ESYS") /\ UNCHANGED faults
          \/ m # Lost /\ m.type # "usrdata" /\ SetCode("EBDMSG") /\ UNCHANGED faults
          \/ m.type = "usrdata" /\ ~m.pay /\ SetCode("ENOPLD") /\ UNCHANGED faults
          \/ m.type = "usrdata" /\ m.pay /\ SetCode("OK") /\ UNCHANGED faults
          \/ m.type = "usrdata" /\ m.pay /\ Fault /\ (SetCode("ENEGCB") \/ SetCode("ENCLLB"))
  /\ Advance(0)
  /\ UNCHANGED <<job, hdr, words, cut, coll, synced, engine>>

MasterSends ==
  /\ At(0, "sendUsrData")
  /\ \/ \* pack returned a negative code: nothing is written
        SetCode("ENEGCB") /\ Advance(0) /\ Fault /\ UNCHANGED chan
     \/ Ended(0) /\ SetCode("ESYS") /\ Advance(0) /\ UNCHANGED <<chan, faults>>
     \/ \E pay \in BOOLEAN :
          /\ Sent(0, Message("befe_usrdata", "none", pay))
          /\ SetCode(IF pay THEN "OK" ELSE "ENCLLB") /\ UNCHANGED faults
  /\ UNCHANGED <<job, hdr, words, cut, coll, synced, engine>>

\* the header may be junk, but then the payload does not have its length
do_bemaster ==
  /\ At(0, "do_bemaster")
  /\ \E m \in Arrivals(0) :
       /\ Taken(0, m)
       /\ \/ /\ m.type = "assist_mw_coloc"
             /\ know' = [know EXCEPT ![0].leng = "sizeP", ![0].lmonpl = "P"] /\ Advance(0)
          \/ m.type # "assist_mw_coloc" /\ Fails(0, "ESUBCOM") /\ UNCHANGED know
  /\ UNCHANGED <<job, hdr, words, cut, coll, synced, engine, faults>>

-----------------------------------------------------------------------------
(* The front end's own steps. *)

\* only the first block holds the id: the words behind it may be stale
is_secure ==
  /\ At(FE, "is_secure")
  /\ IF words >= Block THEN Advance(FE) /\ UNCHANGED cut
                       ELSE Fails(FE, "ESYS") /\ cut' = TRUE
  /\ UNCHANGED <<job, wire, coll, data, faults>>

FEReturns ==
  /\ At(FE, "return")
  /\ ReturnsCode(FE, "OK")
  /\ UNCHANGED <<job, wire, cut, coll, data, faults>>

ToEngine ==
  /\ At(FE, "engine") /\ Advance(FE)
  /\ engine' = TRUE
  /\ UNCHANGED <<job, wire, cut, coll, know, synced, faults>>

\* the code of a user data step: the call's own, or one the handshake may return for
UsrCode(code) ==
  CASE Head(prog[FE]).arg = "call" -> ReturnsCode(FE, code)
    [] OTHER -> IF code \in {"OK", "ENOPLD"} THEN Advance(FE) ELSE Fails(FE, code)

\* With or without data; with data, a pack function may be missing (a short message
\* goes out) or fail (none does); the session may be gone.
handleUsrDataOut ==
  \E step \in {"handleFeBeUsrData", "handleFeMwUsrData"}, 
     code \in {"OK", "ENOPLD", "ENCLLB", "EINVAL", "EBDARG"} :
    /\ At(FE, step)
    /\ IF code \in {"OK", "ENOPLD"} THEN UNCHANGED faults ELSE Fault
    /\ \/ code \notin Fatal /\ ~Ended(FE)
          /\ chan' = [chan EXCEPT ![0] = Append(@, Message("usrdata", "none", code = "OK"))]
          /\ UsrCode(code)
       \/ (code \in Fatal \/ Ended(FE)) /\ UNCHANGED chan /\ UsrCode(code)
       \/ code \notin Fatal /\ Ended(FE) /\ UNCHANGED chan /\ Dies(FE)
    /\ UNCHANGED <<job, hdr, words, cut, coll, data>>

\* What the read leaves in a header on the stack, when nothing came: junk, or
\* what an earlier call of the function left there.
handleUsrDataIn ==
  \E step \in {"handleBeFeUsrData", "handleMwFeUsrData"} :
    /\ At(FE, step)
    /\ \E m \in Arrivals(FE), stale \in {"junk", hdr[FE]} :
         LET type == IF m = Lost THEN stale ELSE m.type IN
         /\ Taken(FE, m)
         /\ hdr' = [hdr EXCEPT ![FE] = type]
         /\ \/ type \notin {"ready", "befe_usrdata"} /\ UsrCode("EBDMSG") /\ UNCHANGED faults
            \/ type \in {"ready", "befe_usrdata"} /\ (m = Lost \/ ~m.pay) /\ UsrCode("ENOPLD") /\ UNCHANGED faults
            \/ type \in {"ready", "befe_usrdata"} /\ (m = Lost \/ m.pay) /\ UsrCode("OK") /\ UNCHANGED faults
            \/ type \in {"ready", "befe_usrdata"} /\ m.pay /\ Fault /\ (UsrCode("ENCLLB") \/ UsrCode(IF kind = "be" THEN "ENEGCB" ELSE "ECLLB"))
    /\ UNCHANGED <<job, words, cut, coll, data>>

\* the watchdog has ended the session in the meantime: nothing is read
handleUsrDataTooLate ==
  /\ At(FE, "handleBeFeUsrData") \/ At(FE, "handleMwFeUsrData")
  /\ Fault /\ UsrCode("EBDARG")
  /\ UNCHANGED <<job, wire, cut, coll, data>>

-----------------------------------------------------------------------------
\* calls a process has made after the handshake
Made(p) == Len(codes[p]) - (IF p = FE THEN 1 ELSE 3)

\* the tool makes its next call; who comes first to it settles which
NextCall(p) ==
  /\ st[p] = "up" /\ prog[p] = <<>> /\ Made(p) < MaxUsr
  /\ \E c \in Calls(kind) :
       /\ IF Made(p) < Len(script) THEN c = script[Made(p) + 1] /\ UNCHANGED script
                                   ELSE script' = Append(script, c)
       /\ prog' = [prog EXCEPT ![p] = IF p = FE THEN FECall(c) ELSE DaemonCall(p, c)]
  /\ UNCHANGED <<kind, st, codes, wire, cut, coll, data, faults>>

\* the tool is at its end, or gives up after an error: LMON_be_finalize, exit
Finalize(p) ==
  /\ st[p] = "failed" \/ (st[p] = "up" /\ prog[p] = <<>> /\ Made(p) = MaxUsr)
  /\ st' = [st EXCEPT ![p] = IF @ = "up" THEN "closed" ELSE "gone"]
  /\ UNCHANGED <<job, prog, codes, cut, wire, coll, data, faults>>

Killed(p) ==
  /\ st[p] \in {"up", "failed"} /\ Fault
  /\ Dies(p)
  /\ UNCHANGED <<job, cut, wire, coll, data>>

FEStep ==
  \/ write_lmonp_long_msg(FE) \/ WriteMode \/ read_lmonp_msgheader(FE) \/ is_secure \/ FEReturns
  \/ ToEngine \/ handleUsrDataOut \/ handleUsrDataIn \/ handleUsrDataTooLate
  \/ NextCall(FE) \/ Finalize(FE)

MasterStep ==
  \/ write_lmonp_long_msg(0) \/ read_lmonp_msgheader(0) \/ GetSharedKeyAndID
  \/ MasterReceives \/ MasterSends \/ do_bemaster

DaemonStep(d) ==
  \/ Enter(d) \/ Leave(d) \/ GivesUp(d) \/ procctl_init(d) \/ procctl_initdone(d)
  \/ NextCall(d) \/ Finalize(d)

Terminated == (\A p \in Procs : st[p] \in {"gone", "closed"}) /\ UNCHANGED vars

Next ==
  \/ FEStep
  \/ MasterStep
  \/ \E d \in Ranks : DaemonStep(d)
  \/ \E p \in Procs : Killed(p)
  \/ Terminated

\* Processes run; a collective or a read that can return, or has nothing left to
\* wait for, does; a tool whose call failed ends.
Fairness == WF_vars(FEStep) /\ WF_vars(MasterStep) /\ \A d \in Ranks : WF_vars(DaemonStep(d))

Spec == Init /\ [][Next]_vars /\ Fairness

-----------------------------------------------------------------------------
\* The front end lets the engine continue the launcher from MPIR_Breakpoint only
\* when every daemon has the processes of its host under control: the message
\* that asks for it comes from the master, behind the barrier that all daemons
\* enter after procctl_init, a barrier whose result LMON_be_handshake ignores.
ReleasedTogether == engine => \A d \in Ranks : synced[d] # <<>>

\* Every daemon synchronizes with the job of the front end: the same table, the
\* same resource manager and the mode LMON_DONT_STOP_APP asks for, though only
\* the master has read them.
AgreedJob == \A d \in Ranks : synced[d] # <<>> => synced[d] = Job(FE)

\* The collectives up to the end of LMON_be_handshake, LMON_mw_handshake.
SyncPoints == IF kind = "be" THEN 8 ELSE 3

\* When the handshake succeeds at the front end every daemon has got to the end of
\* its own: the ready message of the master speaks for all, also when one of them
\* has failed or died on the way.
ReadyMeansAll ==
  codes[FE] # <<>> /\ codes[FE][1] = "OK" => \A d \in Ranks : called[d] >= SyncPoints

\* Daemons that return from the same call of the API get the same code from it:
\* either the master's code is duplicated, or the ones it would not reach exit.
SameReturn ==
  \A d, e \in Ranks : \A j \in DOMAIN codes[d] \cap DOMAIN codes[e] : codes[d][j] = codes[e][j]

\* Whatever goes wrong, everybody comes to an end: no daemon stays in a collective
\* nor in a read, and the front end's calls return.  When nothing goes wrong nobody's
\* call fails: each side reads what the other writes, in the order it writes it.
AllEnd == <>(\A p \in Procs : st[p] \in {"gone", "closed"} /\ (faults = 0 => st[p] = "closed"))
=============================================================================
