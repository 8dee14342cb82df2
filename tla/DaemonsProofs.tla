--------------------------- MODULE DaemonsProofs ---------------------------
(***************************************************************************)
(* What the handshake between front end and daemons guarantees for any     *)
(* number of daemons, calls and failures.                                  *)
(*                                                                         *)
(* Up to the end of the handshake everybody executes a fixed list of steps *)
(* (Plan), of which prog is the rest.  The invariant says, for each length *)
(* of that rest, how many collectives the process has entered and what it  *)
(* knows; what others may conclude from a message or from having left a    *)
(* collective are statements about these counts, which never decrease.     *)
(***************************************************************************)
EXTENDS Daemons, SequenceTheorems, TLAPS

-----------------------------------------------------------------------------
(* The types *)

Whats == {"key", "write", "read", "barrier", "bcast", "gather", "procctl_init",
          "procctl_initdone", "recvUsrData", "sendUsrData", "do_bemaster", "is_secure",
          "engine", "return", "handleFeBeUsrData", "handleBeFeUsrData",
          "handleFeMwUsrData", "handleMwFeUsrData"}
Args == {"none", "security_chk", "returns", "hostname", "proctab", "mode", "rm_type", "usrdata",
         "cont_launch_bp", "ready", "rm", "size", "table", "lrc", "leng", "lmonpl",
         "handshake", "call", "assist_mw_coloc"}
Steps == [do : Whats, arg : Args]

Types == {"security_chk", "hostname", "proctab", "rm_type", "usrdata", "cont_launch_bp",
          "ready", "befe_usrdata", "assist_mw_coloc"} \cup Modes
Codes == {"OK", "ESYS", "EBDMSG", "ESUBSYNC", "ESUBCOM", "EINVAL", "EBDARG", "ENOMEM", "ENEGCB",
          "ENCLLB", "ENOPLD", "ECLLB"}
Values == {"none", "unset", "rm", "T", "sizeT", "P", "sizeP", "right", "wrong"} \cup Modes \cup Codes
Messages == [type : Types, val : Values, pay : BOOLEAN]
Knowledge == [mode : Values, rm : Values, size : Values, table : Values, leng : Values,
              lmonpl : Values, key : Values, lrc : Values]

Typed ==
  /\ kind \in {"be", "mw"}
  /\ script \in Seq({"recv", "send", "coloc"})
  /\ prog \in [Procs -> Seq(Steps)]
  /\ st \in [Procs -> {"up", "failed", "gone", "closed"}]
  /\ codes \in [Procs -> Seq(Values)]
  /\ chan \in [{FE, 0} -> Seq(Messages)]
  /\ hdr \in [{FE, 0} -> Types \cup {"junk"}]
  /\ called \in [Ranks -> Nat]
  /\ inside \in [Ranks -> BOOLEAN]
  /\ root \in Seq(Values) /\ Len(root) = called[0]
  /\ know \in [Procs -> Knowledge]
  /\ synced \in [Ranks -> Seq(Values)]
  /\ engine \in BOOLEAN

-----------------------------------------------------------------------------
(* The plans *)

SlaveBe == <<LastBarrier, Do("gather", "none"), Bcast("mode"), Bcast("rm"), Bcast("size"),
             Bcast("table"), Do("procctl_init", "none"), Barrier, Do("procctl_initdone", "none"),
             LastBarrier, LastBarrier>>

MasterBe == <<Do("key", "none"), Do("write", "security_chk"), Do("write", "security_chk"),
              Do("write", "security_chk"), Do("write", "security_chk"), LastBarrier,
              Do("gather", "none"), Do("write", "hostname"), Do("read", "proctab"),
              Do("read", "mode"), Do("read", "rm_type"), Do("read", "usrdata"),
              Bcast("mode"), Bcast("rm"), Bcast("size"), Bcast("table"),
              Do("procctl_init", "none"), Barrier, Do("write", "cont_launch_bp"),
              Do("procctl_initdone", "none"), LastBarrier, Do("write", "ready"), LastBarrier>>

SlaveMw == <<LastBarrier, Do("gather", "none"), LastBarrier, LastBarrier>>

MasterMw == <<Do("key", "none"), Do("write", "security_chk"), Do("write", "security_chk"),
              Do("write", "security_chk"), Do("write", "security_chk"), LastBarrier,
              Do("gather", "none"), Do("write", "hostname"), Do("read", "usrdata"), LastBarrier,
              Do("write", "ready"), LastBarrier>>

FrontBe == <<Do("read", "security_chk"), Do("read", "security_chk"), Do("read", "security_chk"),
             Do("read", "security_chk"), Do("is_secure", "none"), Do("read", "hostname"),
             Do("write", "proctab"), Do("write", "mode"), Do("write", "rm_type"),
             Do("handleFeBeUsrData", "handshake"), Do("read", "cont_launch_bp"),
             Do("engine", "none"), Do("handleBeFeUsrData", "handshake"), Return>>

FrontMw == <<Do("read", "security_chk"), Do("read", "security_chk"), Do("read", "security_chk"),
             Do("read", "security_chk"), Do("is_secure", "none"), Do("read", "hostname"),
             Do("handleFeMwUsrData", "handshake"), Do("handleMwFeUsrData", "handshake"), Return>>

Plan(p) ==
  IF kind = "be" THEN IF p = FE THEN FrontBe ELSE IF p = 0 THEN MasterBe ELSE SlaveBe
                 ELSE IF p = FE THEN FrontMw ELSE IF p = 0 THEN MasterMw ELSE SlaveMw

\* q is what is left of plan P
Rests(q, P) == Len(q) <= Len(P) /\ \A i \in 1 .. Len(q) : q[i] = P[Len(P) - Len(q) + i]

-----------------------------------------------------------------------------
(* The inductive invariant *)

\* the collectives d has left with r steps to go
Behind(d, r) ==
  IF kind = "be"
  THEN IF d = 0 THEN IF r >= 18 THEN 0 ELSE IF r = 17 THEN 1 ELSE IF r >= 11 THEN 2
                     ELSE IF r >= 7 THEN 13 - r ELSE IF r = 6 THEN 6
                     ELSE IF r >= 3 THEN 7 ELSE 8
                ELSE IF r >= 5 THEN 11 - r ELSE IF r >= 3 THEN 10 - r ELSE 9 - r
  ELSE IF d = 0 THEN IF r >= 7 THEN 0 ELSE IF r = 6 THEN 1 ELSE IF r >= 3 THEN 2 ELSE 3
                ELSE 4 - r

\* the calls that have returned to it
Returned(d, r) ==
  IF kind = "be"
  THEN IF d = 0 THEN IF r >= 18 THEN 0 ELSE IF r >= 3 THEN 1 ELSE 2
                ELSE IF r = 11 THEN 0 ELSE IF r >= 2 THEN 1 ELSE 2
  ELSE IF d = 0 THEN IF r >= 7 THEN 0 ELSE IF r >= 3 THEN 1 ELSE 2
                ELSE IF r = 4 THEN 0 ELSE IF r >= 2 THEN 1 ELSE 2

Early(p) == st[p] = "up" /\ Len(codes[p]) < IF p = FE THEN 1 ELSE 3
Later(p) == st[p] = "up" /\ Len(codes[p]) >= IF p = FE THEN 1 ELSE 3

OnPlan(p) == prog[p] # <<>> /\ Rests(prog[p], Plan(p))

Counted(d) ==
  LET r == Len(prog[d]) IN
  /\ called[d] = Behind(d, r) + (IF inside[d] THEN 1 ELSE 0)
  /\ Len(codes[d]) = Returned(d, r)
  /\ inside[d] => Head(prog[d]).do \in {"barrier", "bcast", "gather"}

All(n) == \A d \in Ranks : called[d] >= n
Ready == (kind = "be" /\ All(8)) \/ (kind = "mw" /\ All(3))
Fixed == know[FE].mode # "unset"

\* what d knows with r steps to go
Knows(d, r, m) ==
  /\ r <= m     => know[d].mode = know[FE].mode /\ Fixed
  /\ r <= m - 1 => know[d].rm = "rm"
  /\ r <= m - 2 => know[d].size = "sizeT"
  /\ r <= m - 3 => know[d].table = "T"

SlavePlace(d) ==
  LET r == Len(prog[d]) IN
  kind = "be" => Knows(d, r, 8) /\ (r <= 4 => synced[d] # <<>>)

MasterPlace ==
  LET r == Len(prog[0]) IN
  /\ kind = "be" => /\ r >= 15 => hdr[0] = "junk"
                    /\ r <= 14 => know[0].table = "T" /\ know[0].size = "sizeT"
                    /\ r = 14  => hdr[0] = "proctab"
                    /\ r <= 13 => know[0].mode = know[FE].mode /\ Fixed
                    /\ r = 13  => hdr[0] \in Modes
                    /\ r <= 12 => know[0].rm = "rm"
                    /\ r <= 6  => synced[0] # <<>>
                    /\ r <= 5  => All(7)
  /\ r <= 2 => Ready

FrontPlace ==
  LET r == Len(prog[FE]) IN
  /\ kind = "be" => /\ r >= 7 => know[FE].mode = "unset"
                    /\ r <= 3 => All(7)
  /\ r \in {2, 3} => hdr[FE] \notin {"ready", "befe_usrdata"}
  /\ r <= 1 => Ready

LaterSteps(p) ==
  IF p = FE THEN {Do("write", "assist_mw_coloc"), Return} \cup
                 {Do(h, "call") : h \in {"handleFeBeUsrData", "handleBeFeUsrData",
                                         "handleFeMwUsrData", "handleMwFeUsrData"}}
            ELSE {Do("recvUsrData", "none"), Do("sendUsrData", "none"), Do("do_bemaster", "none"),
                  Bcast("lrc"), Bcast("leng"), Bcast("lmonpl")}

Slave(d) == /\ Early(d) => OnPlan(d) /\ Counted(d) /\ SlavePlace(d)
            /\ Later(d) => prog[d] \in Seq(LaterSteps(d)) /\ Ready

Master == /\ Early(0) => OnPlan(0) /\ Counted(0) /\ MasterPlace
          /\ Later(0) => prog[0] \in Seq(LaterSteps(0)) /\ Ready

Front == /\ Early(FE) => OnPlan(FE) /\ FrontPlace
         /\ Later(FE) => prog[FE] \in Seq(LaterSteps(FE))

Places == Front /\ Master /\ \A d \in Ranks \ {0} : Slave(d)

\* messages on their way to the front end, and to the master
UpWords == {m \in Messages :
  /\ m.type = "cont_launch_bp" => kind = "be" /\ All(7)
  /\ m.type \in {"ready", "befe_usrdata"} => Ready}
DownWords == {m \in Messages :
  /\ m.type = "proctab" => m.val = "T"
  /\ m.type = "rm_type" => m.val = "rm"
  /\ m.type \in Modes => m.type = know[FE].mode}

Wires == chan[FE] \in Seq(UpWords) /\ chan[0] \in Seq(DownWords)

FrontKnows ==
  /\ know[FE].rm = "rm" /\ know[FE].size = "sizeT" /\ know[FE].table = "T"
  /\ know[FE].mode \in Modes \cup {"unset"}

\* what the master's broadcasts have carried
Roots == kind = "be" => /\ Len(root) >= 3 => root[3] = know[FE].mode /\ Fixed
                        /\ Len(root) >= 4 => root[4] = "rm"
                        /\ Len(root) >= 5 => root[5] = "sizeT"
                        /\ Len(root) >= 6 => root[6] = "T"

Syncs ==
  /\ \A d \in Ranks : kind = "be" /\ called[d] >= 7 => synced[d] # <<>>
  /\ \A d \in Ranks : synced[d] # <<>> => synced[d] = Job(FE) /\ Fixed

Released == engine => kind = "be" /\ All(7)

Succeeded == codes[FE] # <<>> /\ codes[FE][1] = "OK" => Ready

Shared == Wires /\ FrontKnows /\ Roots /\ Syncs /\ Released /\ Succeeded

HInv == Typed /\ Places /\ Shared

-----------------------------------------------------------------------------
(* The programs are the plans *)

\* two sequences put together, element by element
LEMMA Concat ==
  ASSUME NEW S, NEW l \in Seq(S), NEW m \in Seq(S), NEW r \in Seq(S),
         Len(r) = Len(l) + Len(m),
         \A i \in 1 .. Len(l) : r[i] = l[i],
         \A i \in 1 .. Len(m) : r[Len(l) + i] = m[i]
  PROVE  l \o m = r
<1>1. /\ l \o m \in Seq(S) /\ Len(l \o m) = Len(r)
      /\ \A i \in 1 .. Len(l) + Len(m) :
           (l \o m)[i] = IF i <= Len(l) THEN l[i] ELSE m[i - Len(l)]
  BY ConcatProperties
<1>2. ASSUME NEW i \in 1 .. Len(r) PROVE (l \o m)[i] = r[i]
  <2>1. CASE i <= Len(l)
    BY <1>1, <2>1
  <2>2. CASE i > Len(l)
    <3>1. i - Len(l) \in 1 .. Len(m) /\ i = Len(l) + (i - Len(l))
      BY <2>2
    <3> QED
      BY <1>1, <3>1, <2>2
  <2> QED
    BY <2>1, <2>2
<1> QED
  BY <1>1, <1>2, SeqEqual

LEMMA StepTypes == \A w \in Whats, a \in Args : Do(w, a) \in Steps
  BY DEF Do, Steps

LEMMA DaemonSteps ==
  /\ Do("key", "none") \in Steps /\ Do("write", "security_chk") \in Steps
  /\ Do("gather", "none") \in Steps /\ Do("write", "hostname") \in Steps
  /\ Do("read", "proctab") \in Steps /\ Do("read", "mode") \in Steps
  /\ Do("read", "rm_type") \in Steps /\ Do("read", "usrdata") \in Steps
  /\ Bcast("mode") \in Steps /\ Bcast("rm") \in Steps
  /\ Bcast("size") \in Steps /\ Bcast("table") \in Steps
  /\ Do("procctl_init", "none") \in Steps /\ Do("procctl_initdone", "none") \in Steps
  /\ Do("write", "cont_launch_bp") \in Steps /\ Do("write", "ready") \in Steps
  /\ Barrier \in Steps /\ LastBarrier \in Steps
  BY StepTypes DEF Whats, Args, Bcast, Barrier, LastBarrier

\* the parts the plans of both kinds begin with
LEMMA MasterStarts ==
  ASSUME NEW k \in Steps, NEW w \in Steps, NEW l \in Steps
  PROVE  <<k>> \o [i \in 1 .. Words |-> w] \o <<l>> = <<k, w, w, w, w, l>>
<1>1. [i \in 1 .. Words |-> w] = <<w, w, w, w>>
  BY DEF Words
<1>2. <<k>> \o <<w, w, w, w>> = <<k, w, w, w, w>>
  <2> DEFINE p == <<k>>
             q == <<w, w, w, w>>
             r == <<k, w, w, w, w>>
  <2>1. p \in Seq(Steps) /\ q \in Seq(Steps) /\ r \in Seq(Steps) /\ Len(r) = Len(p) + Len(q)
    OBVIOUS
  <2>2. \A i \in 1 .. Len(p) : r[i] = p[i]
    OBVIOUS
  <2>3. \A i \in 1 .. Len(q) : r[Len(p) + i] = q[i]
    OBVIOUS
  <2> HIDE DEF p, q, r
  <2>4. p \o q = r
    BY <2>1, <2>2, <2>3, Concat
  <2> QED
    BY <2>4 DEF p, q, r
<1>3. <<k, w, w, w, w>> \o <<l>> = <<k, w, w, w, w, l>>
  <2> DEFINE p == <<k, w, w, w, w>>
             q == <<l>>
             r == <<k, w, w, w, w, l>>
  <2>1. p \in Seq(Steps) /\ q \in Seq(Steps) /\ r \in Seq(Steps) /\ Len(r) = Len(p) + Len(q)
    OBVIOUS
  <2>2. \A i \in 1 .. Len(p) : r[i] = p[i]
    OBVIOUS
  <2>3. \A i \in 1 .. Len(q) : r[Len(p) + i] = q[i]
    OBVIOUS
  <2> HIDE DEF p, q, r
  <2>4. p \o q = r
    BY <2>1, <2>2, <2>3, Concat
  <2> QED
    BY <2>4 DEF p, q, r
<1> QED
  BY <1>1, <1>2, <1>3

\* what the master of back ends executes, written out
LEMMA MasterBePlan ==
  ASSUME kind = "be"
  PROVE  DaemonProgram(0) = MasterBe /\ MasterBe \in Seq(Steps) /\ Len(MasterBe) = 23
<1> DEFINE k == Do("key", "none")
           w == Do("write", "security_chk")
           e == LastBarrier
           g == Do("gather", "none")
           h == Do("write", "hostname")
           p1 == Do("read", "proctab")
           m1 == Do("read", "mode")
           r1 == Do("read", "rm_type")
           u1 == Do("read", "usrdata")
           m2 == Bcast("mode")
           r2 == Bcast("rm")
           s2 == Bcast("size")
           t2 == Bcast("table")
           a == Do("procctl_init", "none")
           b == Barrier
           c == Do("write", "cont_launch_bp")
           d1 == Do("procctl_initdone", "none")
           y == Do("write", "ready")
<1>1. /\ k \in Steps /\ w \in Steps /\ e \in Steps /\ g \in Steps /\ h \in Steps /\ p1 \in Steps
      /\ m1 \in Steps /\ r1 \in Steps /\ u1 \in Steps /\ m2 \in Steps /\ r2 \in Steps /\ s2 \in Steps
      /\ t2 \in Steps /\ a \in Steps /\ b \in Steps /\ c \in Steps /\ d1 \in Steps /\ y \in Steps
  BY DaemonSteps
<1>2. DaemonProgram(0) = (<<k>> \o [n \in 1 .. Words |-> w] \o <<e>>)
        \o (<<g>> \o <<h>> \o <<p1, m1, r1, u1>> \o <<m2, r2, s2, t2>>
              \o (<<a, b>> \o <<c>> \o <<d1, e>>))
        \o (<<y>> \o <<e>>)
  BY DEF DaemonProgram, LMON_be_init, LMON_be_handshake, LMON_be_ready, SecurityCheck,
    SendHostnames, JobFromFE, ShareJob, SyncWithMPI, MasterOnly
<1>3. MasterBe = <<k, w, w, w, w, e, g, h, p1, m1, r1, u1, m2, r2, s2, t2, a, b, c, d1, e, y, e>>
  BY DEF MasterBe
<1> HIDE DEF k, w, e, g, h, p1, m1, r1, u1, m2, r2, s2, t2, a, b, c, d1, y
<1>4. <<k, w, w, w, w, e, g, h, p1, m1, r1, u1, m2, r2, s2, t2, a, b, c, d1, e, y, e>> \in Seq(Steps) /\ Len(<<k, w, w, w, w, e, g, h, p1, m1, r1, u1, m2, r2, s2, t2, a, b, c, d1, e, y, e>>) = 23
  BY <1>1
<1>5. <<g>> \o <<h>> = <<g, h>>
  <2> DEFINE p == <<g>>
             q == <<h>>
             r == <<g, h>>
  <2>1. p \in Seq(Steps) /\ q \in Seq(Steps) /\ r \in Seq(Steps) /\ Len(r) = Len(p) + Len(q)
    BY <1>1
  <2>2. \A i \in 1 .. Len(p) : r[i] = p[i]
    OBVIOUS
  <2>3. \A i \in 1 .. Len(q) : r[Len(p) + i] = q[i]
    OBVIOUS
  <2> HIDE DEF p, q, r
  <2>4. p \o q = r
    BY <2>1, <2>2, <2>3, Concat
  <2> QED
    BY <2>4 DEF p, q, r
<1>6. <<g, h>> \o <<p1, m1, r1, u1>> = <<g, h, p1, m1, r1, u1>>
  <2> DEFINE p == <<g, h>>
             q == <<p1, m1, r1, u1>>
             r == <<g, h, p1, m1, r1, u1>>
  <2>1. p \in Seq(Steps) /\ q \in Seq(Steps) /\ r \in Seq(Steps) /\ Len(r) = Len(p) + Len(q)
    BY <1>1
  <2>2. \A i \in 1 .. Len(p) : r[i] = p[i]
    OBVIOUS
  <2>3. \A i \in 1 .. Len(q) : r[Len(p) + i] = q[i]
    OBVIOUS
  <2> HIDE DEF p, q, r
  <2>4. p \o q = r
    BY <2>1, <2>2, <2>3, Concat
  <2> QED
    BY <2>4 DEF p, q, r
<1>7. <<g, h, p1, m1, r1, u1>> \o <<m2, r2, s2, t2>> = <<g, h, p1, m1, r1, u1, m2, r2, s2, t2>>
  <2> DEFINE p == <<g, h, p1, m1, r1, u1>>
             q == <<m2, r2, s2, t2>>
             r == <<g, h, p1, m1, r1, u1, m2, r2, s2, t2>>
  <2>1. p \in Seq(Steps) /\ q \in Seq(Steps) /\ r \in Seq(Steps) /\ Len(r) = Len(p) + Len(q)
    BY <1>1
  <2>2. \A i \in 1 .. Len(p) : r[i] = p[i]
    OBVIOUS
  <2>3. \A i \in 1 .. Len(q) : r[Len(p) + i] = q[i]
    OBVIOUS
  <2> HIDE DEF p, q, r
  <2>4. p \o q = r
    BY <2>1, <2>2, <2>3, Concat
  <2> QED
    BY <2>4 DEF p, q, r
<1>8. <<a, b>> \o <<c>> = <<a, b, c>>
  <2> DEFINE p == <<a, b>>
             q == <<c>>
             r == <<a, b, c>>
  <2>1. p \in Seq(Steps) /\ q \in Seq(Steps) /\ r \in Seq(Steps) /\ Len(r) = Len(p) + Len(q)
    BY <1>1
  <2>2. \A i \in 1 .. Len(p) : r[i] = p[i]
    OBVIOUS
  <2>3. \A i \in 1 .. Len(q) : r[Len(p) + i] = q[i]
    OBVIOUS
  <2> HIDE DEF p, q, r
  <2>4. p \o q = r
    BY <2>1, <2>2, <2>3, Concat
  <2> QED
    BY <2>4 DEF p, q, r
<1>9. <<a, b, c>> \o <<d1, e>> = <<a, b, c, d1, e>>
  <2> DEFINE p == <<a, b, c>>
             q == <<d1, e>>
             r == <<a, b, c, d1, e>>
  <2>1. p \in Seq(Steps) /\ q \in Seq(Steps) /\ r \in Seq(Steps) /\ Len(r) = Len(p) + Len(q)
    BY <1>1
  <2>2. \A i \in 1 .. Len(p) : r[i] = p[i]
    OBVIOUS
  <2>3. \A i \in 1 .. Len(q) : r[Len(p) + i] = q[i]
    OBVIOUS
  <2> HIDE DEF p, q, r
  <2>4. p \o q = r
    BY <2>1, <2>2, <2>3, Concat
  <2> QED
    BY <2>4 DEF p, q, r
<1>10. <<g, h, p1, m1, r1, u1, m2, r2, s2, t2>> \o <<a, b, c, d1, e>> = <<g, h, p1, m1, r1, u1, m2, r2, s2, t2, a, b, c, d1, e>>
  <2> DEFINE p == <<g, h, p1, m1, r1, u1, m2, r2, s2, t2>>
             q == <<a, b, c, d1, e>>
             r == <<g, h, p1, m1, r1, u1, m2, r2, s2, t2, a, b, c, d1, e>>
  <2>1. p \in Seq(Steps) /\ q \in Seq(Steps) /\ r \in Seq(Steps) /\ Len(r) = Len(p) + Len(q)
    BY <1>1
  <2>2. \A i \in 1 .. Len(p) : r[i] = p[i]
    OBVIOUS
  <2>3. \A i \in 1 .. Len(q) : r[Len(p) + i] = q[i]
    OBVIOUS
  <2> HIDE DEF p, q, r
  <2>4. p \o q = r
    BY <2>1, <2>2, <2>3, Concat
  <2> QED
    BY <2>4 DEF p, q, r
<1>11. <<y>> \o <<e>> = <<y, e>>
  <2> DEFINE p == <<y>>
             q == <<e>>
             r == <<y, e>>
  <2>1. p \in Seq(Steps) /\ q \in Seq(Steps) /\ r \in Seq(Steps) /\ Len(r) = Len(p) + Len(q)
    BY <1>1
  <2>2. \A i \in 1 .. Len(p) : r[i] = p[i]
    OBVIOUS
  <2>3. \A i \in 1 .. Len(q) : r[Len(p) + i] = q[i]
    OBVIOUS
  <2> HIDE DEF p, q, r
  <2>4. p \o q = r
    BY <2>1, <2>2, <2>3, Concat
  <2> QED
    BY <2>4 DEF p, q, r
<1>12. <<k, w, w, w, w, e>> \o <<g, h, p1, m1, r1, u1, m2, r2, s2, t2, a, b, c, d1, e>> = <<k, w, w, w, w, e, g, h, p1, m1, r1, u1, m2, r2, s2, t2, a, b, c, d1, e>>
  <2> DEFINE p == <<k, w, w, w, w, e>>
             q == <<g, h, p1, m1, r1, u1, m2, r2, s2, t2, a, b, c, d1, e>>
             r == <<k, w, w, w, w, e, g, h, p1, m1, r1, u1, m2, r2, s2, t2, a, b, c, d1, e>>
  <2>1. p \in Seq(Steps) /\ q \in Seq(Steps) /\ r \in Seq(Steps) /\ Len(r) = Len(p) + Len(q)
    BY <1>1
  <2>2. \A i \in 1 .. Len(p) : r[i] = p[i]
    OBVIOUS
  <2>3. \A i \in 1 .. Len(q) : r[Len(p) + i] = q[i]
    OBVIOUS
  <2> HIDE DEF p, q, r
  <2>4. p \o q = r
    BY <2>1, <2>2, <2>3, Concat
  <2> QED
    BY <2>4 DEF p, q, r
<1>13. <<k, w, w, w, w, e, g, h, p1, m1, r1, u1, m2, r2, s2, t2, a, b, c, d1, e>> \o <<y, e>> = <<k, w, w, w, w, e, g, h, p1, m1, r1, u1, m2, r2, s2, t2, a, b, c, d1, e, y, e>>
  <2> DEFINE p == <<k, w, w, w, w, e, g, h, p1, m1, r1, u1, m2, r2, s2, t2, a, b, c, d1, e>>
             q == <<y, e>>
             r == <<k, w, w, w, w, e, g, h, p1, m1, r1, u1, m2, r2, s2, t2, a, b, c, d1, e, y, e>>
  <2>1. p \in Seq(Steps) /\ q \in Seq(Steps) /\ r \in Seq(Steps) /\ Len(r) = Len(p) + Len(q)
    BY <1>1
  <2>2. \A i \in 1 .. Len(p) : r[i] = p[i]
    OBVIOUS
  <2>3. \A i \in 1 .. Len(q) : r[Len(p) + i] = q[i]
    OBVIOUS
  <2> HIDE DEF p, q, r
  <2>4. p \o q = r
    BY <2>1, <2>2, <2>3, Concat
  <2> QED
    BY <2>4 DEF p, q, r
<1>s. <<k>> \o [n \in 1 .. Words |-> w] \o <<e>> = <<k, w, w, w, w, e>>
  BY <1>1, MasterStarts
<1>h. <<g>> \o <<h>> \o <<p1, m1, r1, u1>> \o <<m2, r2, s2, t2>> \o (<<a, b>> \o <<c>> \o <<d1, e>>)
        = <<g, h, p1, m1, r1, u1, m2, r2, s2, t2, a, b, c, d1, e>>
  BY <1>5, <1>6, <1>7, <1>8, <1>9, <1>10
<1>q. <<k, w, w, w, w, e>> \o <<g, h, p1, m1, r1, u1, m2, r2, s2, t2, a, b, c, d1, e>> \o (<<y>> \o <<e>>)
        = <<k, w, w, w, w, e, g, h, p1, m1, r1, u1, m2, r2, s2, t2, a, b, c, d1, e, y, e>>
  BY <1>11, <1>12, <1>13
<1> QED
  BY <1>2, <1>3, <1>4, <1>s, <1>h, <1>q

\* what the other back ends execute
LEMMA SlaveBePlan ==
  ASSUME kind = "be", NEW d \in Ranks \ {0}
  PROVE  DaemonProgram(d) = SlaveBe /\ SlaveBe \in Seq(Steps) /\ Len(SlaveBe) = 11
<1> DEFINE e == LastBarrier
           g == Do("gather", "none")
           m2 == Bcast("mode")
           r2 == Bcast("rm")
           s2 == Bcast("size")
           t2 == Bcast("table")
           a == Do("procctl_init", "none")
           b == Barrier
           d1 == Do("procctl_initdone", "none")
<1>1. /\ e \in Steps /\ g \in Steps /\ m2 \in Steps /\ r2 \in Steps /\ s2 \in Steps /\ t2 \in Steps
      /\ a \in Steps /\ b \in Steps /\ d1 \in Steps
  BY DaemonSteps
<1>2. DaemonProgram(d) = (<<>> \o <<e>>)
        \o (<<g>> \o <<>> \o <<>> \o <<m2, r2, s2, t2>> \o (<<a, b>> \o <<>> \o <<d1, e>>))
        \o (<<>> \o <<e>>)
  BY DEF DaemonProgram, LMON_be_init, LMON_be_handshake, LMON_be_ready, SecurityCheck,
    SendHostnames, JobFromFE, ShareJob, SyncWithMPI, MasterOnly
<1>3. SlaveBe = <<e, g, m2, r2, s2, t2, a, b, d1, e, e>>
  BY DEF SlaveBe
<1> HIDE DEF e, g, m2, r2, s2, t2, a, b, d1
<1>4. <<e, g, m2, r2, s2, t2, a, b, d1, e, e>> \in Seq(Steps) /\ Len(<<e, g, m2, r2, s2, t2, a, b, d1, e, e>>) = 11
  BY <1>1
<1>5. <<g>> \o <<m2, r2, s2, t2>> = <<g, m2, r2, s2, t2>>
  <2> DEFINE p == <<g>>
             q == <<m2, r2, s2, t2>>
             r == <<g, m2, r2, s2, t2>>
  <2>1. p \in Seq(Steps) /\ q \in Seq(Steps) /\ r \in Seq(Steps) /\ Len(r) = Len(p) + Len(q)
    BY <1>1
  <2>2. \A i \in 1 .. Len(p) : r[i] = p[i]
    OBVIOUS
  <2>3. \A i \in 1 .. Len(q) : r[Len(p) + i] = q[i]
    OBVIOUS
  <2> HIDE DEF p, q, r
  <2>4. p \o q = r
    BY <2>1, <2>2, <2>3, Concat
  <2> QED
    BY <2>4 DEF p, q, r
<1>6. <<a, b>> \o <<d1, e>> = <<a, b, d1, e>>
  <2> DEFINE p == <<a, b>>
             q == <<d1, e>>
             r == <<a, b, d1, e>>
  <2>1. p \in Seq(Steps) /\ q \in Seq(Steps) /\ r \in Seq(Steps) /\ Len(r) = Len(p) + Len(q)
    BY <1>1
  <2>2. \A i \in 1 .. Len(p) : r[i] = p[i]
    OBVIOUS
  <2>3. \A i \in 1 .. Len(q) : r[Len(p) + i] = q[i]
    OBVIOUS
  <2> HIDE DEF p, q, r
  <2>4. p \o q = r
    BY <2>1, <2>2, <2>3, Concat
  <2> QED
    BY <2>4 DEF p, q, r
<1>7. <<g, m2, r2, s2, t2>> \o <<a, b, d1, e>> = <<g, m2, r2, s2, t2, a, b, d1, e>>
  <2> DEFINE p == <<g, m2, r2, s2, t2>>
             q == <<a, b, d1, e>>
             r == <<g, m2, r2, s2, t2, a, b, d1, e>>
  <2>1. p \in Seq(Steps) /\ q \in Seq(Steps) /\ r \in Seq(Steps) /\ Len(r) = Len(p) + Len(q)
    BY <1>1
  <2>2. \A i \in 1 .. Len(p) : r[i] = p[i]
    OBVIOUS
  <2>3. \A i \in 1 .. Len(q) : r[Len(p) + i] = q[i]
    OBVIOUS
  <2> HIDE DEF p, q, r
  <2>4. p \o q = r
    BY <2>1, <2>2, <2>3, Concat
  <2> QED
    BY <2>4 DEF p, q, r
<1>8. <<e>> \o <<g, m2, r2, s2, t2, a, b, d1, e>> = <<e, g, m2, r2, s2, t2, a, b, d1, e>>
  <2> DEFINE p == <<e>>
             q == <<g, m2, r2, s2, t2, a, b, d1, e>>
             r == <<e, g, m2, r2, s2, t2, a, b, d1, e>>
  <2>1. p \in Seq(Steps) /\ q \in Seq(Steps) /\ r \in Seq(Steps) /\ Len(r) = Len(p) + Len(q)
    BY <1>1
  <2>2. \A i \in 1 .. Len(p) : r[i] = p[i]
    OBVIOUS
  <2>3. \A i \in 1 .. Len(q) : r[Len(p) + i] = q[i]
    OBVIOUS
  <2> HIDE DEF p, q, r
  <2>4. p \o q = r
    BY <2>1, <2>2, <2>3, Concat
  <2> QED
    BY <2>4 DEF p, q, r
<1>9. <<e, g, m2, r2, s2, t2, a, b, d1, e>> \o <<e>> = <<e, g, m2, r2, s2, t2, a, b, d1, e, e>>
  <2> DEFINE p == <<e, g, m2, r2, s2, t2, a, b, d1, e>>
             q == <<e>>
             r == <<e, g, m2, r2, s2, t2, a, b, d1, e, e>>
  <2>1. p \in Seq(Steps) /\ q \in Seq(Steps) /\ r \in Seq(Steps) /\ Len(r) = Len(p) + Len(q)
    BY <1>1
  <2>2. \A i \in 1 .. Len(p) : r[i] = p[i]
    OBVIOUS
  <2>3. \A i \in 1 .. Len(q) : r[Len(p) + i] = q[i]
    OBVIOUS
  <2> HIDE DEF p, q, r
  <2>4. p \o q = r
    BY <2>1, <2>2, <2>3, Concat
  <2> QED
    BY <2>4 DEF p, q, r
<1>e. /\ <<>> \o <<e>> = <<e>> /\ <<g>> \o <<>> = <<g>> /\ <<a, b>> \o <<>> = <<a, b>>
  BY <1>1, ConcatEmptySeq
<1> QED
  BY <1>2, <1>3, <1>4, <1>5, <1>6, <1>7, <1>8, <1>9, <1>e

\* the same for middleware
LEMMA MasterMwPlan ==
  ASSUME kind # "be"
  PROVE  DaemonProgram(0) = MasterMw /\ MasterMw \in Seq(Steps) /\ Len(MasterMw) = 12
<1> DEFINE k == Do("key", "none")
           w == Do("write", "security_chk")
           e == LastBarrier
           g == Do("gather", "none")
           h == Do("write", "hostname")
           u1 == Do("read", "usrdata")
           y == Do("write", "ready")
<1>1. /\ k \in Steps /\ w \in Steps /\ e \in Steps /\ g \in Steps /\ h \in Steps /\ u1 \in Steps
      /\ y \in Steps
  BY DaemonSteps
<1>2. DaemonProgram(0) = (<<k>> \o [n \in 1 .. Words |-> w] \o <<e>>) \o (<<g>> \o <<h>> \o <<u1>> \o <<e>>) \o (<<y>> \o <<e>>)
  BY DEF DaemonProgram, LMON_mw_init, LMON_mw_handshake, LMON_mw_ready, SecurityCheck,
    SendHostnames, MasterOnly
<1>3. MasterMw = <<k, w, w, w, w, e, g, h, u1, e, y, e>>
  BY DEF MasterMw
<1> HIDE DEF k, w, e, g, h, u1, y
<1>4. <<k, w, w, w, w, e, g, h, u1, e, y, e>> \in Seq(Steps) /\ Len(<<k, w, w, w, w, e, g, h, u1, e, y, e>>) = 12
  BY <1>1
<1>5. <<g>> \o <<h>> = <<g, h>>
  <2> DEFINE p == <<g>>
             q == <<h>>
             r == <<g, h>>
  <2>1. p \in Seq(Steps) /\ q \in Seq(Steps) /\ r \in Seq(Steps) /\ Len(r) = Len(p) + Len(q)
    BY <1>1
  <2>2. \A i \in 1 .. Len(p) : r[i] = p[i]
    OBVIOUS
  <2>3. \A i \in 1 .. Len(q) : r[Len(p) + i] = q[i]
    OBVIOUS
  <2> HIDE DEF p, q, r
  <2>4. p \o q = r
    BY <2>1, <2>2, <2>3, Concat
  <2> QED
    BY <2>4 DEF p, q, r
<1>6. <<g, h>> \o <<u1>> = <<g, h, u1>>
  <2> DEFINE p == <<g, h>>
             q == <<u1>>
             r == <<g, h, u1>>
  <2>1. p \in Seq(Steps) /\ q \in Seq(Steps) /\ r \in Seq(Steps) /\ Len(r) = Len(p) + Len(q)
    BY <1>1
  <2>2. \A i \in 1 .. Len(p) : r[i] = p[i]
    OBVIOUS
  <2>3. \A i \in 1 .. Len(q) : r[Len(p) + i] = q[i]
    OBVIOUS
  <2> HIDE DEF p, q, r
  <2>4. p \o q = r
    BY <2>1, <2>2, <2>3, Concat
  <2> QED
    BY <2>4 DEF p, q, r
<1>7. <<g, h, u1>> \o <<e>> = <<g, h, u1, e>>
  <2> DEFINE p == <<g, h, u1>>
             q == <<e>>
             r == <<g, h, u1, e>>
  <2>1. p \in Seq(Steps) /\ q \in Seq(Steps) /\ r \in Seq(Steps) /\ Len(r) = Len(p) + Len(q)
    BY <1>1
  <2>2. \A i \in 1 .. Len(p) : r[i] = p[i]
    OBVIOUS
  <2>3. \A i \in 1 .. Len(q) : r[Len(p) + i] = q[i]
    OBVIOUS
  <2> HIDE DEF p, q, r
  <2>4. p \o q = r
    BY <2>1, <2>2, <2>3, Concat
  <2> QED
    BY <2>4 DEF p, q, r
<1>8. <<y>> \o <<e>> = <<y, e>>
  <2> DEFINE p == <<y>>
             q == <<e>>
             r == <<y, e>>
  <2>1. p \in Seq(Steps) /\ q \in Seq(Steps) /\ r \in Seq(Steps) /\ Len(r) = Len(p) + Len(q)
    BY <1>1
  <2>2. \A i \in 1 .. Len(p) : r[i] = p[i]
    OBVIOUS
  <2>3. \A i \in 1 .. Len(q) : r[Len(p) + i] = q[i]
    OBVIOUS
  <2> HIDE DEF p, q, r
  <2>4. p \o q = r
    BY <2>1, <2>2, <2>3, Concat
  <2> QED
    BY <2>4 DEF p, q, r
<1>9. <<k, w, w, w, w, e>> \o <<g, h, u1, e>> = <<k, w, w, w, w, e, g, h, u1, e>>
  <2> DEFINE p == <<k, w, w, w, w, e>>
             q == <<g, h, u1, e>>
             r == <<k, w, w, w, w, e, g, h, u1, e>>
  <2>1. p \in Seq(Steps) /\ q \in Seq(Steps) /\ r \in Seq(Steps) /\ Len(r) = Len(p) + Len(q)
    BY <1>1
  <2>2. \A i \in 1 .. Len(p) : r[i] = p[i]
    OBVIOUS
  <2>3. \A i \in 1 .. Len(q) : r[Len(p) + i] = q[i]
    OBVIOUS
  <2> HIDE DEF p, q, r
  <2>4. p \o q = r
    BY <2>1, <2>2, <2>3, Concat
  <2> QED
    BY <2>4 DEF p, q, r
<1>10. <<k, w, w, w, w, e, g, h, u1, e>> \o <<y, e>> = <<k, w, w, w, w, e, g, h, u1, e, y, e>>
  <2> DEFINE p == <<k, w, w, w, w, e, g, h, u1, e>>
             q == <<y, e>>
             r == <<k, w, w, w, w, e, g, h, u1, e, y, e>>
  <2>1. p \in Seq(Steps) /\ q \in Seq(Steps) /\ r \in Seq(Steps) /\ Len(r) = Len(p) + Len(q)
    BY <1>1
  <2>2. \A i \in 1 .. Len(p) : r[i] = p[i]
    OBVIOUS
  <2>3. \A i \in 1 .. Len(q) : r[Len(p) + i] = q[i]
    OBVIOUS
  <2> HIDE DEF p, q, r
  <2>4. p \o q = r
    BY <2>1, <2>2, <2>3, Concat
  <2> QED
    BY <2>4 DEF p, q, r
<1>s. <<k>> \o [n \in 1 .. Words |-> w] \o <<e>> = <<k, w, w, w, w, e>>
  BY <1>1, MasterStarts
<1> QED
  BY <1>2, <1>3, <1>4, <1>5, <1>6, <1>7, <1>8, <1>9, <1>10, <1>s

LEMMA SlaveMwPlan ==
  ASSUME kind # "be", NEW d \in Ranks \ {0}
  PROVE  DaemonProgram(d) = SlaveMw /\ SlaveMw \in Seq(Steps) /\ Len(SlaveMw) = 4
<1> DEFINE e == LastBarrier
           g == Do("gather", "none")
<1>1. /\ e \in Steps /\ g \in Steps
  BY DaemonSteps
<1>2. DaemonProgram(d) = (<<>> \o <<e>>) \o (<<g>> \o <<>> \o <<>> \o <<e>>) \o (<<>> \o <<e>>)
  BY DEF DaemonProgram, LMON_mw_init, LMON_mw_handshake, LMON_mw_ready, SecurityCheck,
    SendHostnames, MasterOnly
<1>3. SlaveMw = <<e, g, e, e>>
  BY DEF SlaveMw
<1> HIDE DEF e, g
<1>4. <<e, g, e, e>> \in Seq(Steps) /\ Len(<<e, g, e, e>>) = 4
  BY <1>1
<1>5. <<g>> \o <<e>> = <<g, e>>
  <2> DEFINE p == <<g>>
             q == <<e>>
             r == <<g, e>>
  <2>1. p \in Seq(Steps) /\ q \in Seq(Steps) /\ r \in Seq(Steps) /\ Len(r) = Len(p) + Len(q)
    BY <1>1
  <2>2. \A i \in 1 .. Len(p) : r[i] = p[i]
    OBVIOUS
  <2>3. \A i \in 1 .. Len(q) : r[Len(p) + i] = q[i]
    OBVIOUS
  <2> HIDE DEF p, q, r
  <2>4. p \o q = r
    BY <2>1, <2>2, <2>3, Concat
  <2> QED
    BY <2>4 DEF p, q, r
<1>6. <<e>> \o <<g, e>> = <<e, g, e>>
  <2> DEFINE p == <<e>>
             q == <<g, e>>
             r == <<e, g, e>>
  <2>1. p \in Seq(Steps) /\ q \in Seq(Steps) /\ r \in Seq(Steps) /\ Len(r) = Len(p) + Len(q)
    BY <1>1
  <2>2. \A i \in 1 .. Len(p) : r[i] = p[i]
    OBVIOUS
  <2>3. \A i \in 1 .. Len(q) : r[Len(p) + i] = q[i]
    OBVIOUS
  <2> HIDE DEF p, q, r
  <2>4. p \o q = r
    BY <2>1, <2>2, <2>3, Concat
  <2> QED
    BY <2>4 DEF p, q, r
<1>7. <<e, g, e>> \o <<e>> = <<e, g, e, e>>
  <2> DEFINE p == <<e, g, e>>
             q == <<e>>
             r == <<e, g, e, e>>
  <2>1. p \in Seq(Steps) /\ q \in Seq(Steps) /\ r \in Seq(Steps) /\ Len(r) = Len(p) + Len(q)
    BY <1>1
  <2>2. \A i \in 1 .. Len(p) : r[i] = p[i]
    OBVIOUS
  <2>3. \A i \in 1 .. Len(q) : r[Len(p) + i] = q[i]
    OBVIOUS
  <2> HIDE DEF p, q, r
  <2>4. p \o q = r
    BY <2>1, <2>2, <2>3, Concat
  <2> QED
    BY <2>4 DEF p, q, r
<1>e. <<>> \o <<e>> = <<e>> /\ <<g>> \o <<>> = <<g>>
  BY <1>1, ConcatEmptySeq
<1> QED
  BY <1>2, <1>3, <1>4, <1>5, <1>6, <1>7, <1>e

LEMMA FrontSteps ==
  /\ Do("read", "security_chk") \in Steps /\ Do("is_secure", "none") \in Steps
  /\ Do("read", "hostname") \in Steps /\ Do("write", "proctab") \in Steps
  /\ Do("write", "mode") \in Steps /\ Do("write", "rm_type") \in Steps
  /\ Do("handleFeBeUsrData", "handshake") \in Steps /\ Do("read", "cont_launch_bp") \in Steps
  /\ Do("engine", "none") \in Steps /\ Do("handleBeFeUsrData", "handshake") \in Steps
  /\ Do("handleFeMwUsrData", "handshake") \in Steps
  /\ Do("handleMwFeUsrData", "handshake") \in Steps /\ Return \in Steps
  BY StepTypes DEF Whats, Args, Return

\* what the front end executes, for back ends and for middleware
LEMMA FrontBePlan ==
  ASSUME kind = "be"
  PROVE  FEProgram = FrontBe /\ FrontBe \in Seq(Steps) /\ Len(FrontBe) = 14
<1> DEFINE v == Do("read", "security_chk")
           x == Do("is_secure", "none")
           h1 == Do("read", "hostname")
           p2 == Do("write", "proctab")
           m3 == Do("write", "mode")
           r3 == Do("write", "rm_type")
           u2 == Do("handleFeBeUsrData", "handshake")
           c1 == Do("read", "cont_launch_bp")
           z == Do("engine", "none")
           y1 == Do("handleBeFeUsrData", "handshake")
           f == Return
<1>1. /\ v \in Steps /\ x \in Steps /\ h1 \in Steps /\ p2 \in Steps /\ m3 \in Steps /\ r3 \in Steps
      /\ u2 \in Steps /\ c1 \in Steps /\ z \in Steps /\ y1 \in Steps /\ f \in Steps
  BY FrontSteps
<1>2. FEProgram = ([n \in 1 .. Words |-> v] \o <<x, h1>>) \o <<p2, m3, r3, u2>> \o <<c1, z, y1>> \o <<f>>
  BY DEF FEProgram, LMON_fe_beHandshakeSequence, CheckDaemons, JobToDaemons, AwaitReady
<1>3. FrontBe = <<v, v, v, v, x, h1, p2, m3, r3, u2, c1, z, y1, f>>
  BY DEF FrontBe
<1> HIDE DEF v, x, h1, p2, m3, r3, u2, c1, z, y1, f
<1>4. <<v, v, v, v, x, h1, p2, m3, r3, u2, c1, z, y1, f>> \in Seq(Steps) /\ Len(<<v, v, v, v, x, h1, p2, m3, r3, u2, c1, z, y1, f>>) = 14
  BY <1>1
<1>5. <<v, v, v, v>> \o <<x, h1>> = <<v, v, v, v, x, h1>>
  <2> DEFINE p == <<v, v, v, v>>
             q == <<x, h1>>
             r == <<v, v, v, v, x, h1>>
  <2>1. p \in Seq(Steps) /\ q \in Seq(Steps) /\ r \in Seq(Steps) /\ Len(r) = Len(p) + Len(q)
    BY <1>1
  <2>2. \A i \in 1 .. Len(p) : r[i] = p[i]
    OBVIOUS
  <2>3. \A i \in 1 .. Len(q) : r[Len(p) + i] = q[i]
    OBVIOUS
  <2> HIDE DEF p, q, r
  <2>4. p \o q = r
    BY <2>1, <2>2, <2>3, Concat
  <2> QED
    BY <2>4 DEF p, q, r
<1>6. <<v, v, v, v, x, h1>> \o <<p2, m3, r3, u2>> = <<v, v, v, v, x, h1, p2, m3, r3, u2>>
  <2> DEFINE p == <<v, v, v, v, x, h1>>
             q == <<p2, m3, r3, u2>>
             r == <<v, v, v, v, x, h1, p2, m3, r3, u2>>
  <2>1. p \in Seq(Steps) /\ q \in Seq(Steps) /\ r \in Seq(Steps) /\ Len(r) = Len(p) + Len(q)
    BY <1>1
  <2>2. \A i \in 1 .. Len(p) : r[i] = p[i]
    OBVIOUS
  <2>3. \A i \in 1 .. Len(q) : r[Len(p) + i] = q[i]
    OBVIOUS
  <2> HIDE DEF p, q, r
  <2>4. p \o q = r
    BY <2>1, <2>2, <2>3, Concat
  <2> QED
    BY <2>4 DEF p, q, r
<1>7. <<v, v, v, v, x, h1, p2, m3, r3, u2>> \o <<c1, z, y1>> = <<v, v, v, v, x, h1, p2, m3, r3, u2, c1, z, y1>>
  <2> DEFINE p == <<v, v, v, v, x, h1, p2, m3, r3, u2>>
             q == <<c1, z, y1>>
             r == <<v, v, v, v, x, h1, p2, m3, r3, u2, c1, z, y1>>
  <2>1. p \in Seq(Steps) /\ q \in Seq(Steps) /\ r \in Seq(Steps) /\ Len(r) = Len(p) + Len(q)
    BY <1>1
  <2>2. \A i \in 1 .. Len(p) : r[i] = p[i]
    OBVIOUS
  <2>3. \A i \in 1 .. Len(q) : r[Len(p) + i] = q[i]
    OBVIOUS
  <2> HIDE DEF p, q, r
  <2>4. p \o q = r
    BY <2>1, <2>2, <2>3, Concat
  <2> QED
    BY <2>4 DEF p, q, r
<1>8. <<v, v, v, v, x, h1, p2, m3, r3, u2, c1, z, y1>> \o <<f>> = <<v, v, v, v, x, h1, p2, m3, r3, u2, c1, z, y1, f>>
  <2> DEFINE p == <<v, v, v, v, x, h1, p2, m3, r3, u2, c1, z, y1>>
             q == <<f>>
             r == <<v, v, v, v, x, h1, p2, m3, r3, u2, c1, z, y1, f>>
  <2>1. p \in Seq(Steps) /\ q \in Seq(Steps) /\ r \in Seq(Steps) /\ Len(r) = Len(p) + Len(q)
    BY <1>1
  <2>2. \A i \in 1 .. Len(p) : r[i] = p[i]
    OBVIOUS
  <2>3. \A i \in 1 .. Len(q) : r[Len(p) + i] = q[i]
    OBVIOUS
  <2> HIDE DEF p, q, r
  <2>4. p \o q = r
    BY <2>1, <2>2, <2>3, Concat
  <2> QED
    BY <2>4 DEF p, q, r
<1>v. [n \in 1 .. Words |-> v] = <<v, v, v, v>>
  BY DEF Words
<1> QED
  BY <1>2, <1>3, <1>4, <1>5, <1>6, <1>7, <1>8, <1>v

LEMMA FrontMwPlan ==
  ASSUME kind # "be"
  PROVE  FEProgram = FrontMw /\ FrontMw \in Seq(Steps) /\ Len(FrontMw) = 9
<1> DEFINE v == Do("read", "security_chk")
           x == Do("is_secure", "none")
           h1 == Do("read", "hostname")
           u3 == Do("handleFeMwUsrData", "handshake")
           y2 == Do("handleMwFeUsrData", "handshake")
           f == Return
<1>1. /\ v \in Steps /\ x \in Steps /\ h1 \in Steps /\ u3 \in Steps /\ y2 \in Steps /\ f \in Steps
  BY FrontSteps
<1>2. FEProgram = ([n \in 1 .. Words |-> v] \o <<x, h1>>) \o <<u3, y2, f>>
  BY DEF FEProgram, LMON_fe_mwHandshakeSequence, CheckDaemons
<1>3. FrontMw = <<v, v, v, v, x, h1, u3, y2, f>>
  BY DEF FrontMw
<1> HIDE DEF v, x, h1, u3, y2, f
<1>4. <<v, v, v, v, x, h1, u3, y2, f>> \in Seq(Steps) /\ Len(<<v, v, v, v, x, h1, u3, y2, f>>) = 9
  BY <1>1
<1>5. <<v, v, v, v>> \o <<x, h1>> = <<v, v, v, v, x, h1>>
  <2> DEFINE p == <<v, v, v, v>>
             q == <<x, h1>>
             r == <<v, v, v, v, x, h1>>
  <2>1. p \in Seq(Steps) /\ q \in Seq(Steps) /\ r \in Seq(Steps) /\ Len(r) = Len(p) + Len(q)
    BY <1>1
  <2>2. \A i \in 1 .. Len(p) : r[i] = p[i]
    OBVIOUS
  <2>3. \A i \in 1 .. Len(q) : r[Len(p) + i] = q[i]
    OBVIOUS
  <2> HIDE DEF p, q, r
  <2>4. p \o q = r
    BY <2>1, <2>2, <2>3, Concat
  <2> QED
    BY <2>4 DEF p, q, r
<1>6. <<v, v, v, v, x, h1>> \o <<u3, y2, f>> = <<v, v, v, v, x, h1, u3, y2, f>>
  <2> DEFINE p == <<v, v, v, v, x, h1>>
             q == <<u3, y2, f>>
             r == <<v, v, v, v, x, h1, u3, y2, f>>
  <2>1. p \in Seq(Steps) /\ q \in Seq(Steps) /\ r \in Seq(Steps) /\ Len(r) = Len(p) + Len(q)
    BY <1>1
  <2>2. \A i \in 1 .. Len(p) : r[i] = p[i]
    OBVIOUS
  <2>3. \A i \in 1 .. Len(q) : r[Len(p) + i] = q[i]
    OBVIOUS
  <2> HIDE DEF p, q, r
  <2>4. p \o q = r
    BY <2>1, <2>2, <2>3, Concat
  <2> QED
    BY <2>4 DEF p, q, r
<1>v. [n \in 1 .. Words |-> v] = <<v, v, v, v>>
  BY DEF Words
<1> QED
  BY <1>2, <1>3, <1>4, <1>5, <1>6, <1>v


-----------------------------------------------------------------------------
(* A process that follows its plan *)

\* the next step, and what is left after it
LEMMA RestsTail ==
  ASSUME NEW P \in Seq(Steps), NEW q \in Seq(Steps), Rests(q, P), q # <<>>
  PROVE  /\ Len(q) \in 1 .. Len(P) /\ Head(q) = P[Len(P) + 1 - Len(q)] /\ Head(q) \in Steps
         /\ Tail(q) \in Seq(Steps) /\ Len(Tail(q)) = Len(q) - 1 /\ Rests(Tail(q), P)
         /\ Tail(q) = <<>> <=> Len(q) = 1
<1>1. /\ Len(q) \in Nat /\ Len(q) > 0 /\ Head(q) = q[1] /\ Tail(q) \in Seq(Steps)
      /\ Len(Tail(q)) = Len(q) - 1 /\ \A i \in 1 .. Len(q) - 1 : Tail(q)[i] = q[i + 1]
      /\ Len(P) \in Nat /\ q[1] \in Steps
  BY HeadTailProperties, LenProperties, EmptySeq, ElementOfSeq
<1> DEFINE n == Len(q)
           m == Len(P)
           t == Tail(q)
<1>2. n <= m /\ \A i \in 1 .. n : q[i] = P[m - n + i]
  BY DEF Rests
<1>3. Len(t) <= m
  BY <1>1, <1>2
<1>4. ASSUME NEW i \in 1 .. n - 1 PROVE t[i] = P[m - (n - 1) + i]
  <2>1. i + 1 \in 1 .. n /\ m - n + (i + 1) = m - (n - 1) + i
    BY <1>1, <1>2
  <2> QED
    BY <1>1, <1>2, <2>1
<1>5. Rests(t, P)
  BY <1>1, <1>3, <1>4 DEF Rests
<1>6. Head(q) = P[m + 1 - n]
  <2>1. 1 \in 1 .. n /\ m - n + 1 = m + 1 - n
    BY <1>1, <1>2
  <2> QED
    BY <1>1, <1>2, <2>1
<1>7. t = <<>> <=> n = 1
  BY <1>1, EmptySeq
<1> QED
  BY <1>1, <1>2, <1>5, <1>6, <1>7

\* the next step of a process with q left of SlaveBe
SlaveBeMoves(q) ==
  LET r == Len(q)  h == Head(q) IN
  /\ r \in 1 .. 11
  /\ r = 11 => h.do = "barrier" /\ h.arg = "returns"
  /\ r = 10 => h.do = "gather" /\ h.arg = "none"
  /\ r = 9 => h.do = "bcast" /\ h.arg = "mode"
  /\ r = 8 => h.do = "bcast" /\ h.arg = "rm"
  /\ r = 7 => h.do = "bcast" /\ h.arg = "size"
  /\ r = 6 => h.do = "bcast" /\ h.arg = "table"
  /\ r = 5 => h.do = "procctl_init" /\ h.arg = "none"
  /\ r = 4 => h.do = "barrier" /\ h.arg = "none"
  /\ r = 3 => h.do = "procctl_initdone" /\ h.arg = "none"
  /\ r \in {1, 2} => h.do = "barrier" /\ h.arg = "returns"
  /\ Tail(q) \in Seq(Steps) /\ Len(Tail(q)) = r - 1 /\ Rests(Tail(q), SlaveBe)
  /\ Tail(q) = <<>> <=> r = 1

LEMMA SlaveBeAt ==
  ASSUME SlaveBe \in Seq(Steps), Len(SlaveBe) = 11,
         NEW q \in Seq(Steps), Rests(q, SlaveBe), q # <<>>
  PROVE  SlaveBeMoves(q)
<1> DEFINE P == SlaveBe
           r == Len(q)
           h == Head(q)
<1>1. P \in Seq(Steps) /\ Len(P) = 11 /\ Rests(q, P)
  OBVIOUS
<1> HIDE DEF P
<1>2. /\ r \in 1 .. Len(P) /\ h = P[Len(P) + 1 - r]
      /\ Tail(q) \in Seq(Steps) /\ Len(Tail(q)) = r - 1 /\ Rests(Tail(q), P)
      /\ Tail(q) = <<>> <=> r = 1
  BY <1>1, RestsTail
<1>3. /\ P[1] = Do("barrier", "returns")
      /\ P[2] = Do("gather", "none")
      /\ P[3] = Do("bcast", "mode")
      /\ P[4] = Do("bcast", "rm")
      /\ P[5] = Do("bcast", "size")
      /\ P[6] = Do("bcast", "table")
      /\ P[7] = Do("procctl_init", "none")
      /\ P[8] = Do("barrier", "none")
      /\ P[9] = Do("procctl_initdone", "none")
      /\ P[10] = Do("barrier", "returns")
      /\ P[11] = Do("barrier", "returns")
  BY DEF P, SlaveBe, Bcast, Barrier, LastBarrier, Return
<1> HIDE DEF r, h
<1>r. r \in 1 .. 11 /\ h = P[12 - r]
  BY <1>1, <1>2
<1>s. /\ (r = 11 => h = P[1]) /\ (r = 10 => h = P[2]) /\ (r = 9 => h = P[3])
      /\ (r = 8 => h = P[4]) /\ (r = 7 => h = P[5]) /\ (r = 6 => h = P[6])
      /\ (r = 5 => h = P[7]) /\ (r = 4 => h = P[8]) /\ (r = 3 => h = P[9])
      /\ (r = 2 => h = P[10]) /\ (r = 1 => h = P[11])
  BY <1>r
<1>4. r = 11 => h.do = "barrier" /\ h.arg = "returns"
  <2>1. r = 11 => h = Do("barrier", "returns")
    BY <1>s, <1>3
  <2> QED
    BY <2>1 DEF Do
<1>5. r = 10 => h.do = "gather" /\ h.arg = "none"
  <2>1. r = 10 => h = Do("gather", "none")
    BY <1>s, <1>3
  <2> QED
    BY <2>1 DEF Do
<1>6. r = 9 => h.do = "bcast" /\ h.arg = "mode"
  <2>1. r = 9 => h = Do("bcast", "mode")
    BY <1>s, <1>3
  <2> QED
    BY <2>1 DEF Do
<1>7. r = 8 => h.do = "bcast" /\ h.arg = "rm"
  <2>1. r = 8 => h = Do("bcast", "rm")
    BY <1>s, <1>3
  <2> QED
    BY <2>1 DEF Do
<1>8. r = 7 => h.do = "bcast" /\ h.arg = "size"
  <2>1. r = 7 => h = Do("bcast", "size")
    BY <1>s, <1>3
  <2> QED
    BY <2>1 DEF Do
<1>9. r = 6 => h.do = "bcast" /\ h.arg = "table"
  <2>1. r = 6 => h = Do("bcast", "table")
    BY <1>s, <1>3
  <2> QED
    BY <2>1 DEF Do
<1>10. r = 5 => h.do = "procctl_init" /\ h.arg = "none"
  <2>1. r = 5 => h = Do("procctl_init", "none")
    BY <1>s, <1>3
  <2> QED
    BY <2>1 DEF Do
<1>11. r = 4 => h.do = "barrier" /\ h.arg = "none"
  <2>1. r = 4 => h = Do("barrier", "none")
    BY <1>s, <1>3
  <2> QED
    BY <2>1 DEF Do
<1>12. r = 3 => h.do = "procctl_initdone" /\ h.arg = "none"
  <2>1. r = 3 => h = Do("procctl_initdone", "none")
    BY <1>s, <1>3
  <2> QED
    BY <2>1 DEF Do
<1>13. r \in {1, 2} => h.do = "barrier" /\ h.arg = "returns"
  <2>1. r \in {1, 2} => h = Do("barrier", "returns")
    BY <1>s, <1>3
  <2> QED
    BY <2>1 DEF Do
<1> QED
  BY <1>2, <1>r, <1>4, <1>5, <1>6, <1>7, <1>8, <1>9, <1>10, <1>11, <1>12, <1>13 DEF P, r, h, SlaveBeMoves

\* the next step of a process with q left of MasterBe
MasterBeMoves(q) ==
  LET r == Len(q)  h == Head(q) IN
  /\ r \in 1 .. 23
  /\ r = 23 => h.do = "key" /\ h.arg = "none"
  /\ r \in {19, 20, 21, 22} => h.do = "write" /\ h.arg = "security_chk"
  /\ r = 18 => h.do = "barrier" /\ h.arg = "returns"
  /\ r = 17 => h.do = "gather" /\ h.arg = "none"
  /\ r = 16 => h.do = "write" /\ h.arg = "hostname"
  /\ r = 15 => h.do = "read" /\ h.arg = "proctab"
  /\ r = 14 => h.do = "read" /\ h.arg = "mode"
  /\ r = 13 => h.do = "read" /\ h.arg = "rm_type"
  /\ r = 12 => h.do = "read" /\ h.arg = "usrdata"
  /\ r = 11 => h.do = "bcast" /\ h.arg = "mode"
  /\ r = 10 => h.do = "bcast" /\ h.arg = "rm"
  /\ r = 9 => h.do = "bcast" /\ h.arg = "size"
  /\ r = 8 => h.do = "bcast" /\ h.arg = "table"
  /\ r = 7 => h.do = "procctl_init" /\ h.arg = "none"
  /\ r = 6 => h.do = "barrier" /\ h.arg = "none"
  /\ r = 5 => h.do = "write" /\ h.arg = "cont_launch_bp"
  /\ r = 4 => h.do = "procctl_initdone" /\ h.arg = "none"
  /\ r = 3 => h.do = "barrier" /\ h.arg = "returns"
  /\ r = 2 => h.do = "write" /\ h.arg = "ready"
  /\ r = 1 => h.do = "barrier" /\ h.arg = "returns"
  /\ Tail(q) \in Seq(Steps) /\ Len(Tail(q)) = r - 1 /\ Rests(Tail(q), MasterBe)
  /\ Tail(q) = <<>> <=> r = 1

LEMMA MasterBeAt ==
  ASSUME MasterBe \in Seq(Steps), Len(MasterBe) = 23,
         NEW q \in Seq(Steps), Rests(q, MasterBe), q # <<>>
  PROVE  MasterBeMoves(q)
<1> DEFINE P == MasterBe
           r == Len(q)
           h == Head(q)
<1>1. P \in Seq(Steps) /\ Len(P) = 23 /\ Rests(q, P)
  OBVIOUS
<1> HIDE DEF P
<1>2. /\ r \in 1 .. Len(P) /\ h = P[Len(P) + 1 - r]
      /\ Tail(q) \in Seq(Steps) /\ Len(Tail(q)) = r - 1 /\ Rests(Tail(q), P)
      /\ Tail(q) = <<>> <=> r = 1
  BY <1>1, RestsTail
<1>3. /\ P[1] = Do("key", "none")
      /\ P[2] = Do("write", "security_chk")
      /\ P[3] = Do("write", "security_chk")
      /\ P[4] = Do("write", "security_chk")
      /\ P[5] = Do("write", "security_chk")
      /\ P[6] = Do("barrier", "returns")
      /\ P[7] = Do("gather", "none")
      /\ P[8] = Do("write", "hostname")
      /\ P[9] = Do("read", "proctab")
      /\ P[10] = Do("read", "mode")
      /\ P[11] = Do("read", "rm_type")
      /\ P[12] = Do("read", "usrdata")
      /\ P[13] = Do("bcast", "mode")
      /\ P[14] = Do("bcast", "rm")
      /\ P[15] = Do("bcast", "size")
      /\ P[16] = Do("bcast", "table")
      /\ P[17] = Do("procctl_init", "none")
      /\ P[18] = Do("barrier", "none")
      /\ P[19] = Do("write", "cont_launch_bp")
      /\ P[20] = Do("procctl_initdone", "none")
      /\ P[21] = Do("barrier", "returns")
      /\ P[22] = Do("write", "ready")
      /\ P[23] = Do("barrier", "returns")
  BY DEF P, MasterBe, Bcast, Barrier, LastBarrier, Return
<1> HIDE DEF r, h
<1>r. r \in 1 .. 23 /\ h = P[24 - r]
  BY <1>1, <1>2
<1>s. /\ (r = 23 => h = P[1]) /\ (r = 22 => h = P[2]) /\ (r = 21 => h = P[3])
      /\ (r = 20 => h = P[4]) /\ (r = 19 => h = P[5]) /\ (r = 18 => h = P[6])
      /\ (r = 17 => h = P[7]) /\ (r = 16 => h = P[8]) /\ (r = 15 => h = P[9])
      /\ (r = 14 => h = P[10]) /\ (r = 13 => h = P[11]) /\ (r = 12 => h = P[12])
      /\ (r = 11 => h = P[13]) /\ (r = 10 => h = P[14]) /\ (r = 9 => h = P[15])
      /\ (r = 8 => h = P[16]) /\ (r = 7 => h = P[17]) /\ (r = 6 => h = P[18])
      /\ (r = 5 => h = P[19]) /\ (r = 4 => h = P[20]) /\ (r = 3 => h = P[21])
      /\ (r = 2 => h = P[22]) /\ (r = 1 => h = P[23])
  BY <1>r
<1>4. r = 23 => h.do = "key" /\ h.arg = "none"
  <2>1. r = 23 => h = Do("key", "none")
    BY <1>s, <1>3
  <2> QED
    BY <2>1 DEF Do
<1>5. r \in {19, 20, 21, 22} => h.do = "write" /\ h.arg = "security_chk"
  <2>1. r \in {19, 20, 21, 22} => h = Do("write", "security_chk")
    BY <1>s, <1>3
  <2> QED
    BY <2>1 DEF Do
<1>6. r = 18 => h.do = "barrier" /\ h.arg = "returns"
  <2>1. r = 18 => h = Do("barrier", "returns")
    BY <1>s, <1>3
  <2> QED
    BY <2>1 DEF Do
<1>7. r = 17 => h.do = "gather" /\ h.arg = "none"
  <2>1. r = 17 => h = Do("gather", "none")
    BY <1>s, <1>3
  <2> QED
    BY <2>1 DEF Do
<1>8. r = 16 => h.do = "write" /\ h.arg = "hostname"
  <2>1. r = 16 => h = Do("write", "hostname")
    BY <1>s, <1>3
  <2> QED
    BY <2>1 DEF Do
<1>9. r = 15 => h.do = "read" /\ h.arg = "proctab"
  <2>1. r = 15 => h = Do("read", "proctab")
    BY <1>s, <1>3
  <2> QED
    BY <2>1 DEF Do
<1>10. r = 14 => h.do = "read" /\ h.arg = "mode"
  <2>1. r = 14 => h = Do("read", "mode")
    BY <1>s, <1>3
  <2> QED
    BY <2>1 DEF Do
<1>11. r = 13 => h.do = "read" /\ h.arg = "rm_type"
  <2>1. r = 13 => h = Do("read", "rm_type")
    BY <1>s, <1>3
  <2> QED
    BY <2>1 DEF Do
<1>12. r = 12 => h.do = "read" /\ h.arg = "usrdata"
  <2>1. r = 12 => h = Do("read", "usrdata")
    BY <1>s, <1>3
  <2> QED
    BY <2>1 DEF Do
<1>13. r = 11 => h.do = "bcast" /\ h.arg = "mode"
  <2>1. r = 11 => h = Do("bcast", "mode")
    BY <1>s, <1>3
  <2> QED
    BY <2>1 DEF Do
<1>14. r = 10 => h.do = "bcast" /\ h.arg = "rm"
  <2>1. r = 10 => h = Do("bcast", "rm")
    BY <1>s, <1>3
  <2> QED
    BY <2>1 DEF Do
<1>15. r = 9 => h.do = "bcast" /\ h.arg = "size"
  <2>1. r = 9 => h = Do("bcast", "size")
    BY <1>s, <1>3
  <2> QED
    BY <2>1 DEF Do
<1>16. r = 8 => h.do = "bcast" /\ h.arg = "table"
  <2>1. r = 8 => h = Do("bcast", "table")
    BY <1>s, <1>3
  <2> QED
    BY <2>1 DEF Do
<1>17. r = 7 => h.do = "procctl_init" /\ h.arg = "none"
  <2>1. r = 7 => h = Do("procctl_init", "none")
    BY <1>s, <1>3
  <2> QED
    BY <2>1 DEF Do
<1>18. r = 6 => h.do = "barrier" /\ h.arg = "none"
  <2>1. r = 6 => h = Do("barrier", "none")
    BY <1>s, <1>3
  <2> QED
    BY <2>1 DEF Do
<1>19. r = 5 => h.do = "write" /\ h.arg = "cont_launch_bp"
  <2>1. r = 5 => h = Do("write", "cont_launch_bp")
    BY <1>s, <1>3
  <2> QED
    BY <2>1 DEF Do
<1>20. r = 4 => h.do = "procctl_initdone" /\ h.arg = "none"
  <2>1. r = 4 => h = Do("procctl_initdone", "none")
    BY <1>s, <1>3
  <2> QED
    BY <2>1 DEF Do
<1>21. r = 3 => h.do = "barrier" /\ h.arg = "returns"
  <2>1. r = 3 => h = Do("barrier", "returns")
    BY <1>s, <1>3
  <2> QED
    BY <2>1 DEF Do
<1>22. r = 2 => h.do = "write" /\ h.arg = "ready"
  <2>1. r = 2 => h = Do("write", "ready")
    BY <1>s, <1>3
  <2> QED
    BY <2>1 DEF Do
<1>23. r = 1 => h.do = "barrier" /\ h.arg = "returns"
  <2>1. r = 1 => h = Do("barrier", "returns")
    BY <1>s, <1>3
  <2> QED
    BY <2>1 DEF Do
<1> QED
  BY <1>2, <1>r, <1>4, <1>5, <1>6, <1>7, <1>8, <1>9, <1>10, <1>11, <1>12, <1>13, <1>14, <1>15, <1>16, <1>17, <1>18, <1>19, <1>20, <1>21, <1>22, <1>23 DEF P, r, h, MasterBeMoves

\* the next step of a process with q left of SlaveMw
SlaveMwMoves(q) ==
  LET r == Len(q)  h == Head(q) IN
  /\ r \in 1 .. 4
  /\ r = 4 => h.do = "barrier" /\ h.arg = "returns"
  /\ r = 3 => h.do = "gather" /\ h.arg = "none"
  /\ r \in {1, 2} => h.do = "barrier" /\ h.arg = "returns"
  /\ Tail(q) \in Seq(Steps) /\ Len(Tail(q)) = r - 1 /\ Rests(Tail(q), SlaveMw)
  /\ Tail(q) = <<>> <=> r = 1

LEMMA SlaveMwAt ==
  ASSUME SlaveMw \in Seq(Steps), Len(SlaveMw) = 4,
         NEW q \in Seq(Steps), Rests(q, SlaveMw), q # <<>>
  PROVE  SlaveMwMoves(q)
<1> DEFINE P == SlaveMw
           r == Len(q)
           h == Head(q)
<1>1. P \in Seq(Steps) /\ Len(P) = 4 /\ Rests(q, P)
  OBVIOUS
<1> HIDE DEF P
<1>2. /\ r \in 1 .. Len(P) /\ h = P[Len(P) + 1 - r]
      /\ Tail(q) \in Seq(Steps) /\ Len(Tail(q)) = r - 1 /\ Rests(Tail(q), P)
      /\ Tail(q) = <<>> <=> r = 1
  BY <1>1, RestsTail
<1>3. /\ P[1] = Do("barrier", "returns")
      /\ P[2] = Do("gather", "none")
      /\ P[3] = Do("barrier", "returns")
      /\ P[4] = Do("barrier", "returns")
  BY DEF P, SlaveMw, Bcast, Barrier, LastBarrier, Return
<1> HIDE DEF r, h
<1>r. r \in 1 .. 4 /\ h = P[5 - r]
  BY <1>1, <1>2
<1>s. /\ (r = 4 => h = P[1]) /\ (r = 3 => h = P[2]) /\ (r = 2 => h = P[3])
      /\ (r = 1 => h = P[4])
  BY <1>r
<1>4. r = 4 => h.do = "barrier" /\ h.arg = "returns"
  <2>1. r = 4 => h = Do("barrier", "returns")
    BY <1>s, <1>3
  <2> QED
    BY <2>1 DEF Do
<1>5. r = 3 => h.do = "gather" /\ h.arg = "none"
  <2>1. r = 3 => h = Do("gather", "none")
    BY <1>s, <1>3
  <2> QED
    BY <2>1 DEF Do
<1>6. r \in {1, 2} => h.do = "barrier" /\ h.arg = "returns"
  <2>1. r \in {1, 2} => h = Do("barrier", "returns")
    BY <1>s, <1>3
  <2> QED
    BY <2>1 DEF Do
<1> QED
  BY <1>2, <1>r, <1>4, <1>5, <1>6 DEF P, r, h, SlaveMwMoves

\* the next step of a process with q left of MasterMw
MasterMwMoves(q) ==
  LET r == Len(q)  h == Head(q) IN
  /\ r \in 1 .. 12
  /\ r = 12 => h.do = "key" /\ h.arg = "none"
  /\ r \in {8, 9, 10, 11} => h.do = "write" /\ h.arg = "security_chk"
  /\ r = 7 => h.do = "barrier" /\ h.arg = "returns"
  /\ r = 6 => h.do = "gather" /\ h.arg = "none"
  /\ r = 5 => h.do = "write" /\ h.arg = "hostname"
  /\ r = 4 => h.do = "read" /\ h.arg = "usrdata"
  /\ r = 3 => h.do = "barrier" /\ h.arg = "returns"
  /\ r = 2 => h.do = "write" /\ h.arg = "ready"
  /\ r = 1 => h.do = "barrier" /\ h.arg = "returns"
  /\ Tail(q) \in Seq(Steps) /\ Len(Tail(q)) = r - 1 /\ Rests(Tail(q), MasterMw)
  /\ Tail(q) = <<>> <=> r = 1

LEMMA MasterMwAt ==
  ASSUME MasterMw \in Seq(Steps), Len(MasterMw) = 12,
         NEW q \in Seq(Steps), Rests(q, MasterMw), q # <<>>
  PROVE  MasterMwMoves(q)
<1> DEFINE P == MasterMw
           r == Len(q)
           h == Head(q)
<1>1. P \in Seq(Steps) /\ Len(P) = 12 /\ Rests(q, P)
  OBVIOUS
<1> HIDE DEF P
<1>2. /\ r \in 1 .. Len(P) /\ h = P[Len(P) + 1 - r]
      /\ Tail(q) \in Seq(Steps) /\ Len(Tail(q)) = r - 1 /\ Rests(Tail(q), P)
      /\ Tail(q) = <<>> <=> r = 1
  BY <1>1, RestsTail
<1>3. /\ P[1] = Do("key", "none")
      /\ P[2] = Do("write", "security_chk")
      /\ P[3] = Do("write", "security_chk")
      /\ P[4] = Do("write", "security_chk")
      /\ P[5] = Do("write", "security_chk")
      /\ P[6] = Do("barrier", "returns")
      /\ P[7] = Do("gather", "none")
      /\ P[8] = Do("write", "hostname")
      /\ P[9] = Do("read", "usrdata")
      /\ P[10] = Do("barrier", "returns")
      /\ P[11] = Do("write", "ready")
      /\ P[12] = Do("barrier", "returns")
  BY DEF P, MasterMw, Bcast, Barrier, LastBarrier, Return
<1> HIDE DEF r, h
<1>r. r \in 1 .. 12 /\ h = P[13 - r]
  BY <1>1, <1>2
<1>s. /\ (r = 12 => h = P[1]) /\ (r = 11 => h = P[2]) /\ (r = 10 => h = P[3])
      /\ (r = 9 => h = P[4]) /\ (r = 8 => h = P[5]) /\ (r = 7 => h = P[6])
      /\ (r = 6 => h = P[7]) /\ (r = 5 => h = P[8]) /\ (r = 4 => h = P[9])
      /\ (r = 3 => h = P[10]) /\ (r = 2 => h = P[11]) /\ (r = 1 => h = P[12])
  BY <1>r
<1>4. r = 12 => h.do = "key" /\ h.arg = "none"
  <2>1. r = 12 => h = Do("key", "none")
    BY <1>s, <1>3
  <2> QED
    BY <2>1 DEF Do
<1>5. r \in {8, 9, 10, 11} => h.do = "write" /\ h.arg = "security_chk"
  <2>1. r \in {8, 9, 10, 11} => h = Do("write", "security_chk")
    BY <1>s, <1>3
  <2> QED
    BY <2>1 DEF Do
<1>6. r = 7 => h.do = "barrier" /\ h.arg = "returns"
  <2>1. r = 7 => h = Do("barrier", "returns")
    BY <1>s, <1>3
  <2> QED
    BY <2>1 DEF Do
<1>7. r = 6 => h.do = "gather" /\ h.arg = "none"
  <2>1. r = 6 => h = Do("gather", "none")
    BY <1>s, <1>3
  <2> QED
    BY <2>1 DEF Do
<1>8. r = 5 => h.do = "write" /\ h.arg = "hostname"
  <2>1. r = 5 => h = Do("write", "hostname")
    BY <1>s, <1>3
  <2> QED
    BY <2>1 DEF Do
<1>9. r = 4 => h.do = "read" /\ h.arg = "usrdata"
  <2>1. r = 4 => h = Do("read", "usrdata")
    BY <1>s, <1>3
  <2> QED
    BY <2>1 DEF Do
<1>10. r = 3 => h.do = "barrier" /\ h.arg = "returns"
  <2>1. r = 3 => h = Do("barrier", "returns")
    BY <1>s, <1>3
  <2> QED
    BY <2>1 DEF Do
<1>11. r = 2 => h.do = "write" /\ h.arg = "ready"
  <2>1. r = 2 => h = Do("write", "ready")
    BY <1>s, <1>3
  <2> QED
    BY <2>1 DEF Do
<1>12. r = 1 => h.do = "barrier" /\ h.arg = "returns"
  <2>1. r = 1 => h = Do("barrier", "returns")
    BY <1>s, <1>3
  <2> QED
    BY <2>1 DEF Do
<1> QED
  BY <1>2, <1>r, <1>4, <1>5, <1>6, <1>7, <1>8, <1>9, <1>10, <1>11, <1>12 DEF P, r, h, MasterMwMoves

\* the next step of a process with q left of FrontBe
FrontBeMoves(q) ==
  LET r == Len(q)  h == Head(q) IN
  /\ r \in 1 .. 14
  /\ r \in {11, 12, 13, 14} => h.do = "read" /\ h.arg = "security_chk"
  /\ r = 10 => h.do = "is_secure" /\ h.arg = "none"
  /\ r = 9 => h.do = "read" /\ h.arg = "hostname"
  /\ r = 8 => h.do = "write" /\ h.arg = "proctab"
  /\ r = 7 => h.do = "write" /\ h.arg = "mode"
  /\ r = 6 => h.do = "write" /\ h.arg = "rm_type"
  /\ r = 5 => h.do = "handleFeBeUsrData" /\ h.arg = "handshake"
  /\ r = 4 => h.do = "read" /\ h.arg = "cont_launch_bp"
  /\ r = 3 => h.do = "engine" /\ h.arg = "none"
  /\ r = 2 => h.do = "handleBeFeUsrData" /\ h.arg = "handshake"
  /\ r = 1 => h.do = "return" /\ h.arg = "none"
  /\ Tail(q) \in Seq(Steps) /\ Len(Tail(q)) = r - 1 /\ Rests(Tail(q), FrontBe)
  /\ Tail(q) = <<>> <=> r = 1

LEMMA FrontBeAt ==
  ASSUME FrontBe \in Seq(Steps), Len(FrontBe) = 14,
         NEW q \in Seq(Steps), Rests(q, FrontBe), q # <<>>
  PROVE  FrontBeMoves(q)
<1> DEFINE P == FrontBe
           r == Len(q)
           h == Head(q)
<1>1. P \in Seq(Steps) /\ Len(P) = 14 /\ Rests(q, P)
  OBVIOUS
<1> HIDE DEF P
<1>2. /\ r \in 1 .. Len(P) /\ h = P[Len(P) + 1 - r]
      /\ Tail(q) \in Seq(Steps) /\ Len(Tail(q)) = r - 1 /\ Rests(Tail(q), P)
      /\ Tail(q) = <<>> <=> r = 1
  BY <1>1, RestsTail
<1>3. /\ P[1] = Do("read", "security_chk")
      /\ P[2] = Do("read", "security_chk")
      /\ P[3] = Do("read", "security_chk")
      /\ P[4] = Do("read", "security_chk")
      /\ P[5] = Do("is_secure", "none")
      /\ P[6] = Do("read", "hostname")
      /\ P[7] = Do("write", "proctab")
      /\ P[8] = Do("write", "mode")
      /\ P[9] = Do("write", "rm_type")
      /\ P[10] = Do("handleFeBeUsrData", "handshake")
      /\ P[11] = Do("read", "cont_launch_bp")
      /\ P[12] = Do("engine", "none")
      /\ P[13] = Do("handleBeFeUsrData", "handshake")
      /\ P[14] = Do("return", "none")
  BY DEF P, FrontBe, Bcast, Barrier, LastBarrier, Return
<1> HIDE DEF r, h
<1>r. r \in 1 .. 14 /\ h = P[15 - r]
  BY <1>1, <1>2
<1>s. /\ (r = 14 => h = P[1]) /\ (r = 13 => h = P[2]) /\ (r = 12 => h = P[3])
      /\ (r = 11 => h = P[4]) /\ (r = 10 => h = P[5]) /\ (r = 9 => h = P[6])
      /\ (r = 8 => h = P[7]) /\ (r = 7 => h = P[8]) /\ (r = 6 => h = P[9])
      /\ (r = 5 => h = P[10]) /\ (r = 4 => h = P[11]) /\ (r = 3 => h = P[12])
      /\ (r = 2 => h = P[13]) /\ (r = 1 => h = P[14])
  BY <1>r
<1>4. r \in {11, 12, 13, 14} => h.do = "read" /\ h.arg = "security_chk"
  <2>1. r \in {11, 12, 13, 14} => h = Do("read", "security_chk")
    BY <1>s, <1>3
  <2> QED
    BY <2>1 DEF Do
<1>5. r = 10 => h.do = "is_secure" /\ h.arg = "none"
  <2>1. r = 10 => h = Do("is_secure", "none")
    BY <1>s, <1>3
  <2> QED
    BY <2>1 DEF Do
<1>6. r = 9 => h.do = "read" /\ h.arg = "hostname"
  <2>1. r = 9 => h = Do("read", "hostname")
    BY <1>s, <1>3
  <2> QED
    BY <2>1 DEF Do
<1>7. r = 8 => h.do = "write" /\ h.arg = "proctab"
  <2>1. r = 8 => h = Do("write", "proctab")
    BY <1>s, <1>3
  <2> QED
    BY <2>1 DEF Do
<1>8. r = 7 => h.do = "write" /\ h.arg = "mode"
  <2>1. r = 7 => h = Do("write", "mode")
    BY <1>s, <1>3
  <2> QED
    BY <2>1 DEF Do
<1>9. r = 6 => h.do = "write" /\ h.arg = "rm_type"
  <2>1. r = 6 => h = Do("write", "rm_type")
    BY <1>s, <1>3
  <2> QED
    BY <2>1 DEF Do
<1>10. r = 5 => h.do = "handleFeBeUsrData" /\ h.arg = "handshake"
  <2>1. r = 5 => h = Do("handleFeBeUsrData", "handshake")
    BY <1>s, <1>3
  <2> QED
    BY <2>1 DEF Do
<1>11. r = 4 => h.do = "read" /\ h.arg = "cont_launch_bp"
  <2>1. r = 4 => h = Do("read", "cont_launch_bp")
    BY <1>s, <1>3
  <2> QED
    BY <2>1 DEF Do
<1>12. r = 3 => h.do = "engine" /\ h.arg = "none"
  <2>1. r = 3 => h = Do("engine", "none")
    BY <1>s, <1>3
  <2> QED
    BY <2>1 DEF Do
<1>13. r = 2 => h.do = "handleBeFeUsrData" /\ h.arg = "handshake"
  <2>1. r = 2 => h = Do("handleBeFeUsrData", "handshake")
    BY <1>s, <1>3
  <2> QED
    BY <2>1 DEF Do
<1>14. r = 1 => h.do = "return" /\ h.arg = "none"
  <2>1. r = 1 => h = Do("return", "none")
    BY <1>s, <1>3
  <2> QED
    BY <2>1 DEF Do
<1> QED
  BY <1>2, <1>r, <1>4, <1>5, <1>6, <1>7, <1>8, <1>9, <1>10, <1>11, <1>12, <1>13, <1>14 DEF P, r, h, FrontBeMoves

\* the next step of a process with q left of FrontMw
FrontMwMoves(q) ==
  LET r == Len(q)  h == Head(q) IN
  /\ r \in 1 .. 9
  /\ r \in {6, 7, 8, 9} => h.do = "read" /\ h.arg = "security_chk"
  /\ r = 5 => h.do = "is_secure" /\ h.arg = "none"
  /\ r = 4 => h.do = "read" /\ h.arg = "hostname"
  /\ r = 3 => h.do = "handleFeMwUsrData" /\ h.arg = "handshake"
  /\ r = 2 => h.do = "handleMwFeUsrData" /\ h.arg = "handshake"
  /\ r = 1 => h.do = "return" /\ h.arg = "none"
  /\ Tail(q) \in Seq(Steps) /\ Len(Tail(q)) = r - 1 /\ Rests(Tail(q), FrontMw)
  /\ Tail(q) = <<>> <=> r = 1

LEMMA FrontMwAt ==
  ASSUME FrontMw \in Seq(Steps), Len(FrontMw) = 9,
         NEW q \in Seq(Steps), Rests(q, FrontMw), q # <<>>
  PROVE  FrontMwMoves(q)
<1> DEFINE P == FrontMw
           r == Len(q)
           h == Head(q)
<1>1. P \in Seq(Steps) /\ Len(P) = 9 /\ Rests(q, P)
  OBVIOUS
<1> HIDE DEF P
<1>2. /\ r \in 1 .. Len(P) /\ h = P[Len(P) + 1 - r]
      /\ Tail(q) \in Seq(Steps) /\ Len(Tail(q)) = r - 1 /\ Rests(Tail(q), P)
      /\ Tail(q) = <<>> <=> r = 1
  BY <1>1, RestsTail
<1>3. /\ P[1] = Do("read", "security_chk")
      /\ P[2] = Do("read", "security_chk")
      /\ P[3] = Do("read", "security_chk")
      /\ P[4] = Do("read", "security_chk")
      /\ P[5] = Do("is_secure", "none")
      /\ P[6] = Do("read", "hostname")
      /\ P[7] = Do("handleFeMwUsrData", "handshake")
      /\ P[8] = Do("handleMwFeUsrData", "handshake")
      /\ P[9] = Do("return", "none")
  BY DEF P, FrontMw, Bcast, Barrier, LastBarrier, Return
<1> HIDE DEF r, h
<1>r. r \in 1 .. 9 /\ h = P[10 - r]
  BY <1>1, <1>2
<1>s. /\ (r = 9 => h = P[1]) /\ (r = 8 => h = P[2]) /\ (r = 7 => h = P[3])
      /\ (r = 6 => h = P[4]) /\ (r = 5 => h = P[5]) /\ (r = 4 => h = P[6])
      /\ (r = 3 => h = P[7]) /\ (r = 2 => h = P[8]) /\ (r = 1 => h = P[9])
  BY <1>r
<1>4. r \in {6, 7, 8, 9} => h.do = "read" /\ h.arg = "security_chk"
  <2>1. r \in {6, 7, 8, 9} => h = Do("read", "security_chk")
    BY <1>s, <1>3
  <2> QED
    BY <2>1 DEF Do
<1>5. r = 5 => h.do = "is_secure" /\ h.arg = "none"
  <2>1. r = 5 => h = Do("is_secure", "none")
    BY <1>s, <1>3
  <2> QED
    BY <2>1 DEF Do
<1>6. r = 4 => h.do = "read" /\ h.arg = "hostname"
  <2>1. r = 4 => h = Do("read", "hostname")
    BY <1>s, <1>3
  <2> QED
    BY <2>1 DEF Do
<1>7. r = 3 => h.do = "handleFeMwUsrData" /\ h.arg = "handshake"
  <2>1. r = 3 => h = Do("handleFeMwUsrData", "handshake")
    BY <1>s, <1>3
  <2> QED
    BY <2>1 DEF Do
<1>8. r = 2 => h.do = "handleMwFeUsrData" /\ h.arg = "handshake"
  <2>1. r = 2 => h = Do("handleMwFeUsrData", "handshake")
    BY <1>s, <1>3
  <2> QED
    BY <2>1 DEF Do
<1>9. r = 1 => h.do = "return" /\ h.arg = "none"
  <2>1. r = 1 => h = Do("return", "none")
    BY <1>s, <1>3
  <2> QED
    BY <2>1 DEF Do
<1> QED
  BY <1>2, <1>r, <1>4, <1>5, <1>6, <1>7, <1>8, <1>9 DEF P, r, h, FrontMwMoves


-----------------------------------------------------------------------------
(* Where everybody is *)

LEMMA ProcsFacts ==
  /\ 0 \in Ranks /\ 0 \in Procs /\ FE \in Procs /\ FE \notin Ranks /\ FE # 0
  /\ \A d \in Ranks : d \in Procs /\ d # FE /\ d \in Int
  /\ \A p \in Procs : p # FE => p \in Ranks
  BY DaemonsAssumption DEF Ranks, Procs, FE

LEMMA ValueFacts ==
  /\ "unset" \in Values /\ "right" \in Values /\ "wrong" \in Values
  /\ "rm" \in Values /\ "T" \in Values /\ "sizeT" \in Values /\ "P" \in Values /\ "sizeP" \in Values
  /\ "OK" \in Values /\ \A m \in Modes : m \in Values
  /\ \A c \in Codes : c \in Values
  /\ \A c \in {"ESYS", "EBDMSG", "ESUBSYNC", "ESUBCOM", "EINVAL", "EBDARG", "ENEGCB", "ENCLLB",
               "ENOPLD", "ECLLB"} : c \in Values \ {"OK"}
  BY Zenon DEF Values, Codes

LEMMA EmptyValue == "none" \in Values
  BY Zenon DEF Values

\* a process on its plan: its next step follows from the steps left
LEMMA Positions ==
  ASSUME Typed, NEW p \in Procs, OnPlan(p)
  PROVE  /\ kind = "be" => /\ p = FE => FrontBeMoves(prog[p])
                           /\ p = 0 => MasterBeMoves(prog[p])
                           /\ p \in Ranks \ {0} => SlaveBeMoves(prog[p])
         /\ kind = "mw" => /\ p = FE => FrontMwMoves(prog[p])
                           /\ p = 0 => MasterMwMoves(prog[p])
                           /\ p \in Ranks \ {0} => SlaveMwMoves(prog[p])
<1>1. prog[p] \in Seq(Steps) /\ prog[p] # <<>> /\ Rests(prog[p], Plan(p)) /\ kind \in {"be", "mw"}
  BY DEF Typed, OnPlan
<1>2. CASE kind = "be"
  <2>1. CASE p = FE
    <3>1. Plan(p) = FrontBe
      BY <1>2, <2>1 DEF Plan
    <3> QED
      BY <1>1, <1>2, <2>1, <3>1, FrontBePlan, FrontBeAt, ProcsFacts
  <2>2. CASE p = 0
    <3>1. Plan(p) = MasterBe
      BY <1>2, <2>2, ProcsFacts DEF Plan
    <3> QED
      BY <1>1, <1>2, <2>2, <3>1, MasterBePlan, MasterBeAt, ProcsFacts
  <2>3. CASE p \in Ranks \ {0}
    <3>1. Plan(p) = SlaveBe
      BY <1>2, <2>3, ProcsFacts DEF Plan
    <3> QED
      BY <1>1, <1>2, <2>3, <3>1, SlaveBePlan, SlaveBeAt, ProcsFacts
  <2> QED
    BY <1>2, <2>1, <2>2, <2>3, ProcsFacts
<1>3. CASE kind = "mw"
  <2>1. CASE p = FE
    <3>1. Plan(p) = FrontMw
      BY <1>3, <2>1 DEF Plan
    <3> QED
      BY <1>1, <1>3, <2>1, <3>1, FrontMwPlan, FrontMwAt, ProcsFacts
  <2>2. CASE p = 0
    <3>1. Plan(p) = MasterMw
      BY <1>3, <2>2, ProcsFacts DEF Plan
    <3> QED
      BY <1>1, <1>3, <2>2, <3>1, MasterMwPlan, MasterMwAt, ProcsFacts
  <2>3. CASE p \in Ranks \ {0}
    <3>1. Plan(p) = SlaveMw
      BY <1>3, <2>3, ProcsFacts DEF Plan
    <3> QED
      BY <1>1, <1>3, <2>3, <3>1, SlaveMwPlan, SlaveMwAt, ProcsFacts
  <2> QED
    BY <1>3, <2>1, <2>2, <2>3, ProcsFacts
<1> QED
  BY <1>1, <1>2, <1>3

-----------------------------------------------------------------------------
(* Counts only grow *)

Grows ==
  /\ kind' = kind
  /\ \A d \in Ranks : called[d] \in Nat /\ called'[d] \in Nat /\ called'[d] >= called[d]
  /\ Fixed => know'[FE].mode = know[FE].mode

\* what has been reached stays reached
LEMMA Growing ==
  ASSUME Grows
  PROVE  /\ \A n \in Nat : All(n) => All(n)'
         /\ Ready => Ready'
         /\ Fixed => Fixed'
         /\ \A m \in UpWords : m \in UpWords'
         /\ \A m \in DownWords : m \in DownWords'
<1>1. \A n \in Nat : All(n) => All(n)'
  <2> SUFFICES ASSUME NEW n \in Nat, All(n) PROVE All(n)'
    OBVIOUS
  <2>1. ASSUME NEW d \in Ranks PROVE called'[d] >= n
    BY <2>1 DEF All, Grows
  <2> QED
    BY <2>1 DEF All
<1>2. Ready => Ready'
  BY <1>1 DEF Ready, Grows
<1>3. Fixed => Fixed'
  BY DEF Fixed, Grows
<1>4. \A m \in UpWords : m \in UpWords'
  BY <1>1, <1>2 DEF UpWords, Grows
<1>5. \A m \in DownWords : m \in DownWords'
  <2> SUFFICES ASSUME NEW m \in DownWords PROVE m \in DownWords'
    OBVIOUS
  <2>1. m.type \in Modes => Fixed
    BY DEF DownWords, Fixed, Modes
  <2> QED
    BY <2>1 DEF DownWords, Grows
<1> QED
  BY <1>1, <1>2, <1>3, <1>4, <1>5

-----------------------------------------------------------------------------
(* What a step of one leaves of the others' places *)

Same(q) ==
  /\ prog'[q] = prog[q] /\ st'[q] = st[q] /\ codes'[q] = codes[q] /\ know'[q] = know[q]
  /\ q \in Ranks => called'[q] = called[q] /\ inside'[q] = inside[q] /\ synced'[q] = synced[q]
  /\ q \in {FE, 0} => hdr'[q] = hdr[q]

\* another process's step leaves q where it is
LEMMA SameStage ==
  ASSUME Grows, NEW q, Same(q)
  PROVE  /\ Early(q)' = Early(q) /\ Later(q)' = Later(q)
         /\ OnPlan(q)' = OnPlan(q)
  BY DEF Grows, Same, Early, Later, OnPlan, Plan

LEMMA SameCount ==
  ASSUME Grows, NEW q \in Ranks, Same(q)
  PROVE  Counted(q)' = Counted(q)
<1>1. /\ kind' = kind /\ prog'[q] = prog[q] /\ codes'[q] = codes[q]
      /\ called'[q] = called[q] /\ inside'[q] = inside[q]
  BY DEF Grows, Same
<1> QED
  BY <1>1 DEF Counted, Behind, Returned

LEMMA SlaveStays ==
  ASSUME NEW d \in Ranks \ {0}, Slave(d), Grows, Same(d)
  PROVE  Slave(d)'
<1>1. Early(d)' => (OnPlan(d) /\ Counted(d))'
  BY SameStage, SameCount DEF Slave
<1>2. Later(d)' => (prog[d] \in Seq(LaterSteps(d)) /\ Ready)'
  BY SameStage, Growing DEF Slave, Same, LaterSteps
<1>3. ASSUME Early(d) PROVE SlavePlace(d)'
  <2>1. SlavePlace(d)
    BY <1>3 DEF Slave
  <2>2. kind' = kind /\ prog'[d] = prog[d] /\ synced'[d] = synced[d] /\ know'[d] = know[d]
        /\ (Fixed => Fixed' /\ know'[FE].mode = know[FE].mode)
    BY Growing DEF Grows, Same
  <2> QED
    BY <2>1, <2>2 DEF SlavePlace, Knows
<1> QED
  BY <1>1, <1>2, <1>3, SameStage DEF Slave

LEMMA MasterStays ==
  ASSUME Master, Grows, Same(0)
  PROVE  Master'
<1>1. Early(0)' => (OnPlan(0) /\ Counted(0))'
  BY SameStage, SameCount, ProcsFacts DEF Master
<1>2. Later(0)' => (prog[0] \in Seq(LaterSteps(0)) /\ Ready)'
  BY SameStage, Growing DEF Master, Same, LaterSteps
<1>3. ASSUME Early(0) PROVE MasterPlace'
  <2>1. MasterPlace
    BY <1>3 DEF Master
  <2>2. /\ kind' = kind /\ prog'[0] = prog[0] /\ synced'[0] = synced[0] /\ know'[0] = know[0]
        /\ hdr'[0] = hdr[0]
        /\ Fixed => Fixed' /\ know'[FE].mode = know[FE].mode
        /\ All(7) => All(7)'
        /\ Ready => Ready'
    BY Growing, ProcsFacts DEF Grows, Same
  <2> QED
    BY <2>1, <2>2 DEF MasterPlace
<1> QED
  BY <1>1, <1>2, <1>3, SameStage DEF Master

LEMMA FrontStays ==
  ASSUME Front, Grows, Same(FE)
  PROVE  Front'
<1>1. Early(FE)' => OnPlan(FE)'
  BY SameStage DEF Front
<1>2. Later(FE)' => (prog[FE] \in Seq(LaterSteps(FE)))'
  BY SameStage DEF Front, Same, LaterSteps
<1>3. ASSUME Early(FE) PROVE FrontPlace'
  <2>1. FrontPlace
    BY <1>3 DEF Front
  <2>2. /\ kind' = kind /\ prog'[FE] = prog[FE] /\ know'[FE] = know[FE] /\ hdr'[FE] = hdr[FE]
        /\ All(7) => All(7)'
        /\ Ready => Ready'
    BY Growing DEF Grows, Same
  <2> QED
    BY <2>1, <2>2 DEF FrontPlace
<1> QED
  BY <1>1, <1>2, <1>3, SameStage DEF Front

\* a process that has ended or failed has no place
LEMMA Halted ==
  ASSUME NEW p \in Procs, st'[p] # "up"
  PROVE  /\ p = FE => Front'
         /\ p = 0 => Master'
         /\ p \in Ranks \ {0} => Slave(p)'
  BY DEF Early, Later, Front, Master, Slave

\* the places, when only p moves
LEMMA OneMoves ==
  ASSUME Places, Grows, NEW p \in Procs, \A q \in Procs \ {p} : Same(q),
         \/ st'[p] # "up"
         \/ /\ p = FE => Front'
            /\ p = 0 => Master'
            /\ p \in Ranks \ {0} => Slave(p)'
  PROVE  Places'
<1>1. ASSUME NEW d \in Ranks \ {0} PROVE Slave(d)'
  BY Halted, SlaveStays, ProcsFacts DEF Places
<1>2. Master'
  BY Halted, MasterStays, ProcsFacts DEF Places
<1>3. Front'
  BY Halted, FrontStays, ProcsFacts DEF Places
<1> QED
  BY <1>1, <1>2, <1>3 DEF Places

-----------------------------------------------------------------------------
(* ... and of what they share *)

LEMMA WiresStay ==
  ASSUME Grows, chan'[FE] \in Seq(UpWords), chan'[0] \in Seq(DownWords)
  PROVE  Wires'
<1>1. chan'[FE] \in Seq(UpWords')
  <2>1. UpWords \subseteq UpWords'
    BY Growing
  <2> QED
    BY <2>1, SeqMonotonic
<1>2. chan'[0] \in Seq(DownWords')
  <2>1. DownWords \subseteq DownWords'
    BY Growing
  <2> QED
    BY <2>1, SeqMonotonic
<1> QED
  BY <1>1, <1>2 DEF Wires

LEMMA RootsStay ==
  ASSUME Roots, Grows, root' = root
  PROVE  Roots'
  BY Growing DEF Roots, Grows

\* the front end's job does not change once it is fixed
LEMMA SyncsStay ==
  ASSUME Syncs, FrontKnows, FrontKnows', Grows, synced' = synced, called' = called
  PROVE  Syncs'
<1>1. ASSUME NEW d \in Ranks, synced[d] # <<>> PROVE synced'[d] = Job(FE)' /\ Fixed'
  <2>1. synced[d] = Job(FE) /\ Fixed
    BY <1>1 DEF Syncs
  <2> QED
    BY <2>1, Growing DEF Grows, Job, FrontKnows
<1>2. ASSUME NEW d \in Ranks, kind' = "be", called'[d] >= 7 PROVE synced'[d] # <<>>
  BY <1>2 DEF Syncs, Grows
<1> QED
  BY <1>1, <1>2 DEF Syncs

LEMMA ReleasedStays ==
  ASSUME Released, Grows, engine' = engine
  PROVE  Released'
  BY Growing DEF Released, Grows

\* the front end's first code is the one of its handshake
LEMMA SucceededStays ==
  ASSUME Typed, Succeeded, Grows,
         \/ codes'[FE] = codes[FE]
         \/ \E v \in Values : codes'[FE] = Append(codes[FE], v) /\ (codes[FE] = <<>> /\ v = "OK" => Ready)
  PROVE  Succeeded'
<1>1. CASE codes'[FE] = codes[FE]
  BY <1>1, Growing DEF Succeeded
<1>2. ASSUME NEW v \in Values, codes'[FE] = Append(codes[FE], v),
             codes[FE] = <<>> /\ v = "OK" => Ready
      PROVE  Succeeded'
  <2>1. codes[FE] \in Seq(Values)
    BY ProcsFacts DEF Typed
  <2>2. CASE codes[FE] = <<>>
    <3>1. codes'[FE][1] = v
      BY <2>1, <2>2, <1>2, AppendProperties
    <3> QED
      BY <3>1, <2>2, <1>2, Growing DEF Succeeded
  <2>3. CASE codes[FE] # <<>>
    <3>1. 1 \in 1 .. Len(codes[FE])
      BY <2>1, <2>3, EmptySeq, LenProperties
    <3>2. codes'[FE][1] = codes[FE][1]
      BY <2>1, <3>1, <1>2, AppendProperties
    <3> QED
      BY <3>2, <2>3, <1>2, Growing DEF Succeeded
  <2> QED
    BY <2>2, <2>3
<1> QED
  BY <1>1, <1>2

-----------------------------------------------------------------------------
(* The parts steps are made of *)

\* p's program, state and codes change, nobody else's
Moves(p) ==
  /\ prog' \in [Procs -> Seq(Steps)]
  /\ st' \in [Procs -> {"up", "failed", "gone", "closed"}]
  /\ codes' \in [Procs -> Seq(Values)]
  /\ \A q \in Procs \ {p} : prog'[q] = prog[q] /\ st'[q] = st[q] /\ codes'[q] = codes[q]

\* p's first code is not a success it does not deserve
Honest(p) == \/ codes'[p] = codes[p]
             \/ \E v \in Values : /\ codes'[p] = Append(codes[p], v)
                                  /\ codes[p] = <<>> /\ v = "OK" => Ready

\* what the ways to end a step do to the process
LEMMA Advancing ==
  ASSUME Typed, NEW p \in Procs, prog[p] # <<>>, Advance(p)
  PROVE  /\ Moves(p) /\ prog'[p] = Tail(prog[p]) /\ st'[p] = st[p] /\ codes'[p] = codes[p]
         /\ Honest(p)
<1>1. Tail(prog[p]) \in Seq(Steps)
  BY HeadTailProperties DEF Typed
<1>2. prog' = [prog EXCEPT ![p] = Tail(prog[p])] /\ st' = st /\ codes' = codes
  BY DEF Advance
<1> QED
  BY <1>1, <1>2 DEF Typed, Moves, Honest

LEMMA Failing ==
  ASSUME Typed, NEW p \in Procs, NEW c \in Values \ {"OK"}, Fails(p, c)
  PROVE  Moves(p) /\ st'[p] # "up" /\ Honest(p) /\ codes'[p] = Append(codes[p], c)
<1>1. Append(codes[p], c) \in Seq(Values) /\ <<>> \in Seq(Steps)
  BY AppendProperties, EmptySeq DEF Typed
<1>2. /\ prog' = [prog EXCEPT ![p] = <<>>] /\ st' = [st EXCEPT ![p] = "failed"]
      /\ codes' = [codes EXCEPT ![p] = Append(codes[p], c)]
  BY DEF Fails
<1>3. Moves(p)
  BY <1>1, <1>2 DEF Typed, Moves
<1>4. st'[p] # "up" /\ codes'[p] = Append(codes[p], c)
  BY <1>2 DEF Typed
<1> QED
  BY <1>3, <1>4 DEF Honest

LEMMA Dying ==
  ASSUME Typed, NEW p \in Procs, Dies(p)
  PROVE  Moves(p) /\ st'[p] # "up" /\ Honest(p) /\ codes'[p] = codes[p]
<1>1. <<>> \in Seq(Steps)
  BY EmptySeq
<1>2. /\ prog' = [prog EXCEPT ![p] = <<>>] /\ st' = [st EXCEPT ![p] = "gone"] /\ codes' = codes
  BY DEF Dies
<1>3. Moves(p)
  BY <1>1, <1>2 DEF Typed, Moves
<1> QED
  BY <1>2, <1>3 DEF Honest, Typed

LEMMA Returning ==
  ASSUME Typed, NEW p \in Procs, NEW c \in Values, prog[p] # <<>>, ReturnsCode(p, c)
  PROVE  /\ Moves(p) /\ codes'[p] = Append(codes[p], c)
         /\ (codes[p] = <<>> /\ c = "OK" => Ready) => Honest(p)
         /\ c \in Fatal => st'[p] # "up"
         /\ c \notin Fatal => prog'[p] = Tail(prog[p]) /\ st'[p] = st[p]
         /\ Len(codes'[p]) = Len(codes[p]) + 1
<1>1. /\ Append(codes[p], c) \in Seq(Values) /\ <<>> \in Seq(Steps) /\ Tail(prog[p]) \in Seq(Steps)
      /\ Len(Append(codes[p], c)) = Len(codes[p]) + 1
  BY AppendProperties, EmptySeq, HeadTailProperties DEF Typed
<1>2. codes' = [codes EXCEPT ![p] = Append(codes[p], c)]
  BY DEF ReturnsCode
<1>3. codes' \in [Procs -> Seq(Values)] /\ codes'[p] = Append(codes[p], c)
      /\ \A q \in Procs \ {p} : codes'[q] = codes[q]
  BY <1>1, <1>2 DEF Typed
<1>4. CASE c \in Fatal
  <2>1. prog' = [prog EXCEPT ![p] = <<>>] /\ st' = [st EXCEPT ![p] = "failed"]
    BY <1>4 DEF ReturnsCode
  <2> QED
    BY <1>1, <1>3, <1>4, <2>1 DEF Typed, Moves, Honest
<1>5. CASE c \notin Fatal
  <2>1. prog' = [prog EXCEPT ![p] = Tail(prog[p])] /\ st' = st
    BY <1>5 DEF ReturnsCode
  <2> QED
    BY <1>1, <1>3, <1>5, <2>1 DEF Typed, Moves, Honest
<1> QED
  BY <1>4, <1>5

\* a read takes a message away or, at the end of the connection, all of them
LEMMA Taking ==
  ASSUME Typed, Wires, NEW p \in {FE, 0}, NEW m \in Arrivals(p), Taken(p, m)
  PROVE  /\ chan' \in [{FE, 0} -> Seq(Messages)]
         /\ chan'[FE] \in Seq(UpWords) /\ chan'[0] \in Seq(DownWords)
         /\ m # Lost => /\ m \in Messages
                        /\ p = FE => m \in UpWords
                        /\ p = 0 => m \in DownWords
<1>1. <<>> \in Seq(UpWords) /\ <<>> \in Seq(DownWords) /\ <<>> \in Seq(Messages)
  BY EmptySeq
<1>2. CASE m = Lost
  <2>1. chan' = [chan EXCEPT ![p] = <<>>]
    BY <1>2 DEF Taken
  <2> QED
    BY <1>1, <1>2, <2>1, ProcsFacts DEF Typed, Wires
<1>3. CASE m # Lost
  <2>1. chan[p] # <<>> /\ m = Head(chan[p])
    BY <1>3 DEF Arrivals
  <2>2. chan' = [chan EXCEPT ![p] = Tail(chan[p])]
    BY <1>3 DEF Taken
  <2>3. m \in Messages /\ Tail(chan[p]) \in Seq(Messages)
    BY <2>1, HeadTailProperties DEF Typed
  <2>4. p = FE => m \in UpWords /\ Tail(chan[p]) \in Seq(UpWords)
    BY <2>1, HeadTailProperties DEF Wires
  <2>5. p = 0 => m \in DownWords /\ Tail(chan[p]) \in Seq(DownWords)
    BY <2>1, HeadTailProperties DEF Wires
  <2> QED
    BY <2>2, <2>3, <2>4, <2>5, ProcsFacts DEF Typed, Wires
<1> QED
  BY <1>2, <1>3

\* what a write leaves in the channels
Put(p, m) == chan' \in {chan, [chan EXCEPT ![p] = <<>>],
                        [chan EXCEPT ![Peer(p)] = Append(chan[Peer(p)], m)]}

\* a write adds one
LEMMA Putting ==
  ASSUME Typed, Wires, NEW p \in {FE, 0}, NEW m \in Messages, Put(p, m),
         p = 0 => m \in UpWords, p = FE => m \in DownWords
  PROVE  /\ chan' \in [{FE, 0} -> Seq(Messages)]
         /\ chan'[FE] \in Seq(UpWords) /\ chan'[0] \in Seq(DownWords)
<1>1. <<>> \in Seq(UpWords) /\ <<>> \in Seq(DownWords) /\ <<>> \in Seq(Messages)
  BY EmptySeq
<1>2. CASE chan' = chan
  BY <1>2 DEF Typed, Wires
<1>3. CASE chan' = [chan EXCEPT ![p] = <<>>]
  BY <1>1, <1>3, ProcsFacts DEF Typed, Wires
<1>4. CASE chan' = [chan EXCEPT ![Peer(p)] = Append(chan[Peer(p)], m)]
  <2>1. Peer(p) \in {FE, 0} /\ (p = 0 => Peer(p) = FE) /\ (p = FE => Peer(p) = 0)
    BY ProcsFacts DEF Peer
  <2>2. Append(chan[Peer(p)], m) \in Seq(Messages)
    BY <2>1, AppendProperties DEF Typed
  <2>3. p = 0 => Append(chan[Peer(p)], m) \in Seq(UpWords)
    BY <2>1, AppendProperties DEF Wires
  <2>4. p = FE => Append(chan[Peer(p)], m) \in Seq(DownWords)
    BY <2>1, AppendProperties DEF Wires
  <2> QED
    BY <1>4, <2>1, <2>2, <2>3, <2>4, ProcsFacts DEF Typed, Wires
<1> QED
  BY <1>2, <1>3, <1>4 DEF Put

LEMMA Sending ==
  ASSUME Typed, NEW p \in {FE, 0}, NEW m, prog[p] # <<>>, Sent(p, m)
  PROVE  /\ Put(p, m) /\ Moves(p) /\ codes'[p] = codes[p] /\ Honest(p)
         /\ \/ st'[p] # "up"
            \/ prog'[p] = Tail(prog[p]) /\ st'[p] = st[p]
<1>1. p \in Procs
  BY ProcsFacts
<1>2. Put(p, m) /\ (Advance(p) \/ Dies(p))
  BY DEF Sent, Put
<1> QED
  BY <1>1, <1>2, Advancing, Dying

-----------------------------------------------------------------------------
(* A step of one process that leaves the collectives alone *)

Quiet(p) ==
  /\ Moves(p)
  /\ UNCHANGED <<kind, called, inside, root, synced, engine>>
  /\ script' \in Seq({"recv", "send", "coloc"})
  /\ chan' \in [{FE, 0} -> Seq(Messages)]
  /\ hdr' \in [{FE, 0} -> Types \cup {"junk"}]
  /\ know' \in [Procs -> Knowledge]
  /\ \A q \in Procs \ {p} : know'[q] = know[q] /\ (q \in {FE, 0} => hdr'[q] = hdr[q])

\* a step that ends the process, or moves it without a collective and without
\* changing anybody else's knowledge
LEMMA QuietStep ==
  ASSUME HInv, NEW p \in Procs, Quiet(p), Wires', FrontKnows',
         Fixed => know'[FE].mode = know[FE].mode,
         p = FE => Honest(FE),
         \/ st'[p] # "up"
         \/ /\ p = FE => Front'
            /\ p = 0 => Master'
            /\ p \in Ranks \ {0} => Slave(p)'
  PROVE  HInv' /\ Grows
<1> USE DEF HInv, Shared
<1>1. Typed'
  BY DEF Typed, Quiet, Moves
<1>2. Grows
  BY DEF Typed, Quiet, Grows
<1>3. \A q \in Procs \ {p} : Same(q)
  BY DEF Quiet, Moves, Same
<1>4. Places'
  BY <1>2, <1>3, OneMoves
<1>5. Roots' /\ Syncs' /\ Released'
  BY <1>2, RootsStay, SyncsStay, ReleasedStays DEF Quiet
<1>6. Succeeded'
  <2>1. codes'[FE] = codes[FE] \/ Honest(FE)
    BY ProcsFacts DEF Quiet, Moves
  <2> QED
    BY <1>2, <2>1, SucceededStays DEF Honest
<1> QED
  BY <1>1, <1>2, <1>4, <1>5, <1>6

\* ... and that sends and learns nothing, but for itself
LEMMA OwnStep ==
  ASSUME HInv, NEW p \in Procs, Moves(p), Honest(p),
         UNCHANGED <<kind, script, called, inside, root, synced, engine, know>>,
         hdr' \in [{FE, 0} -> Types \cup {"junk"}],
         \A q \in {FE, 0} \ {p} : hdr'[q] = hdr[q],
         chan' \in [{FE, 0} -> Seq(Messages)],
         chan'[FE] \in Seq(UpWords), chan'[0] \in Seq(DownWords),
         \/ st'[p] # "up"
         \/ /\ p = FE => Front'
            /\ p = 0 => Master'
            /\ p \in Ranks \ {0} => Slave(p)'
  PROVE  HInv' /\ Grows
<1> USE DEF HInv, Shared
<1>1. Quiet(p)
  BY DEF Quiet, Typed
<1>2. Grows
  BY DEF Typed, Grows
<1>3. Wires'
  BY <1>2, WiresStay
<1>4. FrontKnows'
  BY DEF FrontKnows
<1> QED
  BY <1>1, <1>3, <1>4, QuietStep

\* a process ends, or a call of it fails
LEMMA HaltStep ==
  ASSUME HInv, NEW p \in Procs, Moves(p), Honest(p), st'[p] # "up",
         UNCHANGED <<kind, script, hdr, called, inside, root, synced, engine, know>>,
         \/ UNCHANGED chan
         \/ \E q \in {FE, 0} : \E m \in Arrivals(q) : Taken(q, m)
  PROVE  HInv'
<1> USE DEF HInv, Shared
<1>1. /\ chan' \in [{FE, 0} -> Seq(Messages)]
      /\ chan'[FE] \in Seq(UpWords) /\ chan'[0] \in Seq(DownWords)
  BY Taking DEF Typed, Wires
<1>2. hdr' \in [{FE, 0} -> Types \cup {"junk"}]
  BY DEF Typed
<1> QED
  BY <1>1, <1>2, OwnStep

-----------------------------------------------------------------------------
(* The end of a process, and of everybody *)

\* a process that dies keeps the invariant: its counts and its messages stay
LEMMA KilledKeeps ==
  ASSUME HInv, NEW p \in Procs, Killed(p)
  PROVE  HInv'
<1>1. Moves(p) /\ st'[p] # "up" /\ Honest(p)
  BY Dying DEF HInv, Killed
<1>2. UNCHANGED <<kind, script, hdr, called, inside, root, synced, engine, know, chan>>
  BY DEF Killed, job, wire, coll, data
<1> QED
  BY <1>1, <1>2, HaltStep

LEMMA GivesUpKeeps ==
  ASSUME HInv, NEW d \in Ranks, GivesUp(d)
  PROVE  HInv'
<1>1. d \in Procs
  BY ProcsFacts
<1>2. Moves(d) /\ st'[d] # "up" /\ Honest(d)
  BY <1>1, Dying DEF HInv, GivesUp
<1>3. UNCHANGED <<kind, script, hdr, called, inside, root, synced, engine, know, chan>>
  BY DEF GivesUp, job, wire, coll, data
<1> QED
  BY <1>1, <1>2, <1>3, HaltStep

LEMMA FinalizeKeeps ==
  ASSUME HInv, NEW p \in Procs, Finalize(p)
  PROVE  HInv'
<1>1. st' = [st EXCEPT ![p] = IF st[p] = "up" THEN "closed" ELSE "gone"] /\ UNCHANGED <<prog, codes>>
  BY DEF Finalize
<1>2. Moves(p) /\ st'[p] # "up" /\ Honest(p)
  BY <1>1 DEF HInv, Typed, Moves, Honest
<1>3. UNCHANGED <<kind, script, hdr, called, inside, root, synced, engine, know, chan>>
  BY DEF Finalize, job, wire, coll, data
<1> QED
  BY <1>2, <1>3, HaltStep

LEMMA NothingKeeps ==
  ASSUME HInv, UNCHANGED vars
  PROVE  HInv'
<1>1. Moves(FE) /\ Honest(FE)
  BY DEF HInv, Typed, Moves, Honest, vars
<1>2. UNCHANGED <<kind, script, prog, st, codes, chan, hdr, called, inside, root, synced, engine, know>>
  BY DEF vars
<1>3. Grows
  BY <1>2 DEF HInv, Typed, Grows
<1>4. Same(FE)
  BY <1>2 DEF Same
<1>5. Front'
  BY <1>3, <1>4, FrontStays DEF HInv, Places
<1>6. /\ hdr' \in [{FE, 0} -> Types \cup {"junk"}]
      /\ chan' \in [{FE, 0} -> Seq(Messages)]
      /\ chan'[FE] \in Seq(UpWords) /\ chan'[0] \in Seq(DownWords)
  BY <1>2 DEF HInv, Shared, Typed, Wires
<1> QED
  BY <1>1, <1>2, <1>5, <1>6, OwnStep, ProcsFacts

-----------------------------------------------------------------------------
(* From one step of a program to the next *)

\* a running process is on its plan or in a call after it
LEMMA Stage ==
  ASSUME HInv, NEW p \in Procs, st[p] = "up"
  PROVE  \/ Early(p) /\ ~Later(p) /\ OnPlan(p) /\ prog[p] # <<>>
         \/ /\ Later(p) /\ ~Early(p) /\ prog[p] \in Seq(LaterSteps(p)) /\ (p # FE => Ready)
            /\ prog[p] # <<>> => Head(prog[p]) \in LaterSteps(p) /\ Tail(prog[p]) \in Seq(LaterSteps(p))
<1>1. Len(codes[p]) \in Nat
  BY LenProperties DEF HInv, Typed
<1>2. \/ Early(p) /\ ~Later(p)
      \/ Later(p) /\ ~Early(p)
  BY <1>1 DEF Early, Later
<1>3. CASE Early(p)
  BY <1>2, <1>3, ProcsFacts DEF HInv, Places, Front, Master, Slave, OnPlan
<1>4. CASE Later(p)
  <2>1. prog[p] \in Seq(LaterSteps(p)) /\ (p # FE => Ready)
    BY <1>4, ProcsFacts DEF HInv, Places, Front, Master, Slave
  <2>2. prog[p] # <<>> => Head(prog[p]) \in LaterSteps(p) /\ Tail(prog[p]) \in Seq(LaterSteps(p))
    BY <2>1, HeadTailProperties
  <2> QED
    BY <1>2, <1>4, <2>1, <2>2
<1> QED
  BY <1>2, <1>3, <1>4

\* what is done after the handshake
LEMMA LaterDos ==
  ASSUME NEW p \in Procs, NEW h \in LaterSteps(p)
  PROVE  /\ p = FE => \/ h.do = "write" /\ h.arg = "assist_mw_coloc"
                      \/ h.do = "return"
                      \/ h.do \in {"handleFeBeUsrData", "handleBeFeUsrData",
                                   "handleFeMwUsrData", "handleMwFeUsrData"} /\ h.arg = "call"
         /\ p # FE => \/ h.do \in {"recvUsrData", "sendUsrData", "do_bemaster"}
                      \/ h.do = "bcast" /\ h.arg \in {"lrc", "leng", "lmonpl"}
<1>1. CASE p = FE
  <2>1. CASE h \in {Do(w, "call") : w \in {"handleFeBeUsrData", "handleBeFeUsrData",
                                         "handleFeMwUsrData", "handleMwFeUsrData"}}
    <3>1. PICK w \in {"handleFeBeUsrData", "handleBeFeUsrData",
                      "handleFeMwUsrData", "handleMwFeUsrData"} : h = Do(w, "call")
      BY <2>1
    <3> QED
      BY <3>1, <1>1 DEF Do
  <2>2. CASE h = Do("write", "assist_mw_coloc")
    BY <2>2, <1>1 DEF Do
  <2>3. CASE h = Return
    BY <2>3, <1>1, Zenon DEF Return, Do
  <2> QED
    BY <1>1, <2>1, <2>2, <2>3 DEF LaterSteps
<1>2. CASE p # FE
  <2>1. \/ h = Do("recvUsrData", "none") \/ h = Do("sendUsrData", "none") \/ h = Do("do_bemaster", "none")
        \/ h \in {Bcast("lrc"), Bcast("leng"), Bcast("lmonpl")}
    BY <1>2, Zenon DEF LaterSteps
  <2>2. CASE h = Do("recvUsrData", "none")
    BY <1>2, <2>2, Zenon DEF Do
  <2>3. CASE h = Do("sendUsrData", "none")
    BY <1>2, <2>3, Zenon DEF Do
  <2>4. CASE h = Do("do_bemaster", "none")
    BY <1>2, <2>4, Zenon DEF Do
  <2>5. CASE h \in {Bcast("lrc"), Bcast("leng"), Bcast("lmonpl")}
    BY <1>2, <2>5 DEF Bcast, Do
  <2> QED
    BY <2>1, <2>2, <2>3, <2>4, <2>5, Zenon
<1> QED
  BY <1>1, <1>2

LEMMA LaterGoes ==
  ASSUME HInv, NEW p \in Procs, Later(p), prog[p] # <<>>, prog'[p] = Tail(prog[p]), st'[p] = st[p],
         Len(codes'[p]) \in Nat, Len(codes'[p]) >= Len(codes[p]), Grows
  PROVE  /\ p = FE => Front'
         /\ p = 0 => Master'
         /\ p \in Ranks \ {0} => Slave(p)'
<1>1. st[p] = "up" /\ Len(codes[p]) \in Nat /\ Len(codes[p]) >= (IF p = FE THEN 1 ELSE 3)
  BY LenProperties DEF Later, HInv, Typed
<1>2. /\ prog[p] \in Seq(LaterSteps(p)) /\ (p # FE => Ready)
      /\ Tail(prog[p]) \in Seq(LaterSteps(p))
  BY <1>1, Stage
<1>3. /\ st'[p] = "up" /\ Len(codes'[p]) >= (IF p = FE THEN 1 ELSE 3)
  BY <1>1
<1>4. ~Early(p)'
  BY <1>3 DEF Early
<1>5. prog'[p] \in Seq(LaterSteps(p)) /\ (p # FE => Ready')
  BY <1>2, Growing
<1>6. p = FE => Front'
  BY <1>4, <1>5 DEF Front, LaterSteps
<1>7. p = 0 => Master'
  BY <1>4, <1>5, ProcsFacts DEF Master, LaterSteps
<1>8. p \in Ranks \ {0} => Slave(p)'
  BY <1>4, <1>5, ProcsFacts DEF Slave, LaterSteps
<1> QED
  BY <1>6, <1>7, <1>8

\* a rank takes a step of its plan that is no collective
LEMMA RankGoes ==
  ASSUME HInv, NEW d \in Ranks, Early(d), Head(prog[d]).do \notin {"barrier", "bcast", "gather"},
         prog'[d] = Tail(prog[d]), st'[d] = st[d], codes'[d] = codes[d],
         kind' = kind, called'[d] = called[d], inside'[d] = inside[d]
  PROVE  Early(d)' /\ OnPlan(d)' /\ Counted(d)' /\ Len(prog'[d]) = Len(prog[d]) - 1
<1> DEFINE r == Len(prog[d])
           h == Head(prog[d])
           t == Tail(prog[d])
<1>1. d \in Procs /\ OnPlan(d) /\ Counted(d) /\ Typed /\ d # FE /\ kind \in {"be", "mw"}
  BY ProcsFacts DEF HInv, Places, Master, Slave, Typed
<1>2. /\ called[d] = Behind(d, r) + (IF inside[d] THEN 1 ELSE 0)
      /\ Len(codes[d]) = Returned(d, r) /\ ~inside[d] /\ called[d] \in Nat
  BY <1>1 DEF Counted, Typed
<1>3. Early(d)'
  BY <1>1 DEF Early
<1>4. ASSUME Rests(t, Plan(d)), t # <<>> PROVE OnPlan(d)'
  BY <1>4 DEF OnPlan, Plan
<1>5. ASSUME r \in 1 .. 23, Len(t) = r - 1, Behind(d, r - 1) = Behind(d, r), Returned(d, r - 1) = Returned(d, r)
      PROVE  Counted(d)' /\ Len(prog'[d]) = Len(prog[d]) - 1
  BY <1>2, <1>5 DEF Counted, Behind, Returned
<1>6. CASE kind = "be" /\ d = 0
  <2>1. MasterBeMoves(prog[d])
    BY <1>1, <1>6, Positions
  <2> HIDE DEF r, h
  <2>2. /\ r \in 1 .. 23
        /\ r \notin {18, 17, 11, 10, 9, 8, 6, 3, 1}
    BY <2>1 DEF MasterBeMoves, r, h
  <2>3. Len(t) = r - 1 /\ Rests(t, Plan(d)) /\ t # <<>>
    BY <2>1, <2>2, <1>6, ProcsFacts DEF MasterBeMoves, Plan, r
  <2>4. Behind(d, r - 1) = Behind(d, r) /\ Returned(d, r - 1) = Returned(d, r)
    BY <2>2, <1>6 DEF Behind, Returned
  <2> QED
    BY <1>3, <1>4, <1>5, <2>2, <2>3, <2>4
<1>7. CASE kind = "be" /\ d # 0
  <2>1. SlaveBeMoves(prog[d])
    BY <1>1, <1>7, Positions
  <2> HIDE DEF r, h
  <2>2. /\ r \in 1 .. 23
        /\ r \in {5, 3}
    BY <2>1 DEF SlaveBeMoves, r, h
  <2>3. Len(t) = r - 1 /\ Rests(t, Plan(d)) /\ t # <<>>
    BY <2>1, <2>2, <1>7, ProcsFacts DEF SlaveBeMoves, Plan, r
  <2>4. Behind(d, r - 1) = Behind(d, r) /\ Returned(d, r - 1) = Returned(d, r)
    BY <2>2, <1>7 DEF Behind, Returned
  <2> QED
    BY <1>3, <1>4, <1>5, <2>2, <2>3, <2>4
<1>8. CASE kind = "mw" /\ d = 0
  <2>1. MasterMwMoves(prog[d])
    BY <1>1, <1>8, Positions
  <2> HIDE DEF r, h
  <2>2. /\ r \in 1 .. 23
        /\ r \notin {7, 6, 3, 1}
    BY <2>1 DEF MasterMwMoves, r, h
  <2>3. Len(t) = r - 1 /\ Rests(t, Plan(d)) /\ t # <<>>
    BY <2>1, <2>2, <1>8, ProcsFacts DEF MasterMwMoves, Plan, r
  <2>4. Behind(d, r - 1) = Behind(d, r) /\ Returned(d, r - 1) = Returned(d, r)
    BY <2>2, <1>8 DEF Behind, Returned
  <2> QED
    BY <1>3, <1>4, <1>5, <2>2, <2>3, <2>4
<1>9. CASE kind = "mw" /\ d # 0
  <2>1. SlaveMwMoves(prog[d])
    BY <1>1, <1>9, Positions
  <2>2. FALSE
    BY <2>1 DEF SlaveMwMoves
  <2> QED
    BY <2>2
<1> QED
  BY <1>1, <1>6, <1>7, <1>8, <1>9

\* the front end takes a step of its plan that is not the last
LEMMA FrontGoes ==
  ASSUME HInv, Early(FE), Head(prog[FE]).do # "return",
         prog'[FE] = Tail(prog[FE]), st'[FE] = st[FE], codes'[FE] = codes[FE], kind' = kind
  PROVE  Early(FE)' /\ OnPlan(FE)' /\ Len(prog'[FE]) = Len(prog[FE]) - 1
<1>1. FE \in Procs /\ OnPlan(FE) /\ Typed /\ kind \in {"be", "mw"}
  BY ProcsFacts DEF HInv, Places, Front, Typed
<1>2. Early(FE)'
  BY DEF Early
<1>3. CASE kind = "be"
  <2>1. FrontBeMoves(prog[FE])
    BY <1>1, <1>3, Positions
  <2>2. Tail(prog[FE]) # <<>> /\ Rests(Tail(prog[FE]), Plan(FE)) /\ Len(Tail(prog[FE])) = Len(prog[FE]) - 1
    BY <2>1, <1>3 DEF FrontBeMoves, Plan
  <2> QED
    BY <1>2, <2>2 DEF OnPlan, Plan
<1>4. CASE kind = "mw"
  <2>1. FrontMwMoves(prog[FE])
    BY <1>1, <1>4, Positions
  <2>2. Tail(prog[FE]) # <<>> /\ Rests(Tail(prog[FE]), Plan(FE)) /\ Len(Tail(prog[FE])) = Len(prog[FE]) - 1
    BY <2>1, <1>4 DEF FrontMwMoves, Plan
  <2> QED
    BY <1>2, <2>2 DEF OnPlan, Plan
<1> QED
  BY <1>1, <1>3, <1>4

-----------------------------------------------------------------------------
(* The master's own steps *)

\* the master takes a step that is neither a collective nor a read of the job
LEMMA MasterGoes ==
  ASSUME HInv, Early(0), Head(prog[0]).do \notin {"barrier", "bcast", "gather"},
         Head(prog[0]).do = "read" => Head(prog[0]).arg = "usrdata",
         prog'[0] = Tail(prog[0]), st'[0] = st[0], codes'[0] = codes[0],
         synced'[0] = synced[0] \/ synced'[0] # <<>>,
         Head(prog[0]).do = "procctl_init" => synced'[0] # <<>>,
         called'[0] = called[0], inside'[0] = inside[0],
         Head(prog[0]).do # "read" => hdr'[0] = hdr[0],
         \A f \in {"mode", "rm", "size", "table"} : know'[0][f] = know[0][f],
         know'[FE] = know[FE], Grows
  PROVE  Master'
<1> DEFINE r == Len(prog[0])
<1>1. /\ 0 \in Procs /\ 0 \in Ranks /\ OnPlan(0) /\ MasterPlace /\ Typed /\ kind \in {"be", "mw"}
      /\ kind' = kind
  BY ProcsFacts DEF HInv, Places, Master, Typed, Grows
<1>2. Early(0)' /\ OnPlan(0)' /\ Counted(0)' /\ Len(prog'[0]) = r - 1
  BY <1>1, RankGoes
<1>3. know'[0].mode = know[0].mode /\ know'[0].rm = know[0].rm /\ know'[0].size = know[0].size
      /\ know'[0].table = know[0].table /\ (Fixed <=> Fixed') /\ (All(7) => All(7)') /\ (Ready => Ready')
  BY Growing DEF Fixed
<1>4. ~Later(0)'
  BY <1>1, <1>2, Stage DEF Early, Later, HInv, Typed
<1>5. MasterPlace'
  <2>1. CASE kind = "be"
    <3>1. MasterBeMoves(prog[0])
      BY <1>1, <2>1, Positions
    <3>2. r \in 1 .. 23 /\ r \notin {15, 14, 13, 6, 3} /\ (r = 7 => synced'[0] # <<>>) /\ (r \notin {12, 13, 14, 15} => hdr'[0] = hdr[0])
      BY <3>1 DEF MasterBeMoves
    <3> HIDE DEF r
    <3>3. /\ r >= 15 => hdr[0] = "junk"
          /\ r <= 14 => know[0].table = "T" /\ know[0].size = "sizeT"
          /\ r <= 13 => know[0].mode = know[FE].mode /\ Fixed
          /\ r <= 12 => know[0].rm = "rm"
          /\ r <= 6  => synced[0] # <<>>
          /\ r <= 5  => All(7)
          /\ r <= 2 => Ready
      BY <1>1, <2>1 DEF MasterPlace, r
    <3>4. /\ r - 1 >= 15 => hdr'[0] = "junk"
          /\ r - 1 <= 14 => know'[0].table = "T" /\ know'[0].size = "sizeT"
          /\ r - 1 # 14 /\ r - 1 # 13
          /\ r - 1 <= 13 => know'[0].mode = know'[FE].mode /\ Fixed'
          /\ r - 1 <= 12 => know'[0].rm = "rm"
          /\ r - 1 <= 6  => synced'[0] # <<>>
          /\ r - 1 <= 5  => All(7)'
          /\ r - 1 <= 2 => Ready'
      BY <1>3, <3>2, <3>3
    <3> QED
      BY <1>2, <3>4 DEF MasterPlace
  <2>2. CASE kind = "mw"
    <3>1. MasterMwMoves(prog[0])
      BY <1>1, <2>2, Positions
    <3>2. r \in 1 .. 12 /\ r # 3
      BY <3>1 DEF MasterMwMoves
    <3>3. r <= 2 => Ready
      BY <1>1 DEF MasterPlace
    <3> HIDE DEF r
    <3> QED
      BY <1>1, <1>2, <1>3, <2>2, <3>2, <3>3 DEF MasterPlace
  <2> QED
    BY <1>1, <2>1, <2>2
<1> QED
  BY <1>2, <1>4, <1>5 DEF Master

LEMMA KeyKeeps ==
  ASSUME HInv, GetSharedKeyAndID
  PROVE  HInv'
<1>1. /\ 0 \in Procs /\ 0 \in Ranks /\ 0 # FE /\ st[0] = "up" /\ prog[0] # <<>>
      /\ Head(prog[0]).do = "key" /\ Typed /\ Shared
  BY ProcsFacts DEF GetSharedKeyAndID, At, HInv
<1>2. Early(0)
  BY <1>1, Stage, LaterDos
<1>3. UNCHANGED <<kind, script, chan, hdr, called, inside, root, synced, engine>>
  BY DEF GetSharedKeyAndID, job, wire, coll
<1>4. CASE Advance(0) /\ know' \in {know, [know EXCEPT ![0].key = "wrong"]}
  <2>1. Moves(0) /\ prog'[0] = Tail(prog[0]) /\ st'[0] = st[0] /\ codes'[0] = codes[0]
    BY <1>1, <1>4, Advancing
  <2>2. /\ know' \in [Procs -> Knowledge] /\ \A q \in Procs \ {0} : know'[q] = know[q]
        /\ \A f \in {"mode", "rm", "size", "table"} : know'[0][f] = know[0][f]
    <3>1. know \in [Procs -> Knowledge] /\ know[0] \in Knowledge
      BY <1>1 DEF Typed
    <3>2. CASE know' = [know EXCEPT ![0] = [know[0] EXCEPT !.key = "wrong"]]
      <4>1. /\ [know[0] EXCEPT !.key = "wrong"] \in Knowledge
            /\ \A f \in {"mode", "rm", "size", "table"} : [know[0] EXCEPT !.key = "wrong"][f] = know[0][f]
        BY <3>1, ValueFacts DEF Knowledge
      <4> QED
        BY <1>1, <3>1, <3>2, <4>1
    <3>3. CASE know' = know
      BY <3>1, <3>3
    <3> QED
      BY <1>4, <3>2, <3>3
  <2>3. Quiet(0)
    BY <1>1, <1>3, <2>1, <2>2 DEF Quiet, Typed
  <2>4. Grows /\ know'[FE] = know[FE]
    BY <1>1, <1>3, <2>2, ProcsFacts DEF Grows, Typed
  <2>5. Master'
    BY <1>1, <1>2, <1>3, <2>1, <2>2, <2>4, MasterGoes
  <2>6. Wires' /\ FrontKnows'
    BY <1>1, <1>3, <2>4, WiresStay DEF Shared, Wires, FrontKnows
  <2> QED
    BY <1>1, <2>3, <2>4, <2>5, <2>6, QuietStep
<1>5. CASE Fails(0, "ESYS") /\ UNCHANGED know
  <2>1. Moves(0) /\ st'[0] # "up" /\ Honest(0)
    BY <1>1, <1>5, Failing, ValueFacts
  <2> QED
    BY <1>1, <1>3, <1>5, <2>1, HaltStep
<1> QED
  BY <1>4, <1>5 DEF GetSharedKeyAndID

\* the master writes nothing it does not know
LEMMA ContentValue ==
  ASSUME Typed, NEW p \in Procs, NEW type
  PROVE  /\ Content(p, type) \in Values
         /\ type = "proctab" => Content(p, type) = know[p].table
         /\ type = "rm_type" => Content(p, type) = know[p].rm
<1>1. know[p].table \in Values /\ know[p].rm \in Values /\ know[p].key \in Values
  BY DEF Typed, Knowledge
<1>2. type = "proctab" => Content(p, type) = know[p].table
  BY Zenon DEF Content
<1>3. type = "rm_type" => Content(p, type) = know[p].rm
  BY Zenon DEF Content
<1>4. type = "security_chk" => Content(p, type) = know[p].key
  BY Zenon DEF Content
<1>5. type \notin {"proctab", "rm_type", "security_chk"} => Content(p, type) = "none"
  BY Zenon DEF Content
<1> QED
  BY <1>1, <1>2, <1>3, <1>4, <1>5, EmptyValue, Zenon

LEMMA MasterWriteKeeps ==
  ASSUME HInv, write_lmonp_long_msg(0)
  PROVE  HInv'
<1> DEFINE a == Head(prog[0]).arg
           r == Len(prog[0])
<1>1. /\ 0 \in Procs /\ 0 \in Ranks /\ 0 # FE /\ st[0] = "up" /\ prog[0] # <<>>
      /\ Head(prog[0]).do = "write" /\ Typed /\ Shared /\ kind \in {"be", "mw"}
  BY ProcsFacts DEF write_lmonp_long_msg, At, HInv, Typed
<1>2. Early(0) /\ OnPlan(0)
  BY <1>1, Stage, LaterDos
<1>3. UNCHANGED <<kind, script, hdr, called, inside, root, synced, engine, know>>
  BY DEF write_lmonp_long_msg, job, coll, data
<1>4. PICK pay \in BOOLEAN : Sent(0, Message(a, Content(0, a), pay))
  BY DEF write_lmonp_long_msg
<1>5. /\ a \in {"security_chk", "hostname", "cont_launch_bp", "ready"}
      /\ a = "cont_launch_bp" => kind = "be" /\ All(7)
      /\ a = "ready" => Ready
  <2>0. MasterPlace
    BY <1>2 DEF HInv, Places, Master
  <2>1. CASE kind = "be"
    <3>1. MasterBeMoves(prog[0])
      BY <1>1, <1>2, <2>1, Positions
    <3>2. r \in {19, 20, 21, 22, 16, 5, 2} /\ (r = 5 => a = "cont_launch_bp") /\ (r \notin {5, 2} => a \in {"security_chk", "hostname"})
          /\ (r = 2 => a = "ready")
      BY <1>1, <3>1 DEF MasterBeMoves
    <3>3. (r <= 2 => Ready) /\ (kind = "be" => (r <= 5 => All(7)))
      BY <2>0 DEF MasterPlace
    <3> HIDE DEF r, a
    <3> QED
      BY <2>1, <3>2, <3>3
  <2>2. CASE kind = "mw"
    <3>1. MasterMwMoves(prog[0])
      BY <1>1, <1>2, <2>2, Positions
    <3>2. r \in {8, 9, 10, 11, 5, 2} /\ (r # 2 => a \in {"security_chk", "hostname"})
          /\ (r = 2 => a = "ready")
      BY <1>1, <3>1 DEF MasterMwMoves
    <3>3. (r <= 2 => Ready) /\ (kind = "be" => (r <= 5 => All(7)))
      BY <2>0 DEF MasterPlace
    <3> HIDE DEF r, a
    <3> QED
      BY <2>2, <3>2, <3>3
  <2> QED
    BY <1>1, <2>1, <2>2
<1> DEFINE m == Message(a, Content(0, a), pay)
<1>6. m \in Messages /\ m.type = a
  <2>1. a \in Types /\ Content(0, a) \in Values
    BY <1>1, <1>5, ContentValue DEF Types
  <2> QED
    BY <2>1 DEF Message, Messages
<1>7. m \in UpWords
  BY <1>5, <1>6 DEF UpWords
<1>8. Sent(0, m)
  BY <1>4
<1> HIDE DEF m, a
<1>9. /\ Put(0, m) /\ Moves(0) /\ codes'[0] = codes[0] /\ Honest(0)
      /\ \/ st'[0] # "up"
         \/ prog'[0] = Tail(prog[0]) /\ st'[0] = st[0]
  BY <1>1, <1>8, Sending
<1>10. /\ chan' \in [{FE, 0} -> Seq(Messages)]
       /\ chan'[FE] \in Seq(UpWords) /\ chan'[0] \in Seq(DownWords)
  BY <1>1, <1>6, <1>7, <1>9, Putting DEF Shared
<1>11. Grows
  BY <1>1, <1>3 DEF Grows, Typed
<1>12. st'[0] # "up" \/ Master'
  BY <1>1, <1>2, <1>3, <1>9, <1>11, MasterGoes
<1>13. hdr' \in [{FE, 0} -> Types \cup {"junk"}] /\ \A q \in {FE, 0} \ {0} : hdr'[q] = hdr[q]
  BY <1>1, <1>3 DEF Typed
<1> QED
  BY <1>1, <1>3, <1>9, <1>10, <1>12, <1>13, OwnStep

LEMMA LostIsNoMessage == Lost.type = "eof" /\ Lost.pay = FALSE
  BY Zenon DEF Lost, Message

\* what the master keeps of a message
LEMMA LearnedWhat ==
  ASSUME Typed, NEW p \in Procs, NEW m
  PROVE  /\ m.type = "proctab" =>
              Learned(p, m) = [know EXCEPT ![p] = [know[p] EXCEPT !.table = m.val, !.size = "sizeT"]]
         /\ m.type \in Modes => Learned(p, m) = [know EXCEPT ![p] = [know[p] EXCEPT !.mode = m.type]]
         /\ m.type = "rm_type" => Learned(p, m) = [know EXCEPT ![p] = [know[p] EXCEPT !.rm = m.val]]
         /\ m.type \notin {"proctab", "rm_type"} \cup Modes => Learned(p, m) = know
  BY DEF Learned, Modes, Typed

LEMMA LearnedTyped ==
  ASSUME Typed, NEW p \in Procs, NEW m, m = Lost \/ m \in Messages
  PROVE  /\ Learned(p, m) \in [Procs -> Knowledge]
         /\ \A q \in Procs \ {p} : Learned(p, m)[q] = know[q]
         /\ \A f \in {"mode", "rm", "size", "table"} :
              Learned(p, m)[p][f] = IF m.type = "proctab" /\ f = "table" THEN m.val
                                    ELSE IF m.type = "proctab" /\ f = "size" THEN "sizeT"
                                    ELSE IF m.type \in Modes /\ f = "mode" THEN m.type
                                    ELSE IF m.type = "rm_type" /\ f = "rm" THEN m.val
                                    ELSE know[p][f]
<1>1. know \in [Procs -> Knowledge] /\ know[p] \in Knowledge
  BY DEF Typed
<1>2. m \in Messages => m.val \in Values /\ m.type \in Types
  BY DEF Messages
<1>3. m = Lost => m.type \notin {"proctab", "rm_type"} \cup Modes
  BY LostIsNoMessage DEF Modes
<1>4. CASE m.type = "proctab"
  <2>1. m.val \in Values /\ m.type \notin Modes
    BY <1>2, <1>3, <1>4 DEF Modes
  <2>2. [know[p] EXCEPT !.table = m.val, !.size = "sizeT"] \in Knowledge
    BY <1>1, <2>1, ValueFacts DEF Knowledge
  <2>3. Learned(p, m) = [know EXCEPT ![p] = [know[p] EXCEPT !.table = m.val, !.size = "sizeT"]]
    BY <1>4, LearnedWhat
  <2>4. Learned(p, m)[p] = [know[p] EXCEPT !.table = m.val, !.size = "sizeT"]
    BY <1>1, <2>3
  <2>5. \A f \in {"mode", "rm", "size", "table"} :
          Learned(p, m)[p][f] = IF f = "table" THEN m.val ELSE IF f = "size" THEN "sizeT" ELSE know[p][f]
    BY <1>1, <2>4 DEF Knowledge
  <2>6. Learned(p, m) \in [Procs -> Knowledge] /\ \A q \in Procs \ {p} : Learned(p, m)[q] = know[q]
    BY <1>1, <2>2, <2>3
  <2> QED
    BY <1>4, <2>1, <2>5, <2>6
<1>5. CASE m.type \in Modes
  <2>1. m.type \in Values /\ m.type \notin {"proctab", "rm_type"}
    BY <1>5, ValueFacts DEF Modes
  <2>2. [know[p] EXCEPT !.mode = m.type] \in Knowledge
    BY <1>1, <2>1 DEF Knowledge
  <2>3. Learned(p, m) = [know EXCEPT ![p] = [know[p] EXCEPT !.mode = m.type]]
    BY <1>5, LearnedWhat
  <2>4. Learned(p, m)[p] = [know[p] EXCEPT !.mode = m.type]
    BY <1>1, <2>3
  <2>5. \A f \in {"mode", "rm", "size", "table"} :
          Learned(p, m)[p][f] = IF f = "mode" THEN m.type ELSE know[p][f]
    BY <1>1, <2>4 DEF Knowledge
  <2>6. Learned(p, m) \in [Procs -> Knowledge] /\ \A q \in Procs \ {p} : Learned(p, m)[q] = know[q]
    BY <1>1, <2>2, <2>3
  <2> QED
    BY <1>5, <2>1, <2>5, <2>6
<1>6. CASE m.type = "rm_type"
  <2>1. m.val \in Values /\ m.type \notin Modes
    BY <1>2, <1>3, <1>6 DEF Modes
  <2>2. [know[p] EXCEPT !.rm = m.val] \in Knowledge
    BY <1>1, <2>1 DEF Knowledge
  <2>3. Learned(p, m) = [know EXCEPT ![p] = [know[p] EXCEPT !.rm = m.val]]
    BY <1>6, LearnedWhat
  <2>4. Learned(p, m)[p] = [know[p] EXCEPT !.rm = m.val]
    BY <1>1, <2>3
  <2>5. \A f \in {"mode", "rm", "size", "table"} :
          Learned(p, m)[p][f] = IF f = "rm" THEN m.val ELSE know[p][f]
    BY <1>1, <2>4 DEF Knowledge
  <2>6. Learned(p, m) \in [Procs -> Knowledge] /\ \A q \in Procs \ {p} : Learned(p, m)[q] = know[q]
    BY <1>1, <2>2, <2>3
  <2> QED
    BY <1>6, <2>1, <2>5, <2>6
<1>7. CASE m.type \notin {"proctab", "rm_type"} \cup Modes
  <2>1. Learned(p, m) = know
    BY <1>7, LearnedWhat
  <2> QED
    BY <1>1, <1>7, <2>1
<1> QED
  BY <1>4, <1>5, <1>6, <1>7

\* the master reads what the front end has to tell it of the job
LEMMA MasterLearns ==
  ASSUME HInv, kind = "be", Early(0), Head(prog[0]).do = "read", NEW m, m = Lost \/ m \in DownWords,
         Accepted(0, Head(prog[0]).arg, m), know' = Learned(0, m),
         hdr'[0] = (IF m = Lost THEN hdr[0] ELSE m.type),
         prog'[0] = Tail(prog[0]), st'[0] = st[0], codes'[0] = codes[0], synced'[0] = synced[0],
         called'[0] = called[0], inside'[0] = inside[0], Grows
  PROVE  Master'
<1> DEFINE r == Len(prog[0])
           a == Head(prog[0]).arg
<1>1. /\ 0 \in Procs /\ 0 \in Ranks /\ OnPlan(0) /\ MasterPlace /\ Typed /\ kind' = kind /\ FE \in Procs /\ FE # 0
  BY ProcsFacts DEF HInv, Places, Master, Grows
<1>2. Early(0)' /\ OnPlan(0)' /\ Counted(0)' /\ Len(prog'[0]) = r - 1
  BY <1>1, RankGoes
<1>3. ~Later(0)'
  <2>1. Len(codes[0]) \in Nat
    BY <1>1, LenProperties DEF Typed
  <2> QED
    BY <1>1, <1>2, <2>1 DEF Early, Later
<1>4. MasterBeMoves(prog[0])
  BY <1>1, Positions
<1>5. /\ r \in {12, 13, 14, 15}
      /\ r = 15 => a = "proctab"
      /\ r = 14 => a = "mode"
      /\ r = 13 => a = "rm_type"
      /\ r = 12 => a = "usrdata"
  BY <1>4 DEF MasterBeMoves
<1>6. /\ r >= 15 => hdr[0] = "junk"
      /\ r <= 14 => know[0].table = "T" /\ know[0].size = "sizeT"
      /\ r = 14  => hdr[0] = "proctab"
      /\ r <= 13 => know[0].mode = know[FE].mode /\ Fixed
      /\ r = 13  => hdr[0] \in Modes
      /\ r <= 12 => know[0].rm = "rm"
  BY <1>1 DEF MasterPlace
<1>7. m \in Messages \/ m = Lost
  BY DEF DownWords
<1>8. /\ know'[FE] = know[FE]
      /\ know'[0].mode = (IF m.type \in Modes THEN m.type ELSE know[0].mode)
      /\ know'[0].rm = (IF m.type = "rm_type" THEN m.val ELSE know[0].rm)
      /\ know'[0].size = (IF m.type = "proctab" THEN "sizeT" ELSE know[0].size)
      /\ know'[0].table = (IF m.type = "proctab" THEN m.val ELSE know[0].table)
  <2>1. /\ \A q \in Procs \ {0} : Learned(0, m)[q] = know[q]
        /\ \A f \in {"mode", "rm", "size", "table"} :
              Learned(0, m)[0][f] = IF m.type = "proctab" /\ f = "table" THEN m.val
                                    ELSE IF m.type = "proctab" /\ f = "size" THEN "sizeT"
                                    ELSE IF m.type \in Modes /\ f = "mode" THEN m.type
                                    ELSE IF m.type = "rm_type" /\ f = "rm" THEN m.val
                                    ELSE know[0][f]
    BY <1>1, <1>7, LearnedTyped
  <2> QED
    BY <1>1, <2>1
<1>9. IF m = Lost THEN hdr[0] \in Expected(a) ELSE m.type \in Expected(a)
  BY DEF Accepted
<1> HIDE DEF r, a
<1>10. r # 12 => m # Lost /\ m \in DownWords
  <2>1. r = 15 => hdr[0] \notin Expected(a)
    BY <1>5, <1>6 DEF Expected
  <2>2. r = 14 => hdr[0] \notin Expected(a)
    BY <1>5, <1>6 DEF Expected, Modes
  <2>3. r = 13 => hdr[0] \notin Expected(a)
    BY <1>5, <1>6 DEF Expected, Modes
  <2> QED
    BY <1>5, <1>9, <2>1, <2>2, <2>3
<1>11. Fixed' <=> Fixed
  BY <1>8 DEF Fixed
<1>12. /\ r - 1 >= 15 => hdr'[0] = "junk"
       /\ r - 1 <= 14 => know'[0].table = "T" /\ know'[0].size = "sizeT"
       /\ r - 1 = 14 => hdr'[0] = "proctab"
       /\ r - 1 <= 13 => know'[0].mode = know'[FE].mode /\ Fixed'
       /\ r - 1 = 13  => hdr'[0] \in Modes
       /\ r - 1 <= 12 => know'[0].rm = "rm"
       /\ ~(r - 1 <= 6) /\ ~(r - 1 <= 5) /\ ~(r - 1 <= 2)
  <2>1. CASE r = 15
    <3>1. m.type = "proctab" /\ m.val = "T" /\ hdr'[0] = "proctab"
      BY <2>1, <1>5, <1>9, <1>10 DEF Expected, DownWords
    <3> QED
      BY <2>1, <1>8, <3>1
  <2>2. CASE r = 14
    <3>1. m.type \in Modes /\ m.type = know[FE].mode /\ Fixed /\ hdr'[0] = m.type /\ m.type # "proctab"
      BY <2>2, <1>5, <1>9, <1>10 DEF Expected, DownWords, Fixed, Modes
    <3> QED
      BY <2>2, <1>6, <1>8, <1>11, <3>1
  <2>3. CASE r = 13
    <3>1. m.type = "rm_type" /\ m.val = "rm" /\ m.type \notin Modes /\ hdr'[0] = m.type
      BY <2>3, <1>5, <1>9, <1>10 DEF Expected, DownWords, Modes
    <3> QED
      BY <2>3, <1>6, <1>8, <1>11, <3>1
  <2>4. CASE r = 12
    <3>1. m.type \notin Modes /\ m.type # "proctab" /\ m.type # "rm_type"
      BY <2>4, <1>5, <1>9, LostIsNoMessage DEF Expected, Modes
    <3> QED
      BY <2>4, <1>6, <1>8, <1>11, <3>1
  <2> QED
    BY <1>5, <2>1, <2>2, <2>3, <2>4
<1>13. MasterPlace'
  BY <1>2, <1>12 DEF MasterPlace
<1> QED
  BY <1>2, <1>3, <1>13 DEF Master

\* the master reads the job: only the header it expects gets it further, and the
\* header it has read last is none of those when the connection ends
LEMMA MasterReadKeeps ==
  ASSUME HInv, read_lmonp_msgheader(0)
  PROVE  HInv'
<1> DEFINE a == Head(prog[0]).arg
<1>1. /\ 0 \in Procs /\ 0 \in Ranks /\ 0 # FE /\ st[0] = "up" /\ prog[0] # <<>>
      /\ Head(prog[0]).do = "read" /\ Typed /\ Shared /\ kind \in {"be", "mw"}
  BY ProcsFacts DEF read_lmonp_msgheader, At, HInv, Typed
<1>2. Early(0) /\ OnPlan(0)
  BY <1>1, Stage, LaterDos
<1>3. UNCHANGED <<kind, script, called, inside, root, synced, engine>>
  BY DEF read_lmonp_msgheader, job, coll
<1>4. PICK m \in Arrivals(0) :
        /\ Taken(0, m)
        /\ hdr' = [hdr EXCEPT ![0] = IF m = Lost THEN hdr[0] ELSE m.type]
        /\ \/ Accepted(0, a, m) /\ know' = Learned(0, m) /\ Advance(0)
           \/ Fails(0, IF m = Lost /\ Checked(a) THEN "ESYS" ELSE "EBDMSG") /\ know' = know
           \/ Dies(0) /\ know' = know
  BY DEF read_lmonp_msgheader
<1>5. /\ chan' \in [{FE, 0} -> Seq(Messages)]
      /\ chan'[FE] \in Seq(UpWords) /\ chan'[0] \in Seq(DownWords)
      /\ m = Lost \/ (m \in Messages /\ m \in DownWords)
  <2>1. Wires
    BY <1>1 DEF Shared
  <2> QED
    BY <1>1, <1>4, <2>1, Taking
<1>6. /\ hdr' \in [{FE, 0} -> Types \cup {"junk"}] /\ \A q \in {FE, 0} \ {0} : hdr'[q] = hdr[q]
      /\ hdr'[0] = (IF m = Lost THEN hdr[0] ELSE m.type)
  <2>1. hdr \in [{FE, 0} -> Types \cup {"junk"}]
    BY <1>1 DEF Typed
  <2>2. (IF m = Lost THEN hdr[0] ELSE m.type) \in Types \cup {"junk"}
    BY <1>5, <2>1 DEF Messages
  <2> QED
    BY <1>4, <2>1, <2>2
<1> HIDE DEF a
<1>7. CASE Accepted(0, a, m) /\ know' = Learned(0, m) /\ Advance(0)
  <2>1. Moves(0) /\ prog'[0] = Tail(prog[0]) /\ st'[0] = st[0] /\ codes'[0] = codes[0]
    BY <1>1, <1>7, Advancing
  <2>2. /\ know' \in [Procs -> Knowledge] /\ \A q \in Procs \ {0} : know'[q] = know[q]
    BY <1>1, <1>5, <1>7, LearnedTyped
  <2>3. Quiet(0)
    BY <1>1, <1>3, <1>5, <1>6, <2>1, <2>2 DEF Quiet, Typed
  <2>4. Grows /\ know'[FE] = know[FE]
    BY <1>1, <1>3, <2>2, ProcsFacts DEF Grows, Typed
  <2>5. called'[0] = called[0] /\ inside'[0] = inside[0] /\ synced'[0] = synced[0] /\ kind' = kind
    BY <1>3
  <2>6. Master'
    <3>1. CASE kind = "be"
      BY <1>1, <1>2, <1>5, <1>6, <1>7, <2>1, <2>4, <2>5, <3>1, MasterLearns DEF a
    <3>2. CASE kind = "mw"
      <4>1. MasterMwMoves(prog[0])
        BY <1>1, <1>2, <3>2, Positions
      <4>2. a = "usrdata"
        BY <1>1, <4>1 DEF MasterMwMoves, a
      <4>3. m.type \notin {"proctab", "rm_type"} \cup Modes
        BY <1>5, <1>7, <4>2, LostIsNoMessage DEF Accepted, Expected, Modes
      <4>4. know' = know
        BY <1>1, <1>7, <4>3, LearnedWhat
      <4> QED
        BY <1>1, <1>2, <2>1, <2>4, <2>5, <4>2, <4>4, MasterGoes DEF a
    <3> QED
      BY <1>1, <3>1, <3>2
  <2>7. Wires' /\ FrontKnows'
    BY <1>1, <1>5, <2>4, WiresStay DEF Shared, FrontKnows
  <2> QED
    BY <1>1, <2>3, <2>4, <2>6, <2>7, QuietStep
<1>8. CASE Fails(0, IF m = Lost /\ Checked(a) THEN "ESYS" ELSE "EBDMSG") /\ know' = know
  <2>1. Moves(0) /\ st'[0] # "up" /\ Honest(0)
    BY <1>1, <1>8, Failing, ValueFacts
  <2> QED
    BY <1>1, <1>3, <1>5, <1>6, <1>8, <2>1, OwnStep
<1>9. CASE Dies(0) /\ know' = know
  <2>1. Moves(0) /\ st'[0] # "up" /\ Honest(0)
    BY <1>1, <1>9, Dying
  <2> QED
    BY <1>1, <1>3, <1>5, <1>6, <1>9, <2>1, OwnStep
<1> QED
  BY <1>4, <1>7, <1>8, <1>9

\* a step of the master in a call after the handshake
LEMMA CallStep ==
  ASSUME HInv, st[0] = "up", prog[0] # <<>>, Head(prog[0]).do \in {"recvUsrData", "sendUsrData", "do_bemaster"},
         UNCHANGED <<kind, script, hdr, called, inside, root, synced, engine>>,
         know' \in [Procs -> Knowledge], \A q \in Procs \ {0} : know'[q] = know[q],
         chan' \in [{FE, 0} -> Seq(Messages)],
         chan'[FE] \in Seq(UpWords), chan'[0] \in Seq(DownWords),
         \/ Advance(0)
         \/ Dies(0)
         \/ Fails(0, "ESUBCOM")
  PROVE  HInv'
<1>1. 0 \in Procs /\ 0 \in Ranks /\ 0 # FE /\ Typed /\ Shared /\ FE \in Procs
  BY ProcsFacts DEF HInv
<1>2. Later(0)
  <2>1. CASE Early(0) /\ OnPlan(0)
    <3>1. CASE kind = "be"
      <4>1. MasterBeMoves(prog[0])
        BY <1>1, <2>1, <3>1, Positions
      <4> QED
        BY <4>1 DEF MasterBeMoves
    <3>2. CASE kind = "mw"
      <4>1. MasterMwMoves(prog[0])
        BY <1>1, <2>1, <3>2, Positions
      <4> QED
        BY <4>1 DEF MasterMwMoves
    <3> QED
      BY <1>1, <3>1, <3>2 DEF Typed
  <2> QED
    BY <1>1, <2>1, Stage
<1>3. Moves(0) /\ (\/ st'[0] # "up"
                   \/ prog'[0] = Tail(prog[0]) /\ st'[0] = st[0] /\ codes'[0] = codes[0])
  BY <1>1, Advancing, Dying, Failing, ValueFacts
<1>4. Quiet(0)
  BY <1>1, <1>3 DEF Quiet, Typed
<1>5. Grows /\ know'[FE] = know[FE]
  BY <1>1 DEF Grows, Typed
<1>6. st'[0] # "up" \/ Master'
  <2>1. Len(codes[0]) \in Nat
    BY <1>1, LenProperties DEF Typed
  <2> QED
    BY <1>1, <1>2, <1>3, <1>5, <2>1, LaterGoes
<1>7. Wires' /\ FrontKnows'
  BY <1>1, <1>5, WiresStay DEF Shared, FrontKnows
<1> QED
  BY <1>1, <1>4, <1>5, <1>6, <1>7, QuietStep

LEMMA SettingCode ==
  ASSUME Typed, NEW c \in Values, SetCode(c)
  PROVE  know' \in [Procs -> Knowledge] /\ \A q \in Procs \ {0} : know'[q] = know[q]
<1>1. know \in [Procs -> Knowledge] /\ 0 \in Procs
  BY ProcsFacts DEF Typed
<1>2. know' = [know EXCEPT ![0] = [know[0] EXCEPT !.lrc = c]]
  BY DEF SetCode
<1>3. [know[0] EXCEPT !.lrc = c] \in Knowledge
  BY <1>1 DEF Knowledge
<1> QED
  BY <1>1, <1>2, <1>3

LEMMA MasterReceivesKeeps ==
  ASSUME HInv, MasterReceives
  PROVE  HInv'
<1>1. /\ st[0] = "up" /\ prog[0] # <<>> /\ Head(prog[0]).do = "recvUsrData" /\ Typed /\ Wires
      /\ UNCHANGED <<kind, script, hdr, called, inside, root, synced, engine>> /\ Advance(0)
  BY DEF MasterReceives, At, HInv, Shared, job, coll
<1>2. PICK m \in Arrivals(0), c \in Values : Taken(0, m) /\ SetCode(c)
  <2>1. PICK m \in Arrivals(0) : Taken(0, m) /\ \E c \in {"ESYS", "EBDMSG", "ENOPLD", "OK", "ENEGCB", "ENCLLB"} : SetCode(c)
    BY DEF MasterReceives
  <2> QED
    BY <2>1, ValueFacts
<1>3. know' \in [Procs -> Knowledge] /\ \A q \in Procs \ {0} : know'[q] = know[q]
  BY <1>1, <1>2, SettingCode
<1>4. /\ chan' \in [{FE, 0} -> Seq(Messages)]
      /\ chan'[FE] \in Seq(UpWords) /\ chan'[0] \in Seq(DownWords)
  BY <1>1, <1>2, Taking
<1> QED
  BY <1>1, <1>3, <1>4, CallStep

LEMMA MasterSendsKeeps ==
  ASSUME HInv, MasterSends
  PROVE  HInv'
<1>1. /\ st[0] = "up" /\ prog[0] # <<>> /\ Head(prog[0]).do = "sendUsrData" /\ Typed /\ Wires
      /\ UNCHANGED <<kind, script, hdr, called, inside, root, synced, engine>>
  BY DEF MasterSends, At, HInv, Shared, job, coll
<1>2. CASE UNCHANGED chan /\ Advance(0) /\ (SetCode("ENEGCB") \/ SetCode("ESYS"))
  <2>1. know' \in [Procs -> Knowledge] /\ \A q \in Procs \ {0} : know'[q] = know[q]
    BY <1>1, <1>2, SettingCode, ValueFacts
  <2>2. /\ chan' \in [{FE, 0} -> Seq(Messages)]
        /\ chan'[FE] \in Seq(UpWords) /\ chan'[0] \in Seq(DownWords)
    BY <1>1, <1>2 DEF Typed, Wires
  <2> QED
    BY <1>1, <1>2, <2>1, <2>2, CallStep
<1>3. ASSUME NEW pay \in BOOLEAN, Sent(0, Message("befe_usrdata", "none", pay)),
             SetCode(IF pay THEN "OK" ELSE "ENCLLB")
      PROVE  HInv'
  <2>1. know' \in [Procs -> Knowledge] /\ \A q \in Procs \ {0} : know'[q] = know[q]
    BY <1>1, <1>3, SettingCode, ValueFacts
  <2>2. Ready
    <3>1. CASE Early(0) /\ OnPlan(0)
      <4>1. kind \in {"be", "mw"} /\ 0 \in Procs
        BY <1>1, ProcsFacts DEF Typed
      <4>2. CASE kind = "be"
        <5>1. MasterBeMoves(prog[0])
          BY <1>1, <3>1, <4>1, <4>2, Positions
        <5> QED
          BY <1>1, <5>1 DEF MasterBeMoves
      <4>3. CASE kind = "mw"
        <5>1. MasterMwMoves(prog[0])
          BY <1>1, <3>1, <4>1, <4>3, Positions
        <5> QED
          BY <1>1, <5>1 DEF MasterMwMoves
      <4> QED
        BY <4>1, <4>2, <4>3
    <3> QED
      BY <1>1, <3>1, Stage, ProcsFacts
  <2> DEFINE m == Message("befe_usrdata", "none", pay)
  <2>3. m \in Messages /\ m.type = "befe_usrdata"
    BY EmptyValue DEF Message, Messages, Types
  <2>4. m \in UpWords
    BY <2>2, <2>3 DEF UpWords
  <2>5. Sent(0, m) /\ 0 \in {FE, 0} /\ 0 # FE
    BY <1>3, ProcsFacts
  <2> HIDE DEF m
  <2>6. Put(0, m) /\ (Advance(0) \/ Dies(0))
    BY <2>5 DEF Sent, Put
  <2>7. /\ chan' \in [{FE, 0} -> Seq(Messages)]
        /\ chan'[FE] \in Seq(UpWords) /\ chan'[0] \in Seq(DownWords)
    BY <1>1, <2>3, <2>4, <2>5, <2>6, Putting
  <2> QED
    BY <1>1, <2>1, <2>6, <2>7, CallStep
<1> QED
  BY <1>2, <1>3 DEF MasterSends

LEMMA BeMasterKeeps ==
  ASSUME HInv, do_bemaster
  PROVE  HInv'
<1>1. /\ st[0] = "up" /\ prog[0] # <<>> /\ Head(prog[0]).do = "do_bemaster" /\ Typed /\ Wires
      /\ UNCHANGED <<kind, script, hdr, called, inside, root, synced, engine>>
  BY DEF do_bemaster, At, HInv, Shared, job, coll
<1>2. PICK m \in Arrivals(0) :
        /\ Taken(0, m)
        /\ \/ know' = [know EXCEPT ![0] = [know[0] EXCEPT !.leng = "sizeP", !.lmonpl = "P"]] /\ Advance(0)
           \/ Fails(0, "ESUBCOM") /\ know' = know
  BY ProcsFacts DEF do_bemaster, Typed, HInv
<1>3. know' \in [Procs -> Knowledge] /\ \A q \in Procs \ {0} : know'[q] = know[q]
  <2>1. know \in [Procs -> Knowledge] /\ 0 \in Procs
    BY <1>1, ProcsFacts DEF Typed
  <2>2. [know[0] EXCEPT !.leng = "sizeP", !.lmonpl = "P"] \in Knowledge
    BY <2>1, ValueFacts DEF Knowledge
  <2> QED
    BY <1>2, <2>1, <2>2
<1>4. /\ chan' \in [{FE, 0} -> Seq(Messages)]
      /\ chan'[FE] \in Seq(UpWords) /\ chan'[0] \in Seq(DownWords)
  BY <1>1, <1>2, Taking
<1> QED
  BY <1>1, <1>2, <1>3, <1>4, CallStep

-----------------------------------------------------------------------------
(* The daemons' own steps *)

\* a slave takes a step of its plan that is no collective
LEMMA SlaveGoes ==
  ASSUME HInv, NEW d \in Ranks \ {0}, Early(d), Head(prog[d]).do \notin {"barrier", "bcast", "gather"},
         prog'[d] = Tail(prog[d]), st'[d] = st[d], codes'[d] = codes[d],
         synced'[d] = synced[d] \/ synced'[d] # <<>>,
         Head(prog[d]).do = "procctl_init" => synced'[d] # <<>>,
         called'[d] = called[d], inside'[d] = inside[d],
         know'[d] = know[d], know'[FE] = know[FE], Grows
  PROVE  Slave(d)'
<1> DEFINE r == Len(prog[d])
<1>1. d \in Procs /\ d \in Ranks /\ OnPlan(d) /\ SlavePlace(d) /\ Typed /\ kind \in {"be", "mw"} /\ kind' = kind
  BY ProcsFacts DEF HInv, Places, Slave, Typed, Grows
<1>2. Early(d)' /\ OnPlan(d)' /\ Counted(d)' /\ Len(prog'[d]) = r - 1
  BY <1>1, RankGoes
<1>3. ~Later(d)'
  <2>1. Len(codes[d]) \in Nat /\ d # FE
    BY <1>1, LenProperties, ProcsFacts DEF Typed
  <2> QED
    BY <1>1, <1>2, <2>1 DEF Early, Later
<1>4. Fixed <=> Fixed'
  BY DEF Fixed
<1>5. ASSUME kind = "be" PROVE SlavePlace(d)'
  <2>1. SlaveBeMoves(prog[d])
    BY <1>1, <1>5, Positions
  <2>2. r \in {5, 3} /\ (r = 5 => synced'[d] # <<>>)
    BY <2>1 DEF SlaveBeMoves
  <2>3. /\ r <= 8 => know[d].mode = know[FE].mode /\ Fixed
        /\ r <= 8 - 1 => know[d].rm = "rm"
        /\ r <= 8 - 2 => know[d].size = "sizeT"
        /\ r <= 8 - 3 => know[d].table = "T"
        /\ r <= 4 => synced[d] # <<>>
    BY <1>1, <1>5 DEF SlavePlace, Knows
  <2> HIDE DEF r
  <2>4. /\ r - 1 <= 8 => know'[d].mode = know'[FE].mode /\ Fixed'
        /\ r - 1 <= 8 - 1 => know'[d].rm = "rm"
        /\ r - 1 <= 8 - 2 => know'[d].size = "sizeT"
        /\ r - 1 <= 8 - 3 => know'[d].table = "T"
        /\ r - 1 <= 4 => synced'[d] # <<>>
    BY <1>4, <2>2, <2>3
  <2> QED
    BY <1>2, <2>4 DEF SlavePlace, Knows
<1>6. SlavePlace(d)'
  BY <1>1, <1>5 DEF SlavePlace
<1> QED
  BY <1>2, <1>3, <1>6 DEF Slave

\* who synchronizes has the job of the front end
LEMMA SyncsRight ==
  ASSUME HInv, NEW d \in Ranks, At(d, "procctl_init")
  PROVE  kind = "be" /\ Early(d) /\ Job(d) = Job(FE) /\ Fixed
<1>1. d \in Procs /\ d # FE /\ st[d] = "up" /\ prog[d] # <<>> /\ Head(prog[d]).do = "procctl_init" /\ Typed
      /\ kind \in {"be", "mw"} /\ FrontKnows
  BY ProcsFacts DEF At, HInv, Shared, Typed
<1>2. Early(d) /\ OnPlan(d)
  BY <1>1, Stage, LaterDos
<1>3. kind = "be"
  <2>1. CASE kind = "mw" /\ d = 0
    <3>1. MasterMwMoves(prog[d])
      BY <1>1, <1>2, <2>1, Positions
    <3> QED
      BY <1>1, <3>1 DEF MasterMwMoves
  <2>2. CASE kind = "mw" /\ d # 0
    <3>1. SlaveMwMoves(prog[d])
      BY <1>1, <1>2, <2>2, Positions
    <3> QED
      BY <1>1, <3>1 DEF SlaveMwMoves
  <2> QED
    BY <1>1, <2>1, <2>2
<1>4. know[d].mode = know[FE].mode /\ know[d].rm = "rm" /\ know[d].size = "sizeT" /\ know[d].table = "T" /\ Fixed
  <2>1. CASE d = 0
    <3>1. MasterBeMoves(prog[d]) /\ MasterPlace
      BY <1>1, <1>2, <1>3, <2>1, Positions DEF HInv, Places, Master
    <3>2. Len(prog[d]) = 7
      BY <1>1, <3>1 DEF MasterBeMoves
    <3> QED
      BY <1>3, <2>1, <3>1, <3>2 DEF MasterPlace
  <2>2. CASE d # 0
    <3>1. SlaveBeMoves(prog[d]) /\ SlavePlace(d)
      BY <1>1, <1>2, <1>3, <2>2, Positions DEF HInv, Places, Slave
    <3>2. Len(prog[d]) = 5
      BY <1>1, <3>1 DEF SlaveBeMoves
    <3> QED
      BY <1>3, <2>2, <3>1, <3>2 DEF SlavePlace, Knows
  <2> QED
    BY <2>1, <2>2
<1> QED
  BY <1>1, <1>2, <1>3, <1>4 DEF Job, FrontKnows

\* procctl_init: the job has been broadcast before, and the fields are in place
LEMMA InitKeeps ==
  ASSUME HInv, NEW d \in Ranks, procctl_init(d)
  PROVE  HInv'
<1>1. d \in Procs /\ d # FE /\ st[d] = "up" /\ prog[d] # <<>> /\ Head(prog[d]).do = "procctl_init"
      /\ At(d, "procctl_init") /\ Typed /\ Shared /\ FE \in Procs
  BY ProcsFacts DEF procctl_init, At, HInv
<1>2. UNCHANGED <<kind, script, chan, hdr, called, inside, root, know, engine>>
  BY DEF procctl_init, job, wire, coll
<1>3. CASE Fails(d, "ESUBSYNC") /\ UNCHANGED synced
  <2>1. Moves(d) /\ st'[d] # "up" /\ Honest(d)
    BY <1>1, <1>3, Failing, ValueFacts
  <2> QED
    BY <1>1, <1>2, <1>3, <2>1, HaltStep
<1>4. CASE Advance(d) /\ synced' = [synced EXCEPT ![d] = Job(d)]
  <2>1. kind = "be" /\ Early(d) /\ Job(d) = Job(FE) /\ Fixed
    BY <1>1, SyncsRight
  <2>2. Moves(d) /\ prog'[d] = Tail(prog[d]) /\ st'[d] = st[d] /\ codes'[d] = codes[d]
    BY <1>1, <1>4, Advancing
  <2>3. Job(d) \in Seq(Values) /\ Job(d) # <<>>
    <3>1. know[d].mode \in Values /\ know[d].rm \in Values /\ know[d].size \in Values /\ know[d].table \in Values
      BY <1>1 DEF Typed, Knowledge
    <3> QED
      BY <3>1 DEF Job
  <2>4. synced' \in [Ranks -> Seq(Values)] /\ synced'[d] = Job(d) /\ \A e \in Ranks \ {d} : synced'[e] = synced[e]
    BY <1>1, <1>4, <2>3 DEF Typed
  <2>5. Typed'
    BY <1>1, <1>2, <2>2, <2>4 DEF Typed, Moves
  <2>6. Grows
    BY <1>1, <1>2 DEF Grows, Typed
  <2>7. \A q \in Procs \ {d} : Same(q)
    BY <1>2, <2>2, <2>4 DEF Moves, Same
  <2>8. d = 0 => Master'
    <3>1. ASSUME d = 0 PROVE Master'
      <4>1. /\ synced'[0] # <<>> /\ called'[0] = called[0] /\ inside'[0] = inside[0] /\ hdr'[0] = hdr[0]
            /\ know'[FE] = know[FE] /\ \A f \in {"mode", "rm", "size", "table"} : know'[0][f] = know[0][f]
        BY <1>2, <2>3, <2>4, <3>1
      <4> QED
        BY <1>1, <2>1, <2>2, <2>6, <3>1, <4>1, MasterGoes
    <3> QED
      BY <3>1
  <2>9. d # 0 => Slave(d)'
    BY <1>1, <1>2, <2>1, <2>2, <2>3, <2>4, <2>6, SlaveGoes
  <2>10. Places'
    BY <1>1, <2>6, <2>7, <2>8, <2>9, OneMoves DEF HInv
  <2>11. FrontKnows'
    BY <1>1, <1>2 DEF Shared, FrontKnows
  <2>12. Wires' /\ Roots' /\ Released'
    <3>1. chan'[FE] \in Seq(UpWords) /\ chan'[0] \in Seq(DownWords)
      BY <1>1, <1>2 DEF Shared, Wires
    <3> QED
      BY <1>1, <1>2, <2>6, <3>1, WiresStay, RootsStay, ReleasedStays DEF Shared
  <2>13. Syncs'
    <3>1. Job(FE)' = Job(FE) /\ (Fixed <=> Fixed')
      BY <1>2 DEF Job, Fixed
    <3>2. ASSUME NEW e \in Ranks, e # d
          PROVE  /\ kind' = "be" /\ called'[e] >= 7 => synced'[e] # <<>>
                 /\ synced'[e] # <<>> => synced'[e] = Job(FE)' /\ Fixed'
      BY <1>1, <1>2, <2>4, <3>1, <3>2 DEF Shared, Syncs
    <3>3. synced'[d] # <<>> /\ synced'[d] = Job(FE)' /\ Fixed'
      BY <2>1, <2>3, <2>4, <3>1
    <3> QED
      BY <3>2, <3>3 DEF Syncs
  <2>14. Succeeded'
    <3>1. codes'[FE] = codes[FE]
      BY <1>1, <2>2 DEF Moves
    <3> QED
      BY <1>1, <2>6, <3>1, SucceededStays DEF Shared
  <2> QED
    BY <2>5, <2>10, <2>11, <2>12, <2>13, <2>14 DEF HInv, Shared
<1> QED
  BY <1>3, <1>4 DEF procctl_init

LEMMA InitDoneKeeps ==
  ASSUME HInv, NEW d \in Ranks, procctl_initdone(d)
  PROVE  HInv'
<1>1. d \in Procs /\ d # FE /\ st[d] = "up" /\ prog[d] # <<>> /\ Head(prog[d]).do = "procctl_initdone"
      /\ Typed /\ Shared /\ FE \in Procs
  BY ProcsFacts DEF procctl_initdone, At, HInv
<1>2. UNCHANGED <<kind, script, chan, hdr, called, inside, root, know, engine, synced>>
  BY DEF procctl_initdone, job, wire, coll, data
<1>3. CASE Fails(d, "ESUBSYNC")
  <2>1. Moves(d) /\ st'[d] # "up" /\ Honest(d)
    BY <1>1, <1>3, Failing, ValueFacts
  <2> QED
    BY <1>1, <1>2, <1>3, <2>1, HaltStep
<1>4. CASE Advance(d)
  <2>1. Early(d)
    BY <1>1, Stage, LaterDos
  <2>2. Moves(d) /\ prog'[d] = Tail(prog[d]) /\ st'[d] = st[d] /\ codes'[d] = codes[d] /\ Honest(d)
    BY <1>1, <1>4, Advancing
  <2>3. Grows
    BY <1>1, <1>2 DEF Grows, Typed
  <2>4. d = 0 => Master'
    BY <1>1, <1>2, <2>1, <2>2, <2>3, MasterGoes
  <2>5. d # 0 => Slave(d)'
    BY <1>1, <1>2, <2>1, <2>2, <2>3, SlaveGoes
  <2>6. /\ hdr' \in [{FE, 0} -> Types \cup {"junk"}] /\ \A q \in {FE, 0} \ {d} : hdr'[q] = hdr[q]
        /\ chan' \in [{FE, 0} -> Seq(Messages)]
        /\ chan'[FE] \in Seq(UpWords) /\ chan'[0] \in Seq(DownWords)
    BY <1>1, <1>2 DEF Typed, Shared, Wires
  <2> QED
    BY <1>1, <1>2, <2>2, <2>4, <2>5, <2>6, OwnStep
<1> QED
  BY <1>3, <1>4 DEF procctl_initdone

-----------------------------------------------------------------------------
(* Entering a collective *)

\* what a broadcast carries, and in which place
LEMMA BcastField ==
  ASSUME HInv, NEW d \in Ranks, At(d, "bcast")
  PROVE  /\ Head(prog[d]).arg \in {"mode", "rm", "size", "table", "lrc", "leng", "lmonpl"}
         /\ know[d][Head(prog[d]).arg] \in Values
<1>1. d \in Procs /\ d # FE /\ st[d] = "up" /\ prog[d] # <<>> /\ Head(prog[d]).do = "bcast" /\ Typed
      /\ kind \in {"be", "mw"}
  BY ProcsFacts DEF At, HInv, Typed
<1>2. Head(prog[d]).arg \in {"mode", "rm", "size", "table", "lrc", "leng", "lmonpl"}
  <2>1. CASE Early(d) /\ OnPlan(d)
    <3>1. CASE kind = "be" /\ d = 0
      <4>1. MasterBeMoves(prog[d])
        BY <1>1, <2>1, <3>1, Positions
      <4> QED
        BY <1>1, <4>1 DEF MasterBeMoves
    <3>2. CASE kind = "be" /\ d # 0
      <4>1. SlaveBeMoves(prog[d])
        BY <1>1, <2>1, <3>2, Positions
      <4> QED
        BY <1>1, <4>1 DEF SlaveBeMoves
    <3>3. CASE kind = "mw" /\ d = 0
      <4>1. MasterMwMoves(prog[d])
        BY <1>1, <2>1, <3>3, Positions
      <4> QED
        BY <1>1, <4>1 DEF MasterMwMoves
    <3>4. CASE kind = "mw" /\ d # 0
      <4>1. SlaveMwMoves(prog[d])
        BY <1>1, <2>1, <3>4, Positions
      <4> QED
        BY <1>1, <4>1 DEF SlaveMwMoves
    <3> QED
      BY <1>1, <3>1, <3>2, <3>3, <3>4
  <2>2. CASE Later(d) /\ Head(prog[d]) \in LaterSteps(d)
    BY <1>1, <2>2, LaterDos
  <2> QED
    BY <1>1, <2>1, <2>2, Stage
<1>3. know[d] \in Knowledge
  BY <1>1 DEF Typed
<1> QED
  BY <1>2, <1>3 DEF Knowledge

\* what goes in with a collective that the count n precedes
LEMMA Entering ==
  ASSUME HInv, NEW d \in Ranks, Collective(d), ~inside[d], kind = "be"
  PROVE  /\ called[d] = 6 => synced[d] # <<>>
         /\ d = 0 => /\ called[0] = 2 => At(0, "bcast") /\ know[0][Head(prog[0]).arg] = know[FE].mode /\ Fixed
                     /\ called[0] = 3 => At(0, "bcast") /\ know[0][Head(prog[0]).arg] = "rm"
                     /\ called[0] = 4 => At(0, "bcast") /\ know[0][Head(prog[0]).arg] = "sizeT"
                     /\ called[0] = 5 => At(0, "bcast") /\ know[0][Head(prog[0]).arg] = "T"
<1>1. d \in Procs /\ d # FE /\ st[d] = "up" /\ prog[d] # <<>>
      /\ Head(prog[d]).do \in {"barrier", "bcast", "gather"} /\ Typed
  BY ProcsFacts DEF Collective, At, HInv
<1>2. CASE Early(d) /\ OnPlan(d)
  <2>1. called[d] = Behind(d, Len(prog[d]))
    <3>1. Counted(d)
      BY <1>1, <1>2 DEF HInv, Places, Master, Slave
    <3>2. called[d] = Behind(d, Len(prog[d])) + (IF inside[d] THEN 1 ELSE 0)
      BY <3>1 DEF Counted
    <3>3. called[d] = Behind(d, Len(prog[d])) + 0
      BY <3>2
    <3> DEFINE r == Len(prog[d])
    <3>4. r \in Nat /\ d \in Int /\ kind = "be"
      BY <1>1, LenProperties, ProcsFacts DEF Typed
    <3> HIDE DEF r
    <3>5. Behind(d, r) \in Int
      BY <3>4 DEF Behind
    <3> QED
      BY <3>3, <3>5 DEF r
  <2>2. CASE d = 0
    <3>1. MasterBeMoves(prog[0]) /\ MasterPlace
      BY <1>1, <1>2, <2>2, Positions DEF HInv, Places, Master
    <3> DEFINE r == Len(prog[0])
               h == Head(prog[0])
    <3>2. /\ r <= 14 => know[0].table = "T" /\ know[0].size = "sizeT"
          /\ r <= 13 => know[0].mode = know[FE].mode /\ Fixed
          /\ r <= 12 => know[0].rm = "rm"
          /\ r <= 6  => synced[0] # <<>>
      BY <3>1 DEF MasterPlace
    <3>3. /\ r \in {18, 17, 11, 10, 9, 8, 6, 3, 1}
          /\ r = 11 => h.do = "bcast" /\ h.arg = "mode"
          /\ r = 10 => h.do = "bcast" /\ h.arg = "rm"
          /\ r = 9 => h.do = "bcast" /\ h.arg = "size"
          /\ r = 8 => h.do = "bcast" /\ h.arg = "table"
      BY <1>1, <2>2, <3>1 DEF MasterBeMoves
    <3>4. called[0] = Behind(0, r) /\ st[0] = "up" /\ prog[0] # <<>>
      BY <1>1, <2>1, <2>2
    <3> HIDE DEF r
    <3>5. /\ called[0] = 6 => r = 6
          /\ called[0] = 2 => r = 11
          /\ called[0] = 3 => r = 10
          /\ called[0] = 4 => r = 9
          /\ called[0] = 5 => r = 8
      BY <3>3, <3>4 DEF Behind
    <3>6. called[0] = 6 => synced[0] # <<>>
      BY <3>2, <3>5
    <3>7. called[0] = 2 => At(0, "bcast") /\ know[0][h.arg] = know[FE].mode /\ Fixed
      BY <3>2, <3>3, <3>4, <3>5 DEF At
    <3>8. called[0] = 3 => At(0, "bcast") /\ know[0][h.arg] = "rm"
      BY <3>2, <3>3, <3>4, <3>5 DEF At
    <3>9. called[0] = 4 => At(0, "bcast") /\ know[0][h.arg] = "sizeT"
      BY <3>2, <3>3, <3>4, <3>5 DEF At
    <3>10. called[0] = 5 => At(0, "bcast") /\ know[0][h.arg] = "T"
      BY <3>2, <3>3, <3>4, <3>5 DEF At
    <3> QED
      BY <2>2, <3>6, <3>7, <3>8, <3>9, <3>10
  <2>3. CASE d # 0
    <3>1. SlaveBeMoves(prog[d]) /\ SlavePlace(d)
      BY <1>1, <1>2, <2>3, Positions DEF HInv, Places, Slave
    <3> DEFINE r == Len(prog[d])
    <3>2. (r <= 4 => synced[d] # <<>>) /\ called[d] = Behind(d, r)
      BY <2>1, <3>1 DEF SlavePlace
    <3>3. r \in {11, 10, 9, 8, 7, 6, 4, 2, 1}
      BY <1>1, <3>1 DEF SlaveBeMoves
    <3> HIDE DEF r
    <3>4. called[d] = 6 => r = 4
      BY <2>3, <3>2, <3>3 DEF Behind
    <3> QED
      BY <2>3, <3>2, <3>4
  <2> QED
    BY <2>2, <2>3
<1>3. CASE Ready
  <2>1. called[d] \in Nat /\ called[d] >= 8
    BY <1>1, <1>3 DEF Ready, All, Typed
  <2> QED
    BY <2>1
<1> QED
  BY <1>1, <1>2, <1>3, Stage

\* the master enters a broadcast with what it knows; a slave counts one more
LEMMA EnterKeeps ==
  ASSUME HInv, NEW d \in Ranks, Enter(d)
  PROVE  HInv'
<1>1. d \in Procs /\ d # FE /\ st[d] = "up" /\ prog[d] # <<>> /\ Collective(d) /\ ~inside[d]
      /\ Head(prog[d]).do \in {"barrier", "bcast", "gather"} /\ Typed /\ Shared /\ FE \in Procs
      /\ 0 \in Ranks
  BY ProcsFacts DEF Enter, Collective, At, HInv
<1>2. UNCHANGED <<kind, script, prog, st, codes, chan, hdr, know, synced, engine>>
  BY DEF Enter, job, wire, data
<1>3. /\ called' = [called EXCEPT ![d] = called[d] + 1] /\ called'[d] = called[d] + 1
      /\ \A e \in Ranks \ {d} : called'[e] = called[e]
      /\ called' \in [Ranks -> Nat]
  BY <1>1, SMTT(30) DEF Enter, Typed
<1>4. /\ inside' \in [Ranks -> BOOLEAN] /\ inside'[d] = TRUE
      /\ \A e \in Ranks \ {d} : inside'[e] = inside[e]
  BY <1>1 DEF Enter, Typed
<1>5. Grows
  BY <1>1, <1>2, <1>3, SMTT(30) DEF Grows, Typed
<1>6. d # 0 => root' = root
  BY DEF Enter
<1>7. PICK v \in Values : /\ d = 0 => root' = Append(root, v)
                          /\ At(0, "bcast") => v = know[0][Head(prog[0]).arg]
  <2>1. CASE At(0, "bcast")
    <3>1. know[0][Head(prog[0]).arg] \in Values
      BY <1>1, <2>1, BcastField
    <3> QED
      BY <2>1, <3>1 DEF Enter
  <2>2. CASE ~At(0, "bcast")
    BY <2>2, EmptyValue DEF Enter
  <2> QED
    BY <2>1, <2>2
<1>8. /\ root' \in Seq(Values) /\ Len(root') = called'[0]
      /\ d = 0 => \A i \in 1 .. called[0] + 1 : root'[i] = IF i <= called[0] THEN root[i] ELSE v
  <2>1. root \in Seq(Values) /\ Len(root) = called[0] /\ called[0] \in Nat
    BY <1>1 DEF Typed
  <2>2. CASE d = 0
    <3>1. /\ Append(root, v) \in Seq(Values) /\ Len(Append(root, v)) = Len(root) + 1
          /\ \A i \in 1 .. Len(root) : Append(root, v)[i] = root[i]
          /\ Append(root, v)[Len(root) + 1] = v
      BY <2>1, AppendProperties
    <3> DEFINE q == Append(root, v)
    <3>2. root' = q /\ called'[0] = called[0] + 1
      BY <1>3, <1>7, <2>2
    <3>3. q \in Seq(Values) /\ Len(q) = called[0] + 1 /\ (\A i \in 1 .. called[0] : q[i] = root[i])
          /\ q[called[0] + 1] = v
      BY <2>1, <3>1
    <3> HIDE DEF q
    <3>4. \A i \in 1 .. called[0] + 1 : q[i] = IF i <= called[0] THEN root[i] ELSE v
      BY <2>1, <3>3
    <3> QED
      BY <3>2, <3>3, <3>4
  <2>3. CASE d # 0
    BY <1>1, <1>3, <1>6, <2>1, <2>3
  <2> QED
    BY <2>2, <2>3
<1>9. Typed'
  BY <1>1, <1>2, <1>3, <1>4, <1>8 DEF Typed
<1>10. \A q \in Procs \ {d} : Same(q)
  BY <1>2, <1>3, <1>4 DEF Same
<1>11. Early(d)' = Early(d) /\ Later(d)' = Later(d) /\ OnPlan(d)' = OnPlan(d)
  BY <1>2 DEF Early, Later, OnPlan, Plan
<1>12. Counted(d) => Counted(d)'
  <2>1. PICK r \in Nat : r = Len(prog[d])
    BY <1>1, LenProperties DEF Typed
  <2>2. Len(prog'[d]) = r /\ Len(codes'[d]) = Len(codes[d]) /\ prog'[d] = prog[d] /\ kind' = kind /\ d \in Int
    BY <1>1, <1>2, <2>1, ProcsFacts
  <2>3. ASSUME Counted(d) PROVE Counted(d)'
    <3>1. called[d] = Behind(d, r) + 0 /\ Len(codes[d]) = Returned(d, r)
      BY <1>1, <2>1, <2>3 DEF Counted
    <3>2. Behind(d, r) \in Int
      BY <2>2 DEF Behind
    <3>3. called'[d] = Behind(d, r) + 1 /\ inside'[d]
      BY <1>3, <1>4, <3>1, <3>2
    <3>4. Behind(d, r)' = Behind(d, r) /\ Returned(d, r)' = Returned(d, r)
      BY <2>2 DEF Behind, Returned
    <3>5. Counted(d)' <=> /\ called'[d] = Behind(d, Len(prog[d]))' + (IF inside'[d] THEN 1 ELSE 0)
                          /\ Len(codes'[d]) = Returned(d, Len(prog[d]))'
                          /\ inside'[d] => Head(prog'[d]).do \in {"barrier", "bcast", "gather"}
      BY DEF Counted
    <3>6. Behind(d, Len(prog[d]))' = Behind(d, r) /\ Returned(d, Len(prog[d]))' = Returned(d, r)
      BY <2>2, <3>4 DEF Behind, Returned
    <3> QED
      BY <1>1, <2>2, <3>1, <3>2, <3>3, <3>5, <3>6
  <2> QED
    BY <2>3
<1>13. Ready => Ready'
  BY <1>5, Growing
<1>14. d # 0 => Slave(d)'
  <2>1. SlavePlace(d)' = SlavePlace(d)
    BY <1>2 DEF SlavePlace, Knows, Fixed
  <2>2. (prog[d] \in Seq(LaterSteps(d)))' = (prog[d] \in Seq(LaterSteps(d)))
    BY <1>2 DEF LaterSteps
  <2> QED
    BY <1>1, <1>11, <1>12, <1>13, <2>1, <2>2 DEF HInv, Places, Slave
<1>15. d = 0 => Master'
  <2>1. MasterPlace => MasterPlace'
    <3>1. All(7) => All(7)'
      BY <1>5, Growing
    <3> QED
      BY <1>2, <1>13, <3>1 DEF MasterPlace, Fixed
  <2>2. (prog[d] \in Seq(LaterSteps(d)))' = (prog[d] \in Seq(LaterSteps(d)))
    BY <1>2 DEF LaterSteps
  <2> QED
    BY <1>1, <1>11, <1>12, <1>13, <2>1, <2>2 DEF HInv, Places, Master
<1>16. Places'
  BY <1>1, <1>5, <1>10, <1>14, <1>15, OneMoves DEF HInv
<1>17. FrontKnows'
  BY <1>1, <1>2 DEF Shared, FrontKnows
<1>18. Wires' /\ Released'
  <2>1. chan'[FE] \in Seq(UpWords) /\ chan'[0] \in Seq(DownWords)
    BY <1>1, <1>2 DEF Shared, Wires
  <2> QED
    BY <1>1, <1>2, <1>5, <2>1, WiresStay, ReleasedStays DEF Shared
<1>19. Roots'
  <2>1. CASE d # 0
    BY <1>1, <1>5, <1>6, <2>1, RootsStay DEF Shared
  <2>2. CASE d = 0 /\ kind = "be"
    <3>1. Len(root) = called[0] /\ called[0] \in Nat /\ Len(root') = called[0] + 1
      BY <1>1, <1>3, <1>8, <2>2 DEF Typed
    <3>2. \A i \in 1 .. called[0] + 1 : root'[i] = IF i <= called[0] THEN root[i] ELSE v
      BY <1>8, <2>2
    <3>3. Roots
      BY <1>1 DEF Shared
    <3>4. /\ called[0] = 2 => v = know[FE].mode /\ Fixed
          /\ called[0] = 3 => v = "rm"
          /\ called[0] = 4 => v = "sizeT"
          /\ called[0] = 5 => v = "T"
      BY <1>1, <1>7, <2>2, Entering
    <3> DEFINE n == called[0]
    <3>5. /\ n >= 3 => root[3] = know[FE].mode /\ Fixed
          /\ n >= 4 => root[4] = "rm"
          /\ n >= 5 => root[5] = "sizeT"
          /\ n >= 6 => root[6] = "T"
      BY <2>2, <3>1, <3>3 DEF Roots
    <3> HIDE DEF n
    <3>6. /\ n + 1 >= 3 => root'[3] = know[FE].mode /\ Fixed
          /\ n + 1 >= 4 => root'[4] = "rm"
          /\ n + 1 >= 5 => root'[5] = "sizeT"
          /\ n + 1 >= 6 => root'[6] = "T"
      BY <3>1, <3>2, <3>4, <3>5 DEF n
    <3>7. Fixed' = Fixed /\ know'[FE] = know[FE]
      BY <1>2 DEF Fixed
    <3> QED
      BY <3>1, <3>6, <3>7 DEF Roots, n
  <2>3. CASE kind # "be"
    BY <1>2, <2>3 DEF Roots
  <2> QED
    BY <2>1, <2>2, <2>3
<1>20. Syncs'
  <2>1. Job(FE)' = Job(FE) /\ (Fixed <=> Fixed')
    BY <1>2 DEF Job, Fixed
  <2>2. ASSUME NEW e \in Ranks PROVE synced'[e] # <<>> => synced'[e] = Job(FE)' /\ Fixed'
    BY <1>1, <1>2, <2>1 DEF Shared, Syncs
  <2>3. ASSUME NEW e \in Ranks, kind' = "be", called'[e] >= 7 PROVE synced'[e] # <<>>
    <3>1. kind = "be" /\ called[e] \in Nat /\ Syncs
      BY <1>1, <1>2, <2>3 DEF Typed, Shared
    <3>2. CASE called[e] >= 7
      BY <1>2, <3>1, <3>2 DEF Syncs
    <3>3. CASE e = d /\ called[d] = 6
      BY <1>1, <1>2, <3>1, <3>3, Entering
    <3> QED
      BY <1>3, <2>3, <3>1, <3>2, <3>3
  <2> QED
    BY <2>2, <2>3 DEF Syncs
<1>21. Succeeded'
  BY <1>1, <1>2, <1>5, SucceededStays DEF Shared
<1> QED
  BY <1>9, <1>16, <1>17, <1>18, <1>19, <1>20, <1>21 DEF HInv, Shared

-----------------------------------------------------------------------------
(* Leaving a collective *)

\* the counts before and after a collective, with r steps to go
LEMMA Counts ==
  ASSUME NEW d \in Int, NEW r \in Nat,
         \/ kind = "be" /\ d = 0 /\ r \in {18, 17, 11, 10, 9, 8, 6, 3, 1}
         \/ kind = "be" /\ d # 0 /\ r \in {11, 10, 9, 8, 7, 6, 4, 2, 1}
         \/ kind = "mw" /\ d = 0 /\ r \in {7, 6, 3, 1}
         \/ kind = "mw" /\ d # 0 /\ r \in {4, 3, 2, 1}
  PROVE  /\ Behind(d, r) \in Nat
         /\ r = 1 => Returned(d, r) = 2
         /\ r > 1 => Behind(d, r - 1) = Behind(d, r) + 1
<1>1. CASE kind = "be" /\ d = 0 /\ r \in {18, 17, 11, 10, 9, 8, 6, 3, 1}
  BY <1>1 DEF Behind, Returned
<1>2. CASE kind = "be" /\ d # 0 /\ r \in {11, 10, 9, 8, 7, 6, 4, 2, 1}
  BY <1>2 DEF Behind, Returned
<1>3. CASE kind = "mw" /\ d = 0 /\ r \in {7, 6, 3, 1}
  BY <1>3 DEF Behind, Returned
<1>4. CASE kind = "mw" /\ d # 0 /\ r \in {4, 3, 2, 1}
  BY <1>4 DEF Behind, Returned
<1> QED
  BY <1>1, <1>2, <1>3, <1>4

\* the calls that return with a step
LEMMA CodeCounts ==
  ASSUME NEW d \in Int, NEW r \in Nat, r > 1
  PROVE  /\ kind = "be" /\ d = 0 /\ r \in {18, 3} => Returned(d, r - 1) = Returned(d, r) + 1
         /\ kind = "be" /\ d = 0 /\ r \in {17, 11, 10, 9, 8, 6} => Returned(d, r - 1) = Returned(d, r)
         /\ kind = "be" /\ d # 0 /\ r \in {11, 2} => Returned(d, r - 1) = Returned(d, r) + 1
         /\ kind = "be" /\ d # 0 /\ r \in {10, 9, 8, 7, 6, 4} => Returned(d, r - 1) = Returned(d, r)
         /\ kind = "mw" /\ d = 0 /\ r \in {7, 3} => Returned(d, r - 1) = Returned(d, r) + 1
         /\ kind = "mw" /\ d = 0 /\ r \in {6} => Returned(d, r - 1) = Returned(d, r)
         /\ kind = "mw" /\ d # 0 /\ r \in {4, 2} => Returned(d, r - 1) = Returned(d, r) + 1
         /\ kind = "mw" /\ d # 0 /\ r \in {3} => Returned(d, r - 1) = Returned(d, r)
  BY DEF Returned

\* d has r steps to go
Left(d, r) == Len(prog[d]) = r

\* d is in a collective of its plan, with r steps to go
LEMMA Collecting ==
  ASSUME HInv, NEW d \in Ranks, Early(d), Collective(d), inside[d], NEW r \in Nat, Left(d, r)
  PROVE  /\ called[d] = Behind(d, r) + 1 /\ Len(codes[d]) = Returned(d, r) /\ Behind(d, r) \in Nat
         /\ r \in 1 .. 23
         /\ Len(Tail(prog[d])) = r - 1 /\ Rests(Tail(prog[d]), Plan(d)) /\ (Tail(prog[d]) = <<>> <=> r = 1)
         /\ Head(prog[d]).arg \in {"none", "returns", "mode", "rm", "size", "table"}
         /\ r = 1 => Returned(d, r) = 2 /\ Head(prog[d]).arg = "returns"
         /\ r > 1 => /\ Behind(d, r - 1) = Behind(d, r) + 1
                     /\ Head(prog[d]).arg = "returns" => Returned(d, r - 1) = Returned(d, r) + 1
                     /\ Head(prog[d]).arg # "returns" => Returned(d, r - 1) = Returned(d, r)
<1>1. /\ d \in Procs /\ d # FE /\ d \in Int /\ st[d] = "up" /\ prog[d] # <<>> /\ Typed /\ kind \in {"be", "mw"}
      /\ OnPlan(d) /\ Counted(d)
      /\ Head(prog[d]).do \in {"barrier", "bcast", "gather"}
  BY ProcsFacts DEF Collective, At, HInv, Typed, Places, Master, Slave
<1>2. called[d] = Behind(d, r) + 1 /\ Len(codes[d]) = Returned(d, r)
  BY <1>1 DEF Counted, Left
<1>3. PICK a : a = Head(prog[d]).arg
  OBVIOUS
<1>4. CASE kind = "be" /\ d = 0
  <2>1. MasterBeMoves(prog[d])
    BY <1>1, <1>4, Positions
  <2>2. /\ Len(Tail(prog[d])) = r - 1 /\ Rests(Tail(prog[d]), Plan(d)) /\ (Tail(prog[d]) = <<>> <=> r = 1)
    BY <2>1, <1>1, <1>4 DEF MasterBeMoves, Plan, Left
  <2>3. /\ r \in {18, 17, 11, 10, 9, 8, 6, 3, 1}
        /\ r \in {18, 3, 1} <=> a = "returns"
        /\ a \in {"none", "returns", "mode", "rm", "size", "table"}
    BY <2>1, <1>1, <1>3 DEF MasterBeMoves, Left
  <2>4. /\ Behind(d, r) \in Nat
        /\ r = 1 => Returned(d, r) = 2
        /\ r > 1 => Behind(d, r - 1) = Behind(d, r) + 1
    BY <1>1, <2>3, <1>4, Counts
  <2>5. r > 1 => \/ r \in {18, 3} /\ a = "returns"
                 \/ r \in {17, 11, 10, 9, 8, 6} /\ a # "returns"
    BY <2>1, <1>1, <1>3 DEF MasterBeMoves, Left
  <2>6. r > 1 => /\ a = "returns" => Returned(d, r - 1) = Returned(d, r) + 1
                 /\ a # "returns" => Returned(d, r - 1) = Returned(d, r)
    BY <1>1, <1>4, <2>5, CodeCounts
  <2> QED
    BY <1>2, <1>3, <2>2, <2>3, <2>4, <2>6
<1>5. CASE kind = "be" /\ d # 0
  <2>1. SlaveBeMoves(prog[d])
    BY <1>1, <1>5, Positions
  <2>2. /\ Len(Tail(prog[d])) = r - 1 /\ Rests(Tail(prog[d]), Plan(d)) /\ (Tail(prog[d]) = <<>> <=> r = 1)
    BY <2>1, <1>1, <1>5 DEF SlaveBeMoves, Plan, Left
  <2>3. /\ r \in {11, 10, 9, 8, 7, 6, 4, 2, 1}
        /\ r \in {11, 2, 1} <=> a = "returns"
        /\ a \in {"none", "returns", "mode", "rm", "size", "table"}
    BY <2>1, <1>1, <1>3 DEF SlaveBeMoves, Left
  <2>4. /\ Behind(d, r) \in Nat
        /\ r = 1 => Returned(d, r) = 2
        /\ r > 1 => Behind(d, r - 1) = Behind(d, r) + 1
    BY <1>1, <2>3, <1>5, Counts
  <2>5. r > 1 => \/ r \in {11, 2} /\ a = "returns"
                 \/ r \in {10, 9, 8, 7, 6, 4} /\ a # "returns"
    BY <2>1, <1>1, <1>3 DEF SlaveBeMoves, Left
  <2>6. r > 1 => /\ a = "returns" => Returned(d, r - 1) = Returned(d, r) + 1
                 /\ a # "returns" => Returned(d, r - 1) = Returned(d, r)
    BY <1>1, <1>5, <2>5, CodeCounts
  <2> QED
    BY <1>2, <1>3, <2>2, <2>3, <2>4, <2>6
<1>6. CASE kind = "mw" /\ d = 0
  <2>1. MasterMwMoves(prog[d])
    BY <1>1, <1>6, Positions
  <2>2. /\ Len(Tail(prog[d])) = r - 1 /\ Rests(Tail(prog[d]), Plan(d)) /\ (Tail(prog[d]) = <<>> <=> r = 1)
    BY <2>1, <1>1, <1>6 DEF MasterMwMoves, Plan, Left
  <2>3. /\ r \in {7, 6, 3, 1}
        /\ r \in {7, 3, 1} <=> a = "returns"
        /\ a \in {"none", "returns", "mode", "rm", "size", "table"}
    BY <2>1, <1>1, <1>3 DEF MasterMwMoves, Left
  <2>4. /\ Behind(d, r) \in Nat
        /\ r = 1 => Returned(d, r) = 2
        /\ r > 1 => Behind(d, r - 1) = Behind(d, r) + 1
    BY <1>1, <2>3, <1>6, Counts
  <2>5. r > 1 => \/ r \in {7, 3} /\ a = "returns"
                 \/ r \in {6} /\ a # "returns"
    BY <2>1, <1>1, <1>3 DEF MasterMwMoves, Left
  <2>6. r > 1 => /\ a = "returns" => Returned(d, r - 1) = Returned(d, r) + 1
                 /\ a # "returns" => Returned(d, r - 1) = Returned(d, r)
    BY <1>1, <1>6, <2>5, CodeCounts
  <2> QED
    BY <1>2, <1>3, <2>2, <2>3, <2>4, <2>6
<1>7. CASE kind = "mw" /\ d # 0
  <2>1. SlaveMwMoves(prog[d])
    BY <1>1, <1>7, Positions
  <2>2. /\ Len(Tail(prog[d])) = r - 1 /\ Rests(Tail(prog[d]), Plan(d)) /\ (Tail(prog[d]) = <<>> <=> r = 1)
    BY <2>1, <1>1, <1>7 DEF SlaveMwMoves, Plan, Left
  <2>3. /\ r \in {4, 3, 2, 1}
        /\ r \in {4, 2, 1} <=> a = "returns"
        /\ a \in {"none", "returns", "mode", "rm", "size", "table"}
    BY <2>1, <1>1, <1>3 DEF SlaveMwMoves, Left
  <2>4. /\ Behind(d, r) \in Nat
        /\ r = 1 => Returned(d, r) = 2
        /\ r > 1 => Behind(d, r - 1) = Behind(d, r) + 1
    BY <1>1, <2>3, <1>7, Counts
  <2>5. r > 1 => \/ r \in {4, 2} /\ a = "returns"
                 \/ r \in {3} /\ a # "returns"
    BY <2>1, <1>1, <1>3 DEF SlaveMwMoves, Left
  <2>6. r > 1 => /\ a = "returns" => Returned(d, r - 1) = Returned(d, r) + 1
                 /\ a # "returns" => Returned(d, r - 1) = Returned(d, r)
    BY <1>1, <1>7, <2>5, CodeCounts
  <2> QED
    BY <1>2, <1>3, <2>2, <2>3, <2>4, <2>6
<1> QED
  BY <1>1, <1>4, <1>5, <1>6, <1>7

LEMMA ReturnedRange ==
  ASSUME NEW d \in Int, NEW r \in Nat
  PROVE  Returned(d, r) \in {0, 1, 2}
  BY DEF Returned

\* where d is when it has left a collective of its plan
LEMMA RankReturns ==
  ASSUME HInv, NEW d \in Ranks, Early(d), Collective(d), inside[d], NEW r \in Nat, Left(d, r),
         kind' = kind, called'[d] = called[d], inside'[d] = FALSE,
         prog'[d] = Tail(prog[d]), st'[d] = st[d],
         Head(prog[d]).arg = "returns" => Len(codes'[d]) = Len(codes[d]) + 1,
         Head(prog[d]).arg # "returns" => codes'[d] = codes[d]
  PROVE  /\ r = 1 => ~Early(d)' /\ prog'[d] = <<>>
         /\ r > 1 => Early(d)' /\ ~Later(d)' /\ OnPlan(d)' /\ Counted(d)' /\ Left(d, r - 1)'
<1>1. PICK a : a = Head(prog[d]).arg
  OBVIOUS
<1>2. d # FE /\ d \in Procs /\ Len(codes[d]) \in Nat /\ st[d] = "up" /\ Len(codes[d]) < 3 /\ d \in Int
      /\ kind \in {"be", "mw"}
  BY ProcsFacts, LenProperties DEF HInv, Typed, Early
<1>3. /\ called[d] = Behind(d, r) + 1 /\ Len(codes[d]) = Returned(d, r) /\ Behind(d, r) \in Nat
      /\ r \in 1 .. 23
      /\ Len(Tail(prog[d])) = r - 1 /\ Rests(Tail(prog[d]), Plan(d)) /\ (Tail(prog[d]) = <<>> <=> r = 1)
      /\ r = 1 => Returned(d, r) = 2 /\ a = "returns"
      /\ r > 1 => /\ Behind(d, r - 1) = Behind(d, r) + 1
                  /\ a = "returns" => Returned(d, r - 1) = Returned(d, r) + 1
                  /\ a # "returns" => Returned(d, r - 1) = Returned(d, r)
  BY <1>1, Collecting
<1>4. Len(codes'[d]) = Returned(d, r) + IF a = "returns" THEN 1 ELSE 0
  BY <1>1, <1>3
<1>5. ASSUME r = 1 PROVE ~Early(d)' /\ prog'[d] = <<>>
  <2>1. Len(codes'[d]) = 3
    BY <1>3, <1>4, <1>5
  <2> QED
    BY <1>2, <1>3, <1>5, <2>1 DEF Early
<1>6. ASSUME r > 1
      PROVE  Early(d)' /\ ~Later(d)' /\ OnPlan(d)' /\ Counted(d)' /\ Left(d, r - 1)'
  <2>1. PICK s \in Nat : s = r - 1 /\ r \in 2 .. 23
    BY <1>3, <1>6
  <2>2. Len(codes'[d]) = Returned(d, s) /\ called[d] = Behind(d, s)
    BY <1>1, <1>3, <1>4, <1>6, <2>1
  <2>3. Returned(d, s) \in {0, 1, 2}
    BY <1>2, <2>1, ReturnedRange
  <2>4. Early(d)' /\ ~Later(d)'
    BY <1>2, <2>2, <2>3 DEF Early, Later
  <2>5. OnPlan(d)'
    <3>1. Tail(prog[d]) # <<>> /\ Rests(Tail(prog[d]), Plan(d)) /\ Plan(d)' = Plan(d)
      BY <1>3, <1>6 DEF Plan
    <3> QED
      BY <3>1 DEF OnPlan
  <2>6. Len(prog'[d]) = s
    BY <1>3, <2>1
  <2>7. Behind(d, s)' = Behind(d, s) /\ Returned(d, s)' = Returned(d, s)
    BY DEF Behind, Returned
  <2>8. Behind(d, s) \in Int
    BY <1>2, <2>1 DEF Behind
  <2>9. Behind(d, Len(prog[d]))' = Behind(d, s) /\ Returned(d, Len(prog[d]))' = Returned(d, s)
    BY <2>6 DEF Behind, Returned
  <2>10. called'[d] = Behind(d, s) + 0
    BY <2>2, <2>8
  <2>11. Counted(d)'
    BY <2>2, <2>9, <2>10 DEF Counted
  <2>12. Left(d, r - 1)'
    BY <2>1, <2>6 DEF Left
  <2> QED
    BY <2>4, <2>5, <2>11, <2>12
<1> QED
  BY <1>3, <1>5, <1>6

\* whom d has waited for
LEMMA Arrived ==
  ASSUME HInv, NEW d \in Ranks, Leave(d)
  PROVE  /\ Head(prog[d]).do = "barrier" => All(called[d])
         /\ Head(prog[d]).do = "bcast" => called[d] \in 1 .. Len(root) /\ root[called[d]] \in Values
<1>1. /\ d \in Procs /\ d # FE /\ st[d] = "up" /\ prog[d] # <<>> /\ Typed /\ 0 \in Ranks
      /\ Collective(d) /\ inside[d]
      /\ \A q \in Promise!Awaited(Head(prog[d]).do, d) : called[q] >= called[d]
  BY ProcsFacts DEF Leave, Collective, At, HInv
<1>2. ASSUME Head(prog[d]).do = "barrier" PROVE All(called[d])
  <2>1. Promise!Awaited("barrier", d) = Ranks
    BY DEF Promise!Awaited, Promise!Ranks, Ranks
  <2> QED
    BY <1>1, <1>2, <2>1 DEF All
<1>3. ASSUME Head(prog[d]).do = "bcast" PROVE called[d] \in 1 .. Len(root) /\ root[called[d]] \in Values
  <2>1. 0 \in Promise!Awaited("bcast", d)
    BY DEF Promise!Awaited
  <2>2. called[0] >= called[d] /\ called[0] \in Nat /\ called[d] \in Nat /\ Len(root) = called[0]
        /\ root \in Seq(Values)
    BY <1>1, <1>3, <2>1 DEF Typed
  <2>3. called[d] >= 1
    <3>1. CASE Early(d)
      <4>1. PICK r \in Nat : Left(d, r)
        BY <1>1, LenProperties DEF Typed, Left
      <4> QED
        BY <1>1, <2>2, <3>1, <4>1, Collecting
    <3>2. CASE Ready
      BY <2>2, <3>2 DEF Ready, All
    <3> QED
      BY <1>1, <3>1, <3>2, Stage
  <2> QED
    BY <2>2, <2>3, ElementOfSeq
<1> QED
  BY <1>2, <1>3

Shares == {"mode", "rm", "size", "table"}

\* a broadcast changes one field of one process
LEMMA BroadcastKnows ==
  ASSUME Typed, NEW d \in Ranks, NEW f \in {"mode", "rm", "size", "table", "lrc", "leng", "lmonpl"},
         NEW v \in Values
  PROVE  /\ Broadcast(d, f, v) \in [Procs -> Knowledge]
         /\ \A q \in Procs \ {d} : Broadcast(d, f, v)[q] = know[q]
         /\ \A g \in Shares : Broadcast(d, f, v)[d][g] = IF g = f THEN v ELSE know[d][g]
         /\ f = "lrc" => Broadcast(d, f, v)[d].lrc = IF BigEndian /\ d # 0 THEN "OK" ELSE v
<1>1. d \in Procs /\ know \in [Procs -> Knowledge] /\ know[d] \in Knowledge
  BY ProcsFacts DEF Typed
<1>2. PICK w \in Values : /\ w = IF f = "lrc" /\ BigEndian /\ d # 0 THEN "OK" ELSE v
                          /\ f # "lrc" => w = v
  BY ValueFacts
<1>3. Broadcast(d, f, v) = [know EXCEPT ![d] = [know[d] EXCEPT ![f] = w]]
  BY <1>1, <1>2 DEF Broadcast
<1>4. /\ [know[d] EXCEPT ![f] = w] \in Knowledge
      /\ \A g \in Shares : [know[d] EXCEPT ![f] = w][g] = IF g = f THEN w ELSE know[d][g]
      /\ f = "lrc" => [know[d] EXCEPT ![f] = w].lrc = w
  <2>1. CASE f = "mode"
    BY <1>1, <2>1 DEF Knowledge, Shares
  <2>2. CASE f = "rm"
    BY <1>1, <2>2 DEF Knowledge, Shares
  <2>3. CASE f = "size"
    BY <1>1, <2>3 DEF Knowledge, Shares
  <2>4. CASE f = "table"
    BY <1>1, <2>4 DEF Knowledge, Shares
  <2>5. CASE f = "lrc"
    BY <1>1, <2>5 DEF Knowledge, Shares
  <2>6. CASE f = "leng"
    BY <1>1, <2>6 DEF Knowledge, Shares
  <2>7. CASE f = "lmonpl"
    BY <1>1, <2>7 DEF Knowledge, Shares
  <2> QED
    BY <2>1, <2>2, <2>3, <2>4, <2>5, <2>6, <2>7
<1>5. "lrc" \notin Shares
  BY DEF Shares
<1> QED
  BY <1>1, <1>2, <1>3, <1>4, <1>5

\* what the broadcast that precedes others of the handshake carries
LEMMA RootsSay ==
  ASSUME HInv, kind = "be", NEW n \in Nat, n <= Len(root)
  PROVE  /\ n = 3 => root[n] = know[FE].mode /\ Fixed
         /\ n = 4 => root[n] = "rm"
         /\ n = 5 => root[n] = "sizeT"
         /\ n = 6 => root[n] = "T"
<1>1. Roots /\ Len(root) \in Nat
  BY LenProperties DEF HInv, Shared, Typed
<1> QED
  BY <1>1 DEF Roots

\* what d knows when it has left a collective
LEMMA LeaveKnows ==
  ASSUME HInv, NEW d \in Ranks, Leave(d)
  PROVE  /\ know' \in [Procs -> Knowledge]
         /\ \A q \in Procs \ {d} : know'[q] = know[q]
         /\ Head(prog[d]).do # "bcast" => know' = know
         /\ Head(prog[d]).do = "bcast" =>
              \A g \in Shares : know'[d][g] = IF g = Head(prog[d]).arg THEN root[called[d]] ELSE know[d][g]
         /\ At(d, "bcast") /\ Head(prog[d]).arg = "lrc" =>
              know'[d].lrc = IF BigEndian /\ d # 0 THEN "OK" ELSE root[called[d]]
<1>1. d \in Procs /\ Typed /\ st[d] = "up" /\ prog[d] # <<>>
  BY ProcsFacts DEF HInv, Leave, Collective, At
<1>2. CASE Head(prog[d]).do = "bcast"
  <2>1. root[called[d]] \in Values /\ At(d, "bcast")
    BY <1>1, <1>2, Arrived DEF At
  <2>2. Head(prog[d]).arg \in {"mode", "rm", "size", "table", "lrc", "leng", "lmonpl"}
    BY <2>1, BcastField
  <2>3. know' = Broadcast(d, Head(prog[d]).arg, root[called[d]])
    BY <1>2 DEF Leave
  <2> QED
    BY <1>1, <1>2, <2>1, <2>2, <2>3, BroadcastKnows
<1>3. CASE Head(prog[d]).do # "bcast"
  <2>1. know' = know
    BY <1>3 DEF Leave
  <2> QED
    BY <1>1, <1>3, <2>1 DEF Typed, At
<1> QED
  BY <1>2, <1>3

\* a slave leaves a broadcast with what the master has put in
LEMMA SlaveLeaves ==
  ASSUME HInv, NEW d \in Ranks \ {0}, Early(d), Leave(d), Grows, st'[d] = st[d],
         called'[d] = called[d], inside'[d] = FALSE, prog'[d] = Tail(prog[d]), synced' = synced,
         Head(prog[d]).arg = "returns" => Len(codes'[d]) = Len(codes[d]) + 1,
         Head(prog[d]).arg # "returns" => codes'[d] = codes[d]
  PROVE  Slave(d)'
<1>1. /\ d \in Ranks /\ d \in Procs /\ d # FE /\ FE \in Procs /\ d # 0 /\ d \in Int /\ OnPlan(d) /\ SlavePlace(d) /\ Typed
      /\ kind \in {"be", "mw"} /\ kind' = kind /\ Collective(d) /\ inside[d] /\ called[d] \in Nat
  BY ProcsFacts DEF HInv, Places, Slave, Typed, Grows, Leave
<1>2. PICK r \in Nat : Left(d, r)
  BY <1>1, LenProperties DEF Typed, Left
<1>3. /\ called[d] = Behind(d, r) + 1 /\ r \in 1 .. 23
      /\ r = 1 => Head(prog[d]).arg = "returns"
  BY <1>1, <1>2, Collecting
<1>4. /\ r = 1 => ~Early(d)' /\ prog'[d] = <<>>
      /\ r > 1 => Early(d)' /\ ~Later(d)' /\ OnPlan(d)' /\ Counted(d)' /\ Left(d, r - 1)'
  BY <1>1, <1>2, RankReturns
<1>5. CASE r = 1
  <2>1. Head(prog[d]).do = "barrier"
    <3>1. CASE kind = "be"
      <4>1. SlaveBeMoves(prog[d])
        BY <1>1, <3>1, Positions
      <4> QED
        BY <1>2, <1>5, <4>1 DEF SlaveBeMoves, Left
    <3>2. CASE kind = "mw"
      <4>1. SlaveMwMoves(prog[d])
        BY <1>1, <3>2, Positions
      <4> QED
        BY <1>2, <1>5, <4>1 DEF SlaveMwMoves, Left
    <3> QED
      BY <1>1, <3>1, <3>2
  <2>2. All(called[d])
    BY <2>1, Arrived
  <2>3. (kind = "be" => called[d] = 9) /\ (kind = "mw" => called[d] = 4)
    BY <1>1, <1>3, <1>5 DEF Behind
  <2>4. Ready
    <3>1. \A e \in Ranks : called[e] \in Nat /\ called[e] >= called[d]
      BY <1>1, <2>2 DEF All, Typed
    <3> QED
      BY <1>1, <2>3, <3>1 DEF Ready, All
  <2>5. Ready'
    BY <2>4, Growing
  <2> QED
    BY <1>4, <1>5, <2>5, EmptySeq DEF Slave
<1>6. CASE r > 1
  <2>1. ASSUME kind = "be" PROVE SlavePlace(d)'
    <3>1. SlaveBeMoves(prog[d])
      BY <1>1, <2>1, Positions
    <3>2. PICK a, o : a = Head(prog[d]).arg /\ o = Head(prog[d]).do
      OBVIOUS
    <3>3. /\ r \in {11, 10, 9, 8, 7, 6, 5, 4, 3, 2, 1}
          /\ r = 9 => o = "bcast" /\ a = "mode"
          /\ r = 8 => o = "bcast" /\ a = "rm"
          /\ r = 7 => o = "bcast" /\ a = "size"
          /\ r = 6 => o = "bcast" /\ a = "table"
          /\ r \in {11, 10, 5, 4, 3, 2, 1} => o # "bcast"
      BY <1>2, <3>1, <3>2 DEF SlaveBeMoves, Left
    <3>4. /\ r <= 8 => know[d].mode = know[FE].mode /\ Fixed
          /\ r <= 8 - 1 => know[d].rm = "rm"
          /\ r <= 8 - 2 => know[d].size = "sizeT"
          /\ r <= 8 - 3 => know[d].table = "T"
          /\ r <= 4 => synced[d] # <<>>
      BY <1>1, <1>2, <2>1 DEF SlavePlace, Knows, Left
    <3>5. /\ r = 9 => called[d] = 3
          /\ r = 8 => called[d] = 4
          /\ r = 7 => called[d] = 5
          /\ r = 6 => called[d] = 6
      BY <1>1, <1>3, <2>1 DEF Behind
    <3>6. o = "bcast" => called[d] <= Len(root)
      BY <1>1, <3>2, Arrived
    <3>7. /\ r = 9 => root[called[d]] = know[FE].mode /\ Fixed
          /\ r = 8 => root[called[d]] = "rm"
          /\ r = 7 => root[called[d]] = "sizeT"
          /\ r = 6 => root[called[d]] = "T"
      BY <1>1, <2>1, <3>3, <3>5, <3>6, RootsSay
    <3>8. /\ know'[FE] = know[FE] /\ (Fixed <=> Fixed')
          /\ o # "bcast" => \A g \in Shares : know'[d][g] = know[d][g]
          /\ o = "bcast" => \A g \in Shares : know'[d][g] = IF g = a THEN root[called[d]] ELSE know[d][g]
      BY <1>1, <3>2, LeaveKnows DEF Fixed
    <3>9. /\ know'[d].mode = IF r = 9 THEN root[called[d]] ELSE know[d].mode
          /\ know'[d].rm = IF r = 8 THEN root[called[d]] ELSE know[d].rm
          /\ know'[d].size = IF r = 7 THEN root[called[d]] ELSE know[d].size
          /\ know'[d].table = IF r = 6 THEN root[called[d]] ELSE know[d].table
      <4>1. CASE r = 9
        BY <3>3, <3>8, <4>1 DEF Shares
      <4>2. CASE r = 8
        BY <3>3, <3>8, <4>2 DEF Shares
      <4>3. CASE r = 7
        BY <3>3, <3>8, <4>3 DEF Shares
      <4>4. CASE r = 6
        BY <3>3, <3>8, <4>4 DEF Shares
      <4>5. CASE r \in {11, 10, 5, 4, 3, 2, 1}
        BY <3>3, <3>8, <4>5 DEF Shares
      <4> QED
        BY <3>3, <4>1, <4>2, <4>3, <4>4, <4>5
    <3>10. PICK s \in Nat : s = r - 1
      BY <1>3
    <3>11. /\ s <= 8 => know'[d].mode = know'[FE].mode /\ Fixed'
           /\ s <= 8 - 1 => know'[d].rm = "rm"
           /\ s <= 8 - 2 => know'[d].size = "sizeT"
           /\ s <= 8 - 3 => know'[d].table = "T"
      BY <3>3, <3>4, <3>7, <3>8, <3>9, <3>10
    <3>12. s <= 4 => synced'[d] # <<>>
      <4>1. r # 5
        <5>1. Head(prog[d]).do \in {"barrier", "bcast", "gather"}
          BY <1>1 DEF Collective, At
        <5> QED
          BY <1>2, <3>1, <5>1 DEF SlaveBeMoves, Left
      <4> QED
        BY <3>3, <3>4, <3>10, <4>1
    <3>13. Len(prog'[d]) = s
      BY <1>4, <1>6, <3>10 DEF Left
    <3> QED
      BY <3>11, <3>12, <3>13 DEF SlavePlace, Knows
  <2>2. SlavePlace(d)'
    BY <1>1, <2>1 DEF SlavePlace
  <2> QED
    BY <1>4, <1>6, <2>2 DEF Slave
<1>7. r = 1 \/ r > 1
  BY <1>3, SMTT(30)
<1> QED
  BY Zenon, <1>5, <1>6, <1>7

\* the master leaves a barrier when all have entered it, so behind the barrier
\* after procctl_init all are synchronized, and behind the last all are ready
LEMMA MasterLeaves ==
  ASSUME HInv, Early(0), Leave(0), Grows, st'[0] = st[0],
         called'[0] = called[0], inside'[0] = FALSE, prog'[0] = Tail(prog[0]), synced' = synced, hdr' = hdr,
         Head(prog[0]).arg = "returns" => Len(codes'[0]) = Len(codes[0]) + 1,
         Head(prog[0]).arg # "returns" => codes'[0] = codes[0]
  PROVE  Master'
<1>1. /\ 0 \in Ranks /\ 0 \in Procs /\ 0 # FE /\ FE \in Procs /\ OnPlan(0) /\ MasterPlace /\ Typed
      /\ kind \in {"be", "mw"} /\ kind' = kind /\ Collective(0) /\ inside[0] /\ called[0] \in Nat
      /\ Head(prog[0]).do \in {"barrier", "bcast", "gather"}
  BY ProcsFacts DEF HInv, Places, Master, Typed, Grows, Leave, Collective, At
<1>2. PICK r \in Nat : Left(0, r)
  BY <1>1, LenProperties DEF Typed, Left
<1>3. called[0] = Behind(0, r) + 1 /\ r \in 1 .. 23
  BY <1>1, <1>2, Collecting
<1>4. /\ r = 1 => ~Early(0)' /\ prog'[0] = <<>>
      /\ r > 1 => Early(0)' /\ ~Later(0)' /\ OnPlan(0)' /\ Counted(0)' /\ Left(0, r - 1)'
  BY <1>1, <1>2, RankReturns
<1>5. PICK a, o : a = Head(prog[0]).arg /\ o = Head(prog[0]).do
  OBVIOUS
<1>6. r <= 2 => Ready
  BY <1>1, <1>2 DEF MasterPlace, Left
<1>7. CASE r = 1
  <2>1. Ready
    BY <1>6, <1>7
  <2>2. Ready' /\ ~Early(0)' /\ prog'[0] = <<>>
    BY <1>4, <1>7, <2>1, Growing
  <2> QED
    BY <2>2, EmptySeq DEF Master
<1>8. o = "barrier" => \A e \in Ranks : called[e] \in Nat /\ called[e] >= called[0]
  BY <1>1, <1>5, Arrived DEF All, Typed
<1>9. ASSUME kind = "be", r > 1 PROVE MasterPlace'
  <2>1. MasterBeMoves(prog[0])
    BY <1>1, <1>9, Positions
  <2>2. /\ r \in {18, 17, 11, 10, 9, 8, 6, 3, 1}
        /\ r = 11 => o = "bcast" /\ a = "mode"
        /\ r = 10 => o = "bcast" /\ a = "rm"
        /\ r = 9 => o = "bcast" /\ a = "size"
        /\ r = 8 => o = "bcast" /\ a = "table"
        /\ r \in {18, 6, 3, 1} => o = "barrier"
        /\ r = 17 => o = "gather"
    <3>1. /\ r \in 1 .. 23
          /\ r = 23 => o = "key"
          /\ r \in {19, 20, 21, 22} => o = "write"
          /\ r = 18 => o = "barrier"
          /\ r = 17 => o = "gather"
          /\ r = 16 => o = "write"
          /\ r = 15 => o = "read"
          /\ r = 14 => o = "read"
          /\ r = 13 => o = "read"
          /\ r = 12 => o = "read"
          /\ r = 7 => o = "procctl_init"
          /\ r = 6 => o = "barrier"
          /\ r = 5 => o = "write"
          /\ r = 4 => o = "procctl_initdone"
          /\ r = 3 => o = "barrier"
          /\ r = 2 => o = "write"
          /\ r = 1 => o = "barrier"
      BY <1>2, <1>5, <2>1 DEF MasterBeMoves, Left
    <3>2. /\ r = 11 => o = "bcast" /\ a = "mode"
          /\ r = 10 => o = "bcast" /\ a = "rm"
          /\ r = 9 => o = "bcast" /\ a = "size"
          /\ r = 8 => o = "bcast" /\ a = "table"
      BY <1>1, <1>2, <1>5, <2>1 DEF MasterBeMoves, Left
    <3>3. o \in {"barrier", "bcast", "gather"}
      BY <1>1, <1>5
    <3> QED
      BY <3>1, <3>2, <3>3
  <2>3. /\ r >= 15 => hdr[0] = "junk"
        /\ r <= 14 => know[0].table = "T" /\ know[0].size = "sizeT"
        /\ r <= 13 => know[0].mode = know[FE].mode /\ Fixed
        /\ r <= 12 => know[0].rm = "rm"
        /\ r <= 6  => synced[0] # <<>>
        /\ r <= 5  => All(7)
    BY <1>1, <1>2, <1>9 DEF MasterPlace, Left
  <2>4. /\ r = 11 => called[0] = 3
        /\ r = 10 => called[0] = 4
        /\ r = 9 => called[0] = 5
        /\ r = 8 => called[0] = 6
        /\ r = 6 => called[0] = 7
        /\ r = 3 => called[0] = 8
    BY <1>3, <1>9 DEF Behind
  <2>5. o = "bcast" => called[0] <= Len(root)
    BY <1>1, <1>5, Arrived
  <2>6. /\ r = 11 => root[called[0]] = know[FE].mode /\ Fixed
        /\ r = 10 => root[called[0]] = "rm"
        /\ r = 9 => root[called[0]] = "sizeT"
        /\ r = 8 => root[called[0]] = "T"
    BY <1>1, <1>9, <2>2, <2>4, <2>5, RootsSay
  <2>7. /\ know'[FE] = know[FE] /\ (Fixed <=> Fixed')
        /\ o # "bcast" => \A g \in Shares : know'[0][g] = know[0][g]
        /\ o = "bcast" => \A g \in Shares : know'[0][g] = IF g = a THEN root[called[0]] ELSE know[0][g]
    <3>1. know'[FE] = know[FE] /\ (o # "bcast" => know' = know)
          /\ (o = "bcast" => \A g \in Shares : know'[0][g] = IF g = a THEN root[called[0]] ELSE know[0][g])
      BY <1>1, <1>5, LeaveKnows
    <3> QED
      BY <3>1 DEF Fixed
  <2>8. /\ know'[0].mode = IF r = 11 THEN root[called[0]] ELSE know[0].mode
        /\ know'[0].rm = IF r = 10 THEN root[called[0]] ELSE know[0].rm
        /\ know'[0].size = IF r = 9 THEN root[called[0]] ELSE know[0].size
        /\ know'[0].table = IF r = 8 THEN root[called[0]] ELSE know[0].table
    <3>1. CASE r = 11
      BY <2>2, <2>7, <3>1 DEF Shares
    <3>2. CASE r = 10
      BY <2>2, <2>7, <3>2 DEF Shares
    <3>3. CASE r = 9
      BY <2>2, <2>7, <3>3 DEF Shares
    <3>4. CASE r = 8
      BY <2>2, <2>7, <3>4 DEF Shares
    <3>5. CASE r \in {18, 17, 6, 3, 1}
      <4>1. o # "bcast"
        BY <2>2, <3>5
      <4> QED
        BY <2>7, <3>5, <4>1 DEF Shares
    <3> QED
      BY <2>2, <3>1, <3>2, <3>3, <3>4, <3>5
  <2>9. PICK s \in Nat : s = r - 1
    BY <1>3
  <2>10. All(7) => All(7)'
    BY Growing
  <2>11. r = 6 => All(7)
    <3>1. r = 6 => \A e \in Ranks : called[e] >= 7
      BY <1>8, <2>2, <2>4
    <3> QED
      BY <3>1 DEF All
  <2>12. r = 3 => Ready
    <3>1. r = 3 => \A e \in Ranks : called[e] >= 8
      BY <1>8, <2>2, <2>4
    <3> QED
      BY <1>9, <3>1 DEF All, Ready
  <2>13. /\ s >= 15 => hdr'[0] = "junk"
         /\ s <= 14 => know'[0].table = "T" /\ know'[0].size = "sizeT"
         /\ s # 14 /\ s # 13
         /\ s <= 13 => know'[0].mode = know'[FE].mode /\ Fixed'
         /\ s <= 12 => know'[0].rm = "rm"
         /\ s <= 6  => synced'[0] # <<>>
         /\ s <= 5  => All(7)'
    BY <2>2, <2>3, <2>6, <2>7, <2>8, <2>9, <2>10, <2>11
  <2>14. s <= 2 => Ready'
    BY <1>6, <2>2, <2>9, <2>12, Growing
  <2>15. Len(prog'[0]) = s
    BY <1>4, <1>9, <2>9 DEF Left
  <2> QED
    BY <2>13, <2>14, <2>15 DEF MasterPlace
<1>10. ASSUME kind = "mw", r > 1 PROVE MasterPlace'
  <2>1. MasterMwMoves(prog[0])
    BY <1>1, <1>10, Positions
  <2>2. r \in {7, 6, 3, 1} /\ (r = 3 => o = "barrier")
    BY <1>1, <1>2, <1>5, <2>1 DEF MasterMwMoves, Left
  <2>3. r = 3 => called[0] = 3
    BY <1>3, <1>10 DEF Behind
  <2>4. r = 3 => Ready
    <3>1. r = 3 => \A e \in Ranks : called[e] >= 3
      BY <1>8, <2>2, <2>3
    <3> QED
      BY <1>10, <3>1 DEF All, Ready
  <2>5. PICK s \in Nat : s = r - 1
    BY <1>3
  <2>6. s <= 2 => Ready'
    BY <1>6, <2>2, <2>4, <2>5, Growing
  <2>7. Len(prog'[0]) = s /\ kind' # "be"
    BY <1>1, <1>4, <1>10, <2>5 DEF Left
  <2> QED
    BY <2>6, <2>7 DEF MasterPlace
<1>11. CASE r > 1
  BY <1>1, <1>4, <1>9, <1>10, <1>11 DEF Master
<1> QED
  BY <1>3, <1>7, <1>11

\* what leaving a collective returns
LEMMA LeaveWhat ==
  ASSUME HInv, NEW d \in Ranks, Leave(d)
  PROVE  /\ Moves(d)
         /\ \/ st'[d] # "up"
            \/ prog'[d] = Tail(prog[d]) /\ st'[d] = st[d]
         /\ Head(prog[d]).arg = "returns" => prog'[d] = Tail(prog[d]) /\ st'[d] = st[d] /\ codes'[d] = Append(codes[d], "OK")
         /\ Head(prog[d]).arg \notin {"returns", "lmonpl", "lrc"} =>
              prog'[d] = Tail(prog[d]) /\ st'[d] = st[d] /\ codes'[d] = codes[d]
         /\ Head(prog[d]).arg = "lrc" => codes'[d] = Append(codes[d], know'[d].lrc)
         /\ Head(prog[d]).arg = "lmonpl" => codes'[d] = Append(codes[d], "OK")
         /\ Len(codes[d]) \in Nat /\ Len(codes'[d]) \in Nat /\ Len(codes'[d]) >= Len(codes[d])
         /\ Len(codes'[d]) = Len(codes[d]) + 1 \/ codes'[d] = codes[d]
         /\ Head(prog[d]).arg = "returns" => Len(codes'[d]) = Len(codes[d]) + 1
<1>1. d \in Procs /\ Typed /\ prog[d] # <<>> /\ know' \in [Procs -> Knowledge]
      /\ Len(codes[d]) \in Nat
  BY ProcsFacts, LeaveKnows, LenProperties DEF HInv, Leave, Collective, At, Typed
<1>2. CASE Head(prog[d]).arg \in {"returns", "lmonpl"}
  <2>1. ReturnsCode(d, "OK") /\ "OK" \notin Fatal
    BY <1>2 DEF Leave, Fatal
  <2> QED
    BY <1>1, <1>2, <2>1, ValueFacts, Returning
<1>3. CASE Head(prog[d]).arg = "lrc"
  <2>1. ReturnsCode(d, know'[d].lrc)
    BY <1>3 DEF Leave
  <2>2. PICK c \in Values : c = know'[d].lrc
    BY <1>1 DEF Knowledge
  <2>3. ReturnsCode(d, c)
    BY <2>1, <2>2
  <2>4. /\ Moves(d) /\ codes'[d] = Append(codes[d], c) /\ Len(codes'[d]) = Len(codes[d]) + 1
        /\ c \in Fatal => st'[d] # "up"
        /\ c \notin Fatal => prog'[d] = Tail(prog[d]) /\ st'[d] = st[d]
    BY <1>1, <2>3, Returning
  <2> QED
    BY <1>1, <1>3, <2>2, <2>4
<1>4. CASE Head(prog[d]).arg \notin {"returns", "lmonpl", "lrc"}
  <2>1. Advance(d)
    BY <1>4 DEF Leave
  <2> QED
    BY <1>1, <1>4, <2>1, Advancing
<1> QED
  BY <1>2, <1>3, <1>4

\* leaving a collective, in the handshake or in a call after it
LEMMA LeaveKeeps ==
  ASSUME HInv, NEW d \in Ranks, Leave(d)
  PROVE  HInv'
<1>1. /\ d \in Procs /\ d # FE /\ st[d] = "up" /\ prog[d] # <<>> /\ Collective(d) /\ inside[d]
      /\ Typed /\ Shared /\ FE \in Procs /\ 0 \in Ranks
  BY ProcsFacts DEF Leave, Collective, At, HInv
<1>2. /\ UNCHANGED <<kind, script, chan, hdr, called, root, synced, engine>>
      /\ inside' = [inside EXCEPT ![d] = FALSE]
  BY DEF Leave, job, wire
<1>3. /\ know' \in [Procs -> Knowledge] /\ \A q \in Procs \ {d} : know'[q] = know[q]
  BY LeaveKnows
<1>4. Moves(d)
  BY LeaveWhat
<1>5. /\ inside' \in [Ranks -> BOOLEAN] /\ inside'[d] = FALSE
      /\ \A e \in Ranks \ {d} : inside'[e] = inside[e]
  BY <1>1, <1>2 DEF Typed
<1>6. Typed'
  BY <1>1, <1>2, <1>3, <1>4, <1>5 DEF Typed, Moves
<1>7. Grows
  BY <1>1, <1>2, <1>3 DEF Grows, Typed
<1>8. \A q \in Procs \ {d} : Same(q)
  BY <1>2, <1>3, <1>4, <1>5 DEF Same, Moves
<1>9. \/ st'[d] # "up"
      \/ /\ d = 0 => Master'
         /\ d # 0 => Slave(d)'
  <2>1. CASE st'[d] = "up"
    <3>1. prog'[d] = Tail(prog[d]) /\ st'[d] = st[d]
      BY <2>1, LeaveWhat
    <3>2. CASE Early(d)
      <4>1. PICK r \in Nat : Left(d, r)
        BY <1>1, LenProperties DEF Typed, Left
      <4>2. Head(prog[d]).arg \in {"none", "returns", "mode", "rm", "size", "table"}
        BY <1>1, <3>2, <4>1, Collecting
      <4>3. /\ Head(prog[d]).arg = "returns" => Len(codes'[d]) = Len(codes[d]) + 1
            /\ Head(prog[d]).arg # "returns" => codes'[d] = codes[d]
        BY <4>2, LeaveWhat
      <4>4. called'[d] = called[d] /\ inside'[d] = FALSE /\ synced' = synced /\ hdr' = hdr
        BY <1>2, <1>5
      <4>5. d = 0 => Master'
        BY <1>7, <3>1, <3>2, <4>3, <4>4, MasterLeaves
      <4>6. d # 0 => Slave(d)'
        BY <1>7, <3>1, <3>2, <4>3, <4>4, SlaveLeaves
      <4> QED
        BY <4>5, <4>6
    <3>3. CASE Later(d)
      BY <1>1, <1>7, <3>1, <3>3, LeaveWhat, LaterGoes
    <3> QED
      BY <1>1, <3>2, <3>3, Stage
  <2> QED
    BY <2>1
<1>10. Places'
  BY <1>1, <1>7, <1>8, <1>9, OneMoves DEF HInv
<1>11. FrontKnows'
  BY <1>1, <1>3 DEF Shared, FrontKnows
<1>12. Wires' /\ Roots' /\ Released' /\ Syncs'
  <2>1. chan'[FE] \in Seq(UpWords) /\ chan'[0] \in Seq(DownWords)
    BY <1>1, <1>2 DEF Shared, Wires
  <2> QED
    BY <1>1, <1>2, <1>7, <1>11, <2>1, WiresStay, RootsStay, ReleasedStays, SyncsStay DEF Shared
<1>13. Succeeded'
  BY <1>1, <1>4, <1>7, SucceededStays DEF Shared, Moves
<1> QED
  BY <1>6, <1>10, <1>11, <1>12, <1>13 DEF HInv, Shared

-----------------------------------------------------------------------------
(* The front end's steps *)

\* the front end and what it needs of the invariant
LEMMA FrontFacts ==
  ASSUME HInv
  PROVE  /\ FE \in Procs /\ 0 \in Procs /\ FE # 0 /\ Typed /\ Shared /\ kind \in {"be", "mw"}
         /\ prog[FE] \in Seq(Steps) /\ codes[FE] \in Seq(Values) /\ Len(codes[FE]) \in Nat
         /\ know \in [Procs -> Knowledge]
         /\ Early(FE) => /\ codes[FE] = <<>> /\ OnPlan(FE) /\ FrontPlace
                         /\ kind = "be" => FrontBeMoves(prog[FE])
                         /\ kind = "mw" => FrontMwMoves(prog[FE])
         /\ Later(FE) => codes[FE] # <<>>
<1>1. FE \in Procs /\ 0 \in Procs /\ FE # 0 /\ Typed /\ Shared /\ kind \in {"be", "mw"}
  BY ProcsFacts DEF HInv, Typed
<1>2. prog[FE] \in Seq(Steps) /\ codes[FE] \in Seq(Values) /\ know \in [Procs -> Knowledge]
  BY <1>1 DEF Typed
<1>3. Len(codes[FE]) \in Nat /\ (Len(codes[FE]) = 0 <=> codes[FE] = <<>>)
  BY <1>2, LenProperties, EmptySeq
<1>4. ASSUME Early(FE) PROVE codes[FE] = <<>> /\ OnPlan(FE) /\ FrontPlace
  BY <1>3, <1>4 DEF Early, HInv, Places, Front
<1>5. Later(FE) => codes[FE] # <<>>
  BY <1>3 DEF Later
<1> QED
  BY <1>1, <1>2, <1>3, <1>4, <1>5, Positions

\* a step of its handshake that is not the last
LEMMA FrontMovesOn ==
  ASSUME HInv, Early(FE), Head(prog[FE]).do # "return", Grows,
         prog'[FE] = Tail(prog[FE]), st'[FE] = st[FE], codes'[FE] = codes[FE],
         NEW r \in Nat, Left(FE, r),
         kind = "be" /\ r >= 8 => know'[FE].mode = know[FE].mode,
         kind = "be" /\ r = 4 => All(7),
         r = 4 => hdr'[FE] \notin {"ready", "befe_usrdata"},
         r = 3 => hdr'[FE] = hdr[FE],
         r = 2 => Ready
  PROVE  Front'
<1>1. /\ kind' = kind /\ kind \in {"be", "mw"} /\ OnPlan(FE) /\ FrontPlace
      /\ kind = "be" => FrontBeMoves(prog[FE])
      /\ kind = "mw" => FrontMwMoves(prog[FE])
  BY FrontFacts DEF Grows
<1>2. Early(FE)' /\ OnPlan(FE)' /\ Len(prog'[FE]) = Len(prog[FE]) - 1
  BY <1>1, FrontGoes
<1>3. ~Later(FE)'
  <2>1. Len(codes[FE]) \in Nat
    BY FrontFacts
  <2> QED
    BY <1>2, <2>1 DEF Early, Later
<1>4. r \in 2 .. 14
  <2>1. kind = "be" => r \in 1 .. 14 /\ r # 1
    BY <1>1 DEF FrontBeMoves, Left
  <2>2. kind = "mw" => r \in 1 .. 9 /\ r # 1
    BY <1>1 DEF FrontMwMoves, Left
  <2> QED
    BY <1>1, <2>1, <2>2
<1>5. /\ kind = "be" /\ r >= 7 => know[FE].mode = "unset"
      /\ kind = "be" /\ r <= 3 => All(7)
      /\ r \in {2, 3} => hdr[FE] \notin {"ready", "befe_usrdata"}
      /\ r <= 1 => Ready
  BY <1>1 DEF FrontPlace, Left
<1>6. PICK s \in Nat : s = r - 1
  BY <1>4
<1>7. /\ kind = "be" /\ s >= 7 => know'[FE].mode = "unset"
      /\ kind = "be" /\ s <= 3 => All(7)
      /\ s \in {2, 3} => hdr'[FE] \notin {"ready", "befe_usrdata"}
      /\ s <= 1 => Ready
  BY <1>4, <1>5, <1>6
<1>8. (All(7) => All(7)') /\ (Ready => Ready')
  BY Growing
<1>9. Len(prog'[FE]) = s
  BY <1>2, <1>6 DEF Left
<1>10. FrontPlace'
  BY <1>1, <1>7, <1>8, <1>9 DEF FrontPlace
<1> QED
  BY <1>2, <1>3, <1>10 DEF Front

\* the front end sends only what it knows
LEMMA FrontWriteKeeps ==
  ASSUME HInv, write_lmonp_long_msg(FE)
  PROVE  HInv'
<1>1. /\ FE \in Procs /\ FE # 0 /\ st[FE] = "up" /\ prog[FE] # <<>>
      /\ Head(prog[FE]).do = "write" /\ Head(prog[FE]).arg # "mode" /\ Typed /\ Shared /\ kind \in {"be", "mw"}
  BY FrontFacts DEF write_lmonp_long_msg, At
<1>2. UNCHANGED <<kind, script, hdr, called, inside, root, synced, engine, know>>
  BY DEF write_lmonp_long_msg, job, coll, data
<1>3. PICK a : a = Head(prog[FE]).arg
  OBVIOUS
<1>4. PICK pay \in BOOLEAN : Sent(FE, Message(a, Content(FE, a), pay))
  BY <1>3 DEF write_lmonp_long_msg
<1>5. PICK r \in Nat : Left(FE, r)
  BY FrontFacts, LenProperties DEF Left
<1>6. /\ Early(FE) => r \notin {2, 3, 4} /\ a \in {"proctab", "rm_type"}
      /\ Later(FE) => a = "assist_mw_coloc"
  <2>1. ASSUME Early(FE), kind = "be" PROVE r \notin {2, 3, 4} /\ a \in {"proctab", "rm_type"}
    <3>1. FrontBeMoves(prog[FE])
      BY <2>1, FrontFacts
    <3> QED
      BY <1>1, <1>3, <1>5, <3>1 DEF FrontBeMoves, Left
  <2>2. ASSUME Early(FE), kind = "mw" PROVE FALSE
    <3>1. FrontMwMoves(prog[FE])
      BY <2>2, FrontFacts
    <3> QED
      BY <1>1, <3>1 DEF FrontMwMoves
  <2>3. ASSUME Later(FE) PROVE a = "assist_mw_coloc"
    BY <1>1, <1>3, <2>3, Stage, LaterDos
  <2> QED
    BY <1>1, <2>1, <2>2, <2>3
<1>7. a \in {"proctab", "rm_type", "assist_mw_coloc"}
  BY <1>1, <1>6, Stage
<1>8. PICK m : m = Message(a, Content(FE, a), pay)
  OBVIOUS
<1>9. m \in Messages /\ m.type = a /\ m.val = Content(FE, a)
  <2>1. a \in Types /\ Content(FE, a) \in Values
    BY <1>1, <1>7, ContentValue DEF Types
  <2> QED
    BY <1>8, <2>1 DEF Message, Messages
<1>10. m \in DownWords
  <2>1. know[FE].rm = "rm" /\ know[FE].table = "T"
    BY <1>1 DEF Shared, FrontKnows
  <2>2. (a = "proctab" => m.val = "T") /\ (a = "rm_type" => m.val = "rm") /\ a \notin Modes
    BY <1>1, <1>7, <1>9, <2>1, ContentValue DEF Modes
  <2> QED
    BY <1>9, <2>2 DEF DownWords
<1>11. /\ Put(FE, m) /\ Moves(FE) /\ codes'[FE] = codes[FE] /\ Honest(FE)
       /\ \/ st'[FE] # "up"
          \/ prog'[FE] = Tail(prog[FE]) /\ st'[FE] = st[FE]
  BY <1>1, <1>4, <1>8, Sending
<1>12. /\ chan' \in [{FE, 0} -> Seq(Messages)]
       /\ chan'[FE] \in Seq(UpWords) /\ chan'[0] \in Seq(DownWords)
  BY <1>1, <1>9, <1>10, <1>11, Putting DEF Shared
<1>13. Grows
  BY <1>1, <1>2 DEF Grows, Typed
<1>14. st'[FE] # "up" \/ Front'
  <2>1. CASE Early(FE)
    <3>1. know'[FE].mode = know[FE].mode
      BY <1>2
    <3> QED
      BY <1>1, <1>5, <1>6, <1>11, <1>13, <2>1, <3>1, FrontMovesOn
  <2>2. CASE Later(FE)
    <3>1. Len(codes[FE]) \in Nat
      BY FrontFacts
    <3> QED
      BY <1>1, <1>11, <1>13, <2>2, <3>1, LaterGoes
  <2> QED
    BY <1>1, <2>1, <2>2, Stage
<1>15. hdr' \in [{FE, 0} -> Types \cup {"junk"}] /\ \A q \in {FE, 0} \ {FE} : hdr'[q] = hdr[q]
  BY <1>1, <1>2 DEF Typed
<1> QED
  BY <1>1, <1>2, <1>11, <1>12, <1>14, <1>15, OwnStep, ProcsFacts

\* it settles the mode once, before any daemon can have read it
LEMMA ModeKeeps ==
  ASSUME HInv, WriteMode
  PROVE  HInv'
<1>1. /\ FE \in Procs /\ 0 \in Procs /\ FE # 0 /\ st[FE] = "up" /\ prog[FE] # <<>>
      /\ Head(prog[FE]).do = "write" /\ Head(prog[FE]).arg = "mode" /\ Typed /\ Shared /\ kind \in {"be", "mw"}
  BY FrontFacts DEF WriteMode, At
<1>2. UNCHANGED <<kind, script, hdr, called, inside, root, synced, engine>>
  BY DEF WriteMode, job, coll
<1>3. PICK md \in Asked : /\ Sent(FE, Message(md, "none", FALSE))
                          /\ know' = [know EXCEPT ![FE].mode = md]
  BY DEF WriteMode
<1>4. md \in Modes /\ md \in Values /\ md # "unset" /\ md \in Types
  BY DaemonsAssumption, ValueFacts DEF Modes, Types
<1>5. Early(FE)
  BY <1>1, Stage, LaterDos
<1>6. PICK r \in Nat : Left(FE, r)
  BY FrontFacts, LenProperties DEF Left
<1>7. kind = "be" /\ r = 7
  <2>1. ASSUME kind = "mw" PROVE FALSE
    <3>1. FrontMwMoves(prog[FE])
      BY <1>5, <2>1, FrontFacts
    <3> QED
      BY <1>1, <3>1 DEF FrontMwMoves
  <2>2. FrontBeMoves(prog[FE])
    BY <1>1, <1>5, <2>1, FrontFacts
  <2>3. r = 7
    BY <1>1, <1>6, <2>2 DEF FrontBeMoves, Left
  <2> QED
    BY <1>1, <2>1, <2>3
<1>8. know[FE].mode = "unset"
  BY <1>5, <1>6, <1>7, FrontFacts DEF FrontPlace, Left
<1>9. /\ know' \in [Procs -> Knowledge] /\ \A q \in Procs \ {FE} : know'[q] = know[q]
      /\ know'[FE] = [know[FE] EXCEPT !.mode = md]
  <2>1. know \in [Procs -> Knowledge] /\ [know[FE] EXCEPT !.mode = md] \in Knowledge
    BY <1>1, <1>4, ZenonT(60) DEF Typed, Knowledge
  <2>2. know' = [know EXCEPT ![FE] = [know[FE] EXCEPT !.mode = md]]
    BY <1>1, <1>3, <2>1
  <2> QED
    BY <1>1, <2>1, <2>2
<1>10. /\ know'[FE].mode = md /\ know'[FE].rm = know[FE].rm /\ know'[FE].size = know[FE].size
       /\ know'[FE].table = know[FE].table
  <2>1. know[FE] \in Knowledge
    BY <1>1 DEF Typed
  <2> QED
    BY <1>9, <2>1 DEF Knowledge
<1>11. FrontKnows'
  BY <1>1, <1>4, <1>10 DEF Shared, FrontKnows
<1>12. ~Fixed /\ Grows
  BY <1>1, <1>2, <1>8 DEF Fixed, Grows, Typed
<1>13. PICK m : m = Message(md, "none", FALSE)
  OBVIOUS
<1>14. m \in Messages /\ m.type = md
  BY <1>4, <1>13, EmptyValue DEF Message, Messages
<1>15. m \in DownWords'
  <2>1. md \notin {"proctab", "rm_type"}
    BY <1>4 DEF Modes
  <2> QED
    BY <1>10, <1>14, <2>1 DEF DownWords
<1>16. /\ Put(FE, m) /\ Moves(FE) /\ codes'[FE] = codes[FE] /\ Honest(FE)
       /\ \/ st'[FE] # "up"
          \/ prog'[FE] = Tail(prog[FE]) /\ st'[FE] = st[FE]
  BY <1>1, <1>3, <1>13, Sending
<1>17. /\ chan' \in [{FE, 0} -> Seq(Messages)]
       /\ chan'[FE] \in Seq(UpWords') /\ chan'[0] \in Seq(DownWords')
  <2>1. chan[FE] \in Seq(UpWords') /\ chan[0] \in Seq(DownWords') /\ chan \in [{FE, 0} -> Seq(Messages)]
    <3>1. UpWords \subseteq UpWords' /\ DownWords \subseteq DownWords'
      BY <1>12, Growing
    <3>2. chan[FE] \in Seq(UpWords) /\ chan[0] \in Seq(DownWords) /\ chan \in [{FE, 0} -> Seq(Messages)]
      BY <1>1 DEF Shared, Wires, Typed
    <3> QED
      BY <3>1, <3>2, SeqMonotonic
  <2>2. <<>> \in Seq(UpWords') /\ <<>> \in Seq(Messages)
    BY EmptySeq
  <2>3. Append(chan[0], m) \in Seq(DownWords') /\ Append(chan[0], m) \in Seq(Messages)
    <3>1. chan[0] \in Seq(Messages)
      BY <2>1
    <3> QED
      BY <1>14, <1>15, <2>1, <3>1, AppendProperties
  <2>4. chan' \in {chan, [chan EXCEPT ![FE] = <<>>], [chan EXCEPT ![0] = Append(chan[0], m)]}
    BY <1>1, <1>16 DEF Put, Peer
  <2> QED
    BY <1>1, <2>1, <2>2, <2>3, <2>4
<1>18. Wires'
  BY <1>17 DEF Wires
<1>19. Quiet(FE)
  BY <1>1, <1>2, <1>9, <1>16, <1>17 DEF Quiet, Typed
<1>20. st'[FE] # "up" \/ Front'
  BY <1>1, <1>5, <1>6, <1>7, <1>12, <1>16, FrontMovesOn
<1> QED
  BY <1>1, <1>11, <1>12, <1>16, <1>18, <1>19, <1>20, QuietStep, ProcsFacts

\* cont_launch_bp has been sent behind the barrier of all daemons
LEMMA FrontReadKeeps ==
  ASSUME HInv, read_lmonp_msgheader(FE)
  PROVE  HInv'
<1>1. /\ FE \in Procs /\ FE # 0 /\ st[FE] = "up" /\ prog[FE] # <<>>
      /\ Head(prog[FE]).do = "read" /\ Typed /\ Shared /\ kind \in {"be", "mw"}
  BY FrontFacts DEF read_lmonp_msgheader, At
<1>2. Early(FE)
  BY <1>1, Stage, LaterDos
<1>3. UNCHANGED <<kind, script, called, inside, root, synced, engine>>
  BY DEF read_lmonp_msgheader, job, coll
<1>4. PICK a : a = Head(prog[FE]).arg
  OBVIOUS
<1>5. PICK m \in Arrivals(FE) :
        /\ Taken(FE, m)
        /\ hdr' = [hdr EXCEPT ![FE] = IF m = Lost THEN hdr[FE] ELSE m.type]
        /\ \/ Accepted(FE, a, m) /\ know' = Learned(FE, m) /\ Advance(FE)
           \/ Fails(FE, IF m = Lost /\ Checked(a) THEN "ESYS" ELSE "EBDMSG") /\ know' = know
           \/ Dies(FE) /\ know' = know
  BY <1>4 DEF read_lmonp_msgheader
<1>6. /\ chan' \in [{FE, 0} -> Seq(Messages)]
      /\ chan'[FE] \in Seq(UpWords) /\ chan'[0] \in Seq(DownWords)
      /\ m = Lost \/ (m \in Messages /\ m \in UpWords)
  BY <1>1, <1>5, Taking DEF Shared
<1>7. /\ hdr' \in [{FE, 0} -> Types \cup {"junk"}] /\ \A q \in {FE, 0} \ {FE} : hdr'[q] = hdr[q]
      /\ hdr'[FE] = IF m = Lost THEN hdr[FE] ELSE m.type
  <2>1. m # Lost => m.type \in Types
    BY <1>6 DEF Messages
  <2>2. hdr \in [{FE, 0} -> Types \cup {"junk"}]
    BY <1>1 DEF Typed
  <2> QED
    BY <1>5, <2>1, <2>2
<1>8. PICK r \in Nat : Left(FE, r)
  BY FrontFacts, LenProperties DEF Left
<1>9. /\ a \in {"security_chk", "hostname", "cont_launch_bp"}
      /\ r \notin {2, 3}
      /\ kind = "be" /\ r = 4 => a = "cont_launch_bp"
      /\ kind = "mw" /\ r = 4 => a = "hostname"
  <2>1. ASSUME kind = "be"
        PROVE  a \in {"security_chk", "hostname", "cont_launch_bp"} /\ r \notin {2, 3} /\ (r = 4 => a = "cont_launch_bp")
    <3>1. FrontBeMoves(prog[FE])
      BY <1>2, <2>1, FrontFacts
    <3> QED
      BY <1>1, <1>4, <1>8, <3>1 DEF FrontBeMoves, Left
  <2>2. ASSUME kind = "mw"
        PROVE  a \in {"security_chk", "hostname", "cont_launch_bp"} /\ r \notin {2, 3} /\ (r = 4 => a = "hostname")
    <3>1. FrontMwMoves(prog[FE])
      BY <1>2, <2>2, FrontFacts
    <3> QED
      BY <1>1, <1>4, <1>8, <3>1 DEF FrontMwMoves, Left
  <2> QED
    BY <1>1, <2>1, <2>2
<1>10. CASE Accepted(FE, a, m) /\ know' = Learned(FE, m) /\ Advance(FE)
  <2>1. /\ m # Lost => m.type = a
        /\ a # "security_chk" => m # Lost
    BY <1>9, <1>10 DEF Accepted, Expected, Checked
  <2>2. know' = know
    <3>1. m.type \notin {"proctab", "rm_type"} \cup Modes
      BY <1>9, <2>1, LostIsNoMessage DEF Modes
    <3> QED
      BY <1>1, <1>10, <3>1, LearnedWhat
  <2>3. Moves(FE) /\ prog'[FE] = Tail(prog[FE]) /\ st'[FE] = st[FE] /\ codes'[FE] = codes[FE] /\ Honest(FE)
    BY <1>1, <1>10, Advancing
  <2>4. Grows
    BY <1>1, <1>3, <2>2 DEF Grows, Typed
  <2>5. /\ kind = "be" /\ r = 4 => All(7)
        /\ r = 4 => hdr'[FE] \notin {"ready", "befe_usrdata"}
    <3>1. m # Lost => (m.type = "cont_launch_bp" => All(7))
      BY <1>6 DEF UpWords
    <3> QED
      BY <1>1, <1>7, <1>9, <2>1, <3>1
  <2>6. Front'
    BY <1>1, <1>2, <1>8, <1>9, <2>2, <2>3, <2>4, <2>5, FrontMovesOn
  <2> QED
    BY <1>1, <1>3, <1>6, <1>7, <2>2, <2>3, <2>6, OwnStep, ProcsFacts
<1>11. CASE \/ Fails(FE, IF m = Lost /\ Checked(a) THEN "ESYS" ELSE "EBDMSG") /\ know' = know
            \/ Dies(FE) /\ know' = know
  <2>1. Moves(FE) /\ st'[FE] # "up" /\ Honest(FE) /\ know' = know
    BY <1>1, <1>11, Failing, Dying, ValueFacts
  <2> QED
    BY <1>1, <1>3, <1>6, <1>7, <2>1, OwnStep, ProcsFacts
<1> QED
  BY <1>5, <1>10, <1>11

LEMMA SecureKeeps ==
  ASSUME HInv, is_secure
  PROVE  HInv'
<1>1. /\ FE \in Procs /\ FE # 0 /\ st[FE] = "up" /\ prog[FE] # <<>>
      /\ Head(prog[FE]).do = "is_secure" /\ Typed /\ Shared /\ kind \in {"be", "mw"}
  BY FrontFacts DEF is_secure, At
<1>2. UNCHANGED <<kind, script, hdr, chan, called, inside, root, synced, engine, know>>
  BY DEF is_secure, job, wire, coll, data
<1>3. CASE Fails(FE, "ESYS")
  <2>1. Moves(FE) /\ st'[FE] # "up" /\ Honest(FE)
    BY <1>1, <1>3, Failing, ValueFacts
  <2> QED
    BY <1>1, <1>2, <2>1, HaltStep
<1>4. CASE Advance(FE)
  <2>1. Moves(FE) /\ prog'[FE] = Tail(prog[FE]) /\ st'[FE] = st[FE] /\ codes'[FE] = codes[FE] /\ Honest(FE)
    BY <1>1, <1>4, Advancing
  <2>2. Early(FE)
    BY <1>1, Stage, LaterDos
  <2>3. PICK r \in Nat : Left(FE, r)
    BY FrontFacts, LenProperties DEF Left
  <2>4. r \notin {2, 3, 4}
    <3>1. kind = "be" => r = 10
      BY <1>1, <2>2, <2>3, FrontFacts DEF FrontBeMoves, Left
    <3>2. kind = "mw" => r = 5
      BY <1>1, <2>2, <2>3, FrontFacts DEF FrontMwMoves, Left
    <3> QED
      BY <1>1, <3>1, <3>2
  <2>5. Grows
    BY <1>1, <1>2 DEF Grows, Typed
  <2>6. Front'
    BY <1>1, <1>2, <2>1, <2>2, <2>3, <2>4, <2>5, FrontMovesOn
  <2>7. /\ hdr' \in [{FE, 0} -> Types \cup {"junk"}] /\ \A q \in {FE, 0} \ {FE} : hdr'[q] = hdr[q]
        /\ chan' \in [{FE, 0} -> Seq(Messages)]
        /\ chan'[FE] \in Seq(UpWords) /\ chan'[0] \in Seq(DownWords)
    BY <1>1, <1>2 DEF Typed, Shared, Wires
  <2> QED
    BY <1>1, <1>2, <2>1, <2>6, <2>7, OwnStep, ProcsFacts
<1> QED
  BY <1>3, <1>4 DEF is_secure

\* the last step of a handshake or of a call
LEMMA FrontReturnsKeeps ==
  ASSUME HInv, FEReturns
  PROVE  HInv'
<1>1. /\ FE \in Procs /\ FE # 0 /\ st[FE] = "up" /\ prog[FE] # <<>>
      /\ Head(prog[FE]).do = "return" /\ Typed /\ Shared /\ kind \in {"be", "mw"}
      /\ ReturnsCode(FE, "OK") /\ "OK" \notin Fatal
      /\ Len(codes[FE]) \in Nat
  BY FrontFacts DEF FEReturns, At, Fatal
<1>2. UNCHANGED <<kind, script, hdr, chan, called, inside, root, synced, engine, know>>
  BY DEF FEReturns, job, wire, coll, data
<1>3. Early(FE) => Ready /\ Tail(prog[FE]) = <<>>
  <2>1. ASSUME Early(FE), kind = "be" PROVE Len(prog[FE]) = 1 /\ Tail(prog[FE]) = <<>>
    <3>1. FrontBeMoves(prog[FE])
      BY <2>1, FrontFacts
    <3> QED
      BY <1>1, <3>1 DEF FrontBeMoves
  <2>2. ASSUME Early(FE), kind = "mw" PROVE Len(prog[FE]) = 1 /\ Tail(prog[FE]) = <<>>
    <3>1. FrontMwMoves(prog[FE])
      BY <2>2, FrontFacts
    <3> QED
      BY <1>1, <3>1 DEF FrontMwMoves
  <2>3. ASSUME Len(prog[FE]) = 1, FrontPlace PROVE Ready
    BY <2>3 DEF FrontPlace
  <2> QED
    BY <1>1, <2>1, <2>2, <2>3, FrontFacts
<1>4. codes[FE] = <<>> => Ready
  BY <1>1, <1>3, Stage, FrontFacts
<1>5. /\ Moves(FE) /\ Honest(FE) /\ Len(codes'[FE]) = Len(codes[FE]) + 1
      /\ prog'[FE] = Tail(prog[FE]) /\ st'[FE] = st[FE]
  BY <1>1, <1>4, Returning, ValueFacts
<1>6. Grows
  BY <1>1, <1>2 DEF Grows, Typed
<1>7. Front'
  <2>1. CASE Early(FE)
    <3>1. prog'[FE] = <<>> /\ Len(codes'[FE]) = 1
      <4>1. codes[FE] = <<>> /\ Len(codes[FE]) = 0
        BY <2>1, FrontFacts, EmptySeq
      <4> QED
        BY <1>3, <1>5, <2>1, <4>1
    <3>2. ~Early(FE)'
      BY <3>1 DEF Early
    <3> QED
      BY <3>1, <3>2, EmptySeq DEF Front
  <2>2. CASE Later(FE)
    BY <1>1, <1>5, <1>6, <2>2, LaterGoes
  <2> QED
    BY <1>1, <2>1, <2>2, Stage
<1>8. /\ hdr' \in [{FE, 0} -> Types \cup {"junk"}] /\ \A q \in {FE, 0} \ {FE} : hdr'[q] = hdr[q]
      /\ chan' \in [{FE, 0} -> Seq(Messages)]
      /\ chan'[FE] \in Seq(UpWords) /\ chan'[0] \in Seq(DownWords)
  BY <1>1, <1>2 DEF Typed, Shared, Wires
<1> QED
  BY <1>1, <1>2, <1>5, <1>7, <1>8, OwnStep, ProcsFacts

\* so when the engine is told, all are synchronized
LEMMA ToEngineKeeps ==
  ASSUME HInv, ToEngine
  PROVE  HInv'
<1>1. /\ FE \in Procs /\ FE # 0 /\ st[FE] = "up" /\ prog[FE] # <<>>
      /\ Head(prog[FE]).do = "engine" /\ Typed /\ Shared /\ kind \in {"be", "mw"} /\ Advance(FE)
  BY FrontFacts DEF ToEngine, At
<1>2. UNCHANGED <<kind, script, hdr, chan, called, inside, root, synced, know>> /\ engine' = TRUE
  BY DEF ToEngine, job, wire, coll
<1>3. Early(FE)
  BY <1>1, Stage, LaterDos
<1>4. PICK r \in Nat : Left(FE, r)
  BY FrontFacts, LenProperties DEF Left
<1>5. kind = "be" /\ r = 3
  <2>1. kind = "be" => r = 3
    BY <1>1, <1>3, <1>4, FrontFacts DEF FrontBeMoves, Left
  <2>2. kind # "mw"
    <3>1. kind = "mw" => FrontMwMoves(prog[FE])
      BY <1>3, FrontFacts
    <3> QED
      BY <1>1, <3>1 DEF FrontMwMoves
  <2> QED
    BY <1>1, <2>1, <2>2
<1>6. All(7)
  BY <1>3, <1>4, <1>5, FrontFacts DEF FrontPlace, Left
<1>7. Moves(FE) /\ prog'[FE] = Tail(prog[FE]) /\ st'[FE] = st[FE] /\ codes'[FE] = codes[FE]
  BY <1>1, Advancing
<1>8. Grows
  BY <1>1, <1>2 DEF Grows, Typed
<1>9. Front'
  BY <1>1, <1>2, <1>3, <1>4, <1>5, <1>7, <1>8, FrontMovesOn
<1>10. Typed'
  BY <1>1, <1>2, <1>7 DEF Typed, Moves
<1>11. \A q \in Procs \ {FE} : Same(q)
  BY <1>2, <1>7 DEF Same, Moves
<1>12. Places'
  BY <1>1, <1>8, <1>9, <1>11, OneMoves, ProcsFacts DEF HInv
<1>13. FrontKnows'
  BY <1>1, <1>2 DEF Shared, FrontKnows
<1>14. Wires' /\ Roots' /\ Syncs'
  <2>1. chan'[FE] \in Seq(UpWords) /\ chan'[0] \in Seq(DownWords)
    BY <1>1, <1>2 DEF Shared, Wires
  <2> QED
    BY <1>1, <1>2, <1>8, <1>13, <2>1, WiresStay, RootsStay, SyncsStay DEF Shared
<1>15. Released'
  BY <1>2, <1>5, <1>6, <1>8, Growing DEF Released
<1>16. Succeeded'
  BY <1>1, <1>7, <1>8, SucceededStays DEF Shared
<1> QED
  BY <1>10, <1>12, <1>13, <1>14, <1>15, <1>16 DEF HInv, Shared

UsrSteps == {"handleFeBeUsrData", "handleBeFeUsrData", "handleFeMwUsrData", "handleMwFeUsrData"}

\* A step with user data: r steps to go; only with r = 2 does it have to know that
\* the daemons are ready.
LEMMA UsrGoes ==
  ASSUME HInv, st[FE] = "up", prog[FE] # <<>>, Head(prog[FE]).do \in UsrSteps,
         Head(prog[FE]).do \in {"handleFeBeUsrData", "handleFeMwUsrData"} => hdr'[FE] = hdr[FE],
         NEW c \in Values, UsrCode(c) \/ Dies(FE),
         UNCHANGED <<kind, script, called, inside, root, synced, engine, know>>,
         chan' \in [{FE, 0} -> Seq(Messages)],
         chan'[FE] \in Seq(UpWords), chan'[0] \in Seq(DownWords),
         hdr' \in [{FE, 0} -> Types \cup {"junk"}], \A q \in {FE, 0} \ {FE} : hdr'[q] = hdr[q],
         \/ Head(prog[FE]).do \in {"handleFeBeUsrData", "handleFeMwUsrData"}
         \/ c \notin {"OK", "ENOPLD"}
         \/ hdr[FE] \notin {"ready", "befe_usrdata"} => Ready
  PROVE  HInv'
<1>1. /\ FE \in Procs /\ FE # 0 /\ Typed /\ Shared /\ kind \in {"be", "mw"} /\ Len(codes[FE]) \in Nat
  BY FrontFacts
<1>2. Grows
  BY <1>1 DEF Grows, Typed
<1>3. ASSUME Moves(FE), Honest(FE), st'[FE] # "up" \/ Front' PROVE HInv'
  BY <1>1, <1>3, OwnStep, ProcsFacts
<1>4. CASE Dies(FE)
  BY <1>1, <1>3, <1>4, Dying
<1>5. CASE Early(FE) /\ UsrCode(c)
  <2>1. PICK r \in Nat : Left(FE, r)
    BY FrontFacts, LenProperties DEF Left
  <2>2. PICK o : o = Head(prog[FE]).do
    OBVIOUS
  <2>3. /\ Head(prog[FE]).arg = "handshake"
        /\ r = 2 => o \in {"handleBeFeUsrData", "handleMwFeUsrData"}
        /\ r # 2 => o \in {"handleFeBeUsrData", "handleFeMwUsrData"}
        /\ r \in {5, 3, 2} /\ (kind = "be" => r # 3)
    <3>1. ASSUME kind = "be"
          PROVE  /\ Head(prog[FE]).arg = "handshake"
                 /\ r = 2 => o \in {"handleBeFeUsrData", "handleMwFeUsrData"}
                 /\ r # 2 => o \in {"handleFeBeUsrData", "handleFeMwUsrData"}
                 /\ r \in {5, 2}
      <4>1. FrontBeMoves(prog[FE])
        BY <1>5, <3>1, FrontFacts
      <4>2. o \in UsrSteps
        BY <2>2
      <4>3. /\ r \in 1 .. 14
            /\ r \in {11, 12, 13, 14} => o = "read"
            /\ r = 10 => o = "is_secure"
            /\ r = 9 => o = "read"
            /\ r = 8 => o = "write"
            /\ r = 7 => o = "write"
            /\ r = 6 => o = "write"
            /\ r = 5 => o = "handleFeBeUsrData" /\ Head(prog[FE]).arg = "handshake"
            /\ r = 4 => o = "read"
            /\ r = 3 => o = "engine"
            /\ r = 2 => o = "handleBeFeUsrData" /\ Head(prog[FE]).arg = "handshake"
            /\ r = 1 => o = "return"
        BY <2>1, <2>2, <4>1 DEF FrontBeMoves, Left
      <4> QED
        BY <4>2, <4>3 DEF UsrSteps
    <3>2. ASSUME kind = "mw"
          PROVE  /\ Head(prog[FE]).arg = "handshake"
                 /\ r = 2 => o \in {"handleBeFeUsrData", "handleMwFeUsrData"}
                 /\ r # 2 => o \in {"handleFeBeUsrData", "handleFeMwUsrData"}
                 /\ r \in {3, 2}
      <4>1. FrontMwMoves(prog[FE])
        BY <1>5, <3>2, FrontFacts
      <4>2. o \in UsrSteps
        BY <2>2
      <4>3. /\ r \in 1 .. 9
            /\ r \in {6, 7, 8, 9} => o = "read"
            /\ r = 5 => o = "is_secure"
            /\ r = 4 => o = "read"
            /\ r = 3 => o = "handleFeMwUsrData" /\ Head(prog[FE]).arg = "handshake"
            /\ r = 2 => o = "handleMwFeUsrData" /\ Head(prog[FE]).arg = "handshake"
            /\ r = 1 => o = "return"
        BY <2>1, <2>2, <4>1 DEF FrontMwMoves, Left
      <4> QED
        BY <4>2, <4>3 DEF UsrSteps
    <3> QED
      BY <1>1, <3>1, <3>2
  <2>4. IF c \in {"OK", "ENOPLD"} THEN Advance(FE) ELSE Fails(FE, c)
    BY <1>5, <2>3 DEF UsrCode
  <2>5. CASE c \notin {"OK", "ENOPLD"}
    <3>1. Fails(FE, c) /\ c \in Values \ {"OK"}
      BY <2>4, <2>5
    <3> QED
      BY <1>1, <1>3, <3>1, Failing
  <2>6. CASE c \in {"OK", "ENOPLD"}
    <3>1. Moves(FE) /\ prog'[FE] = Tail(prog[FE]) /\ st'[FE] = st[FE] /\ codes'[FE] = codes[FE] /\ Honest(FE)
      BY <1>1, <2>4, <2>6, Advancing
    <3>2. r \in {2, 3} => hdr[FE] \notin {"ready", "befe_usrdata"}
      BY <1>5, <2>1, FrontFacts DEF FrontPlace, Left
    <3>3. r = 2 => Ready
      <4>1. r = 2 => o \notin {"handleFeBeUsrData", "handleFeMwUsrData"}
        BY <2>3
      <4> QED
        BY <2>2, <2>6, <3>2, <4>1
    <3>4. r = 3 => hdr'[FE] = hdr[FE]
      BY <2>2, <2>3
    <3>5. Head(prog[FE]).do # "return"
      BY DEF UsrSteps
    <3>6. r # 4 /\ know'[FE].mode = know[FE].mode
      BY <2>3
    <3>7. Front'
      BY <1>2, <1>5, <2>1, <3>1, <3>3, <3>4, <3>5, <3>6, FrontMovesOn
    <3> QED
      BY <1>3, <3>1, <3>7
  <2> QED
    BY <2>5, <2>6
<1>6. CASE Later(FE) /\ UsrCode(c)
  <2>1. Head(prog[FE]).arg = "call"
    BY <1>1, <1>6, Stage, LaterDos DEF UsrSteps
  <2>2. ReturnsCode(FE, c)
    BY <1>6, <2>1 DEF UsrCode
  <2>3. codes[FE] # <<>>
    BY <1>6, FrontFacts
  <2>4. /\ Moves(FE) /\ Honest(FE) /\ Len(codes'[FE]) = Len(codes[FE]) + 1
        /\ \/ st'[FE] # "up"
           \/ prog'[FE] = Tail(prog[FE]) /\ st'[FE] = st[FE]
    BY <1>1, <2>2, <2>3, Returning
  <2>5. st'[FE] # "up" \/ Front'
    BY <1>1, <1>2, <1>6, <2>4, LaterGoes
  <2> QED
    BY <1>3, <2>4, <2>5
<1> QED
  BY <1>1, <1>4, <1>5, <1>6, Stage

LEMMA UsrDataOutKeeps ==
  ASSUME HInv, handleUsrDataOut
  PROVE  HInv'
<1>1. PICK step \in {"handleFeBeUsrData", "handleFeMwUsrData"},
           code \in {"OK", "ENOPLD", "ENCLLB", "EINVAL", "EBDARG"} :
        /\ At(FE, step)
        /\ \/ /\ chan' = [chan EXCEPT ![0] = Append(chan[0], Message("usrdata", "none", code = "OK"))]
              /\ UsrCode(code)
           \/ UNCHANGED chan /\ UsrCode(code)
           \/ UNCHANGED chan /\ Dies(FE)
        /\ UNCHANGED <<job, hdr, words, cut, coll, data>>
  BY DEF handleUsrDataOut
<1>2. /\ FE \in Procs /\ 0 \in Procs /\ FE # 0 /\ Typed /\ Shared /\ st[FE] = "up" /\ prog[FE] # <<>>
      /\ Head(prog[FE]).do \in {"handleFeBeUsrData", "handleFeMwUsrData"}
      /\ Head(prog[FE]).do \in UsrSteps
  BY <1>1, FrontFacts DEF At, UsrSteps
<1>3. UNCHANGED <<kind, script, hdr, called, inside, root, synced, engine, know>>
  BY <1>1 DEF job, coll, data
<1>4. code \in Values
  BY ValueFacts DEF Codes
<1>5. PICK m : m = Message("usrdata", "none", code = "OK")
  OBVIOUS
<1>6. m \in Messages /\ m.type = "usrdata"
  BY <1>5, EmptyValue DEF Message, Messages, Types
<1>7. m \in DownWords
  BY <1>6 DEF DownWords, Modes
<1>8. Put(FE, m)
  BY <1>1, <1>5 DEF Put, Peer
<1>9. /\ chan' \in [{FE, 0} -> Seq(Messages)]
      /\ chan'[FE] \in Seq(UpWords) /\ chan'[0] \in Seq(DownWords)
  BY <1>2, <1>6, <1>7, <1>8, Putting DEF Shared
<1>10. hdr' \in [{FE, 0} -> Types \cup {"junk"}] /\ \A q \in {FE, 0} \ {FE} : hdr'[q] = hdr[q]
  BY <1>2, <1>3 DEF Typed
<1>11. UsrCode(code) \/ Dies(FE)
  BY <1>1
<1> QED
  BY <1>2, <1>3, <1>4, <1>9, <1>10, <1>11, UsrGoes

\* the last step of the handshake returns OK only for a message that says ready: no
\* header left on the stack does
LEMMA UsrDataInKeeps ==
  ASSUME HInv, handleUsrDataIn
  PROVE  HInv'
<1>1. PICK step \in {"handleBeFeUsrData", "handleMwFeUsrData"} :
        /\ At(FE, step)
        /\ \E m \in Arrivals(FE), stale \in {"junk", hdr[FE]} :
             LET type == IF m = Lost THEN stale ELSE m.type IN
             /\ Taken(FE, m)
             /\ hdr' = [hdr EXCEPT ![FE] = type]
             /\ \/ type \notin {"ready", "befe_usrdata"} /\ UsrCode("EBDMSG")
                \/ type \in {"ready", "befe_usrdata"}
                   /\ \E c \in {"OK", "ENOPLD", "ENCLLB", "ENEGCB", "ECLLB"} : UsrCode(c)
        /\ UNCHANGED <<job, words, cut, coll, data>>
  BY ZenonT(60) DEF handleUsrDataIn
<1>2. PICK m \in Arrivals(FE), stale \in {"junk", hdr[FE]} :
             /\ Taken(FE, m)
             /\ hdr' = [hdr EXCEPT ![FE] = IF m = Lost THEN stale ELSE m.type]
             /\ \/ UsrCode("EBDMSG")
                \/ (IF m = Lost THEN stale ELSE m.type) \in {"ready", "befe_usrdata"}
                   /\ \E c \in {"OK", "ENOPLD", "ENCLLB", "ENEGCB", "ECLLB"} : UsrCode(c)
  BY <1>1
<1>3. /\ FE \in Procs /\ 0 \in Procs /\ FE # 0 /\ Typed /\ Shared /\ st[FE] = "up" /\ prog[FE] # <<>>
      /\ Head(prog[FE]).do \notin {"handleFeBeUsrData", "handleFeMwUsrData"}
      /\ Head(prog[FE]).do \in UsrSteps
  BY <1>1, FrontFacts DEF At, UsrSteps
<1>4. UNCHANGED <<kind, script, called, inside, root, synced, engine, know>>
  BY <1>1 DEF job, coll, data
<1>5. /\ chan' \in [{FE, 0} -> Seq(Messages)]
      /\ chan'[FE] \in Seq(UpWords) /\ chan'[0] \in Seq(DownWords)
      /\ m = Lost \/ (m \in Messages /\ m \in UpWords)
  BY <1>2, <1>3, Taking DEF Shared
<1>6. /\ hdr' \in [{FE, 0} -> Types \cup {"junk"}] /\ \A q \in {FE, 0} \ {FE} : hdr'[q] = hdr[q]
  <2>1. m # Lost => m.type \in Types
    BY <1>5 DEF Messages
  <2>2. hdr \in [{FE, 0} -> Types \cup {"junk"}] /\ FE \in {FE, 0}
    BY <1>3 DEF Typed
  <2>3. stale \in Types \cup {"junk"}
    BY <2>2
  <2> QED
    BY <1>2, <2>1, <2>2, <2>3
<1>7. PICK c \in Values :
        /\ UsrCode(c)
        /\ \/ c = "EBDMSG"
           \/ (IF m = Lost THEN stale ELSE m.type) \in {"ready", "befe_usrdata"}
  <2>1. /\ "EBDMSG" \in Values
        /\ \A c \in {"OK", "ENOPLD", "ENCLLB", "ENEGCB", "ECLLB"} : c \in Values
    BY ValueFacts DEF Codes
  <2> QED
    BY <1>2, <2>1
<1>8. c \notin {"OK", "ENOPLD"} \/ (hdr[FE] \notin {"ready", "befe_usrdata"} => Ready)
  <2>1. m # Lost /\ m.type \in {"ready", "befe_usrdata"} => Ready
    BY <1>5 DEF UpWords
  <2>2. m = Lost /\ stale \in {"ready", "befe_usrdata"} => stale = hdr[FE]
    OBVIOUS
  <2> QED
    BY <1>7, <2>1, <2>2
<1> QED
  BY <1>3, <1>4, <1>5, <1>6, <1>7, <1>8, UsrGoes

LEMMA UsrDataTooLateKeeps ==
  ASSUME HInv, handleUsrDataTooLate
  PROVE  HInv'
<1>1. /\ FE \in Procs /\ 0 \in Procs /\ FE # 0 /\ Typed /\ Shared /\ st[FE] = "up" /\ prog[FE] # <<>>
      /\ Head(prog[FE]).do \in UsrSteps /\ UsrCode("EBDARG")
  BY FrontFacts DEF handleUsrDataTooLate, At, UsrSteps
<1>2. UNCHANGED <<kind, script, hdr, chan, called, inside, root, synced, engine, know>>
  BY DEF handleUsrDataTooLate, job, wire, coll, data
<1>3. /\ hdr' \in [{FE, 0} -> Types \cup {"junk"}] /\ \A q \in {FE, 0} \ {FE} : hdr'[q] = hdr[q]
      /\ chan' \in [{FE, 0} -> Seq(Messages)]
      /\ chan'[FE] \in Seq(UpWords) /\ chan'[0] \in Seq(DownWords)
  BY <1>1, <1>2 DEF Typed, Shared, Wires
<1>4. PICK c \in Values : c = "EBDARG"
  BY ValueFacts
<1>5. UsrCode(c) /\ c \notin {"OK", "ENOPLD"} /\ hdr'[FE] = hdr[FE]
  BY <1>1, <1>2, <1>4
<1> QED
  BY <1>1, <1>2, <1>3, <1>5, UsrGoes

-----------------------------------------------------------------------------
(* The calls after the handshake *)

\* the calls after the handshake are steps of the right kind
LEMMA LaterAreSteps == \A p : LaterSteps(p) \subseteq Steps
<1>1. ASSUME NEW w \in Whats, NEW a \in Args PROVE Do(w, a) \in Steps
  BY DEF Do, Steps
<1>2. ASSUME NEW w \in {"handleFeBeUsrData", "handleBeFeUsrData", "handleFeMwUsrData", "handleMwFeUsrData"}
      PROVE  Do(w, "call") \in Steps
  BY <1>1 DEF Whats, Args
<1>3. Do("write", "assist_mw_coloc") \in Steps /\ Return \in Steps
  BY <1>1 DEF Whats, Args, Return
<1>4. /\ Do("recvUsrData", "none") \in Steps /\ Do("sendUsrData", "none") \in Steps
      /\ Do("do_bemaster", "none") \in Steps
  BY <1>1 DEF Whats, Args
<1>5. Bcast("lrc") \in Steps /\ Bcast("leng") \in Steps /\ Bcast("lmonpl") \in Steps
  BY <1>1 DEF Whats, Args, Bcast
<1> QED
  BY <1>2, <1>3, <1>4, <1>5 DEF LaterSteps

LEMMA FrontCalls ==
  ASSUME NEW c \in {"recv", "send", "coloc"}
  PROVE  FECall(c) \in Seq(LaterSteps(FE))
<1>1. PICK S : S = LaterSteps(FE)
  OBVIOUS
<1>2. Do("write", "assist_mw_coloc") \in S /\ Return \in S
  BY <1>1, Zenon DEF LaterSteps
<1>3. \A w \in UsrSteps : Do(w, "call") \in S
  BY <1>1 DEF LaterSteps, UsrSteps
<1>4. PICK w1 : w1 = IF kind = "be" THEN "handleFeBeUsrData" ELSE "handleFeMwUsrData"
  OBVIOUS
<1>5. PICK w2 : w2 = IF kind = "be" THEN "handleBeFeUsrData" ELSE "handleMwFeUsrData"
  OBVIOUS
<1>6. Do(w1, "call") \in S /\ Do(w2, "call") \in S
  BY <1>3, <1>4, <1>5 DEF UsrSteps
<1>7. \/ FECall(c) = <<Do("write", "assist_mw_coloc"), Return>>
      \/ FECall(c) = <<Do(w1, "call")>>
      \/ FECall(c) = <<Do(w2, "call")>>
  BY <1>4, <1>5, Zenon DEF FECall
<1>8. \A x, y \in S : <<x, y>> \in Seq(S) /\ <<x>> \in Seq(S)
  OBVIOUS
<1>9. FECall(c) \in Seq(S)
  BY <1>2, <1>6, <1>7, <1>8
<1> QED
  BY <1>1, <1>9

LEMMA DaemonCalls ==
  ASSUME NEW d \in Ranks, NEW c \in {"recv", "send", "coloc"}
  PROVE  DaemonCall(d, c) \in Seq(LaterSteps(d))
<1>1. PICK S : S = LaterSteps(d)
  OBVIOUS
<1>2. d # FE
  BY ProcsFacts
<1>3. /\ Do("recvUsrData", "none") \in S /\ Do("sendUsrData", "none") \in S
      /\ Do("do_bemaster", "none") \in S
      /\ Bcast("lrc") \in S /\ Bcast("leng") \in S /\ Bcast("lmonpl") \in S
  BY <1>1, <1>2, Zenon DEF LaterSteps
<1>4. \A x, y \in S : <<x, y>> \in Seq(S) /\ <<x>> \in Seq(S)
  OBVIOUS
<1>5. ASSUME NEW x \in S PROVE MasterOnly(d, <<x>>) \in Seq(S)
  BY <1>4, EmptySeq DEF MasterOnly
<1>6. \A q, s \in Seq(S) : q \o s \in Seq(S)
  BY ConcatProperties
<1>7. /\ MasterOnly(d, <<Do("recvUsrData", "none")>>) \o <<Bcast("lrc")>> \in Seq(S)
      /\ MasterOnly(d, <<Do("sendUsrData", "none")>>) \o <<Bcast("lrc")>> \in Seq(S)
      /\ MasterOnly(d, <<Do("do_bemaster", "none")>>) \o <<Bcast("leng"), Bcast("lmonpl")>> \in Seq(S)
  BY <1>3, <1>4, <1>5, <1>6
<1>8. \/ DaemonCall(d, c) = MasterOnly(d, <<Do("recvUsrData", "none")>>) \o <<Bcast("lrc")>>
      \/ DaemonCall(d, c) = MasterOnly(d, <<Do("sendUsrData", "none")>>) \o <<Bcast("lrc")>>
      \/ DaemonCall(d, c) = MasterOnly(d, <<Do("do_bemaster", "none")>>) \o <<Bcast("leng"), Bcast("lmonpl")>>
  BY Zenon DEF DaemonCall, LMON_be_recvUsrData, LMON_mw_recvUsrData, LMON_be_sendUsrData,
               LMON_mw_sendUsrData, LMON_be_assist_mw_coloc
<1>9. DaemonCall(d, c) \in Seq(S)
  BY <1>7, <1>8
<1> QED
  BY <1>1, <1>9

\* the next call starts when the handshake has ended
LEMMA CallKeeps ==
  ASSUME HInv, NEW p \in Procs, NextCall(p)
  PROVE  HInv'
<1>1. /\ st[p] = "up" /\ prog[p] = <<>> /\ Typed /\ Shared /\ kind \in {"be", "mw"} /\ FE \in Procs
      /\ UNCHANGED <<kind, st, codes, chan, hdr, called, inside, root, synced, engine, know>>
  BY ProcsFacts DEF NextCall, HInv, Typed, wire, coll, data
<1>2. Later(p) /\ (p # FE => Ready)
  BY <1>1, Stage
<1>3. PICK c \in Calls(kind) :
        /\ script' = script \/ script' = Append(script, c)
        /\ prog' = [prog EXCEPT ![p] = IF p = FE THEN FECall(c) ELSE DaemonCall(p, c)]
  BY DEF NextCall
<1>4. c \in {"recv", "send", "coloc"}
  BY DEF Calls
<1>5. PICK q : q = IF p = FE THEN FECall(c) ELSE DaemonCall(p, c)
  OBVIOUS
<1>6. q \in Seq(LaterSteps(p)) /\ q \in Seq(Steps)
  <2>1. q \in Seq(LaterSteps(p))
    BY <1>4, <1>5, FrontCalls, DaemonCalls, ProcsFacts
  <2>2. LaterSteps(p) \subseteq Steps
    BY LaterAreSteps
  <2> QED
    BY <2>1, <2>2, SeqMonotonic
<1>7. /\ prog' \in [Procs -> Seq(Steps)] /\ prog'[p] = q
      /\ \A e \in Procs \ {p} : prog'[e] = prog[e]
  BY <1>1, <1>3, <1>5, <1>6 DEF Typed
<1>8. script' \in Seq({"recv", "send", "coloc"})
  <2>1. script \in Seq({"recv", "send", "coloc"})
    BY <1>1 DEF Typed
  <2>2. Append(script, c) \in Seq({"recv", "send", "coloc"})
    BY <2>1, <1>4, AppendProperties
  <2> QED
    BY <2>1, <2>2, <1>3
<1>9. Moves(p) /\ Honest(p)
  BY <1>1, <1>7 DEF Moves, Honest, Typed
<1>10. Quiet(p)
  BY <1>1, <1>8, <1>9 DEF Quiet, Typed
<1>11. Grows
  BY <1>1 DEF Grows, Typed
<1>12. Wires' /\ FrontKnows'
  BY <1>1, <1>11, WiresStay DEF Shared, Wires, FrontKnows
<1>13. ~Early(p)' /\ prog'[p] \in Seq(LaterSteps(p))
  BY <1>1, <1>2, <1>6, <1>7, Stage DEF Early
<1>14. /\ p = FE => Front'
       /\ p = 0 => Master'
       /\ p \in Ranks \ {0} => Slave(p)'
  BY <1>2, <1>11, <1>13, Growing, ProcsFacts DEF Front, Master, Slave, LaterSteps
<1> QED
  BY <1>1, <1>9, <1>10, <1>11, <1>12, <1>14, QuietStep

-----------------------------------------------------------------------------
(* The invariant holds *)

\* every step keeps the invariant
LEMMA StepKeeps ==
  ASSUME HInv, [Next]_vars
  PROVE  HInv'
<1>1. CASE FEStep
  <2>1. FE \in Procs
    BY ProcsFacts
  <2> QED
    BY <1>1, <2>1, FrontWriteKeeps, ModeKeeps, FrontReadKeeps, SecureKeeps, FrontReturnsKeeps,
       ToEngineKeeps, UsrDataOutKeeps, UsrDataInKeeps, UsrDataTooLateKeeps, CallKeeps,
       FinalizeKeeps DEF FEStep
<1>2. CASE MasterStep
  BY <1>2, MasterWriteKeeps, MasterReadKeeps, KeyKeeps, MasterReceivesKeeps, MasterSendsKeeps,
     BeMasterKeeps DEF MasterStep
<1>3. ASSUME NEW d \in Ranks, DaemonStep(d) PROVE HInv'
  <2>1. d \in Procs
    BY ProcsFacts
  <2> QED
    BY <1>3, <2>1, EnterKeeps, LeaveKeeps, GivesUpKeeps, InitKeeps, InitDoneKeeps, CallKeeps,
       FinalizeKeeps DEF DaemonStep
<1>4. ASSUME NEW p \in Procs, Killed(p) PROVE HInv'
  BY <1>4, KilledKeeps
<1>5. CASE UNCHANGED vars
  BY <1>5, NothingKeeps
<1> QED
  BY <1>1, <1>2, <1>3, <1>4, <1>5 DEF Next, Terminated

\* a plan is what is left of it at the start
LEMMA WholePlan ==
  ASSUME NEW P \in Seq(Steps)
  PROVE  Rests(P, P)
<1>1. PICK n \in Nat : n = Len(P)
  BY LenProperties
<1>2. \A i \in 1 .. n : n - n + i = i
  OBVIOUS
<1> QED
  BY <1>1, <1>2 DEF Rests

\* everybody starts with its whole plan
LEMMA InitPlans ==
  ASSUME Init, NEW p \in Procs
  PROVE  /\ prog[p] \in Seq(Steps) /\ prog[p] # <<>> /\ prog[p] = Plan(p)
         /\ kind = "be" /\ p = FE => Len(prog[p]) = 14
         /\ kind = "be" /\ p = 0 => Len(prog[p]) = 23
         /\ kind = "be" /\ p \in Ranks \ {0} => Len(prog[p]) = 11
         /\ kind # "be" /\ p = FE => Len(prog[p]) = 9
         /\ kind # "be" /\ p = 0 => Len(prog[p]) = 12
         /\ kind # "be" /\ p \in Ranks \ {0} => Len(prog[p]) = 4
<1>1. prog[p] = IF p = FE THEN FEProgram ELSE DaemonProgram(p)
  BY DEF Init
<1>2. /\ FE \notin Ranks /\ FE # 0 /\ 0 \in Ranks
      /\ (p = FE \/ p = 0 \/ (p \in Ranks \ {0} /\ p # FE))
  BY ProcsFacts
<1>3. CASE kind = "be" /\ p = FE
  <2>1. prog[p] = FrontBe /\ FrontBe \in Seq(Steps) /\ Len(FrontBe) = 14
    BY <1>1, <1>3, FrontBePlan
  <2>2. Plan(p) = FrontBe
    BY <1>3 DEF Plan
  <2>3. FrontBe # <<>>
    BY <2>1, EmptySeq
  <2> QED
    BY <1>2, <1>3, <2>1, <2>2, <2>3
<1>4. CASE kind = "be" /\ p = 0
  <2>1. prog[p] = MasterBe /\ MasterBe \in Seq(Steps) /\ Len(MasterBe) = 23
    BY <1>1, <1>2, <1>4, MasterBePlan
  <2>2. Plan(p) = MasterBe
    BY <1>2, <1>4 DEF Plan
  <2>3. MasterBe # <<>>
    BY <2>1, EmptySeq
  <2> QED
    BY <1>2, <1>4, <2>1, <2>2, <2>3
<1>5. CASE kind = "be" /\ p \in Ranks \ {0}
  <2>1. prog[p] = SlaveBe /\ SlaveBe \in Seq(Steps) /\ Len(SlaveBe) = 11
    BY <1>1, <1>2, <1>5, SlaveBePlan
  <2>2. Plan(p) = SlaveBe
    BY <1>2, <1>5 DEF Plan
  <2>3. SlaveBe # <<>>
    BY <2>1, EmptySeq
  <2> QED
    BY <1>2, <1>5, <2>1, <2>2, <2>3
<1>6. CASE kind # "be" /\ p = FE
  <2>1. prog[p] = FrontMw /\ FrontMw \in Seq(Steps) /\ Len(FrontMw) = 9
    BY <1>1, <1>6, FrontMwPlan
  <2>2. Plan(p) = FrontMw
    BY <1>6 DEF Plan
  <2>3. FrontMw # <<>>
    BY <2>1, EmptySeq
  <2> QED
    BY <1>2, <1>6, <2>1, <2>2, <2>3
<1>7. CASE kind # "be" /\ p = 0
  <2>1. prog[p] = MasterMw /\ MasterMw \in Seq(Steps) /\ Len(MasterMw) = 12
    BY <1>1, <1>2, <1>7, MasterMwPlan
  <2>2. Plan(p) = MasterMw
    BY <1>2, <1>7 DEF Plan
  <2>3. MasterMw # <<>>
    BY <2>1, EmptySeq
  <2> QED
    BY <1>2, <1>7, <2>1, <2>2, <2>3
<1>8. CASE kind # "be" /\ p \in Ranks \ {0}
  <2>1. prog[p] = SlaveMw /\ SlaveMw \in Seq(Steps) /\ Len(SlaveMw) = 4
    BY <1>1, <1>2, <1>8, SlaveMwPlan
  <2>2. Plan(p) = SlaveMw
    BY <1>2, <1>8 DEF Plan
  <2>3. SlaveMw # <<>>
    BY <2>1, EmptySeq
  <2> QED
    BY <1>2, <1>8, <2>1, <2>2, <2>3
<1> QED
  BY <1>2, <1>3, <1>4, <1>5, <1>6, <1>7, <1>8

LEMMA InitHolds ==
  ASSUME Init
  PROVE  HInv
<1>1. /\ kind \in {"be", "mw"} /\ script = <<>> /\ root = <<>> /\ engine = FALSE
      /\ \A p \in Procs : st[p] = "up" /\ codes[p] = <<>>
      /\ \A p \in {FE, 0} : chan[p] = <<>> /\ hdr[p] = "junk"
      /\ \A d \in Ranks : called[d] = 0 /\ inside[d] = FALSE /\ synced[d] = <<>>
  BY DEF Init
<1>2. /\ know[FE].rm = "rm" /\ know[FE].size = "sizeT" /\ know[FE].table = "T"
      /\ know[FE].mode = "unset"
  BY ProcsFacts DEF Init, Nothing
<1>3. Typed
  <2>1. Nothing \in Knowledge /\ [Nothing EXCEPT !.rm = "rm", !.table = "T", !.size = "sizeT"] \in Knowledge
    BY ValueFacts DEF Nothing, Knowledge
  <2>2. know \in [Procs -> Knowledge]
    BY <2>1 DEF Init
  <2>3. prog \in [Procs -> Seq(Steps)]
    BY InitPlans DEF Init
  <2>4. /\ st \in [Procs -> {"up", "failed", "gone", "closed"}]
        /\ codes \in [Procs -> Seq(Values)] /\ chan \in [{FE, 0} -> Seq(Messages)]
        /\ hdr \in [{FE, 0} -> Types \cup {"junk"}]
        /\ called \in [Ranks -> Nat] /\ inside \in [Ranks -> BOOLEAN]
        /\ synced \in [Ranks -> Seq(Values)]
    BY DEF Init
  <2>5. root \in Seq(Values) /\ Len(root) = called[0] /\ script \in Seq({"recv", "send", "coloc"})
    BY <1>1, ProcsFacts
  <2> QED
    BY <1>1, <2>2, <2>3, <2>4, <2>5 DEF Typed
<1>4. \A p \in Procs : OnPlan(p) /\ ~Later(p)
  <2>1. TAKE p \in Procs
  <2>2. OnPlan(p)
    BY InitPlans, WholePlan DEF OnPlan
  <2>3. Len(codes[p]) = 0
    BY <1>1, EmptySeq
  <2> QED
    BY <2>2, <2>3 DEF Later
<1>5. Front
  <2>1. PICK r \in Nat : r = Len(prog[FE])
    BY InitPlans, ProcsFacts, LenProperties
  <2>2. (kind = "be" => r = 14) /\ (kind # "be" => r = 9)
    BY <2>1, InitPlans, ProcsFacts
  <2>3. (kind = "be" => ~(r <= 3)) /\ r \notin {2, 3} /\ ~(r <= 1)
    BY <2>2
  <2>4. FrontPlace
    BY Zenon, <1>2, <2>1, <2>3 DEF FrontPlace
  <2> QED
    BY <1>4, <2>4, ProcsFacts DEF Front
<1>6. Master
  <2>1. PICK r \in Nat : r = Len(prog[0])
    BY InitPlans, ProcsFacts, LenProperties
  <2>2. (kind = "be" => r = 23) /\ (kind # "be" => r = 12)
    BY <2>1, InitPlans, ProcsFacts
  <2>3. /\ kind = "be" => /\ ~(r <= 14) /\ r # 14 /\ ~(r <= 13) /\ r # 13 /\ ~(r <= 12)
                          /\ ~(r <= 6) /\ ~(r <= 5)
        /\ ~(r <= 2)
    BY <2>2
  <2>4. MasterPlace
    BY Zenon, <1>1, <2>1, <2>3 DEF MasterPlace
  <2>5. Behind(0, r) = 0 /\ Returned(0, r) = 0
    BY <2>2 DEF Behind, Returned
  <2>6. called[0] = 0 /\ ~inside[0] /\ Len(codes[0]) = 0
    BY <1>1, ProcsFacts, EmptySeq
  <2>7. Counted(0)
    BY <2>1, <2>5, <2>6 DEF Counted
  <2> QED
    BY <1>4, <2>4, <2>7, ProcsFacts DEF Master
<1>7. ASSUME NEW d \in Ranks \ {0} PROVE Slave(d)
  <2>1. d \in Procs
    BY ProcsFacts
  <2>2. PICK r \in Nat : r = Len(prog[d])
    BY <2>1, InitPlans, LenProperties
  <2>3. (kind = "be" => r = 11) /\ (kind # "be" => r = 4)
    BY <2>1, <2>2, InitPlans
  <2>4. kind = "be" => ~(r <= 8) /\ ~(r <= 8 - 1) /\ ~(r <= 8 - 2) /\ ~(r <= 8 - 3) /\ ~(r <= 4)
    BY <2>3
  <2>5. SlavePlace(d)
    BY Zenon, <2>2, <2>4 DEF SlavePlace, Knows
  <2>6. Behind(d, r) = 0 /\ Returned(d, r) = 0
    BY <2>3 DEF Behind, Returned
  <2>7. called[d] = 0 /\ ~inside[d] /\ Len(codes[d]) = 0
    BY <1>1, <2>1, EmptySeq
  <2>8. Counted(d)
    BY <2>2, <2>6, <2>7 DEF Counted
  <2> QED
    BY <1>4, <2>1, <2>5, <2>8 DEF Slave
<1>8. Shared
  <2>1. Wires /\ FrontKnows
    BY <1>1, <1>2, EmptySeq DEF Wires, FrontKnows
  <2>2. Roots
    BY <1>1 DEF Roots
  <2>3. Syncs
    BY <1>1 DEF Syncs
  <2>4. Released /\ Succeeded
    BY <1>1, ProcsFacts DEF Released, Succeeded
  <2> QED
    BY <2>1, <2>2, <2>3, <2>4 DEF Shared
<1> QED
  BY <1>3, <1>5, <1>6, <1>7, <1>8 DEF HInv, Places

-----------------------------------------------------------------------------
(* What the front end may rely on *)

\* The plans, the counts of the collectives and what the messages stand for fit
\* together in every state: LMON_be_init .. LMON_be_ready, LMON_mw_init ..
\* LMON_mw_ready and the handshake sequences of lmon_fe.cxx.
THEOREM Invariance == Spec => []HInv
<1>1. Init => HInv
  BY InitHolds
<1>2. HInv /\ [Next]_vars => HInv'
  BY StepKeeps
<1> QED
  BY <1>1, <1>2, PTL DEF Spec

\* LMON_fe_beHandshakeSequence tells the engine to continue the launcher only
\* when each daemon has passed procctl_init: cont_launch_bp is written behind the
\* barrier in which the master has waited for all.
THEOREM DaemonsFirst == Spec => []ReleasedTogether
<1>1. HInv => ReleasedTogether
  BY DEF HInv, Shared, Released, Syncs, All, ReleasedTogether
<1> QED
  BY <1>1, Invariance, PTL

\* What LMON_be_handshake gives procctl_init on any host is the job the front end
\* has sent to the master, whichever broadcasts have failed or been missed by others.
THEOREM OneJob == Spec => []AgreedJob
<1>1. HInv => AgreedJob
  BY DEF HInv, Shared, Syncs, AgreedJob
<1> QED
  BY <1>1, Invariance, PTL

\* The handshake sequences of the front end return LMON_OK only for a ready message,
\* which LMON_be_ready and LMON_mw_ready send behind the last collective of all daemons.
THEOREM AllReady == Spec => []ReadyMeansAll
<1>1. HInv => ReadyMeansAll
  <2>1. Typed => kind \in {"be", "mw"}
    BY DEF Typed
  <2> QED
    BY <2>1 DEF HInv, Shared, Succeeded, Ready, All, ReadyMeansAll, SyncPoints
<1> QED
  BY <1>1, Invariance, PTL

-----------------------------------------------------------------------------
(* The codes of the daemons *)

\* The collectives of the handshake, and of a call after it.
Base == IF kind = "be" THEN 9 ELSE 4
Cost(c) == IF c = "coloc" THEN 2 ELSE 1

\* at[i] collectives precede the i-th call of the script
Marked(at) ==
  /\ at \in [1 .. Len(script) + 1 -> Nat \ {0}]
  /\ at[1] = Base
  /\ \A i \in 1 .. Len(script) : at[i + 1] = at[i] + Cost(script[i])

Gone(d, n) == st[d] # "up" /\ called[d] <= n

\* d's j-th code is c for a reason that excludes another code of another daemon
Deserved(d, j, c, at) ==
  /\ j = 1 => \/ c = "OK" /\ called[0] >= 1
              \/ c = "ESYS" /\ d = 0 /\ Gone(0, 0)
  /\ j = 2 => \/ c = "OK" /\ Ready
              \/ c = "EBDMSG" /\ d = 0 /\ Gone(0, 2)
              \/ c = "ESUBSYNC" /\ kind = "be" /\ called[0] >= 6 /\ Gone(d, 7)
  /\ j = 3 => c = "OK"
  /\ \A i \in Nat \ {0} : j = i + 3 =>
       /\ i <= Len(script)
       /\ script[i] = "coloc" => \/ c = "OK" /\ called[0] > at[i]
                                 \/ c = "ESUBCOM" /\ d = 0 /\ Gone(0, at[i])
       /\ script[i] # "coloc" => called[0] >= at[i + 1] /\ c = root[at[i + 1]]

Told(d, at) == \A j \in 1 .. Len(codes[d]) : Deserved(d, j, codes[d][j], at)

\* d is in the i-th call, or before it, and has left c collectives
InCall(d, i, c, at) ==
  \/ prog[d] = <<>> /\ ~inside[d] /\ c = at[i]
  \/ /\ i <= Len(script) /\ script[i] = "coloc"
     /\ \/ /\ d = 0 /\ ~inside[d] /\ c = at[i]
           /\ prog[d] = <<Do("do_bemaster", "none"), Bcast("leng"), Bcast("lmonpl")>>
        \/ prog[d] = <<Bcast("leng"), Bcast("lmonpl")>> /\ c = at[i]
        \/ prog[d] = <<Bcast("lmonpl")>> /\ c = at[i] + 1
  \/ /\ i <= Len(script) /\ script[i] # "coloc" /\ c = at[i]
     /\ \/ /\ d = 0 /\ ~inside[d]
           /\ \E w \in {"recvUsrData", "sendUsrData"} : prog[d] = <<Do(w, "none"), Bcast("lrc")>>
        \/ prog[d] = <<Bcast("lrc")>>

CallPlace(d, at) ==
  \E i \in 1 .. Len(script) + 1, c \in Nat :
    /\ Len(codes[d]) = i + 2
    /\ called[d] = IF inside[d] THEN c + 1 ELSE c
    /\ InCall(d, i, c, at)

\* a slave that has left the broadcast of the table has it from the master
Led(d) == kind = "be" /\ (called[d] > 6 \/ (called[d] = 6 /\ ~inside[d])) => called[0] >= 6

Coded(d, at) == Told(d, at) /\ Led(d) /\ (Later(d) => CallPlace(d, at))

CInv(at) == Marked(at) /\ \A d \in Ranks : Coded(d, at)

CodeInv == \E at : CInv(at)

\* a step that takes back neither collectives nor what they carried
Onward(at, at2) ==
  /\ kind' = kind
  /\ \A d \in Ranks : /\ called'[d] >= called[d]
                      /\ st[d] # "up" => st'[d] # "up" /\ called'[d] = called[d]
  /\ \A i \in 1 .. called[0] : root'[i] = root[i]
  /\ Len(script') >= Len(script) /\ \A i \in 1 .. Len(script) : script'[i] = script[i]
  /\ \A i \in 1 .. Len(script) + 1 : at2[i] = at[i]

LEMMA GoneStays ==
  ASSUME Typed, Typed', NEW at, NEW at2, Onward(at, at2), NEW d \in Ranks, NEW n \in Nat, Gone(d, n)
  PROVE  Gone(d, n)'
  BY DEF Onward, Gone, Typed

\* a code stays deserved
LEMMA DeservedStays ==
  ASSUME Typed, Typed', NEW at, NEW at2, Marked(at), Onward(at, at2),
         NEW d \in Ranks, NEW j, NEW c, Deserved(d, j, c, at)
  PROVE  Deserved(d, j, c, at2)'
<1>1. /\ kind' = kind /\ 0 \in Ranks /\ called[0] \in Nat /\ called'[0] \in Nat /\ called'[0] >= called[0]
      /\ Len(script) \in Nat /\ Len(script') \in Nat /\ Len(script') >= Len(script)
  BY ProcsFacts, LenProperties DEF Typed, Onward
<1>2. Ready => Ready'
  <2>1. \A n \in Nat : All(n) => All(n)'
    BY DEF All, Onward, Typed
  <2> QED
    BY <1>1, <2>1 DEF Ready
<1>3. \A n \in Nat : Gone(d, n) => Gone(d, n)'
  BY GoneStays
<1>4. d = 0 => \A n \in Nat : Gone(0, n) => Gone(0, n)'
  BY <1>3
<1>5. /\ (j = 1 => \/ c = "OK" /\ called[0] >= 1
                   \/ c = "ESYS" /\ d = 0 /\ Gone(0, 0))'
      /\ (j = 2 => \/ c = "OK" /\ Ready
                   \/ c = "EBDMSG" /\ d = 0 /\ Gone(0, 2)
                   \/ c = "ESUBSYNC" /\ kind = "be" /\ called[0] >= 6 /\ Gone(d, 7))'
      /\ (j = 3 => c = "OK")'
  <2>1. (j = 1 => \/ c = "OK" /\ called[0] >= 1
                  \/ c = "ESYS" /\ d = 0 /\ Gone(0, 0))'
    BY <1>1, <1>4 DEF Deserved
  <2>2. (j = 2 => \/ c = "OK" /\ Ready
                  \/ c = "EBDMSG" /\ d = 0 /\ Gone(0, 2)
                  \/ c = "ESUBSYNC" /\ kind = "be" /\ called[0] >= 6 /\ Gone(d, 7))'
    BY <1>1, <1>2, <1>3, <1>4 DEF Deserved
  <2>3. (j = 3 => c = "OK")'
    BY DEF Deserved
  <2> QED
    BY <2>1, <2>2, <2>3
<1>6. ASSUME NEW i \in Nat \ {0}, j = i + 3
      PROVE  /\ i <= Len(script')
             /\ script'[i] = "coloc" => \/ c = "OK" /\ called'[0] > at2[i]
                                        \/ c = "ESUBCOM" /\ d = 0 /\ Gone(0, at2[i])'
             /\ script'[i] # "coloc" => called'[0] >= at2[i + 1] /\ c = root'[at2[i + 1]]
  <2>1. /\ i <= Len(script)
        /\ script[i] = "coloc" => \/ c = "OK" /\ called[0] > at[i]
                                  \/ c = "ESUBCOM" /\ d = 0 /\ Gone(0, at[i])
        /\ script[i] # "coloc" => called[0] >= at[i + 1] /\ c = root[at[i + 1]]
    BY <1>6 DEF Deserved
  <2>2. i \in 1 .. Len(script) /\ i \in 1 .. Len(script) + 1 /\ i + 1 \in 1 .. Len(script) + 1
    BY <1>1, <2>1
  <2>3. script'[i] = script[i] /\ at2[i] = at[i] /\ at2[i + 1] = at[i + 1]
    BY <2>2 DEF Onward
  <2>4. at[i] \in Nat \ {0} /\ at[i + 1] \in Nat \ {0}
    BY <2>2 DEF Marked
  <2>5. CASE script[i] = "coloc"
    <3>1. d = 0 /\ Gone(0, at[i]) => Gone(0, at2[i])'
      BY <1>4, <2>3, <2>4
    <3> QED
      BY <1>1, <2>1, <2>3, <2>4, <2>5, <3>1
  <2>6. CASE script[i] # "coloc"
    <3>1. called[0] >= at[i + 1] => root'[at[i + 1]] = root[at[i + 1]]
      BY <1>1, <2>4 DEF Onward
    <3> QED
      BY <1>1, <2>1, <2>3, <2>4, <2>6, <3>1
  <2> QED
    BY <1>1, <2>1, <2>5, <2>6
<1> QED
  BY <1>5, <1>6 DEF Deserved

\* d does not take part in the step
Stays(d) ==
  /\ st'[d] = st[d] /\ prog'[d] = prog[d] /\ codes'[d] = codes[d]
  /\ called'[d] = called[d] /\ inside'[d] = inside[d]

LEMMA ToldStays ==
  ASSUME Typed, Typed', NEW at, NEW at2, Marked(at), Onward(at, at2), NEW d \in Ranks, Told(d, at),
         codes'[d] = codes[d]
  PROVE  Told(d, at2)'
  BY DeservedStays DEF Told

\* another code
LEMMA ToldMore ==
  ASSUME Typed, Typed', NEW at, NEW at2, Marked(at), Onward(at, at2), NEW d \in Ranks, Told(d, at),
         NEW c, codes'[d] = Append(codes[d], c), c \in Values,
         NEW n \in Nat, Len(codes[d]) = n, Deserved(d, n + 1, c, at2)'
  PROVE  Told(d, at2)'
<1>1. codes[d] \in Seq(Values)
  BY ProcsFacts DEF Typed
<1>2. PICK q : q = codes'[d]
  OBVIOUS
<1>3. Len(q) = n + 1 /\ (\A j \in 1 .. n : q[j] = codes[d][j]) /\ q[n + 1] = c
  BY <1>1, <1>2, AppendProperties
<1>4. \A j \in 1 .. n : Deserved(d, j, codes[d][j], at2)'
  BY DeservedStays DEF Told
<1>5. \A j \in 1 .. n : Deserved(d, j, q[j], at2)'
  BY <1>3, <1>4
<1>6. \A j \in 1 .. n + 1 : Deserved(d, j, q[j], at2)'
  <2>1. TAKE j \in 1 .. n + 1
  <2>2. CASE j = n + 1
    BY <1>3, <2>2
  <2>3. CASE j # n + 1
    <3>1. j \in 1 .. n
      BY <2>3
    <3> QED
      BY <1>5, <3>1
  <2> QED
    BY <2>2, <2>3
<1> QED
  BY <1>2, <1>3, <1>6 DEF Told

LEMMA CallStays ==
  ASSUME Typed, Typed', NEW at, NEW at2, Onward(at, at2), NEW d \in Ranks, Stays(d), CallPlace(d, at)
  PROVE  CallPlace(d, at2)'
<1>1. PICK i \in 1 .. Len(script) + 1, c \in Nat :
        /\ Len(codes[d]) = i + 2
        /\ called[d] = IF inside[d] THEN c + 1 ELSE c
        /\ InCall(d, i, c, at)
  BY DEF CallPlace
<1>2. Len(script) \in Nat /\ Len(script') \in Nat /\ Len(script') >= Len(script)
  BY LenProperties DEF Typed, Onward
<1>3. at2[i] = at[i] /\ i \in 1 .. Len(script') + 1 /\ (i <= Len(script) => i <= Len(script'))
  BY <1>1, <1>2 DEF Onward
<1>4. i <= Len(script) => script'[i] = script[i]
  BY <1>1, <1>2 DEF Onward
<1>5. InCall(d, i, c, at2)'
  BY <1>1, <1>3, <1>4 DEF InCall, Stays
<1> QED
  BY <1>1, <1>3, <1>5 DEF CallPlace, Stays

LEMMA LedStays ==
  ASSUME Typed, Typed', NEW at, NEW at2, Onward(at, at2), NEW d \in Ranks, Led(d),
         called'[d] = called[d], inside'[d] = inside[d]
  PROVE  Led(d)'
<1>1. 0 \in Ranks /\ called'[0] >= called[0] /\ kind' = kind
  BY ProcsFacts DEF Onward
<1> QED
  BY <1>1 DEF Led, Typed

\* one process moves
LEMMA OneCodes ==
  ASSUME Typed, Typed', NEW at, NEW at2, CInv(at), Onward(at, at2), Marked(at2)', NEW p,
         \A d \in Ranks \ {p} : Stays(d), p \in Ranks => Coded(p, at2)'
  PROVE  CInv(at2)'
<1>1. ASSUME NEW d \in Ranks \ {p} PROVE Coded(d, at2)'
  <2>1. Stays(d) /\ Coded(d, at) /\ Marked(at)
    BY DEF CInv
  <2>2. Told(d, at2)' /\ Led(d)'
    BY <2>1, ToldStays, LedStays DEF Coded, Stays
  <2>3. Later(d)' = Later(d)
    BY <2>1 DEF Later, Stays
  <2> QED
    BY <2>1, <2>2, <2>3, CallStays DEF Coded
<1> QED
  BY <1>1 DEF CInv

\* marks, when the script stays
LEMMA SameMarks ==
  ASSUME NEW at, Marked(at), UNCHANGED <<kind, script>>
  PROVE  Marked(at)'
  BY DEF Marked, Base, Cost

-----------------------------------------------------------------------------
(* Steps that give no daemon a code *)

\* nobody but p takes part in the step
Only(p) == \A d \in Ranks \ {p} : prog'[d] = prog[d] /\ st'[d] = st[d] /\ codes'[d] = codes[d]

LEMMA EndsOnlyItself ==
  ASSUME Typed, NEW p \in Procs, NEW c
  PROVE  /\ Advance(p) => Only(p)
         /\ Fails(p, c) => Only(p)
         /\ Dies(p) => Only(p)
         /\ ReturnsCode(p, c) => Only(p)
<1>1. \A d \in Ranks : d \in Procs
  BY ProcsFacts
<1> QED
  BY <1>1 DEF Typed, Advance, Fails, Dies, ReturnsCode, Only

LEMMA PlainOnward ==
  ASSUME Typed, NEW at, NEW p, Only(p), UNCHANGED <<kind, script, called, inside, root>>,
         p \in Ranks => (st[p] # "up" => st'[p] # "up")
  PROVE  Onward(at, at)
<1>1. \A d \in Ranks : st[d] # "up" => st'[d] # "up"
  BY DEF Only
<1> QED
  BY <1>1, LenProperties DEF Onward, Typed

\* a step that leaves the collectives and the script alone
LEMMA PlainStep ==
  ASSUME Typed, Typed', NEW at, CInv(at), NEW p, Only(p),
         UNCHANGED <<kind, script, called, inside, root>>,
         p \in Ranks => (st[p] # "up" => st'[p] # "up") /\ Coded(p, at)'
  PROVE  CInv(at)'
<1>1. Onward(at, at)
  BY PlainOnward
<1>2. \A d \in Ranks \ {p} : Stays(d)
  BY DEF Only, Stays
<1>3. Marked(at)'
  BY SameMarks DEF CInv
<1> QED
  BY <1>1, <1>2, <1>3, OneCodes

\* a daemon that is not in a call, or ends without a code
LEMMA NoCode ==
  ASSUME HInv, Typed', NEW at, CInv(at), NEW d \in Ranks, Only(d), codes'[d] = codes[d],
         UNCHANGED <<kind, script, called, inside, root>>,
         st[d] # "up" => st'[d] # "up", st'[d] = "up" => Early(d)
  PROVE  CInv(at)'
<1>1. Typed /\ Marked(at) /\ Coded(d, at) /\ d # FE
  BY ProcsFacts DEF HInv, CInv
<1>2. Onward(at, at)
  BY <1>1, PlainOnward
<1>3. Told(d, at)' /\ Led(d)'
  BY <1>1, <1>2, ToldStays, LedStays DEF Coded
<1>4. ~Later(d)'
  <2>1. Early(d) => Len(codes[d]) < 3
    BY <1>1 DEF Early
  <2>2. Later(d)' => st'[d] = "up" /\ Len(codes[d]) >= 3
    BY <1>1 DEF Later
  <2>3. Len(codes[d]) \in Nat
    BY <1>1, ProcsFacts, LenProperties DEF Typed
  <2> QED
    BY <2>1, <2>2, <2>3
<1> QED
  BY <1>1, <1>3, <1>4, PlainStep DEF Coded

\* a daemon whose call fails
LEMMA FailsWithCode ==
  ASSUME HInv, Typed', NEW at, CInv(at), NEW d \in Ranks, NEW c \in Values \ {"OK"}, Fails(d, c),
         UNCHANGED <<kind, script, called, inside, root>>,
         NEW n \in Nat, Len(codes[d]) = n, Deserved(d, n + 1, c, at)'
  PROVE  CInv(at)'
<1>1. Typed /\ Marked(at) /\ Coded(d, at) /\ d # FE /\ d \in Procs
  BY ProcsFacts DEF HInv, CInv
<1>2. st'[d] # "up" /\ codes'[d] = Append(codes[d], c) /\ Only(d)
  BY <1>1, Failing, EndsOnlyItself
<1>3. Onward(at, at)
  BY <1>1, <1>2, PlainOnward
<1>4. Told(d, at)' /\ Led(d)'
  BY <1>1, <1>2, <1>3, ToldMore, LedStays DEF Coded
<1>5. ~Later(d)'
  BY <1>2 DEF Later
<1> QED
  BY <1>1, <1>2, <1>4, <1>5, PlainStep DEF Coded

LEMMA FrontStepCodes ==
  ASSUME HInv, Typed', NEW at, CInv(at), FEStep, ~NextCall(FE)
  PROVE  CInv(at)'
<1>1. Typed /\ FE \in Procs /\ FE \notin Ranks
  BY ProcsFacts DEF HInv
<1>2. \A m : Sent(FE, m) => Only(FE)
  BY <1>1, EndsOnlyItself DEF Sent
<1>3. \A c : UsrCode(c) => Only(FE)
  BY <1>1, EndsOnlyItself DEF UsrCode
<1>4. Only(FE) /\ UNCHANGED <<job, coll>>
  <2>1. CASE write_lmonp_long_msg(FE)
    BY <1>2, <2>1 DEF write_lmonp_long_msg
  <2>2. CASE WriteMode
    BY <1>2, <2>2 DEF WriteMode
  <2>3. CASE read_lmonp_msgheader(FE)
    BY <1>1, <2>3, EndsOnlyItself DEF read_lmonp_msgheader
  <2>4. CASE is_secure
    BY <1>1, <2>4, EndsOnlyItself DEF is_secure
  <2>5. CASE FEReturns
    BY <1>1, <2>5, EndsOnlyItself DEF FEReturns
  <2>6. CASE ToEngine
    BY <1>1, <2>6, EndsOnlyItself DEF ToEngine
  <2>7. CASE handleUsrDataOut
    BY <1>1, <1>3, <2>7, EndsOnlyItself DEF handleUsrDataOut
  <2>8. CASE handleUsrDataIn
    BY <1>1, <1>3, <2>8, EndsOnlyItself DEF handleUsrDataIn
  <2>9. CASE handleUsrDataTooLate
    BY <1>1, <1>3, <2>9, EndsOnlyItself DEF handleUsrDataTooLate
  <2>10. CASE Finalize(FE)
    BY <1>1, <2>10 DEF Finalize, Only, Typed
  <2> QED
    BY <2>1, <2>2, <2>3, <2>4, <2>5, <2>6, <2>7, <2>8, <2>9, <2>10 DEF FEStep
<1> QED
  BY <1>1, <1>4, PlainStep DEF job, coll

LEMMA KilledCodes ==
  ASSUME HInv, Typed', NEW at, CInv(at), NEW p \in Procs, Killed(p)
  PROVE  CInv(at)'
<1>1. Typed
  BY DEF HInv
<1>2. Only(p) /\ UNCHANGED <<kind, script, called, inside, root>> /\ st'[p] # "up" /\ codes'[p] = codes[p]
  BY <1>1, EndsOnlyItself DEF Killed, Dies, job, coll, Typed
<1>3. CASE p \in Ranks
  BY <1>2, <1>3, NoCode
<1>4. CASE p \notin Ranks
  BY <1>1, <1>2, <1>4, PlainStep
<1> QED
  BY <1>3, <1>4

LEMMA FinalizeCodes ==
  ASSUME HInv, Typed', NEW at, CInv(at), NEW d \in Ranks, Finalize(d)
  PROVE  CInv(at)'
<1>1. Typed /\ d \in Procs
  BY ProcsFacts DEF HInv
<1>2. /\ Only(d) /\ UNCHANGED <<kind, script, called, inside, root>>
      /\ st'[d] # "up" /\ codes'[d] = codes[d]
  BY <1>1 DEF Finalize, job, coll, Only, Typed
<1> QED
  BY <1>2, NoCode

LEMMA GivesUpCodes ==
  ASSUME HInv, Typed', NEW at, CInv(at), NEW d \in Ranks, GivesUp(d)
  PROVE  CInv(at)'
<1>1. Typed /\ d \in Procs
  BY ProcsFacts DEF HInv
<1>2. /\ Only(d) /\ UNCHANGED <<kind, script, called, inside, root>>
      /\ st'[d] # "up" /\ codes'[d] = codes[d]
  BY <1>1, EndsOnlyItself DEF GivesUp, Dies, job, coll, Typed
<1> QED
  BY <1>2, NoCode

\* a daemon in its handshake
LEMMA CountedAt ==
  ASSUME HInv, NEW d \in Ranks, Early(d)
  PROVE  \E r \in Nat :
           /\ Left(d, r) /\ called[d] = (IF inside[d] THEN Behind(d, r) + 1 ELSE Behind(d, r))
           /\ Behind(d, r) \in Int /\ Len(codes[d]) = Returned(d, r)
           /\ inside[d] => Head(prog[d]).do \in {"barrier", "bcast", "gather"}
<1>1. d \in Procs /\ d \in Int /\ Typed /\ 0 \in Ranks /\ (d = 0 \/ d \in Ranks \ {0})
  BY ProcsFacts DEF HInv
<1>2. PICK r \in Nat : r = Len(prog[d])
  BY <1>1, LenProperties DEF Typed
<1>3. Counted(d)
  BY <1>1 DEF HInv, Places, Master, Slave
<1>4. /\ called[d] = Behind(d, r) + (IF inside[d] THEN 1 ELSE 0)
      /\ Len(codes[d]) = Returned(d, r)
      /\ inside[d] => Head(prog[d]).do \in {"barrier", "bcast", "gather"}
  BY <1>2, <1>3 DEF Counted
<1>5. Behind(d, r) \in Int
  BY <1>1 DEF Behind
<1>6. called[d] = (IF inside[d] THEN Behind(d, r) + 1 ELSE Behind(d, r))
  BY <1>4, <1>5
<1> QED
  BY <1>2, <1>4, <1>5, <1>6 DEF Left

LEMMA KeyCodes ==
  ASSUME HInv, Typed', NEW at, CInv(at), GetSharedKeyAndID
  PROVE  CInv(at)'
<1>1. /\ 0 \in Procs /\ 0 \in Ranks /\ 0 # FE /\ st[0] = "up" /\ prog[0] # <<>>
      /\ Head(prog[0]).do = "key" /\ Typed /\ kind \in {"be", "mw"}
  BY ProcsFacts DEF GetSharedKeyAndID, At, HInv, Typed
<1>2. UNCHANGED <<kind, script, called, inside, root>>
  BY DEF GetSharedKeyAndID, job, coll
<1>3. Early(0) /\ OnPlan(0)
  BY <1>1, Stage, LaterDos
<1>4. CASE Advance(0)
  <2>1. Only(0) /\ codes'[0] = codes[0]
    BY <1>1, <1>4, EndsOnlyItself DEF Advance
  <2> QED
    BY <1>1, <1>2, <1>3, <2>1, NoCode
<1>5. CASE Fails(0, "ESYS")
  <2>1. PICK r \in Nat :
          /\ Left(0, r) /\ called[0] = (IF inside[0] THEN Behind(0, r) + 1 ELSE Behind(0, r))
          /\ Len(codes[0]) = Returned(0, r) /\ ~inside[0]
    BY <1>1, <1>3, CountedAt
  <2>2. (kind = "be" => r = 23) /\ (kind = "mw" => r = 12)
    <3>1. CASE kind = "be"
      <4>1. MasterBeMoves(prog[0])
        BY <1>1, <1>3, <2>1, <3>1, Positions
      <4> QED
        BY <1>1, <1>3, <2>1, <3>1, <4>1 DEF MasterBeMoves, Left
    <3>2. CASE kind = "mw"
      <4>1. MasterMwMoves(prog[0])
        BY <1>1, <1>3, <2>1, <3>2, Positions
      <4> QED
        BY <1>1, <1>3, <2>1, <3>2, <4>1 DEF MasterMwMoves, Left
    <3> QED
      BY <3>1, <3>2
  <2>3. called[0] = 0 /\ Len(codes[0]) = 0
    BY <1>1, <2>1, <2>2 DEF Behind, Returned
  <2>4. st'[0] # "up"
    BY <1>1, <1>5 DEF Fails, Typed
  <2>5. Gone(0, 0)'
    BY <1>2, <2>3, <2>4 DEF Gone
  <2>6. Deserved(0, 0 + 1, "ESYS", at)'
    BY <2>5 DEF Deserved
  <2> QED
    BY <1>1, <1>2, <1>5, <2>3, <2>6, FailsWithCode, ValueFacts
<1> QED
  BY <1>4, <1>5 DEF GetSharedKeyAndID

LEMMA MasterWriteCodes ==
  ASSUME HInv, Typed', NEW at, CInv(at), write_lmonp_long_msg(0)
  PROVE  CInv(at)'
<1>1. /\ 0 \in Procs /\ 0 \in Ranks /\ 0 # FE /\ st[0] = "up" /\ prog[0] # <<>>
      /\ Head(prog[0]).do = "write" /\ Typed
  BY ProcsFacts DEF write_lmonp_long_msg, At, HInv
<1>2. UNCHANGED <<kind, script, called, inside, root>>
  BY DEF write_lmonp_long_msg, job, coll
<1>3. Early(0)
  BY <1>1, Stage, LaterDos
<1>4. Advance(0) \/ Dies(0)
  BY DEF write_lmonp_long_msg, Sent
<1>5. Only(0) /\ codes'[0] = codes[0]
  BY <1>1, <1>4, EndsOnlyItself DEF Advance, Dies
<1> QED
  BY <1>1, <1>2, <1>3, <1>5, NoCode

LEMMA MasterReadCodes ==
  ASSUME HInv, Typed', NEW at, CInv(at), read_lmonp_msgheader(0)
  PROVE  CInv(at)'
<1>1. /\ 0 \in Procs /\ 0 \in Ranks /\ 0 # FE /\ st[0] = "up" /\ prog[0] # <<>>
      /\ Head(prog[0]).do = "read" /\ Typed /\ kind \in {"be", "mw"}
  BY ProcsFacts DEF read_lmonp_msgheader, At, HInv, Typed
<1>2. UNCHANGED <<kind, script, called, inside, root>>
  BY DEF read_lmonp_msgheader, job, coll
<1>3. Early(0) /\ OnPlan(0)
  BY <1>1, Stage, LaterDos
<1>4. CASE Advance(0) \/ Dies(0)
  <2>1. Only(0) /\ codes'[0] = codes[0]
    BY <1>1, <1>4, EndsOnlyItself DEF Advance, Dies
  <2> QED
    BY <1>1, <1>2, <1>3, <2>1, NoCode
<1>5. ASSUME NEW m, Fails(0, IF m = Lost /\ Checked(Head(prog[0]).arg) THEN "ESYS" ELSE "EBDMSG")
      PROVE  CInv(at)'
  <2>1. PICK r \in Nat :
          /\ Left(0, r) /\ called[0] = (IF inside[0] THEN Behind(0, r) + 1 ELSE Behind(0, r))
          /\ Len(codes[0]) = Returned(0, r) /\ ~inside[0]
    BY <1>1, <1>3, CountedAt
  <2>2. /\ Head(prog[0]).arg \in {"proctab", "mode", "rm_type", "usrdata"}
        /\ (kind = "be" => r \in 12 .. 15) /\ (kind = "mw" => r = 4)
    <3>1. CASE kind = "be"
      <4>1. MasterBeMoves(prog[0])
        BY <1>1, <1>3, <2>1, <3>1, Positions
      <4> QED
        BY <1>1, <1>3, <2>1, <3>1, <4>1 DEF MasterBeMoves, Left
    <3>2. CASE kind = "mw"
      <4>1. MasterMwMoves(prog[0])
        BY <1>1, <1>3, <2>1, <3>2, Positions
      <4> QED
        BY <1>1, <1>3, <2>1, <3>2, <4>1 DEF MasterMwMoves, Left
    <3> QED
      BY <1>1, <3>1, <3>2
  <2>3. called[0] = 2 /\ Len(codes[0]) = 1
    BY <1>1, <2>1, <2>2 DEF Behind, Returned
  <2>4. Fails(0, "EBDMSG")
    BY <1>5, <2>2 DEF Checked
  <2>5. st'[0] # "up"
    BY <1>1, <2>4 DEF Fails, Typed
  <2>6. Gone(0, 2)'
    BY <1>2, <2>3, <2>5 DEF Gone
  <2>7. Deserved(0, 1 + 1, "EBDMSG", at)'
    BY <2>6 DEF Deserved
  <2> QED
    BY <1>1, <1>2, <2>3, <2>4, <2>7, FailsWithCode, ValueFacts
<1> QED
  BY <1>4, <1>5 DEF read_lmonp_msgheader

\* procctl_init and procctl_initdone come with the first code returned, and behind
\* the broadcast of the table
LEMMA Syncing ==
  ASSUME HInv, NEW d \in Ranks, At(d, "procctl_init") \/ At(d, "procctl_initdone")
  PROVE  kind = "be" /\ Early(d) /\ ~inside[d] /\ called[d] \in {6, 7} /\ Len(codes[d]) = 1
<1>1. /\ d \in Procs /\ d # FE /\ d \in Int /\ st[d] = "up" /\ prog[d] # <<>>
      /\ Head(prog[d]).do \in {"procctl_init", "procctl_initdone"} /\ Typed /\ kind \in {"be", "mw"}
      /\ (d = 0 \/ d \in Ranks \ {0})
  BY ProcsFacts DEF At, HInv, Typed
<1>2. Early(d) /\ OnPlan(d)
  BY <1>1, Stage, LaterDos
<1>3. PICK r \in Nat :
        /\ Left(d, r) /\ called[d] = (IF inside[d] THEN Behind(d, r) + 1 ELSE Behind(d, r))
        /\ Len(codes[d]) = Returned(d, r) /\ ~inside[d]
  BY <1>1, <1>2, CountedAt
<1>4. kind = "be"
  <2>1. CASE kind = "mw" /\ d = 0
    <3>1. MasterMwMoves(prog[d])
      BY <1>1, <1>2, <2>1, Positions
    <3> QED
      BY <1>1, <3>1 DEF MasterMwMoves
  <2>2. CASE kind = "mw" /\ d # 0
    <3>1. SlaveMwMoves(prog[d])
      BY <1>1, <1>2, <2>2, Positions
    <3> QED
      BY <1>1, <3>1 DEF SlaveMwMoves
  <2> QED
    BY <1>1, <2>1, <2>2
<1>5. (d = 0 => r \in {4, 7}) /\ (d # 0 => r \in {3, 5})
  <2>1. CASE d = 0
    <3>1. MasterBeMoves(prog[d])
      BY <1>1, <1>2, <1>3, <1>4, <2>1, Positions
    <3> QED
      BY <1>1, <1>2, <1>3, <1>4, <2>1, <3>1 DEF MasterBeMoves, Left
  <2>2. CASE d # 0
    <3>1. SlaveBeMoves(prog[d])
      BY <1>1, <1>2, <1>3, <1>4, <2>2, Positions
    <3> QED
      BY <1>1, <1>2, <1>3, <1>4, <2>2, <3>1 DEF SlaveBeMoves, Left
  <2> QED
    BY <2>1, <2>2
<1>6. Behind(d, r) \in {6, 7} /\ Returned(d, r) = 1
  BY <1>1, <1>4, <1>5 DEF Behind, Returned
<1> QED
  BY <1>2, <1>3, <1>4, <1>6

LEMMA SyncCodes ==
  ASSUME HInv, Typed', NEW at, CInv(at), NEW d \in Ranks, procctl_init(d) \/ procctl_initdone(d)
  PROVE  CInv(at)'
<1>1. d \in Procs /\ Typed /\ 0 \in Ranks
  BY ProcsFacts DEF HInv
<1>2. UNCHANGED <<kind, script, called, inside, root>> /\ (Advance(d) \/ Fails(d, "ESUBSYNC"))
  BY DEF procctl_init, procctl_initdone, job, coll
<1>3. kind = "be" /\ Early(d) /\ ~inside[d] /\ called[d] \in {6, 7} /\ Len(codes[d]) = 1
  BY Syncing DEF procctl_init, procctl_initdone
<1>4. CASE Advance(d)
  <2>1. Only(d) /\ codes'[d] = codes[d] /\ st'[d] = st[d]
    BY <1>1, <1>4, EndsOnlyItself DEF Advance
  <2> QED
    BY <1>2, <1>3, <2>1, NoCode
<1>5. CASE Fails(d, "ESUBSYNC")
  <2>1. called[0] >= 6
    BY <1>1, <1>3 DEF CInv, Coded, Led
  <2>2. st'[d] # "up"
    BY <1>1, <1>5 DEF Fails, Typed
  <2>3. Gone(d, 7)'
    BY <1>2, <1>3, <2>2 DEF Gone
  <2>4. Deserved(d, 1 + 1, "ESUBSYNC", at)'
    BY <1>2, <1>3, <2>1, <2>3 DEF Deserved
  <2> QED
    BY <1>2, <1>3, <1>5, <2>4, FailsWithCode, ValueFacts
<1> QED
  BY <1>2, <1>4, <1>5

-----------------------------------------------------------------------------
(* The calls after the handshake *)

LEMMA Shapes ==
  /\ \A w, a : Do(w, a).do = w /\ Do(w, a).arg = a
  /\ \A x : Head(<<x>>) = x /\ Tail(<<x>>) = <<>> /\ <<x>> # <<>>
  /\ \A x, y : Head(<<x, y>>) = x /\ Tail(<<x, y>>) = <<y>> /\ <<x, y>> # <<>>
  /\ \A x, y, z : Head(<<x, y, z>>) = x /\ Tail(<<x, y, z>>) = <<y, z>> /\ <<x, y, z>> # <<>>
<1>1. \A w, a : Do(w, a).do = w /\ Do(w, a).arg = a
  BY DEF Do
<1>2. \A x : Head(<<x>>) = x /\ Tail(<<x>>) = <<>> /\ <<x>> # <<>>
  OBVIOUS
<1>3. \A x, y : Head(<<x, y>>) = x /\ Tail(<<x, y>>) = <<y>> /\ <<x, y>> # <<>>
  OBVIOUS
<1>4. \A x, y, z : Head(<<x, y, z>>) = x /\ Tail(<<x, y, z>>) = <<y, z>> /\ <<x, y, z>> # <<>>
  OBVIOUS
<1> QED
  BY <1>1, <1>2, <1>3, <1>4

\* the next step of a call, and what comes after it
LEMMA CallSteps ==
  ASSUME NEW d \in Ranks, NEW i, NEW c, NEW at, InCall(d, i, c, at), prog[d] # <<>>
  PROVE  /\ i <= Len(script)
         /\ \/ /\ Head(prog[d]).do = "do_bemaster" /\ Head(prog[d]).arg = "none"
               /\ Tail(prog[d]) = <<Bcast("leng"), Bcast("lmonpl")>>
               /\ d = 0 /\ ~inside[d] /\ c = at[i] /\ script[i] = "coloc"
            \/ /\ Head(prog[d]).do = "bcast" /\ Head(prog[d]).arg = "leng"
               /\ Tail(prog[d]) = <<Bcast("lmonpl")>> /\ c = at[i] /\ script[i] = "coloc"
            \/ /\ Head(prog[d]).do = "bcast" /\ Head(prog[d]).arg = "lmonpl"
               /\ Tail(prog[d]) = <<>> /\ c = at[i] + 1 /\ script[i] = "coloc"
            \/ /\ Head(prog[d]).do \in {"recvUsrData", "sendUsrData"} /\ Head(prog[d]).arg = "none"
               /\ Tail(prog[d]) = <<Bcast("lrc")>>
               /\ d = 0 /\ ~inside[d] /\ c = at[i] /\ script[i] # "coloc"
            \/ /\ Head(prog[d]).do = "bcast" /\ Head(prog[d]).arg = "lrc"
               /\ Tail(prog[d]) = <<>> /\ c = at[i] /\ script[i] # "coloc"
<1>1. CASE /\ i <= Len(script) /\ script[i] = "coloc" /\ d = 0 /\ ~inside[d] /\ c = at[i]
           /\ prog[d] = <<Do("do_bemaster", "none"), Bcast("leng"), Bcast("lmonpl")>>
  BY <1>1, Shapes
<1>2. CASE /\ i <= Len(script) /\ script[i] = "coloc" /\ c = at[i]
           /\ prog[d] = <<Bcast("leng"), Bcast("lmonpl")>>
  BY <1>2, Shapes DEF Bcast
<1>3. CASE /\ i <= Len(script) /\ script[i] = "coloc" /\ c = at[i] + 1
           /\ prog[d] = <<Bcast("lmonpl")>>
  BY <1>3, Shapes DEF Bcast
<1>4. ASSUME i <= Len(script), script[i] # "coloc", d = 0, ~inside[d], c = at[i],
             NEW w \in {"recvUsrData", "sendUsrData"}, prog[d] = <<Do(w, "none"), Bcast("lrc")>>
      PROVE  /\ Head(prog[d]).do \in {"recvUsrData", "sendUsrData"} /\ Head(prog[d]).arg = "none"
             /\ Tail(prog[d]) = <<Bcast("lrc")>>
  BY <1>4, Shapes
<1>5. CASE i <= Len(script) /\ script[i] # "coloc" /\ c = at[i] /\ prog[d] = <<Bcast("lrc")>>
  BY <1>5, Shapes DEF Bcast
<1> QED
  BY <1>1, <1>2, <1>3, <1>4, <1>5 DEF InCall

\* the master's own steps belong to a call after the handshake
LEMMA InACall ==
  ASSUME HInv, st[0] = "up", prog[0] # <<>>,
         Head(prog[0]).do \in {"recvUsrData", "sendUsrData", "do_bemaster"}
  PROVE  Later(0)
<1>1. 0 \in Procs /\ Typed /\ kind \in {"be", "mw"}
  BY ProcsFacts DEF HInv, Typed
<1>2. ~(Early(0) /\ OnPlan(0))
  <2>1. CASE kind = "be"
    <3>1. Early(0) /\ OnPlan(0) => MasterBeMoves(prog[0])
      BY <1>1, <2>1, Positions
    <3> QED
      BY <3>1, SMTT(30) DEF MasterBeMoves
  <2>2. CASE kind = "mw"
    <3>1. Early(0) /\ OnPlan(0) => MasterMwMoves(prog[0])
      BY <1>1, <2>2, Positions
    <3> QED
      BY <3>1 DEF MasterMwMoves
  <2> QED
    BY <1>1, <2>1, <2>2
<1> QED
  BY <1>1, <1>2, Stage

LEMMA UsrDataCodes ==
  ASSUME HInv, Typed', NEW at, CInv(at), MasterReceives \/ MasterSends \/ do_bemaster
  PROVE  CInv(at)'
<1>1. /\ 0 \in Procs /\ 0 \in Ranks /\ 0 # FE /\ Typed /\ st[0] = "up" /\ prog[0] # <<>>
      /\ Head(prog[0]).do \in {"recvUsrData", "sendUsrData", "do_bemaster"}
      /\ UNCHANGED <<kind, script, called, inside, root>>
  BY ProcsFacts DEF MasterReceives, MasterSends, do_bemaster, At, HInv, job, coll
<1>2. \/ Advance(0) \/ Dies(0)
      \/ Fails(0, "ESUBCOM") /\ Head(prog[0]).do = "do_bemaster"
  BY DEF MasterReceives, MasterSends, do_bemaster, Sent, At
<1>3. Later(0)
  BY <1>1, InACall
<1>4. Marked(at) /\ Coded(0, at)
  BY <1>1 DEF CInv
<1>5. PICK i \in 1 .. Len(script) + 1, c \in Nat :
        /\ Len(codes[0]) = i + 2
        /\ called[0] = IF inside[0] THEN c + 1 ELSE c
        /\ InCall(0, i, c, at)
  BY <1>3, <1>4 DEF Coded, CallPlace
<1>6. CASE Dies(0)
  <2>1. Only(0) /\ codes'[0] = codes[0] /\ st'[0] # "up"
    BY <1>1, <1>6, EndsOnlyItself DEF Dies, Typed
  <2> QED
    BY <1>1, <2>1, NoCode
<1>7. CASE Advance(0)
  <2>1. Only(0) /\ codes'[0] = codes[0] /\ st'[0] = st[0] /\ prog'[0] = Tail(prog[0])
    BY <1>1, <1>7, EndsOnlyItself, Advancing
  <2>2. Onward(at, at)
    BY <1>1, <2>1, PlainOnward
  <2>3. Told(0, at)' /\ Led(0)'
    BY <1>1, <1>4, <2>1, <2>2, ToldStays, LedStays DEF Coded
  <2>4. \/ /\ i <= Len(script) /\ script[i] = "coloc" /\ c = at[i] /\ prog'[0] = <<Bcast("leng"), Bcast("lmonpl")>>
        \/ /\ i <= Len(script) /\ script[i] # "coloc" /\ c = at[i] /\ prog'[0] = <<Bcast("lrc")>>
    BY <1>1, <1>5, <2>1, CallSteps
  <2>5. InCall(0, i, c, at)'
    BY <1>1, <2>4 DEF InCall
  <2>6. CallPlace(0, at)'
    BY <1>1, <1>5, <2>1, <2>5 DEF CallPlace
  <2> QED
    BY <1>1, <2>1, <2>3, <2>6, PlainStep DEF Coded
<1>8. CASE Fails(0, "ESUBCOM") /\ Head(prog[0]).do = "do_bemaster"
  <2>1. i <= Len(script) /\ c = at[i] /\ script[i] = "coloc" /\ ~inside[0]
    BY <1>1, <1>5, <1>8, CallSteps
  <2>2. st'[0] # "up"
    BY <1>1, <1>8 DEF Fails, Typed
  <2>3. Gone(0, at[i])'
    BY <1>1, <1>5, <2>1, <2>2 DEF Gone
  <2>4. PICK n \in Nat : n = i + 2
    OBVIOUS
  <2>5. \A k \in Nat \ {0} : n + 1 = k + 3 => k = i
    BY <1>5, <2>4
  <2>6. n + 1 # 1 /\ n + 1 # 2 /\ n + 1 # 3
    BY <1>5, <2>4
  <2>7. Deserved(0, n + 1, "ESUBCOM", at)'
    BY <1>1, <2>1, <2>3, <2>5, <2>6 DEF Deserved
  <2> QED
    BY <1>1, <1>5, <1>8, <2>4, <2>7, FailsWithCode, ValueFacts
<1> QED
  BY <1>2, <1>6, <1>7, <1>8

LEMMA EnterCodes ==
  ASSUME HInv, Typed', NEW at, CInv(at), NEW d \in Ranks, Enter(d)
  PROVE  CInv(at)'
<1>1. /\ d \in Procs /\ d # FE /\ st[d] = "up" /\ prog[d] # <<>> /\ ~inside[d] /\ Typed /\ 0 \in Ranks
      /\ Head(prog[d]).do \in {"barrier", "bcast", "gather"}
  BY ProcsFacts DEF Enter, Collective, At, HInv
<1>2. UNCHANGED <<kind, script, prog, st, codes>>
  BY DEF Enter, job
<1>3. called'[d] = called[d] + 1 /\ \A e \in Ranks \ {d} : called'[e] = called[e]
  BY <1>1 DEF Enter, Typed
<1>4. inside'[d] = TRUE /\ \A e \in Ranks \ {d} : inside'[e] = inside[e]
  BY <1>1 DEF Enter, Typed
<1>5. \A i \in 1 .. called[0] : root'[i] = root[i]
  <2>1. CASE d # 0
    BY <2>1 DEF Enter
  <2>2. CASE d = 0
    <3>1. PICK v \in Values : root' = Append(root, v)
      <4>1. At(0, "bcast") => know[0][Head(prog[0]).arg] \in Values
        BY <1>1, BcastField
      <4> QED
        BY <2>2, <4>1, EmptyValue DEF Enter
    <3>2. root \in Seq(Values) /\ Len(root) = called[0] /\ called[0] \in Nat
      BY <1>1 DEF Typed
    <3> QED
      BY <3>1, <3>2, AppendProperties
  <2> QED
    BY <2>1, <2>2
<1>6. Onward(at, at)
  <2>1. Len(script) \in Nat
    BY <1>1, LenProperties DEF Typed
  <2>2. \A e \in Ranks : called'[e] >= called[e] /\ (st[e] # "up" => st'[e] # "up" /\ called'[e] = called[e])
    <3>1. \A e \in Ranks : called[e] \in Nat /\ (e # d => called'[e] = called[e])
      BY <1>1, <1>3 DEF Typed
    <3> QED
      BY <1>1, <1>2, <1>3, <3>1
  <2> QED
    BY <1>2, <1>5, <2>1, <2>2 DEF Onward
<1>7. Marked(at) /\ Coded(d, at)
  BY DEF CInv
<1>8. Told(d, at)'
  BY <1>1, <1>2, <1>6, <1>7, ToldStays DEF Coded
<1>9. Led(d)'
  <2>1. called'[0] >= called[0] /\ called[0] \in Nat /\ called'[0] \in Nat /\ called[d] \in Nat
    BY <1>1, <1>6 DEF Onward, Typed
  <2> QED
    BY <1>1, <1>2, <1>3, <1>4, <1>7, <2>1 DEF Led, Coded
<1>10. ASSUME Later(d) PROVE CallPlace(d, at)'
  <2>1. PICK i \in 1 .. Len(script) + 1, c \in Nat :
          /\ Len(codes[d]) = i + 2
          /\ called[d] = IF inside[d] THEN c + 1 ELSE c
          /\ InCall(d, i, c, at)
    BY <1>7, <1>10 DEF Coded, CallPlace
  <2>2. \/ /\ i <= Len(script) /\ script[i] = "coloc"
           /\ \/ prog[d] = <<Bcast("leng"), Bcast("lmonpl")>> /\ c = at[i]
              \/ prog[d] = <<Bcast("lmonpl")>> /\ c = at[i] + 1
        \/ i <= Len(script) /\ script[i] # "coloc" /\ c = at[i] /\ prog[d] = <<Bcast("lrc")>>
    BY <1>1, <2>1, Shapes DEF InCall
  <2>3. InCall(d, i, c, at)'
    BY <1>2, <2>2 DEF InCall
  <2>4. called'[d] = IF inside'[d] THEN c + 1 ELSE c
    BY <1>1, <1>3, <1>4, <2>1
  <2> QED
    BY <1>2, <2>1, <2>3, <2>4 DEF CallPlace
<1>11. Later(d)' => Later(d)
  BY <1>2 DEF Later
<1>12. Marked(at)'
  BY <1>2, <1>7, SameMarks
<1>13. \A e \in Ranks \ {d} : Stays(e)
  BY <1>2, <1>3, <1>4 DEF Stays
<1> QED
  BY <1>1, <1>6, <1>8, <1>9, <1>10, <1>11, <1>12, <1>13, OneCodes DEF Coded

\* the collectives a call of the handshake ends with, and the one that brings the table
LEMMA Ending ==
  ASSUME HInv, NEW d \in Ranks, Early(d), Collective(d), inside[d], NEW r \in Nat, Left(d, r)
  PROVE  /\ Head(prog[d]).arg = "returns" => Head(prog[d]).do = "barrier"
         /\ Head(prog[d]).arg = "returns" /\ Returned(d, r) = 1 => called[d] = SyncPoints
         /\ r = 1 => called[d] = Base
         /\ kind = "be" /\ d # 0 /\ called[d] = 6 => Head(prog[d]).do = "bcast"
<1>1. /\ d \in Procs /\ d # FE /\ d \in Int /\ prog[d] # <<>> /\ Typed /\ kind \in {"be", "mw"}
      /\ OnPlan(d) /\ Head(prog[d]).do \in {"barrier", "bcast", "gather"}
  BY ProcsFacts DEF Collective, At, HInv, Typed, Places, Master, Slave
<1>2. called[d] = Behind(d, r) + 1
  BY Collecting
<1>3. PICK a, h : a = Head(prog[d]).arg /\ h = Head(prog[d]).do
  OBVIOUS
<1>4. CASE kind = "be" /\ d = 0
  <2>1. MasterBeMoves(prog[d])
    BY <1>1, <1>4, Positions
  <2>2. r \in {18, 17, 11, 10, 9, 8, 6, 3, 1} /\ (a = "returns" => r \in {18, 3, 1}) /\ (r \in {18, 3, 1} => h = "barrier")
    BY <1>1, <1>3, <2>1 DEF MasterBeMoves, Left
  <2>5. r \in {18, 3, 1} /\ Returned(d, r) = 1 => called[d] = SyncPoints
    BY <1>1, <1>2, <1>4, <2>2 DEF Behind, Returned, SyncPoints
  <2>6. r = 1 => called[d] = Base
    BY <1>1, <1>2, <1>4, <2>2 DEF Behind, Base
  <2> QED
    BY <1>3, <1>4, <2>2, <2>5, <2>6
<1>5. CASE kind = "be" /\ d # 0
  <2>1. SlaveBeMoves(prog[d])
    BY <1>1, <1>5, Positions
  <2>2. r \in {11, 10, 9, 8, 7, 6, 4, 2, 1} /\ (a = "returns" => r \in {11, 2, 1}) /\ (r \in {11, 2, 1} => h = "barrier")
    BY <1>1, <1>3, <2>1 DEF SlaveBeMoves, Left
  <2>3. r = 6 => h = "bcast"
    BY <1>1, <1>3, <2>1 DEF SlaveBeMoves, Left
  <2>4. called[d] = 6 => r = 6
    BY <1>1, <1>2, <1>5, <2>2 DEF Behind
  <2>5. r \in {11, 2, 1} /\ Returned(d, r) = 1 => called[d] = SyncPoints
    BY <1>1, <1>2, <1>5, <2>2 DEF Behind, Returned, SyncPoints
  <2>6. r = 1 => called[d] = Base
    BY <1>1, <1>2, <1>5, <2>2 DEF Behind, Base
  <2> QED
    BY <1>3, <1>5, <2>2, <2>5, <2>6, <2>3, <2>4
<1>6. CASE kind = "mw" /\ d = 0
  <2>1. MasterMwMoves(prog[d])
    BY <1>1, <1>6, Positions
  <2>2. r \in {7, 6, 3, 1} /\ (a = "returns" => r \in {7, 3, 1}) /\ (r \in {7, 3, 1} => h = "barrier")
    BY <1>1, <1>3, <2>1 DEF MasterMwMoves, Left
  <2>5. r \in {7, 3, 1} /\ Returned(d, r) = 1 => called[d] = SyncPoints
    BY <1>1, <1>2, <1>6, <2>2 DEF Behind, Returned, SyncPoints
  <2>6. r = 1 => called[d] = Base
    BY <1>1, <1>2, <1>6, <2>2 DEF Behind, Base
  <2> QED
    BY <1>3, <1>6, <2>2, <2>5, <2>6
<1>7. CASE kind = "mw" /\ d # 0
  <2>1. SlaveMwMoves(prog[d])
    BY <1>1, <1>7, Positions
  <2>2. r \in {4, 3, 2, 1} /\ (a = "returns" => r \in {4, 2, 1}) /\ (r \in {4, 2, 1} => h = "barrier")
    BY <1>1, <1>3, <2>1 DEF SlaveMwMoves, Left
  <2>5. r \in {4, 2, 1} /\ Returned(d, r) = 1 => called[d] = SyncPoints
    BY <1>1, <1>2, <1>7, <2>2 DEF Behind, Returned, SyncPoints
  <2>6. r = 1 => called[d] = Base
    BY <1>1, <1>2, <1>7, <2>2 DEF Behind, Base
  <2> QED
    BY <1>3, <1>7, <2>2, <2>5, <2>6
<1> QED
  BY <1>1, <1>4, <1>5, <1>6, <1>7

\* what leaving a collective leaves alone
LEMMA LeaveFacts ==
  ASSUME HInv, NEW at, CInv(at), NEW d \in Ranks, Leave(d)
  PROVE  /\ d \in Procs /\ d # FE /\ st[d] = "up" /\ prog[d] # <<>> /\ Collective(d) /\ inside[d]
         /\ Typed /\ 0 \in Ranks /\ UNCHANGED <<kind, script, called, root>> /\ inside'[d] = FALSE
         /\ \A e \in Ranks \ {d} : Stays(e)
         /\ Onward(at, at) /\ Marked(at) /\ Marked(at)' /\ Coded(d, at)
<1>1. /\ d \in Procs /\ d # FE /\ st[d] = "up" /\ prog[d] # <<>> /\ Collective(d) /\ inside[d]
      /\ Typed /\ 0 \in Ranks
  BY ProcsFacts DEF Leave, Collective, At, HInv
<1>2. UNCHANGED <<kind, script, called, root>> /\ inside' = [inside EXCEPT ![d] = FALSE]
  BY DEF Leave, job
<1>3. inside'[d] = FALSE /\ \A e \in Ranks \ {d} : inside'[e] = inside[e]
  BY <1>1, <1>2 DEF Typed
<1>4. \A e \in Ranks \ {d} : prog'[e] = prog[e] /\ st'[e] = st[e] /\ codes'[e] = codes[e]
  <2>1. Moves(d)
    BY LeaveWhat
  <2> QED
    BY <2>1, ProcsFacts DEF Moves
<1>5. \A e \in Ranks \ {d} : Stays(e)
  BY <1>2, <1>3, <1>4 DEF Stays
<1>6. Onward(at, at)
  <2>1. Len(script) \in Nat /\ \A e \in Ranks : called[e] \in Nat
    BY <1>1, LenProperties DEF Typed
  <2>2. \A e \in Ranks : st[e] # "up" => st'[e] # "up"
    BY <1>1, <1>4
  <2> QED
    BY <1>2, <2>1, <2>2 DEF Onward
<1>7. Marked(at) /\ Marked(at)' /\ Coded(d, at)
  BY <1>2, SameMarks DEF CInv
<1> QED
  BY <1>1, <1>2, <1>3, <1>5, <1>6, <1>7

LEMMA EarlyLeaves ==
  ASSUME HInv, Typed', NEW at, CInv(at), NEW d \in Ranks, Leave(d), Early(d)
  PROVE  CInv(at)'
<1>1. /\ d \in Procs /\ d # FE /\ st[d] = "up" /\ prog[d] # <<>> /\ Collective(d) /\ inside[d]
      /\ Typed /\ 0 \in Ranks /\ UNCHANGED <<kind, script, called, root>> /\ inside'[d] = FALSE
      /\ \A e \in Ranks \ {d} : Stays(e)
      /\ Onward(at, at) /\ Marked(at) /\ Marked(at)' /\ Coded(d, at)
  BY LeaveFacts
<1>2. PICK r \in Nat : Left(d, r)
  BY <1>1, LenProperties DEF Typed, Left
<1>3. PICK n \in Nat : n = Len(codes[d]) /\ n = Returned(d, r)
  BY <1>1, <1>2, Collecting, LenProperties, SMTT(30) DEF Typed
<1>4. /\ called[0] \in Nat /\ called[d] \in Nat /\ Len(root) = called[0] /\ called[d] >= 1
  BY <1>1, <1>2, Collecting, SMTT(30) DEF Typed
<1>5. Led(d)'
  <2>1. called[d] = 6 /\ kind = "be" => called[0] >= 6
    <3>1. CASE d # 0 /\ kind = "be" /\ called[d] = 6
      <4>1. called[d] \in 1 .. Len(root)
        BY <1>1, <1>2, <3>1, Ending, Arrived
      <4> QED
        BY <1>4, <3>1, <4>1
    <3>2. CASE d = 0
      BY <1>4, <3>2
    <3> QED
      BY <3>1, <3>2
  <2> QED
    BY <1>1, <1>4, <2>1 DEF Led, Coded
<1>6. CASE Head(prog[d]).arg # "returns"
  <2>1. Head(prog[d]).arg \notin {"returns", "lmonpl", "lrc"} /\ r # 1 /\ r \in 1 .. 23
    BY <1>1, <1>2, <1>6, Collecting
  <2>2. prog'[d] = Tail(prog[d]) /\ st'[d] = st[d] /\ codes'[d] = codes[d]
    BY <2>1, LeaveWhat
  <2>3. Told(d, at)'
    BY <1>1, <2>2, ToldStays DEF Coded
  <2>4. ~Later(d)'
    <3>1. r > 1
      BY <2>1
    <3> QED
      BY <1>1, <1>2, <1>6, <2>2, <3>1, RankReturns
  <2> QED
    BY <1>1, <1>5, <2>3, <2>4, OneCodes DEF Coded
<1>7. CASE Head(prog[d]).arg = "returns"
  <2>1. /\ prog'[d] = Tail(prog[d]) /\ st'[d] = st[d] /\ codes'[d] = Append(codes[d], "OK")
        /\ Len(codes'[d]) = Len(codes[d]) + 1
    BY <1>7, LeaveWhat
  <2>2. All(called[d])
    BY <1>1, <1>2, <1>7, Ending, Arrived
  <2>3. Deserved(d, n + 1, "OK", at)'
    <3>1. n \in {0, 1, 2}
      BY <1>1, <1>2, <1>3, ReturnedRange, ProcsFacts
    <3>2. called'[0] >= 1
      BY <1>1, <1>4, <2>2 DEF All
    <3>3. n = 1 => Ready'
      <4>1. n = 1 => called[d] = SyncPoints
        BY <1>1, <1>2, <1>3, <1>7, Ending
      <4>2. n = 1 => Ready
        BY <1>1, <2>2, <4>1 DEF Ready, SyncPoints, Typed
      <4>3. Ready' = Ready
        BY <1>1 DEF Ready, All
      <4> QED
        BY <4>2, <4>3
    <3>4. \A i \in Nat \ {0} : n + 1 # i + 3
      BY <3>1
    <3> QED
      BY <3>1, <3>2, <3>3, <3>4 DEF Deserved
  <2>4. Told(d, at)'
    BY <1>1, <1>3, <2>1, <2>3, ToldMore, ValueFacts DEF Coded
  <2>5. CASE r > 1
    <3>1. ~Later(d)'
      BY <1>1, <1>2, <1>7, <2>1, <2>5, RankReturns
    <3> QED
      BY <1>1, <1>5, <2>4, <3>1, OneCodes DEF Coded
  <2>6. CASE r = 1
    <3>1. prog'[d] = <<>>
      BY <1>1, <1>2, <1>7, <2>1, <2>6, RankReturns
    <3>2. called[d] = Base /\ Returned(d, r) = 2
      BY <1>1, <1>2, <2>6, Collecting, Ending
    <3>3. Len(codes'[d]) = 1 + 2
      BY <1>3, <2>1, <3>2
    <3>4. at[1] = Base /\ 1 \in 1 .. Len(script) + 1
      BY <1>1, LenProperties DEF Marked, Typed
    <3>5. InCall(d, 1, called[d], at)'
      BY <1>1, <3>1, <3>2, <3>4 DEF InCall
    <3>6. CallPlace(d, at)'
      BY <1>1, <1>4, <3>3, <3>4, <3>5 DEF CallPlace
    <3> QED
      BY <1>1, <1>5, <2>4, <3>6, OneCodes DEF Coded
  <2> QED
    BY <1>1, <1>2, <2>5, <2>6, Collecting
<1> QED
  BY <1>6, <1>7

\* the code of a user data call is the master's where the broadcast takes it over
LEMMA LaterLeaves ==
  ASSUME HInv, Typed', NEW at, CInv(at), NEW d \in Ranks, Leave(d), Later(d), BigEndian = FALSE
  PROVE  CInv(at)'
<1>1. /\ d \in Procs /\ d # FE /\ st[d] = "up" /\ prog[d] # <<>> /\ Collective(d) /\ inside[d]
      /\ Typed /\ 0 \in Ranks /\ UNCHANGED <<kind, script, called, root>> /\ inside'[d] = FALSE
      /\ \A e \in Ranks \ {d} : Stays(e)
      /\ Onward(at, at) /\ Marked(at) /\ Marked(at)' /\ Coded(d, at)
  BY LeaveFacts
<1>2. PICK i \in 1 .. Len(script) + 1, c \in Nat :
        Len(codes[d]) = i + 2 /\ called[d] = c + 1 /\ InCall(d, i, c, at)
  BY <1>1 DEF Coded, CallPlace
<1>3. /\ called[0] \in Nat /\ called[d] \in Nat /\ Len(root) = called[0] /\ Len(script) \in Nat
      /\ Len(codes[d]) \in Nat
  BY <1>1, LenProperties DEF Typed
<1>4. Led(d)'
  <2>1. Ready
    BY <1>1, Stage
  <2>2. kind = "be" => called[0] >= 6
    BY <1>1, <1>3, <2>1 DEF Ready, All
  <2> QED
    BY <1>1, <2>2 DEF Led
<1>5. /\ i <= Len(script) /\ Head(prog[d]).do = "bcast"
      /\ \/ /\ Head(prog[d]).arg = "leng"
            /\ Tail(prog[d]) = <<Bcast("lmonpl")>> /\ c = at[i] /\ script[i] = "coloc"
         \/ /\ Head(prog[d]).arg = "lmonpl"
            /\ Tail(prog[d]) = <<>> /\ c = at[i] + 1 /\ script[i] = "coloc"
         \/ /\ Head(prog[d]).arg = "lrc"
            /\ Tail(prog[d]) = <<>> /\ c = at[i] /\ script[i] # "coloc"
  <2>1. InCall(d, i, c, at) /\ prog[d] # <<>>
    BY <1>1, <1>2
  <2>2. Head(prog[d]).do \notin {"recvUsrData", "sendUsrData", "do_bemaster"}
    BY <1>1 DEF Collective, At
  <2>3. i <= Len(script)
    BY <2>1, CallSteps
  <2> QED
    BY <2>1, <2>2, <2>3, CallSteps
<1>6. called[d] \in 1 .. Len(root) /\ root[called[d]] \in Values
  BY <1>5, Arrived
<1>7. /\ at[i] \in Nat \ {0} /\ at[i + 1] = at[i] + Cost(script[i]) /\ i + 1 \in 1 .. Len(script) + 1
      /\ i \in Nat \ {0}
  BY <1>1, <1>3, <1>5, SMTT(30) DEF Marked
<1>8. CASE Head(prog[d]).arg = "leng"
  <2>1. /\ Tail(prog[d]) = <<Bcast("lmonpl")>> /\ c = at[i] /\ script[i] = "coloc"
        /\ prog'[d] = Tail(prog[d]) /\ st'[d] = st[d] /\ codes'[d] = codes[d]
    BY <1>5, <1>8, LeaveWhat
  <2>2. Told(d, at)'
    BY <1>1, <2>1, ToldStays DEF Coded
  <2>3. InCall(d, i, c + 1, at)'
    BY <1>1, <1>5, <2>1 DEF InCall
  <2>4. CallPlace(d, at)'
    BY <1>1, <1>2, <2>1, <2>3 DEF CallPlace
  <2> QED
    BY <1>1, <1>4, <2>2, <2>4, OneCodes DEF Coded
<1>9. ASSUME NEW v \in Values, codes'[d] = Append(codes[d], v), Tail(prog[d]) = <<>>,
             called[d] = at[i + 1], Deserved(d, (i + 2) + 1, v, at)'
      PROVE  CInv(at)'
  <2>1. PICK n \in Nat : n = i + 2 /\ Len(codes[d]) = n
    BY <1>2
  <2>2. Deserved(d, n + 1, v, at)'
    BY <1>9, <2>1
  <2>3. Told(d, at)'
    BY <1>1, <1>9, <2>1, <2>2, ToldMore DEF Coded
  <2>4. CASE st'[d] # "up"
    <3>1. ~Later(d)'
      BY <2>4 DEF Later
    <3> QED
      BY <1>1, <1>4, <2>3, <3>1, OneCodes DEF Coded
  <2>5. CASE st'[d] = "up"
    <3>1. prog'[d] = <<>>
      BY <1>9, <2>5, LeaveWhat
    <3>2. Len(codes'[d]) = (i + 1) + 2
      <4>1. codes[d] \in Seq(Values)
        BY <1>1 DEF Typed
      <4>2. Len(codes'[d]) = n + 1
        BY <1>9, <2>1, <4>1, AppendProperties
      <4> QED
        BY <1>7, <2>1, <4>2
    <3>3. InCall(d, i + 1, called[d], at)'
      BY <1>1, <1>9, <3>1 DEF InCall
    <3>4. CallPlace(d, at)'
      BY <1>1, <1>3, <1>7, <3>2, <3>3 DEF CallPlace
    <3> QED
      BY <1>1, <1>4, <2>3, <3>4, OneCodes DEF Coded
  <2> QED
    BY <2>4, <2>5
<1>10. ASSUME NEW v, /\ script[i] = "coloc" => called[0] > at[i] /\ v = "OK"
                     /\ script[i] # "coloc" => called[0] >= at[i + 1] /\ v = root[at[i + 1]]
       PROVE  Deserved(d, (i + 2) + 1, v, at)'
  <2>1. PICK j \in Nat : j = (i + 2) + 1
    BY <1>7
  <2>2. j # 1 /\ j # 2 /\ j # 3 /\ \A k \in Nat \ {0} : j = k + 3 => k = i
    BY <1>7, <2>1
  <2>3. Deserved(d, j, v, at)'
    BY <1>1, <1>5, <1>10, <2>2 DEF Deserved
  <2> QED
    BY <2>1, <2>3
<1>11. CASE Head(prog[d]).arg = "lmonpl"
  <2>1. Tail(prog[d]) = <<>> /\ c = at[i] + 1 /\ script[i] = "coloc" /\ codes'[d] = Append(codes[d], "OK")
    BY <1>5, <1>11, LeaveWhat
  <2>2. called[d] = at[i + 1] /\ called[0] > at[i]
    <3>1. c = at[i] + 1 /\ at[i + 1] = at[i] + 2
      BY <1>7, <2>1 DEF Cost
    <3> QED
      BY <1>2, <1>3, <1>6, <1>7, <3>1
  <2>3. Deserved(d, (i + 2) + 1, "OK", at)'
    BY <1>10, <2>1, <2>2
  <2> QED
    BY <1>9, <2>1, <2>2, <2>3, ValueFacts
<1>12. CASE Head(prog[d]).arg = "lrc"
  <2>1. Tail(prog[d]) = <<>> /\ c = at[i] /\ script[i] # "coloc" /\ codes'[d] = Append(codes[d], know'[d].lrc)
    BY <1>5, <1>12, LeaveWhat
  <2>2. know'[d].lrc = root[called[d]]
    BY <1>1, <1>5, <1>12, LeaveKnows DEF At
  <2>3. called[d] = at[i + 1] /\ called[0] >= at[i + 1]
    <3>1. c = at[i] /\ at[i + 1] = at[i] + 1
      BY <1>7, <2>1 DEF Cost
    <3> QED
      BY <1>2, <1>3, <1>6, <1>7, <3>1
  <2>4. PICK v \in Values : v = root[called[d]]
    BY <1>6
  <2>5. Deserved(d, (i + 2) + 1, v, at)'
    BY <1>10, <2>1, <2>3, <2>4
  <2>6. codes'[d] = Append(codes[d], v)
    BY <2>1, <2>2, <2>4
  <2> QED
    BY <1>9, <2>1, <2>3, <2>5, <2>6
<1> QED
  BY <1>5, <1>8, <1>11, <1>12

LEMMA LeaveCodes ==
  ASSUME HInv, Typed', NEW at, CInv(at), NEW d \in Ranks, Leave(d), BigEndian = FALSE
  PROVE  CInv(at)'
<1>1. d \in Procs /\ st[d] = "up"
  BY LeaveFacts
<1> QED
  BY <1>1, Stage, EarlyLeaves, LaterLeaves

LEMMA Joined ==
  ASSUME NEW x \in Steps, NEW y \in Steps, NEW z \in Steps
  PROVE  <<x>> \o <<y>> = <<x, y>> /\ <<x>> \o <<y, z>> = <<x, y, z>>
<1>1. <<x>> \o <<y>> = <<x, y>>
  <2> DEFINE p == <<x>>
             q == <<y>>
             r == <<x, y>>
  <2>1. p \in Seq(Steps) /\ q \in Seq(Steps) /\ r \in Seq(Steps) /\ Len(r) = Len(p) + Len(q)
    OBVIOUS
  <2>2. \A i \in 1 .. Len(p) : r[i] = p[i]
    OBVIOUS
  <2>3. \A i \in 1 .. Len(q) : r[Len(p) + i] = q[i]
    OBVIOUS
  <2> HIDE DEF p, q, r
  <2>4. p \o q = r
    BY <2>1, <2>2, <2>3, Concat
  <2> QED
    BY <2>4 DEF p, q, r
<1>2. <<x>> \o <<y, z>> = <<x, y, z>>
  <2> DEFINE p == <<x>>
             q == <<y, z>>
             r == <<x, y, z>>
  <2>1. p \in Seq(Steps) /\ q \in Seq(Steps) /\ r \in Seq(Steps) /\ Len(r) = Len(p) + Len(q)
    OBVIOUS
  <2>2. \A i \in 1 .. Len(p) : r[i] = p[i]
    OBVIOUS
  <2>3. \A i \in 1 .. Len(q) : r[Len(p) + i] = q[i]
    OBVIOUS
  <2> HIDE DEF p, q, r
  <2>4. p \o q = r
    BY <2>1, <2>2, <2>3, Concat
  <2> QED
    BY <2>4 DEF p, q, r
<1> QED
  BY <1>1, <1>2

\* what a rank does in a call, written out
LEMMA CallPrograms ==
  ASSUME NEW d \in Ranks, NEW c \in {"recv", "send", "coloc"}
  PROVE  /\ c = "coloc" /\ d = 0 =>
              DaemonCall(d, c) = <<Do("do_bemaster", "none"), Bcast("leng"), Bcast("lmonpl")>>
         /\ c = "coloc" /\ d # 0 => DaemonCall(d, c) = <<Bcast("leng"), Bcast("lmonpl")>>
         /\ c # "coloc" /\ d = 0 => \E w \in {"recvUsrData", "sendUsrData"} :
                                      DaemonCall(d, c) = <<Do(w, "none"), Bcast("lrc")>>
         /\ c # "coloc" /\ d # 0 => DaemonCall(d, c) = <<Bcast("lrc")>>
<1>1. /\ \A w \in {"recvUsrData", "sendUsrData", "do_bemaster"} : Do(w, "none") \in Steps
      /\ \A f \in {"lrc", "leng", "lmonpl"} : Bcast(f) \in Steps
  BY StepTypes DEF Whats, Args, Bcast
<1>2. CASE c = "coloc"
  <2>1. DaemonCall(d, c) = MasterOnly(d, <<Do("do_bemaster", "none")>>) \o <<Bcast("leng"), Bcast("lmonpl")>>
    BY <1>2 DEF DaemonCall, LMON_be_assist_mw_coloc
  <2>2. CASE d = 0
    <3>1. DaemonCall(d, c) = <<Do("do_bemaster", "none")>> \o <<Bcast("leng"), Bcast("lmonpl")>>
      BY <2>1, <2>2 DEF MasterOnly
    <3>2. Do("do_bemaster", "none") \in Steps /\ Bcast("leng") \in Steps /\ Bcast("lmonpl") \in Steps
      BY <1>1
    <3> QED
      BY <1>2, <2>2, <3>1, <3>2, Joined
  <2>3. CASE d # 0
    <3>1. <<Bcast("leng"), Bcast("lmonpl")>> \in Seq(Steps)
      BY <1>1
    <3>2. DaemonCall(d, c) = <<>> \o <<Bcast("leng"), Bcast("lmonpl")>>
      BY <2>1, <2>3 DEF MasterOnly
    <3> QED
      BY <1>2, <2>3, <3>1, <3>2, ConcatEmptySeq
  <2> QED
    BY <2>2, <2>3
<1>3. CASE c # "coloc"
  <2>1. PICK w \in {"recvUsrData", "sendUsrData"} :
          DaemonCall(d, c) = MasterOnly(d, <<Do(w, "none")>>) \o <<Bcast("lrc")>>
    <3>1. CASE c = "recv"
      <4>1. DaemonCall(d, c) = MasterOnly(d, <<Do("recvUsrData", "none")>>) \o <<Bcast("lrc")>>
        BY <3>1 DEF DaemonCall, LMON_be_recvUsrData, LMON_mw_recvUsrData
      <4> QED
        BY <4>1
    <3>2. CASE c = "send"
      <4>1. DaemonCall(d, c) = MasterOnly(d, <<Do("sendUsrData", "none")>>) \o <<Bcast("lrc")>>
        BY <3>2 DEF DaemonCall, LMON_be_sendUsrData, LMON_mw_sendUsrData
      <4> QED
        BY <4>1
    <3> QED
      BY <1>3, <3>1, <3>2
  <2>2. CASE d = 0
    <3>1. DaemonCall(d, c) = <<Do(w, "none")>> \o <<Bcast("lrc")>>
      BY <2>1, <2>2 DEF MasterOnly
    <3>2. Do(w, "none") \in Steps /\ Bcast("lrc") \in Steps
      BY <1>1
    <3>3. DaemonCall(d, c) = <<Do(w, "none"), Bcast("lrc")>>
      BY <3>1, <3>2, Joined
    <3> QED
      BY <1>3, <2>2, <3>3
  <2>3. CASE d # 0
    <3>1. <<Bcast("lrc")>> \in Seq(Steps)
      BY <1>1
    <3>2. DaemonCall(d, c) = <<>> \o <<Bcast("lrc")>>
      BY <2>1, <2>3 DEF MasterOnly
    <3> QED
      BY <1>3, <2>3, <3>1, <3>2, ConcatEmptySeq
  <2> QED
    BY <2>2, <2>3
<1> QED
  BY <1>2, <1>3

\* the marks of a script with one more call
LEMMA MarksGrow ==
  ASSUME Typed, NEW at, Marked(at), UNCHANGED <<kind, st, called, root>>,
         NEW c \in {"recv", "send", "coloc"}, script' = Append(script, c)
  PROVE  \E at2 : Marked(at2)' /\ Onward(at, at2)
<1>1. PICK n \in Nat : n = Len(script)
  BY LenProperties DEF Typed
<1>2. PICK s : s = script'
  OBVIOUS
<1>3. Len(s) = n + 1 /\ (\A i \in 1 .. n : s[i] = script[i]) /\ s[n + 1] = c
  BY <1>1, <1>2, AppendProperties DEF Typed
<1>4. /\ at \in [1 .. n + 1 -> Nat \ {0}] /\ at[1] = Base
      /\ \A i \in 1 .. n : at[i + 1] = at[i] + Cost(script[i])
  BY <1>1 DEF Marked
<1>5. PICK k \in Nat \ {0} : k = at[n + 1] + Cost(c)
  <2>1. at[n + 1] \in Nat \ {0}
    BY <1>4
  <2>2. Cost(c) \in Nat
    BY DEF Cost
  <2> QED
    BY <2>1, <2>2
<1>6. PICK at2 : at2 = [j \in 1 .. n + 2 |-> IF j <= n + 1 THEN at[j] ELSE k]
  OBVIOUS
<1>7. /\ at2 \in [1 .. n + 2 -> Nat \ {0}] /\ \A j \in 1 .. n + 1 : at2[j] = at[j]
      /\ at2[n + 2] = k
  BY <1>4, <1>6
<1>8. at2[1] = Base
  BY <1>4, <1>7
<1>9. ASSUME NEW i \in 1 .. n + 1 PROVE at2[i + 1] = at2[i] + Cost(s[i])
  <2>1. CASE i = n + 1
    <3>1. i + 1 = n + 2
      BY <2>1
    <3> QED
      BY <1>3, <1>5, <1>7, <2>1, <3>1
  <2>2. CASE i # n + 1
    <3>1. i \in 1 .. n /\ i + 1 \in 1 .. n + 1
      BY <2>2
    <3> QED
      BY <1>3, <1>4, <1>7, <3>1
  <2> QED
    BY <2>1, <2>2
<1>10. Marked(at2)'
  <2>1. Base' = Base
    BY DEF Base
  <2>2. Len(s) + 1 = n + 2 /\ 1 .. Len(s) = 1 .. n + 1
    BY <1>3
  <2>3. /\ at2 \in [1 .. Len(s) + 1 -> Nat \ {0}]
        /\ \A i \in 1 .. Len(s) : at2[i + 1] = at2[i] + Cost(s[i])
    BY <1>7, <1>9, <2>2
  <2> QED
    BY <1>2, <1>8, <2>1, <2>3 DEF Marked, Cost
<1>11. Onward(at, at2)
  <2>1. Len(script') >= Len(script) /\ \A i \in 1 .. Len(script) : script'[i] = script[i]
    BY <1>1, <1>2, <1>3
  <2>2. \A d \in Ranks : called'[d] >= called[d]
    BY DEF Typed
  <2> QED
    BY <1>1, <1>7, <2>1, <2>2 DEF Onward
<1> QED
  BY <1>10, <1>11

LEMMA NextCallCodes ==
  ASSUME HInv, Typed', NEW at, CInv(at), NEW p \in Procs, NextCall(p)
  PROVE  \E at2 : CInv(at2)'
<1>1. /\ st[p] = "up" /\ prog[p] = <<>> /\ Typed /\ Marked(at)
      /\ UNCHANGED <<kind, st, codes, called, inside, root>>
  BY DEF NextCall, HInv, CInv, coll
<1>2. PICK c \in Calls(kind) :
        /\ IF Made(p) < Len(script) THEN c = script[Made(p) + 1] /\ UNCHANGED script
                                    ELSE script' = Append(script, c)
        /\ prog' = [prog EXCEPT ![p] = IF p = FE THEN FECall(c) ELSE DaemonCall(p, c)]
  BY DEF NextCall
<1>3. c \in {"recv", "send", "coloc"}
  BY DEF Calls
<1>4. \A d \in Ranks \ {p} : Stays(d)
  BY <1>1, <1>2, ProcsFacts DEF Stays, Typed
<1>5. PICK at2 : Marked(at2)' /\ Onward(at, at2)
  <2>1. CASE UNCHANGED script
    <3>1. Marked(at)'
      BY <1>1, <2>1, SameMarks
    <3>2. Len(script) \in Nat /\ \A d \in Ranks : called'[d] >= called[d]
      BY <1>1, LenProperties DEF Typed
    <3>3. Onward(at, at)
      BY <1>1, <2>1, <3>2 DEF Onward
    <3> QED
      BY <3>1, <3>3
  <2>2. CASE script' = Append(script, c)
    BY <1>1, <1>3, <2>2, MarksGrow
  <2> QED
    BY <1>2, <2>1, <2>2
<1>6. ASSUME p \in Ranks PROVE Coded(p, at2)'
  <2>1. Coded(p, at) /\ p # FE
    BY <1>6, ProcsFacts DEF CInv
  <2>2. Told(p, at2)' /\ Led(p)'
    BY <1>1, <1>5, <1>6, <2>1, ToldStays, LedStays DEF Coded
  <2>3. CallPlace(p, at)
    BY <1>1, <1>6, <2>1, Stage DEF Coded, OnPlan
  <2>4. PICK i \in 1 .. Len(script) + 1, n \in Nat :
          /\ Len(codes[p]) = i + 2
          /\ called[p] = IF inside[p] THEN n + 1 ELSE n
          /\ InCall(p, i, n, at)
    BY <2>3 DEF CallPlace
  <2>5. ~inside[p] /\ n = at[i]
    BY <1>1, <2>4, Shapes DEF InCall
  <2>6. PICK l \in Nat : l = Len(script)
    BY <1>1, LenProperties DEF Typed
  <2>7. PICK m \in Int : m = Made(p) /\ m = i - 1
    <3>1. Made(p) = Len(codes[p]) - 3
      BY <2>1 DEF Made
    <3>2. i \in Int
      BY <2>6
    <3> QED
      BY <2>4, <3>1, <3>2
  <2>8. i <= Len(script') /\ script'[i] = c
    <3>1. CASE m < l
      <4>1. c = script[m + 1] /\ UNCHANGED script /\ m + 1 = i /\ i <= l
        BY <1>2, <2>4, <2>6, <2>7, <3>1
      <4> QED
        BY <2>6, <4>1
    <3>2. CASE ~(m < l)
      <4>1. script' = Append(script, c) /\ i = l + 1
        BY <1>2, <2>4, <2>6, <2>7, <3>2
      <4>2. Len(script') = l + 1 /\ script'[l + 1] = c
        BY <1>1, <1>3, <2>6, <4>1, AppendProperties DEF Typed
      <4> QED
        BY <2>6, <4>1, <4>2
    <3> QED
      BY <3>1, <3>2
  <2>9. at2[i] = at[i]
    BY <1>5, <2>4 DEF Onward
  <2>10. prog'[p] = DaemonCall(p, c)
    BY <1>1, <1>2, <2>1 DEF Typed
  <2>11. InCall(p, i, n, at2)'
    <3>1. CASE c = "coloc"
      BY <1>1, <1>3, <1>6, <2>5, <2>8, <2>9, <2>10, <3>1, CallPrograms DEF InCall
    <3>2. CASE c # "coloc"
      BY <1>1, <1>3, <1>6, <2>5, <2>8, <2>9, <2>10, <3>2, CallPrograms DEF InCall
    <3> QED
      BY <3>1, <3>2
  <2>12. i \in 1 .. Len(script') + 1
    <3>1. Len(script') \in Nat
      BY LenProperties DEF Typed
    <3> QED
      BY <2>6, <2>8, <3>1
  <2>13. CallPlace(p, at2)'
    BY <1>1, <2>4, <2>11, <2>12 DEF CallPlace
  <2> QED
    BY <2>2, <2>13 DEF Coded
<1> QED
  BY <1>1, <1>4, <1>5, <1>6, OneCodes

\* every step keeps the codes deserved
LEMMA StepCodes ==
  ASSUME HInv, HInv', CodeInv, [Next]_vars, BigEndian = FALSE
  PROVE  CodeInv'
<1>1. PICK at : CInv(at)
  BY DEF CodeInv
<1>2. Typed'
  BY DEF HInv
<1>3. FE \in Procs /\ 0 \in Ranks /\ \A d \in Ranks : d \in Procs
  BY ProcsFacts
<1>4. CASE FEStep
  <2>1. CASE NextCall(FE)
    BY <1>1, <1>2, <1>3, <2>1, NextCallCodes DEF CodeInv
  <2>2. CASE ~NextCall(FE)
    BY <1>1, <1>2, <1>4, <2>2, FrontStepCodes DEF CodeInv
  <2> QED
    BY <2>1, <2>2
<1>5. CASE MasterStep
  BY <1>1, <1>2, <1>5, KeyCodes, MasterWriteCodes, MasterReadCodes, UsrDataCodes DEF MasterStep, CodeInv
<1>6. ASSUME NEW d \in Ranks, DaemonStep(d) PROVE CodeInv'
  <2>1. CASE NextCall(d)
    BY <1>1, <1>2, <1>3, <2>1, NextCallCodes DEF CodeInv
  <2>2. CASE ~NextCall(d)
    <3>1. \/ Enter(d) \/ Leave(d) \/ GivesUp(d) \/ procctl_init(d) \/ procctl_initdone(d) \/ Finalize(d)
      BY <1>6, <2>2 DEF DaemonStep
    <3>2. CInv(at)'
      BY <1>1, <1>2, <3>1, EnterCodes, LeaveCodes, GivesUpCodes, SyncCodes, FinalizeCodes
    <3> QED
      BY <3>2 DEF CodeInv
  <2> QED
    BY <2>1, <2>2
<1>7. ASSUME NEW p \in Procs, Killed(p) PROVE CodeInv'
  BY <1>1, <1>2, <1>7, KilledCodes DEF CodeInv
<1>8. CASE UNCHANGED vars
  <2>1. Only(FE) /\ UNCHANGED <<kind, script, called, inside, root>> /\ Typed /\ FE \notin Ranks
    BY <1>8, ProcsFacts DEF vars, Only, HInv
  <2>2. CInv(at)'
    BY <1>1, <1>2, <2>1, PlainStep
  <2> QED
    BY <2>2 DEF CodeInv
<1> QED
  BY <1>4, <1>5, <1>6, <1>7, <1>8 DEF Next, Terminated

LEMMA InitCodes ==
  ASSUME Init
  PROVE  CodeInv
<1>1. PICK b \in Nat \ {0} : b = Base
  BY DEF Base
<1>2. PICK at : at = [j \in 1 .. 1 |-> b]
  OBVIOUS
<1>3. Marked(at)
  <2>1. script = <<>>
    BY DEF Init
  <2>2. Len(script) = 0
    BY <2>1
  <2>3. at \in [1 .. 0 + 1 -> Nat \ {0}] /\ at[1] = Base
    BY <1>1, <1>2
  <2> QED
    BY <2>2, <2>3 DEF Marked
<1>4. ASSUME NEW d \in Ranks PROVE Coded(d, at)
  <2>1. codes[d] = <<>> /\ called[d] = 0 /\ d # FE
    BY ProcsFacts DEF Init
  <2>2. Len(codes[d]) = 0
    BY <2>1, EmptySeq
  <2>3. Told(d, at)
    BY <2>2 DEF Told
  <2>4. Led(d)
    BY <2>1 DEF Led
  <2>5. ~Later(d)
    BY <2>1, <2>2 DEF Later
  <2> QED
    BY <2>3, <2>4, <2>5 DEF Coded
<1> QED
  BY <1>3, <1>4 DEF CInv, CodeInv

\* two daemons cannot deserve different codes
LEMMA OneDeserved ==
  ASSUME Typed, NEW at, Marked(at), NEW d \in Ranks, NEW e \in Ranks, NEW j \in Nat \ {0}, NEW c, NEW f,
         Deserved(d, j, c, at), Deserved(e, j, f, at)
  PROVE  c = f
<1>1. /\ called[0] \in Nat /\ called[d] \in Nat /\ called[e] \in Nat /\ kind \in {"be", "mw"}
      /\ 0 \in Ranks
  BY ProcsFacts DEF Typed
<1>2. CASE j = 1
  BY <1>1, <1>2 DEF Deserved, Gone
<1>3. CASE j = 2
  <2>1. Ready => \A q \in {0, d, e} : ~(called[q] <= 2) /\ (kind = "be" => ~(called[q] <= 7))
    BY <1>1 DEF Ready, All
  <2>2. ~(called[0] >= 6 /\ called[0] <= 2)
    BY <1>1
  <2> QED
    BY <1>3, <2>1, <2>2 DEF Deserved, Gone
<1>4. CASE j = 3
  BY <1>4 DEF Deserved
<1>5. CASE j > 3
  <2>1. PICK i \in Nat \ {0} : j = i + 3
    <3>1. j - 3 \in Nat \ {0} /\ j = (j - 3) + 3
      BY <1>5
    <3> QED
      BY <3>1
  <2>2. CASE script[i] = "coloc"
    <3>1. i \in 1 .. Len(script) + 1
      <4>1. i <= Len(script) /\ Len(script) \in Nat
        BY <1>1, <2>1, LenProperties DEF Deserved, Typed
      <4> QED
        BY <4>1
    <3>2. at[i] \in Nat
      BY <3>1 DEF Marked
    <3>3. ~(called[0] > at[i] /\ called[0] <= at[i])
      BY <1>1, <3>2
    <3> QED
      BY <2>1, <2>2, <3>3 DEF Deserved, Gone
  <2>3. CASE script[i] # "coloc"
    BY <2>1, <2>3 DEF Deserved
  <2> QED
    BY <2>2, <2>3
<1> QED
  BY <1>2, <1>3, <1>4, <1>5

\* Daemons that return from the same call of the API return the same code: the
\* barriers, the broadcasts of LMON_be_recvUsrData .. LMON_mw_sendUsrData, and
\* exit(1) of the others where the master alone has failed.  It takes a host whose
\* integers begin with the lowest byte.
THEOREM SameCodes == ASSUME BigEndian = FALSE PROVE Spec => []SameReturn
<1>1. Init => HInv /\ CodeInv
  BY InitHolds, InitCodes
<1>2. HInv /\ CodeInv /\ [Next]_vars => (HInv /\ CodeInv)'
  <2>1. ASSUME HInv, CodeInv, [Next]_vars PROVE HInv' /\ CodeInv'
    <3>1. HInv'
      BY <2>1, StepKeeps
    <3> QED
      BY <2>1, <3>1, StepCodes
  <2> QED
    BY <2>1
<1>3. HInv /\ CodeInv => SameReturn
  <2>1. ASSUME HInv, CodeInv, NEW d \in Ranks, NEW e \in Ranks,
               NEW j \in DOMAIN codes[d] \cap DOMAIN codes[e]
        PROVE  codes[d][j] = codes[e][j]
    <3>1. PICK at : CInv(at)
      BY <2>1 DEF CodeInv
    <3>2. Typed /\ codes[d] \in Seq(Values) /\ codes[e] \in Seq(Values)
      BY <2>1, ProcsFacts DEF HInv, Typed
    <3>3. j \in 1 .. Len(codes[d]) /\ j \in 1 .. Len(codes[e]) /\ j \in Nat \ {0}
      BY <3>2, LenProperties
    <3>4. Deserved(d, j, codes[d][j], at) /\ Deserved(e, j, codes[e][j], at) /\ Marked(at)
      BY <3>1, <3>3 DEF CInv, Coded, Told
    <3> QED
      BY <3>2, <3>3, <3>4, OneDeserved
  <2> QED
    BY <2>1 DEF SameReturn
<1> QED
  BY <1>1, <1>2, <1>3, PTL DEF Spec
=============================================================================
