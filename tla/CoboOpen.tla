------------------------------ MODULE CoboOpen ------------------------------
(***************************************************************************)
(* How COBO's tree is built: cobo_server_open in the front end, cobo_open  *)
(* and cobo_open_tree in the daemons, cobo_connect_hostname in both        *)
(* (tools/cobo/src/cobo.c).                                                *)
(*                                                                         *)
(* Nobody knows on which port a daemon listens or whether it has started:  *)
(* a connector tries every port of a host until somebody there passes the  *)
(* handshake and answers in time.  Both sides of an attempt have their own *)
(* timeouts, daemons of another job may listen on the same host, and a     *)
(* connector that gave up on a connection may be remembered by the daemon. *)
(***************************************************************************)
EXTENDS Integers, SequencesExt

CONSTANTS NAlone,     \* daemons of a job that has its hosts for itself
          NShared,    \* daemons of a job that shares hosts
          NOther,     \* daemons of the job it shares them with
          MaxPorts,   \* COBO_PORT_RANGE
          MaxConns,   \* connections at a time
          MaxFaults,  \* timeouts
          SameSession \* whether the two jobs use the same session id

ASSUME CoboOpenAssumption ==
  /\ NAlone \in Nat \ {0} /\ NShared \in Nat \ {0} /\ NOther \in 1 .. NShared /\ MaxPorts \in Nat \ {0}
  /\ MaxConns \in Nat \ {0} /\ MaxFaults \in Nat /\ SameSession \in BOOLEAN

Jobs == {"a", "b"}
Server == -1
Max0(x, y) == IF x > y THEN x ELSE y
Ids == Jobs \X (Server .. Max0(NAlone, NShared) - 1)

VARIABLES
  nprocs,   \* nprocs[j]: the number of hosts in the list of job j, 0: no such job
  ports,    \* cobo_num_ports
  pc,       \* where each process is
  port,     \* the port a daemon has bound, 0: none
  backlog,  \* the connections waiting to be accepted
  fd,       \* cobo_parent_fd
  s,        \* the connection under test in cobo_connect_hostname
  i,        \* the index of the port to be tried next
  todo,     \* the children still to be connected
  child_fd, \* cobo_child_fd (cobo_root_fd of the server)
  me,       \* the job and the rank the parent has sent
  conn,     \* the connections
  faults    \* timeouts so far

procvars == <<pc, port, fd, s, i, todo, child_fd, me>>
vars == <<nprocs, ports, pc, port, backlog, fd, s, i, todo, child_fd, me, conn, faults>>

Procs == {p \in Ids : p[2] < nprocs[p[1]] /\ nprocs[p[1]] > 0}
Daemons(j) == {p \in Procs : p[1] = j /\ p[2] # Server}
Session(j) == IF SameSession THEN "10" ELSE j

\* cobo_compute_children (module CoboTree)
Children(r, n) ==
  LET walk[x \in (0 .. n) \X (-1 .. n)] ==
        LET l == x[1]
            h == x[2]
            m == (h - l) \div 2 + ((h - l) % 2) + l
        IN  IF h - l <= 0 THEN <<>>
            ELSE (IF l = r THEN <<m>> ELSE <<>>)
                 \o (IF m <= r THEN walk[<<m, h>>] ELSE walk[<<l, m - 1>>])
  IN  walk[<<0, n - 1>>]

-----------------------------------------------------------------------------
(* Connections *)

NoConn == [open |-> {}]

\* met: the two handshakes have begun to talk;  down, up: to the daemon, and back
NewConn(p, q) == [from |-> p, to |-> q, open |-> {p, q}, met |-> FALSE,
                  down |-> <<>>, up |-> <<>>, table |-> <<"none", 0>>]

Free == {k \in 1 .. MaxConns : conn[k].open = {}}

\* what is left of the connections when p closes those in K
Shut(cs, p, K) ==
  [k \in 1 .. MaxConns |->
     IF k \notin K THEN cs[k]
     ELSE IF cs[k].open \subseteq {p} THEN NoConn ELSE [cs[k] EXCEPT !.open = @ \ {p}]]

EndsOf(p) == {k \in 1 .. MaxConns : p \in conn[k].open}
PeerClosed(p, k) == conn[k].open = {p}

Listening(q) == pc[q] \in {"accept", "shake_server", "ids", "ack"}

\* abort(), exit(1), or the server's return of a failure
Gone(p) ==
  /\ pc' = [pc EXCEPT ![p] = "gone"]
  /\ port' = [port EXCEPT ![p] = 0]
  /\ backlog' = [backlog EXCEPT ![p] = <<>>]
  /\ conn' = Shut(conn, p, EndsOf(p))
  /\ fd' = [fd EXCEPT ![p] = 0]
  /\ s' = [s EXCEPT ![p] = 0]
  /\ i' = [i EXCEPT ![p] = 1]
  /\ todo' = [todo EXCEPT ![p] = <<>>]
  /\ child_fd' = [child_fd EXCEPT ![p] = <<>>]
  /\ UNCHANGED <<nprocs, ports, me>>

Fault == faults < MaxFaults /\ faults' = faults + 1

-----------------------------------------------------------------------------
Init ==
  \* one job, whose daemons find the first port free, or two
  /\ \/ nprocs = [j \in Jobs |-> IF j = "a" THEN NAlone ELSE 0] /\ ports = 1
     \/ nprocs = [j \in Jobs |-> IF j = "a" THEN NShared ELSE NOther] /\ ports \in 1 .. MaxPorts
  /\ pc = [p \in Procs |-> IF p[2] = Server THEN "scan" ELSE "start"]
  /\ port = [p \in Procs |-> 0]
  /\ backlog = [p \in Procs |-> <<>>]
  /\ fd = [p \in Procs |-> 0]
  /\ s = [p \in Procs |-> 0]
  /\ i = [p \in Procs |-> 1]
  /\ todo = [p \in Procs |-> IF p[2] = Server THEN <<0>> ELSE <<>>]
  /\ child_fd = [p \in Procs |-> <<>>]
  /\ me = [p \in Procs |-> IF p[2] = Server THEN <<p[1], Server>> ELSE <<"none", Server>>]
  /\ conn = [k \in 1 .. MaxConns |-> NoConn]
  /\ faults = 0

-----------------------------------------------------------------------------
(* cobo_open_tree: the daemon waits for its parent *)

\* the first port nobody on the host has; without one the daemon exits
bind(p) ==
  LET free == {n \in 1 .. ports : \A q \in Procs : q[2] = p[2] => port[q] # n} IN
  /\ pc[p] = "start"
  /\ IF free = {} THEN Gone(p) /\ UNCHANGED faults
     ELSE /\ port' = [port EXCEPT ![p] = CHOOSE n \in free : \A x \in free : n <= x]
          /\ pc' = [pc EXCEPT ![p] = "accept"]
          /\ UNCHANGED <<nprocs, ports, backlog, fd, s, i, todo, child_fd, me, conn, faults>>

accept(p) ==
  /\ pc[p] = "accept" /\ backlog[p] # <<>>
  /\ fd' = [fd EXCEPT ![p] = Head(backlog[p])]
  /\ backlog' = [backlog EXCEPT ![p] = Tail(@)]
  /\ pc' = [pc EXCEPT ![p] = "shake_server"]
  /\ UNCHANGED <<nprocs, ports, port, s, i, todo, child_fd, me, conn, faults>>

\* close(cobo_parent_fd); continue
Continue(p) ==
  /\ conn' = Shut(conn, p, {fd[p]})
  /\ fd' = [fd EXCEPT ![p] = 0]
  /\ pc' = [pc EXCEPT ![p] = "accept"]
  /\ UNCHANGED <<nprocs, ports, port, backlog, s, i, todo, child_fd, me>>

\* the ids are those of the handshake: they match, and are answered with
\* the service and the accept id
ReadIds(p) ==
  LET k == fd[p] IN
  /\ pc[p] = "ids" /\ conn[k].down # <<>>
  /\ conn' = [conn EXCEPT ![k].down = Tail(@), ![k].up = Append(@, "reply")]
  /\ pc' = [pc EXCEPT ![p] = "ack"]
  /\ UNCHANGED <<nprocs, ports, port, backlog, fd, s, i, todo, child_fd, me, faults>>

\* Mistake: the parent's acknowledgement is not waited for.
SettlesEarly(p) ==
  LET waiting == ToSet(backlog[p]) IN
  /\ pc[p] = "ack"
  /\ conn' = Shut(conn, p, waiting)
  /\ backlog' = [backlog EXCEPT ![p] = <<>>]
  /\ pc' = [pc EXCEPT ![p] = "hostlist"]
  /\ UNCHANGED <<nprocs, ports, port, fd, s, i, todo, child_fd, me, faults>>

\* have_parent: the listening socket is closed, and who waits there is reset
ReadAck(p) ==
  LET k == fd[p]
      waiting == ToSet(backlog[p])
  IN
  /\ pc[p] = "ack" /\ conn[k].down # <<>>
  /\ conn' = Shut([conn EXCEPT ![k].down = Tail(@)], p, waiting)
  /\ backlog' = [backlog EXCEPT ![p] = <<>>]
  /\ pc' = [pc EXCEPT ![p] = "hostlist"]
  /\ UNCHANGED <<nprocs, ports, port, fd, s, i, todo, child_fd, me, faults>>

\* the connector has closed, or is slower than reply_timeout
DropsParent(p) ==
  /\ pc[p] \in {"ids", "ack"} /\ conn[fd[p]].down = <<>>
  /\ \/ PeerClosed(p, fd[p]) /\ UNCHANGED faults
     \/ ~PeerClosed(p, fd[p]) /\ Fault
  /\ Continue(p)

\* Mistake: the tree is taken for open as soon as the children are connected.
ConnectedIsOpen(p, n) == IF n # <<>> THEN "scan" ELSE IF p[2] = Server THEN "served" ELSE "open"

\* what follows when n is left of the children: the next, or cobo_barrier
AfterChild(p, n) == IF n # <<>> THEN "scan" ELSE IF p[2] = Server THEN "served" ELSE "reduce"

ReadHostlist(p) ==
  LET k == fd[p]
      t == conn[k].table
      n == Children(t[2], nprocs[t[1]])
  IN
  /\ pc[p] = "hostlist" /\ conn[k].down # <<>>
  /\ conn' = [conn EXCEPT ![k].down = Tail(@)]
  /\ me' = [me EXCEPT ![p] = t]
  /\ todo' = [todo EXCEPT ![p] = n]
  /\ pc' = [pc EXCEPT ![p] = AfterChild(p, n)]
  /\ UNCHANGED <<nprocs, ports, port, backlog, fd, s, i, child_fd, faults>>

HostlistFails(p) ==
  /\ pc[p] = "hostlist" /\ conn[fd[p]].down = <<>> /\ PeerClosed(p, fd[p])
  /\ Gone(p) /\ UNCHANGED faults

-----------------------------------------------------------------------------
(* cobo_connect_hostname: server or daemon p looks for its next child *)

\* the daemons that listen on a port of the child's host
At(p, n) == {q \in Procs : q[2] = Head(todo[p]) /\ port[q] = n /\ Listening(q)}

\* cobo_connect: refused, or connected once it is in the queue of the listener
cobo_connect(p) ==
  /\ pc[p] = "scan" /\ i[p] <= ports
  /\ \/ /\ At(p, i[p]) = {}
        /\ i' = [i EXCEPT ![p] = @ + 1]
        /\ UNCHANGED <<pc, s, conn, backlog>>
     \/ \E q \in At(p, i[p]) : \E k \in Free :
          /\ \A x \in Free : k <= x
          /\ conn' = [conn EXCEPT ![k] = NewConn(p, q)]
          /\ backlog' = [backlog EXCEPT ![q] = Append(@, k)]
          /\ s' = [s EXCEPT ![p] = k]
          /\ pc' = [pc EXCEPT ![p] = "shake_client"]
          /\ UNCHANGED i
  /\ UNCHANGED <<nprocs, ports, port, fd, todo, child_fd, me, faults>>

\* the connection is not there within connect_timeout
connect_timeout(p) ==
  /\ pc[p] = "scan" /\ i[p] <= ports /\ At(p, i[p]) # {} /\ Fault
  /\ i' = [i EXCEPT ![p] = @ + 1]
  /\ UNCHANGED <<nprocs, ports, pc, port, backlog, fd, s, todo, child_fd, me, conn>>

\* test_failed: the socket is closed and the next port is tried
TestFailed(p) ==
  /\ conn' = Shut(conn, p, {s[p]})
  /\ s' = [s EXCEPT ![p] = 0]
  /\ i' = [i EXCEPT ![p] = @ + 1]
  /\ pc' = [pc EXCEPT ![p] = "scan"]
  /\ UNCHANGED <<nprocs, ports, port, backlog, fd, todo, child_fd, me>>

\* Mistake: the ports are scanned once.
ScansOnce(p) ==
  /\ pc[p] = "scan" /\ i[p] > ports
  /\ Gone(p)
  /\ UNCHANGED faults

\* nobody will ever answer: the daemon looked for is gone, or has a parent
Hopeless(p) ==
  LET q == <<me[p][1], Head(todo[p])>> IN pc[q] # "start" /\ ~Listening(q)

\* usleep, and all over again (in vain at most once)
Rescan(p) ==
  /\ pc[p] = "scan" /\ i[p] > ports /\ ~Hopeless(p)
  /\ i' = [i EXCEPT ![p] = 1]
  /\ UNCHANGED <<nprocs, ports, pc, port, backlog, fd, s, todo, child_fd, me, conn, faults>>

\* cobo_connect_timelimit, after a scan: too early for a slow daemon, or at last
GiveUp(p) ==
  /\ pc[p] = "scan" /\ i[p] > ports
  /\ \/ Hopeless(p) /\ UNCHANGED faults
     \/ ~Hopeless(p) /\ Fault
  /\ Gone(p)

\* the ack goes out, and cobo_send_hostlist after it; to a daemon that has
\* closed the connection meanwhile they may go in vain, or fail
ReadReply(p) ==
  LET k == s[p] IN
  /\ pc[p] = "reply" /\ conn[k].up # <<>>
  /\ conn' = [conn EXCEPT ![k].up = Tail(@), ![k].down = @ \o <<"ack", "hostlist">>,
                          ![k].table = <<me[p][1], Head(todo[p])>>]
  /\ child_fd' = [child_fd EXCEPT ![p] = Append(@, k)]
  /\ todo' = [todo EXCEPT ![p] = Tail(@)]
  /\ s' = [s EXCEPT ![p] = 0]
  /\ i' = [i EXCEPT ![p] = 1]
  /\ pc' = [pc EXCEPT ![p] = AfterChild(p, Tail(todo[p]))]
  /\ UNCHANGED <<nprocs, ports, port, backlog, fd, me, faults>>

HostlistNotSent(p) ==
  /\ pc[p] = "reply" /\ conn[s[p]].up # <<>> /\ PeerClosed(p, s[p])
  /\ Gone(p) /\ UNCHANGED faults

\* the daemon has closed, or is slower than reply_timeout
DropsChild(p) ==
  /\ pc[p] = "reply" /\ conn[s[p]].up = <<>>
  /\ \/ PeerClosed(p, s[p]) /\ UNCHANGED faults
     \/ ~PeerClosed(p, s[p]) /\ Fault
  /\ TestFailed(p)

-----------------------------------------------------------------------------
(* The handshake on a new connection (module Handshake): both sides succeed,  *)
(* or both drop a peer of another session; a side whose peer is gone, or too  *)
(* slow, has an internal error and aborts.                                    *)

Shaking(p) == pc[p] \in {"shake_client", "shake_server"}
Shaken(p) == IF pc[p] = "shake_client" THEN s[p] ELSE fd[p]

\* both ends are at it
Meet(k) == LET c == conn[k] IN
  c.met \/ (c.open = {c.from, c.to} /\ pc[c.to] = "shake_server" /\ fd[c.to] = k)

\* Mistake: the session ids are not compared.
AnySession(k) == TRUE

SessionsAgree(k) == Session(conn[k].from[1]) = Session(conn[k].to[1])

\* the client of a handshake that succeeded writes the ids
ShakeSucceeds(p) ==
  LET k == Shaken(p)
      client == pc[p] = "shake_client"
  IN
  /\ Shaking(p) /\ Meet(k) /\ SessionsAgree(k)
  /\ conn' = [conn EXCEPT ![k].met = TRUE, ![k].down = IF client THEN <<"ids">> ELSE @]
  /\ pc' = [pc EXCEPT ![p] = IF client THEN "reply" ELSE "ids"]
  /\ UNCHANGED <<nprocs, ports, port, backlog, fd, s, i, todo, child_fd, me, faults>>

\* HSHAKE_DROP_CONNECTION, HSHAKE_CONNECTION_REFUSED
ShakeDrops(p) ==
  LET k == Shaken(p) IN
  /\ Shaking(p) /\ Meet(k) /\ ~SessionsAgree(k)
  /\ conn' = Shut([conn EXCEPT ![k].met = TRUE], p, {k})
  /\ \/ /\ pc[p] = "shake_client"
        /\ s' = [s EXCEPT ![p] = 0]
        /\ i' = [i EXCEPT ![p] = @ + 1]
        /\ pc' = [pc EXCEPT ![p] = "scan"]
        /\ UNCHANGED fd
     \/ /\ pc[p] = "shake_server"
        /\ fd' = [fd EXCEPT ![p] = 0]
        /\ pc' = [pc EXCEPT ![p] = "accept"]
        /\ UNCHANGED <<s, i>>
  /\ UNCHANGED <<nprocs, ports, port, backlog, todo, child_fd, me, faults>>

HandshakeFails(p) ==
  /\ Shaking(p)
  /\ \/ PeerClosed(p, Shaken(p)) /\ ~conn[Shaken(p)].met /\ UNCHANGED faults
     \/ ~PeerClosed(p, Shaken(p)) /\ Fault
  /\ Gone(p)

-----------------------------------------------------------------------------
(* The barrier at the end of cobo_open *)

kids(p) == ToSet(child_fd[p])

\* cobo_write_fd to the children and to the parent
Tell(cs, K, field, w) ==
  [k \in 1 .. MaxConns |->
     IF k \notin K THEN cs[k]
     ELSE IF field = "up" THEN [cs[k] EXCEPT !.up = Append(@, w)]
     ELSE [cs[k] EXCEPT !.down = Append(@, w)]]

Reduce(p) ==
  LET heard == [k \in 1 .. MaxConns |-> IF k \in kids(p) THEN [conn[k] EXCEPT !.up = Tail(@)]
                                                         ELSE conn[k]]
  IN
  /\ pc[p] = "reduce" /\ \A k \in kids(p) : conn[k].up # <<>>
  /\ IF me[p][2] = 0
     THEN conn' = Tell(heard, kids(p), "down", "go") /\ pc' = [pc EXCEPT ![p] = "open"]
     ELSE conn' = Tell(heard, {fd[p]}, "up", "max") /\ pc' = [pc EXCEPT ![p] = "bcast"]
  /\ UNCHANGED <<nprocs, ports, port, backlog, fd, s, i, todo, child_fd, me, faults>>

Bcast(p) ==
  /\ pc[p] = "bcast" /\ conn[fd[p]].down # <<>>
  /\ conn' = Tell([conn EXCEPT ![fd[p]].down = Tail(@)], kids(p), "down", "go")
  /\ pc' = [pc EXCEPT ![p] = "open"]
  /\ UNCHANGED <<nprocs, ports, port, backlog, fd, s, i, todo, child_fd, me, faults>>

\* Mistake: only the parent is watched.
BarrierFailsBelow(p) ==
  /\ pc[p] = "bcast" /\ conn[fd[p]].down = <<>> /\ PeerClosed(p, fd[p])
  /\ Gone(p)
  /\ UNCHANGED faults

\* a read that finds the connection closed: exit(1)
BarrierFails(p) ==
  /\ \/ pc[p] = "reduce" /\ \E k \in kids(p) : conn[k].up = <<>> /\ PeerClosed(p, k)
     \/ pc[p] = "bcast" /\ conn[fd[p]].down = <<>> /\ PeerClosed(p, fd[p])
  /\ Gone(p) /\ UNCHANGED faults

-----------------------------------------------------------------------------
Step(p) ==
  \/ bind(p) \/ accept(p) \/ ReadIds(p) \/ ReadAck(p) \/ DropsParent(p)
  \/ ReadHostlist(p) \/ HostlistFails(p)
  \/ cobo_connect(p) \/ Rescan(p) \/ GiveUp(p) \/ ReadReply(p) \/ HostlistNotSent(p)
  \/ DropsChild(p) \/ ShakeSucceeds(p) \/ ShakeDrops(p) \/ HandshakeFails(p)
  \/ Reduce(p) \/ Bcast(p) \/ BarrierFails(p)

Next == \E p \in Procs : Step(p) \/ connect_timeout(p)

\* every process runs
Spec == Init /\ [][Next]_vars
          /\ \A p \in Ids : WF_vars(p \in Procs /\ Step(p) /\ faults' = faults)

-----------------------------------------------------------------------------
(* Properties *)

Alone == nprocs["b"] = 0
Connected == {"reduce", "bcast", "open"}
AllOpen(j) == \A p \in Daemons(j) : pc[p] = "open"

(***************************************************************************)
(* A daemon settles on a parent that has settled on it: after have_parent  *)
(* the other end is not one that lost patience, closed the connection and  *)
(* is about to try again where nobody listens any more.                    *)
(***************************************************************************)
NotAbandoned == \A p \in Procs :
  pc[p] \in {"hostlist", "scan", "shake_client", "reply"} \cup Connected /\ p[2] # Server =>
    LET c == conn[fd[p]] IN
    /\ p \in c.open
    /\ c.from \in c.open => fd[p] \in kids(c.from)

(***************************************************************************)
(* A daemon gets the rank of its own host, from its own job, although      *)
(* connectors of other jobs go through the same ports.                     *)
(***************************************************************************)
RankOfItsHost == \A p \in Procs : me[p][1] # "none" => me[p] = p

(***************************************************************************)
(* A daemon returns from cobo_open only when the tree is complete: every   *)
(* daemon of the job is connected to its parent, and its parent to it, by  *)
(* the connection both will use from now on, and never two by one.         *)
(***************************************************************************)
OpenMeansComplete == \A j \in Jobs : (\E p \in Daemons(j) : pc[p] = "open") =>
  \A p \in Daemons(j) :
    /\ pc[p] \in Connected
    /\ LET c == conn[fd[p]] IN
       /\ c.to = p /\ c.open = {c.from, p}
       /\ c.from[2] = Server <=> p[2] = 0
       /\ c.from[2] # Server =>
            \E n \in DOMAIN child_fd[c.from] :
              /\ child_fd[c.from][n] = fd[p]
              /\ Children(c.from[2], nprocs[j])[n] = p[2]

Reported(j) ==
  LET v == <<j, Server>> IN
  pc[v] = "gone" \/ (pc[v] = "served" /\ PeerClosed(v, child_fd[v][1]))

(***************************************************************************)
(* Every tree is opened or the front end learns that it is not: whatever   *)
(* has timed out anywhere, the failure travels up until cobo_server_open   *)
(* fails or the connection to rank 0 is closed.  It is opened when nothing *)
(* times out and no other job is on the hosts, in whatever order the       *)
(* daemons start: those started late are found by a later scan.            *)
(***************************************************************************)
OpensOrReports ==
  <>(\A j \in Jobs : nprocs[j] > 0 =>
       AllOpen(j) \/ (Reported(j) /\ (Alone => faults > 0)))
=============================================================================
