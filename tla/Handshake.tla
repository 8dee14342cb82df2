----------------------------- MODULE Handshake -----------------------------
(***************************************************************************)
(* The handshake library, tools/handshake/handshake.c: before COBO or the  *)
(* front end uses a connection, both ends exchange a public signature, a   *)
(* packet that is signed by one of three mechanisms, and the result of     *)
(* checking the other's packet.  An expired credential makes both sides    *)
(* start again, three times at most.                                       *)
(*                                                                         *)
(* The exchange has no tags: the results, the sizes and the signatures are *)
(* words read in the order expected.  A side that fails early sends its    *)
(* result where the other expects the size of a packet.                    *)
(***************************************************************************)
EXTENDS Integers, Sequences

CONSTANTS Sessions, Keys, Uids,
          Timeouts            \* how many reads may time out (0 or more)

MAX_NUM_TIMEOUTS == 3         \* rounds before an expired credential is fatal

ASSUME HandshakeAssumption ==
  Sessions # {} /\ Keys # {} /\ Uids # {} /\ Timeouts \in Nat

Sides == {"client", "server"}
Peer(s) == IF s = "client" THEN "server" ELSE "client"

Mechanisms == {"none", "munge", "key_in_file", "explicit_key"}

VARIABLES
  hdata,     \* what each side was called with: mechanism, session, key, uid
  pc,        \* where each side is in handshake_main
  wire,      \* wire[s]: the words on their way to s
  mine,      \* the result of each side's own checks in this round
  heard,     \* the result each side has got from its peer's share_result
  round,     \* num_timeouts + 1
  outcome,   \* what handshake_server or handshake_client returned
  late       \* the reads that have timed out

vars == <<hdata, pc, wire, mine, heard, round, outcome, late>>

-----------------------------------------------------------------------------
(* Packets *)

\* getpeername and getsockname give both sides the same pair of addresses
get_client_server_addrs == "addresses"

encode_packet(s) ==
  [signature |-> s, uid |-> hdata[s].uid, session_id |-> hdata[s].session,
   addrs |-> get_client_server_addrs]

\* the key file must be ours, closed to others, and of the right size
read_key(s) == IF hdata[s].file = "ok" THEN "SUCCESS" ELSE "ABORT"

Buffer(s, how, key) == [t |-> "body", how |-> how, packet |-> encode_packet(s), key |-> key]

none_encrypt_packet(s) == {<<"SUCCESS", Buffer(s, "none", "nokey")>>}
\* munged may be unreachable
munge_encrypt_packet(s) == {<<"SUCCESS", Buffer(s, "munge", "nokey")>>,
                            <<"INTERNAL_ERROR", "nobuffer">>}
key_encrypt_packet(s) == {<<"SUCCESS", Buffer(s, "key", hdata[s].key)>>}
filekey_encrypt_packet(s) ==
  IF read_key(s) = "SUCCESS" THEN key_encrypt_packet(s) ELSE {<<read_key(s), "nobuffer">>}

encrypt_packet(s) ==
  CASE hdata[s].mechanism = "none"         -> none_encrypt_packet(s)
    [] hdata[s].mechanism = "munge"        -> munge_encrypt_packet(s)
    [] hdata[s].mechanism = "key_in_file"  -> filekey_encrypt_packet(s)
    [] hdata[s].mechanism = "explicit_key" -> key_encrypt_packet(s)

\* another session: some other instance of handshake on this node
compare_packets(s, got) ==
  LET expected == [encode_packet(s) EXCEPT !.signature = Peer(s)] IN
  IF got.session_id # expected.session_id THEN "DROP_CONNECTION"
  ELSE IF got # expected THEN "ABORT" ELSE "SUCCESS"

none_decrypt_packet(s, b) ==
  {IF b.how # "none" THEN "DROP_CONNECTION" ELSE compare_packets(s, b.packet)}

\* the credential may have expired, and munged may be unreachable
munge_decrypt_packet(s, b) ==
  IF b.how # "munge" THEN {"DROP_CONNECTION", "INTERNAL_ERROR"}
  ELSE {compare_packets(s, b.packet), "AGAIN", "INTERNAL_ERROR"}

\* get_hash_of_buffer gives the sender's hash only with the sender's key
key_decrypt_packet(s, b) ==
  {IF b.how # "key" THEN "INTERNAL_ERROR"
   ELSE IF b.key # hdata[s].key THEN "ABORT" ELSE compare_packets(s, b.packet)}

decrypt_packet(s, b) ==
  CASE hdata[s].mechanism = "none"  -> none_decrypt_packet(s, b)
    [] hdata[s].mechanism = "munge" -> munge_decrypt_packet(s, b)
    [] hdata[s].mechanism \in {"key_in_file", "explicit_key"} -> key_decrypt_packet(s, b)

-----------------------------------------------------------------------------
Init ==
  /\ hdata \in [Sides -> [mechanism : Mechanisms, session : Sessions, key : Keys,
                          uid : Uids, file : {"ok", "unsafe"}]]
  /\ \A s \in Sides :
       /\ hdata[s].mechanism # "key_in_file" => hdata[s].file = "ok"
       /\ hdata[s].mechanism \in {"none", "munge"} => hdata[s].key = CHOOSE k \in Keys : TRUE
  \* the values themselves do not matter, only whether the two sides agree
  /\ hdata["client"].session = CHOOSE x \in Sessions : TRUE
  /\ hdata["client"].uid = CHOOSE x \in Uids : TRUE
  /\ pc = [s \in Sides |-> "write_sig"]
  /\ wire = [s \in Sides |-> <<>>]
  /\ mine = [s \in Sides |-> "SUCCESS"]
  /\ heard = [s \in Sides |-> "SUCCESS"]
  /\ round = [s \in Sides |-> 1]
  /\ outcome = [s \in Sides |-> "running"]
  /\ late = 0

\* COBO and the front end close a connection unless the handshake succeeded
Closed(s) == outcome[s] \notin {"running", "SUCCESS"}

Word(t, v) == [t |-> t, v |-> v]

\* reliable_write: to a peer that has closed its end it succeeds in vain
Sent(s, w) == wire' = [wire EXCEPT ![Peer(s)] = IF Closed(Peer(s)) THEN @ ELSE Append(@, w)]

\* handshake_main returns r to handshake_wrapper
Returns(s, r) ==
  IF r = "AGAIN" /\ round[s] < MAX_NUM_TIMEOUTS
  THEN /\ round' = [round EXCEPT ![s] = @ + 1]
       /\ pc' = [pc EXCEPT ![s] = "write_sig"]
       /\ UNCHANGED outcome
  ELSE /\ outcome' = [outcome EXCEPT ![s] = IF r = "AGAIN" THEN "ABORT" ELSE r]
       /\ pc' = [pc EXCEPT ![s] = "returned"]
       /\ UNCHANGED round

\* Mistake: `again' is not shared with the peer.
DoneUnshared(s, r, socket_error) ==
  /\ mine' = [mine EXCEPT ![s] = r]
  /\ IF socket_error \/ r = "AGAIN" THEN Returns(s, r)
     ELSE pc' = [pc EXCEPT ![s] = "write_result"] /\ UNCHANGED <<round, outcome>>

\* goto done: with socket_error the result is returned, else it is shared first
Done(s, r, socket_error) ==
  /\ mine' = [mine EXCEPT ![s] = r]
  /\ IF socket_error THEN Returns(s, r)
     ELSE pc' = [pc EXCEPT ![s] = "write_result"] /\ UNCHANGED <<round, outcome>>

\* Mistake: the peer's result is not looked at.
SharedInVain(s, peer_result) ==
  /\ heard' = [heard EXCEPT ![s] = peer_result]
  /\ Returns(s, mine[s])

\* return_result, once the peer's has been heard (or could not be)
Shared(s, peer_result) ==
  /\ heard' = [heard EXCEPT ![s] = peer_result]
  /\ Returns(s, IF mine[s] = "SUCCESS" THEN peer_result ELSE mine[s])

-----------------------------------------------------------------------------
write_sig(s) ==
  /\ pc[s] = "write_sig"
  /\ Sent(s, Word("sig", "SIG"))
  /\ pc' = [pc EXCEPT ![s] = "read_sig"]
  /\ UNCHANGED <<hdata, mine, heard, round, outcome, late>>

Arrived(s) == wire[s] # <<>>
Take(s) == wire' = [wire EXCEPT ![s] = Tail(@)]

\* exchange_sig, then the packet is encoded and signed
read_sig(s) ==
  /\ pc[s] = "read_sig" /\ Arrived(s) /\ Take(s)
  /\ IF Head(wire[s]).t # "sig"
     THEN Done(s, "DROP_CONNECTION", TRUE)
     ELSE \E e \in encrypt_packet(s) :
            IF e[1] # "SUCCESS"
            THEN Done(s, e[1], FALSE)
            ELSE /\ pc' = [pc EXCEPT ![s] = "send_packet"]
                 /\ UNCHANGED <<mine, round, outcome>>
  /\ UNCHANGED <<hdata, heard, late>>

\* the size and the packet; only the packet of this side can be sent
send_packet(s) ==
  /\ pc[s] = "send_packet"
  /\ \E e \in encrypt_packet(s) :
       /\ e[1] = "SUCCESS"
       /\ wire' = [wire EXCEPT ![Peer(s)] =
                     IF Closed(Peer(s)) THEN @ ELSE @ \o <<Word("size", e[2].how), e[2]>>]
  /\ pc' = [pc EXCEPT ![s] = "read_size"]
  /\ UNCHANGED <<hdata, mine, heard, round, outcome, late>>

\* what the next four bytes are worth: as a size, anything but a size is
\* unreasonably large, except that a shared success is the size 0
Value(s) == IF Head(wire[s]).t = "body" THEN "garbage" ELSE Head(wire[s]).v
NoBytes == [t |-> "body", how |-> "empty"]

recv_size(s) ==
  /\ pc[s] = "read_size" /\ Arrived(s) /\ Take(s)
  /\ IF Head(wire[s]).t = "size"
     THEN pc' = [pc EXCEPT ![s] = "read_packet"] /\ UNCHANGED <<mine, round, outcome>>
     ELSE IF Value(s) = "SUCCESS"
     THEN \E r \in decrypt_packet(s, NoBytes) : Done(s, r, FALSE)
     ELSE Done(s, "DROP_CONNECTION", TRUE)
  /\ UNCHANGED <<hdata, heard, late>>

recv_packet(s) ==
  /\ pc[s] = "read_packet" /\ Arrived(s) /\ Take(s)
  /\ \E r \in decrypt_packet(s, Head(wire[s])) : Done(s, r, FALSE)
  /\ UNCHANGED <<hdata, heard, late>>

\* Mistake: only a dropped connection is told.
WriteMildResult(s) ==
  /\ pc[s] = "write_result"
  /\ Sent(s, Word("result", IF mine[s] \in {"DROP_CONNECTION", "AGAIN"} THEN mine[s] ELSE "SUCCESS"))
  /\ pc' = [pc EXCEPT ![s] = "read_result"]
  /\ UNCHANGED <<hdata, mine, heard, round, outcome, late>>

\* the peer learns success, drop or again
write_result(s) ==
  /\ pc[s] = "write_result"
  /\ Sent(s, Word("result", IF mine[s] \in {"SUCCESS", "AGAIN"} THEN mine[s] ELSE "DROP_CONNECTION"))
  /\ pc' = [pc EXCEPT ![s] = "read_result"]
  /\ UNCHANGED <<hdata, mine, heard, round, outcome, late>>

\* anything but success or again is a refusal, a misread word too
share_result(s) ==
  /\ pc[s] = "read_result" /\ Arrived(s) /\ Take(s)
  /\ Shared(s, IF Value(s) \in {"SUCCESS", "AGAIN"} THEN Value(s) ELSE "CONNECTION_REFUSED")
  /\ UNCHANGED <<hdata, mine, late>>

\* a read that cannot be completed: the peer has closed, or it is too slow
Fail(s) ==
  \/ /\ pc[s] \in {"read_sig", "read_size", "read_packet"}
     /\ Done(s, "INTERNAL_ERROR", TRUE)
     /\ UNCHANGED heard
  \/ /\ pc[s] = "read_result"
     /\ Shared(s, "INTERNAL_ERROR")
     /\ UNCHANGED mine

\* Mistake: the end of the stream goes unnoticed while the result is awaited.
ReadEofEarly(s) ==
  /\ ~Arrived(s) /\ Closed(Peer(s)) /\ pc[s] # "read_result" /\ Fail(s)
  /\ UNCHANGED <<hdata, wire, late>>

read_eof(s) ==
  /\ ~Arrived(s) /\ Closed(Peer(s)) /\ Fail(s)
  /\ UNCHANGED <<hdata, wire, late>>

read_timeout(s) ==
  /\ ~Arrived(s) /\ late < Timeouts /\ late' = late + 1 /\ Fail(s)
  /\ UNCHANGED <<hdata, wire>>

\* a write to a peer that has closed may fail (EPIPE, SIGPIPE is ignored)
write_fails(s) ==
  /\ Closed(Peer(s))
  /\ \/ /\ pc[s] \in {"write_sig", "send_packet"}
        /\ Done(s, "INTERNAL_ERROR", TRUE)
        /\ UNCHANGED heard
     \/ /\ pc[s] = "write_result"
        /\ Shared(s, "INTERNAL_ERROR")
        /\ UNCHANGED mine
  /\ UNCHANGED <<hdata, wire, late>>

handshake_main(s) ==
  \/ write_sig(s) \/ read_sig(s) \/ send_packet(s) \/ recv_size(s) \/ recv_packet(s)
  \/ write_result(s) \/ share_result(s) \/ read_eof(s) \/ write_fails(s)

Returned == \A s \in Sides : pc[s] = "returned"

Next == \/ \E s \in Sides : handshake_main(s) \/ read_timeout(s)
        \/ Returned /\ UNCHANGED vars

Spec == Init /\ [][Next]_vars /\ \A s \in Sides : WF_vars(handshake_main(s))

-----------------------------------------------------------------------------
(* Properties *)

\* the two sides were called with what a connection needs
Compatible ==
  LET c == hdata["client"]  v == hdata["server"] IN
  /\ c.session = v.session /\ c.uid = v.uid
  /\ (c.mechanism = "none") <=> (v.mechanism = "none")
  /\ (c.mechanism = "munge") <=> (v.mechanism = "munge")
  /\ c.mechanism \in {"key_in_file", "explicit_key"} => c.key = v.key

(***************************************************************************)
(* A side that returns success has checked the other, and the other has    *)
(* checked it, in the same round: whatever was misread, timed out or tried *)
(* again on the way, no success is left over from an earlier round.  As    *)
(* long as no read times out the connection is used by both or by neither. *)
(***************************************************************************)
MutualSuccess ==
  /\ \A s \in Sides : outcome[s] = "SUCCESS" =>
       Compatible /\ mine[Peer(s)] = "SUCCESS" /\ round[Peer(s)] = round[s]
  /\ late = 0 /\ Returned => (outcome["client"] = "SUCCESS" <=> outcome["server"] = "SUCCESS")

(***************************************************************************)
(* As long as no read times out the two sides are in step.  They start a   *)
(* new round together: a side in a later round than the other finds it on  *)
(* its way into the same round, or returned.  And a word is read for what  *)
(* it is, unless the peer failed to sign a packet and sent its result in   *)
(* place of the size.  (With a timeout, a side whose own result is `again' *)
(* starts over even when the peer's result did not arrive; from then on it *)
(* takes the words of one round for those of another.)                     *)
(***************************************************************************)
InStep == late = 0 => \A s \in Sides :
  /\ round[s] <= round[Peer(s)] + 1 /\ round[s] <= MAX_NUM_TIMEOUTS
  /\ round[s] > round[Peer(s)] => pc[Peer(s)] \in {"read_result", "returned"}
  /\ Arrived(s) =>
       /\ pc[s] = "read_sig" => Head(wire[s]).t = "sig"
       /\ pc[s] = "read_size" => Head(wire[s]).t = "size" \/ mine[Peer(s)] # "SUCCESS"
       /\ pc[s] = "read_packet" => Head(wire[s]).t = "body"
       /\ pc[s] = "read_result" => Head(wire[s]).t = "result" \/ mine[s] # "SUCCESS"

(***************************************************************************)
(* Both handshakes return, also when timeouts are disabled: neither side   *)
(* waits for a word the other will never send.                             *)
(***************************************************************************)
BothReturn == <>Returned
=============================================================================
