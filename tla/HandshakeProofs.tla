-------------------------- MODULE HandshakeProofs --------------------------
(***************************************************************************)
(* What the handshake library promises, proved for every session, key and  *)
(* user, and any number of timeouts.                                       *)
(*                                                                         *)
(* The exchange has no tags, so the argument is about which words can be   *)
(* on their way to a side: they are what is left of what its peer has      *)
(* written, in this round or, once a side has started over on its own, in  *)
(* the round before.                                                       *)
(***************************************************************************)
EXTENDS Handshake, SequenceTheorems, TLAPS

Pcs == {"write_sig", "read_sig", "send_packet", "read_size", "read_packet",
        "write_result", "read_result", "returned"}
Checks == {"SUCCESS", "INTERNAL_ERROR", "DROP_CONNECTION", "ABORT", "AGAIN"}
Outcomes == Checks \cup {"CONNECTION_REFUSED", "running"}

\* The words of side s
Sig == Word("sig", "SIG")
How(s) == IF hdata[s].mechanism \in {"key_in_file", "explicit_key"}
          THEN "key" ELSE hdata[s].mechanism
Packet(s) == Buffer(s, How(s), IF How(s) = "key" THEN hdata[s].key ELSE "nokey")
Size(s) == Word("size", How(s))
Told == {"SUCCESS", "AGAIN", "DROP_CONNECTION"}
Result(v) == Word("result", v)
Words == {Sig} \cup {Size(s) : s \in Sides} \cup {Packet(s) : s \in Sides}
               \cup {Result(v) : v \in Told}

\* What a side has written in a round, by how far it has come: a side that
\* could not sign sends its result next to the signature
Signed(s) == <<Sig, Size(s), Packet(s)>>
Full(s, v) == <<Sig, Size(s), Packet(s), Result(v)>>
Short == <<Sig, Result("DROP_CONNECTION")>>

\* What is left of q once k words have been read
Left(q, k) == SubSeq(q, k + 1, Len(q))

-----------------------------------------------------------------------------
(* Sequences *)

LEMMA LeftProps ==
  ASSUME NEW S, NEW q \in Seq(S), NEW k \in 0 .. Len(q)
  PROVE  /\ Left(q, k) \in Seq(S)
         /\ Len(Left(q, k)) = Len(q) - k
         /\ \A i \in 1 .. Len(q) - k : Left(q, k)[i] = q[k + i]
<1>1. k + 1 \in 1 .. Len(q) + 1 /\ Len(q) \in Nat
  BY LenProperties
<1> QED
  BY <1>1, SubSeqProperties DEF Left

\* The end of the stream is where nothing is left; a word written goes behind
\* what is left, and a word read is the next of the stream.
LEMMA LeftNone ==
  ASSUME NEW S, NEW q \in Seq(S), NEW k \in 0 .. Len(q)
  PROVE  Left(q, k) = <<>> <=> k = Len(q)
<1>1. Left(q, k) \in Seq(S) /\ Len(Left(q, k)) = Len(q) - k /\ Len(q) \in Nat
  BY LeftProps, LenProperties
<1>2. Left(q, k) = <<>> <=> Len(Left(q, k)) = 0
  BY <1>1, EmptySeq
<1> QED
  BY <1>1, <1>2

LEMMA LeftAll ==
  ASSUME NEW S, NEW q \in Seq(S)
  PROVE  Left(q, 0) = q
BY SubSeqFull DEF Left

LEMMA LeftConcat ==
  ASSUME NEW S, NEW q \in Seq(S), NEW d \in Seq(S), NEW k \in 0 .. Len(q)
  PROVE  Left(q, k) \o d = Left(q \o d, k)
<1> DEFINE a == Left(q, k)
           b == q \o d
           c == Left(b, k)
<1>1. /\ a \in Seq(S) /\ Len(a) = Len(q) - k /\ Len(q) \in Nat /\ Len(d) \in Nat
      /\ \A i \in 1 .. Len(q) - k : a[i] = q[k + i]
  BY LeftProps, LenProperties
<1>2. /\ b \in Seq(S) /\ Len(b) = Len(q) + Len(d)
      /\ \A i \in 1 .. Len(q) + Len(d) : b[i] = IF i <= Len(q) THEN q[i] ELSE d[i - Len(q)]
  BY ConcatProperties
<1>3. k \in 0 .. Len(b)
  BY <1>1, <1>2
<1>4. /\ c \in Seq(S) /\ Len(c) = Len(b) - k
      /\ \A i \in 1 .. Len(b) - k : c[i] = b[k + i]
  BY <1>2, <1>3, LeftProps, ZenonT(60)
<1>5. /\ a \o d \in Seq(S) /\ Len(a \o d) = Len(a) + Len(d)
      /\ \A i \in 1 .. Len(a) + Len(d) : (a \o d)[i] = IF i <= Len(a) THEN a[i] ELSE d[i - Len(a)]
  <2> HIDE DEF a
  <2> QED
    BY <1>1, ConcatProperties
<1>6. Len(a \o d) = Len(c)
  BY <1>1, <1>2, <1>4, <1>5
<1>7. ASSUME NEW i \in 1 .. Len(a \o d) PROVE (a \o d)[i] = c[i]
  <2>1. i \in 1 .. Len(a) + Len(d) /\ k + i \in 1 .. Len(q) + Len(d) /\ c[i] = b[k + i]
    BY <1>1, <1>2, <1>4, <1>5, <1>7
  <2>2. CASE i <= Len(a)
    <3>1. k + i <= Len(q) /\ i \in 1 .. Len(q) - k
      BY <1>1, <2>1, <2>2
    <3> QED
      BY <1>1, <1>2, <1>5, <2>1, <2>2, <3>1
  <2>3. CASE ~(i <= Len(a))
    <3>1. ~(k + i <= Len(q)) /\ i - Len(a) = (k + i) - Len(q)
      BY <1>1, <2>1, <2>3
    <3> QED
      BY <1>2, <1>5, <2>1, <2>3, <3>1
  <2> QED
    BY <2>2, <2>3
<1> HIDE DEF a, b, c
<1>8. a \o d = c
  BY <1>4, <1>5, <1>6, <1>7, SeqEqual
<1> QED
  BY <1>8 DEF a, b, c

LEMMA LeftTail ==
  ASSUME NEW S, NEW q \in Seq(S), NEW k \in 0 .. Len(q), k < Len(q)
  PROVE  Head(Left(q, k)) = q[k + 1] /\ Tail(Left(q, k)) = Left(q, k + 1)
<1>1. k + 1 \in 1 .. Len(q) /\ Len(q) \in k + 1 .. Len(q) /\ Len(q) \in Nat
  BY LenProperties
<1> QED
  BY <1>1, HeadTailOfSubSeq DEF Left

-----------------------------------------------------------------------------
(* Words *)

LEMMA WordFields ==
  ASSUME NEW s \in Sides, NEW v \in Told
  PROVE  /\ Sig.t = "sig"
         /\ Size(s).t = "size"
         /\ Packet(s).t = "body" /\ Packet(s).how = How(s)
         /\ Result(v).t = "result" /\ Result(v).v = v
BY DEF Sig, Size, Packet, Result, Word, Buffer

LEMMA StreamWords ==
  ASSUME NEW s \in Sides, NEW v \in Told
  PROVE  /\ <<>> \in Seq(Words) /\ Len(<<>>) = 0
         /\ <<Sig>> \in Seq(Words) /\ Len(<<Sig>>) = 1 /\ <<Sig>>[1] = Sig
         /\ Short \in Seq(Words) /\ Len(Short) = 2
         /\ Short[1] = Sig /\ Short[2] = Result("DROP_CONNECTION")
         /\ Signed(s) \in Seq(Words) /\ Len(Signed(s)) = 3
         /\ Signed(s)[1] = Sig /\ Signed(s)[2] = Size(s) /\ Signed(s)[3] = Packet(s)
         /\ Full(s, v) \in Seq(Words) /\ Len(Full(s, v)) = 4
         /\ Full(s, v)[1] = Sig /\ Full(s, v)[2] = Size(s) /\ Full(s, v)[3] = Packet(s)
         /\ Full(s, v)[4] = Result(v)
         /\ <<Result(v)>> \in Seq(Words) /\ Len(<<Result(v)>>) = 1 /\ <<Result(v)>>[1] = Result(v)
         /\ <<Size(s), Packet(s)>> \in Seq(Words)
<1> DEFINE d == Result("DROP_CONNECTION")
<1>1. /\ Sig \in Words /\ Size(s) \in Words /\ Packet(s) \in Words
      /\ Result(v) \in Words /\ d \in Words
  BY DEF Words, Told
<1> HIDE DEF d
<1>2. /\ <<>> \in Seq(Words) /\ Len(<<>>) = 0
      /\ <<Sig>> \in Seq(Words) /\ Len(<<Sig>>) = 1 /\ <<Sig>>[1] = Sig
      /\ <<Result(v)>> \in Seq(Words) /\ Len(<<Result(v)>>) = 1 /\ <<Result(v)>>[1] = Result(v)
      /\ <<Size(s), Packet(s)>> \in Seq(Words)
  BY <1>1
<1>3. <<Sig, d>> \in Seq(Words) /\ Len(<<Sig, d>>) = 2 /\ <<Sig, d>>[1] = Sig /\ <<Sig, d>>[2] = d
  BY <1>1
<1>4. Signed(s) \in Seq(Words) /\ Len(Signed(s)) = 3
  BY <1>1 DEF Signed
<1>5. Signed(s)[1] = Sig /\ Signed(s)[2] = Size(s) /\ Signed(s)[3] = Packet(s)
  BY DEF Signed
<1>6. Full(s, v) \in Seq(Words) /\ Len(Full(s, v)) = 4
  BY <1>1 DEF Full
<1>7. /\ Full(s, v)[1] = Sig /\ Full(s, v)[2] = Size(s) /\ Full(s, v)[3] = Packet(s)
      /\ Full(s, v)[4] = Result(v)
  BY DEF Full
<1> QED
  BY <1>2, <1>3, <1>4, <1>5, <1>6, <1>7 DEF Short, d

LEMMA ConcatOfLengths ==
  ASSUME NEW S, NEW l \in Seq(S), NEW m \in Seq(S), NEW r \in Seq(S),
         Len(r) = Len(l) + Len(m),
         \A i \in 1 .. Len(r) : r[i] = IF i <= Len(l) THEN l[i] ELSE m[i - Len(l)]
  PROVE  l \o m = r
<1>1. /\ l \o m \in Seq(S) /\ Len(l \o m) = Len(l) + Len(m)
      /\ \A i \in 1 .. Len(l) + Len(m) :
           (l \o m)[i] = IF i <= Len(l) THEN l[i] ELSE m[i - Len(l)]
  BY ConcatProperties
<1> QED
  BY <1>1, SeqEqual

LEMMA PairConcat ==
  ASSUME NEW S, NEW a \in S, NEW b \in S
  PROVE  <<a>> \o <<b>> = <<a, b>>
<1> DEFINE l == <<a>>
           m == <<b>>
           r == <<a, b>>
<1>1. l \in Seq(S) /\ Len(l) = 1 /\ l[1] = a
  OBVIOUS
<1>2. m \in Seq(S) /\ Len(m) = 1 /\ m[1] = b
  OBVIOUS
<1>3. r \in Seq(S) /\ Len(r) = 2 /\ r[1] = a /\ r[2] = b
  OBVIOUS
<1> HIDE DEF l, m, r
<1>4. ASSUME NEW i \in 1 .. Len(r)
      PROVE  r[i] = IF i <= Len(l) THEN l[i] ELSE m[i - Len(l)]
  <2>1. i = 1 \/ i = 2
    BY <1>3
  <2> QED
    BY <1>1, <1>2, <1>3, <2>1
<1>5. Len(r) = Len(l) + Len(m)
  BY <1>1, <1>2, <1>3
<1>6. l \o m = r
  BY <1>1, <1>2, <1>3, <1>4, <1>5, ConcatOfLengths
<1> QED
  BY <1>6 DEF l, m, r

LEMMA TripleConcat ==
  ASSUME NEW S, NEW a \in S, NEW b \in S, NEW c \in S
  PROVE  <<a>> \o <<b, c>> = <<a, b, c>>
<1> DEFINE l == <<a>>
           m == <<b, c>>
           r == <<a, b, c>>
<1>1. l \in Seq(S) /\ Len(l) = 1 /\ l[1] = a
  OBVIOUS
<1>2. m \in Seq(S) /\ Len(m) = 2 /\ m[1] = b /\ m[2] = c
  OBVIOUS
<1>3. r \in Seq(S) /\ Len(r) = 3 /\ r[1] = a /\ r[2] = b /\ r[3] = c
  OBVIOUS
<1> HIDE DEF l, m, r
<1>4. ASSUME NEW i \in 1 .. Len(r)
      PROVE  r[i] = IF i <= Len(l) THEN l[i] ELSE m[i - Len(l)]
  <2>1. i = 1 \/ i = 2 \/ i = 3
    BY <1>3
  <2> QED
    BY <1>1, <1>2, <1>3, <2>1
<1>5. Len(r) = Len(l) + Len(m)
  BY <1>1, <1>2, <1>3
<1>6. l \o m = r
  BY <1>1, <1>2, <1>3, <1>4, <1>5, ConcatOfLengths
<1> QED
  BY <1>6 DEF l, m, r

LEMMA FourConcat ==
  ASSUME NEW S, NEW a \in S, NEW b \in S, NEW c \in S, NEW d \in S
  PROVE  <<a, b, c>> \o <<d>> = <<a, b, c, d>>
<1> DEFINE l == <<a, b, c>>
           m == <<d>>
           r == <<a, b, c, d>>
<1>1. l \in Seq(S) /\ Len(l) = 3 /\ l[1] = a /\ l[2] = b /\ l[3] = c
  OBVIOUS
<1>2. m \in Seq(S) /\ Len(m) = 1 /\ m[1] = d
  OBVIOUS
<1>3. r \in Seq(S) /\ Len(r) = 4 /\ r[1] = a /\ r[2] = b /\ r[3] = c /\ r[4] = d
  OBVIOUS
<1> HIDE DEF l, m, r
<1>4. ASSUME NEW i \in 1 .. Len(r)
      PROVE  r[i] = IF i <= Len(l) THEN l[i] ELSE m[i - Len(l)]
  <2>1. i = 1 \/ i = 2 \/ i = 3 \/ i = 4
    BY <1>3
  <2> QED
    BY <1>1, <1>2, <1>3, <2>1
<1>5. Len(r) = Len(l) + Len(m)
  BY <1>1, <1>2, <1>3
<1>6. l \o m = r
  BY <1>1, <1>2, <1>3, <1>4, <1>5, ConcatOfLengths
<1> QED
  BY <1>6 DEF l, m, r

\* What each write adds.
LEMMA StreamsGrow ==
  ASSUME NEW s \in Sides, NEW v \in Told
  PROVE  /\ <<>> \o <<Sig>> = <<Sig>>
         /\ <<Sig>> \o <<Size(s), Packet(s)>> = Signed(s)
         /\ Signed(s) \o <<Result(v)>> = Full(s, v)
         /\ <<Sig>> \o <<Result("DROP_CONNECTION")>> = Short
<1>1. /\ Sig \in Words /\ Size(s) \in Words /\ Packet(s) \in Words
      /\ Result(v) \in Words /\ Result("DROP_CONNECTION") \in Words
  BY DEF Words, Told
<1> DEFINE D == Result("DROP_CONNECTION")
           z == Size(s)
           p == Packet(s)
           r == Result(v)
<1>2. /\ Sig \in Words /\ z \in Words /\ p \in Words /\ r \in Words /\ D \in Words
  BY <1>1
<1> HIDE DEF D, z, p, r
<1>3. <<>> \o <<Sig>> = <<Sig>> /\ <<Sig>> \o <<D>> = <<Sig, D>>
  BY <1>2, PairConcat, ConcatEmptySeq
<1>4. <<Sig>> \o <<z, p>> = <<Sig, z, p>>
  BY <1>2, TripleConcat
<1>5. <<Sig, z, p>> \o <<r>> = <<Sig, z, p, r>>
  BY <1>2, FourConcat
<1>6. <<Sig>> \o <<Result("DROP_CONNECTION")>> = Short
  BY <1>3 DEF Short, D
<1>7. <<Sig>> \o <<Size(s), Packet(s)>> = Signed(s)
  BY <1>4 DEF Signed, z, p
<1>8. Signed(s) \o <<Result(v)>> = Full(s, v)
  BY <1>5 DEF Signed, Full, z, p, r
<1> QED
  BY <1>3, <1>6, <1>7, <1>8

\* Everything a side may write in a round
Streams(s) == {<<>>, <<Sig>>, Short, Signed(s)} \cup {Full(s, v) : v \in Told}

LEMMA StreamProps ==
  ASSUME NEW s \in Sides, NEW q \in Streams(s)
  PROVE  /\ q \in Seq(Words) /\ Len(q) \in 0 .. 4
         /\ Len(q) = 0 <=> q = <<>>
         /\ Len(q) = 1 <=> q = <<Sig>>
         /\ Len(q) = 2 <=> q = Short
         /\ Len(q) = 3 <=> q = Signed(s)
         /\ Len(q) = 4 <=> \E v \in Told : q = Full(s, v)
         /\ Len(q) >= 1 => q[1] = Sig
         /\ Len(q) = 2 => q[2] = Result("DROP_CONNECTION")
         /\ Len(q) >= 3 => q[2] = Size(s) /\ q[3] = Packet(s)
<1> DEFINE n == <<>>
           g == <<Sig>>
           h == Short
           f == Signed(s)
<1>1. PICK v \in Told : q \in {n, g, h, f, Full(s, v)}
  BY DEF Streams, Told
<1> DEFINE w == Full(s, v)
<1>2. Len(n) = 0 /\ Len(g) = 1 /\ Len(h) = 2 /\ Len(f) = 3 /\ Len(w) = 4
  BY <1>1, StreamWords
<1>3. {n, g, h, f, w} \subseteq Seq(Words)
  BY <1>1, StreamWords
<1>4. /\ g[1] = Sig /\ h[1] = Sig /\ f[1] = Sig /\ w[1] = Sig
      /\ h[2] = Result("DROP_CONNECTION") /\ f[2] = Size(s) /\ w[2] = Size(s)
      /\ f[3] = Packet(s) /\ w[3] = Packet(s)
  BY <1>1, StreamWords
<1>5. \A u \in Told : Len(Full(s, u)) = 4
  BY StreamWords
<1>6. q = n \/ q = g \/ q = h \/ q = f \/ q = w
  BY <1>1
<1> HIDE DEF n, g, h, f, w
<1>7. /\ Len(q) = 4 <=> q = w
      /\ Len(q) = 0 <=> q = n
      /\ Len(q) = 1 <=> q = g
      /\ Len(q) = 2 <=> q = h
      /\ Len(q) = 3 <=> q = f
      /\ Len(q) \in 0 .. 4
  BY <1>2, <1>6
<1>8. q \in Seq(Words)
  BY <1>3, <1>6
<1>9. Len(q) = 4 <=> \E u \in Told : q = Full(s, u)
  BY <1>5, <1>7 DEF w
<1>10. /\ Len(q) >= 1 => q[1] = Sig
       /\ Len(q) = 2 => q[2] = Result("DROP_CONNECTION")
       /\ Len(q) >= 3 => q[2] = Size(s) /\ q[3] = Packet(s)
  <2>1. q = n => Len(q) = 0
    BY <1>2
  <2>2. q # n => q[1] = Sig
    BY <1>4, <1>6
  <2>3. Len(q) = 2 => q = h
    BY <1>7
  <2>4. Len(q) >= 3 => q = f \/ q = w
    BY <1>7
  <2>5. Len(q) >= 1 => q[1] = Sig
    BY <1>7, <2>1, <2>2
  <2>6. Len(q) = 2 => q[2] = Result("DROP_CONNECTION")
    BY <1>4, <2>3, Zenon
  <2>7. Len(q) >= 3 => q[2] = Size(s) /\ q[3] = Packet(s)
    BY <1>4, <2>4, Zenon
  <2> QED
    BY <2>5, <2>6, <2>7
<1> QED
  BY <1>7, <1>8, <1>9, <1>10 DEF n, g, h, f, w

-----------------------------------------------------------------------------
(* The inductive invariant *)

\* A side that could not sign its packet, or not read the other's
Unable(s) == mine[s] \in {"INTERNAL_ERROR", "ABORT"}
Say(s) == IF mine[s] \in {"SUCCESS", "AGAIN"} THEN mine[s] ELSE "DROP_CONNECTION"

\* q is what s has written in its round; U are the sides that could not sign.
\* A side that has closed may have done so at any point.
Wrote(U, s, q) ==
  \/ pc[s] = "write_sig" /\ q = <<>>
  \/ pc[s] \in {"read_sig", "send_packet"} /\ q = <<Sig>>
  \/ pc[s] \in {"read_size", "read_packet"} /\ q = Signed(s)
  \/ pc[s] = "write_result" /\ q = IF s \in U THEN <<Sig>> ELSE Signed(s)
  \/ pc[s] = "read_result" /\ q = IF s \in U THEN Short ELSE Full(s, Say(s))
  \/ pc[s] = "returned" /\ ~Closed(s) /\ q = Full(s, Say(s))
  \/ pc[s] = "returned" /\ Closed(s) /\ s \in U /\ q \in {<<>>, <<Sig>>, Short}
  \/ pc[s] = "returned" /\ Closed(s) /\ s \notin U
       /\ q \in {<<>>, <<Sig>>, Signed(s), Full(s, Say(s))}

\* k is how many words of its peer's round s has read
HasRead(U, s, k) ==
  \/ pc[s] \in {"write_sig", "read_sig"} /\ k = 0
  \/ pc[s] \in {"send_packet", "read_size"} /\ k = 1
  \/ pc[s] = "read_packet" /\ k = 2
  \/ pc[s] \in {"write_result", "read_result"} /\ k = IF s \in U THEN 1 ELSE 3

\* Both in the same round: the words for s are what it has not read of it.
Even(U, s) ==
  /\ round[s] = round[Peer(s)]
  /\ \E q \in Streams(Peer(s)), k \in 0 .. 3 :
       /\ Wrote(U, Peer(s), q) /\ HasRead(U, s, k)
       /\ k <= Len(q) /\ (k = 2 => Len(q) > 2)
       /\ wire[s] = Left(q, k)

\* The result of an earlier round, which s has not waited for, comes first.
Skewed(U, s) ==
  /\ late > 0 /\ round[s] = round[Peer(s)]
  /\ pc[s] \in {"write_sig", "read_sig"}
  /\ \E q \in Streams(Peer(s)), v \in Told :
       Wrote(U, Peer(s), q) /\ wire[s] = <<Result(v)>> \o q

\* s has started over and its peer has not yet: it has read the peer's packet,
\* and unless a read has timed out the peer's result as well.
Ahead(U, s) ==
  /\ round[s] = round[Peer(s)] + 1
  /\ pc[s] \in {"write_sig", "read_sig"} /\ Peer(s) \notin U
  /\ \E q \in Streams(Peer(s)) :
       /\ Wrote(U, Peer(s), q) /\ Len(q) >= 3
       /\ \/ late > 0 /\ wire[s] = Left(q, 3)
          \/ Len(q) = 4 /\ wire[s] = <<>>

\* The other side of the same: all four words of the peer's last round, and
\* what it has written since.
Behind(U, s) ==
  /\ round[Peer(s)] = round[s] + 1
  /\ pc[s] \in {"read_size", "read_packet", "write_result", "read_result"}
  /\ late = 0 => pc[s] = "read_result"
  /\ s \notin U /\ Peer(s) \notin U
  /\ \E x \in {"SUCCESS", "AGAIN"}, q \in {<<>>, <<Sig>>}, k \in 0 .. 3 :
       /\ HasRead(U, s, k)
       /\ wire[s] = Left(Full(Peer(s), x), k) \o q
       /\ x = "SUCCESS" => pc[s] = "read_result" /\ mine[s] = "AGAIN"
       /\ pc[Peer(s)] = "write_sig" => q = <<>>
       /\ pc[Peer(s)] = "read_sig" => q = <<Sig>>
       /\ pc[Peer(s)] \in {"write_sig", "read_sig", "returned"}

Link(U, s) == pc[s] = "returned" \/ Even(U, s) \/ Skewed(U, s) \/ Ahead(U, s) \/ Behind(U, s)

Mute(U) == \A s \in U : Unable(s) /\ pc[s] \in {"write_result", "read_result", "returned"}
Linked(U) == Mute(U) /\ \A s \in Sides : Link(U, s)

\* A success of a side's own checks stands for what Init let the sides have.
Vetted == \A s \in Sides :
  mine[s] = "SUCCESS" /\ pc[s] \in {"write_result", "read_result", "returned"} => Compatible

\* Success is returned upon the success of a peer that has returned, too, or
\* finds success on its wire.
Agreed == \A s \in Sides : outcome[s] = "SUCCESS" =>
  /\ Compatible /\ mine[s] = "SUCCESS" /\ mine[Peer(s)] = "SUCCESS"
  /\ round[s] = round[Peer(s)]
  /\ pc[Peer(s)] \in {"read_result", "returned"}
  /\ pc[Peer(s)] = "read_result" => wire[Peer(s)] = <<Result("SUCCESS")>>

\* A side that closes though its own checks succeeded leaves a peer that has
\* closed or will, for reasons of its own.
Settled == late = 0 => \A s \in Sides : Closed(s) /\ mine[s] = "SUCCESS" =>
  \/ Closed(Peer(s))
  \/ /\ pc[Peer(s)] = "read_result" /\ mine[Peer(s)] # "SUCCESS"
     /\ mine[Peer(s)] = "AGAIN" => round[Peer(s)] = MAX_NUM_TIMEOUTS

\* Where a side may be whose peer has closed.
Alone == late = 0 => \A s \in Sides : Closed(Peer(s)) /\ ~Closed(s) =>
  \/ pc[s] = "read_result" /\ round[s] = round[Peer(s)]
  \/ pc[s] = "read_size" /\ wire[s] = <<Result("DROP_CONNECTION")>>
  \/ /\ pc[s] \in {"write_sig", "read_sig"} /\ round[s] = round[Peer(s)] + 1
     /\ wire[s] = <<>>

Together == late = 0 => \A s \in Sides :
  /\ round[s] <= round[Peer(s)] + 1
  /\ round[s] > round[Peer(s)] => pc[Peer(s)] \in {"read_result", "returned"}

Typed ==
  /\ hdata \in [Sides -> [mechanism : Mechanisms, session : Sessions, key : Keys,
                          uid : Uids, file : {"ok", "unsafe"}]]
  /\ pc \in [Sides -> Pcs]
  /\ wire \in [Sides -> Seq(Words)]
  /\ mine \in [Sides -> Checks]
  /\ round \in [Sides -> 1 .. MAX_NUM_TIMEOUTS]
  /\ outcome \in [Sides -> Outcomes]
  /\ late \in Nat
  /\ \A s \in Sides : pc[s] = "returned" <=> outcome[s] # "running"

Rest == Vetted /\ Agreed /\ Settled /\ Alone /\ Together

Inv == Typed /\ Rest /\ \E U \in SUBSET Sides : Linked(U)

-----------------------------------------------------------------------------
(* What a step of one side leaves alone *)

LEMMA Pair ==
  ASSUME NEW s \in Sides
  PROVE  /\ Peer(s) \in Sides /\ Peer(Peer(s)) = s /\ Peer(s) # s
         /\ \A t \in Sides : t = s \/ t = Peer(s)
BY DEF Sides, Peer

Steps(s) ==
  /\ hdata' = hdata /\ late' \in {late, late + 1}
  /\ pc'[Peer(s)] = pc[Peer(s)] /\ mine'[Peer(s)] = mine[Peer(s)]
  /\ round'[Peer(s)] = round[Peer(s)] /\ outcome'[Peer(s)] = outcome[Peer(s)]

LEMMA SameWords ==
  ASSUME hdata' = hdata, NEW s \in Sides
  PROVE  /\ Signed(s)' = Signed(s) /\ Words' = Words /\ Streams(s)' = Streams(s)
         /\ \A v : Full(s, v)' = Full(s, v)
<1>1. \A t : Size(t)' = Size(t) /\ Packet(t)' = Packet(t)
  BY DEF Size, Packet, How, Word, Buffer, encode_packet
<1> QED
  BY <1>1 DEF Signed, Full, Words, Streams, Short, Result, Word, Sig

LEMMA SameWrote ==
  ASSUME NEW s \in Sides, NEW U, NEW V, s \in U <=> s \in V, NEW q,
         hdata' = hdata, pc'[s] = pc[s], mine'[s] = mine[s], outcome'[s] = outcome[s]
  PROVE  Wrote(U, s, q) <=> Wrote(V, s, q)'
<1>1. Signed(s)' = Signed(s) /\ Full(s, Say(s))' = Full(s, Say(s))
  BY SameWords DEF Say
<1> QED
  BY <1>1 DEF Wrote, Closed, Short, Sig, Result, Word

LEMMA SameHasRead ==
  ASSUME NEW s \in Sides, NEW U, NEW V, s \in U <=> s \in V, NEW k, pc'[s] = pc[s]
  PROVE  HasRead(U, s, k) <=> HasRead(V, s, k)'
BY DEF HasRead

\* Whatever s does within its round, the words on their way to its peer remain
\* what the peer has not read of what s has written.
LEMMA PeerKeeps ==
  ASSUME NEW s \in Sides, NEW U, NEW V, NEW d \in Seq(Words), Typed, Typed', Steps(s),
         round'[s] = round[s], wire'[Peer(s)] = wire[Peer(s)] \o d,
         Peer(s) \in U <=> Peer(s) \in V,
         round[Peer(s)] = round[s] \/ (s \in U <=> s \in V),
         \A q \in Streams(s) : Wrote(U, s, q) =>
           q \o d \in Streams(s) /\ Wrote(V, s, q \o d)',
         round[Peer(s)] # round[s] + 1 \/ late > 0 \/ d = <<>>,
         Behind(U, Peer(s)) =>
           \/ pc[s] = "write_sig" /\ pc'[s] = "read_sig" /\ d = <<Sig>>
           \/ pc'[s] = "returned" /\ d = <<>>,
         Link(U, Peer(s))
  PROVE  Link(V, Peer(s))'
<1> DEFINE p == Peer(s)
<1>0. p \in Sides /\ Peer(p) = s
  BY Pair
<1>1. /\ Streams(s)' = Streams(s) /\ \A v : Full(s, v)' = Full(s, v)
  BY SameWords DEF Steps
<1>2. \A k : HasRead(U, p, k) <=> HasRead(V, p, k)'
  BY <1>0, SameHasRead DEF Steps
<1>3. /\ pc'[p] = pc[p] /\ mine'[p] = mine[p] /\ round'[p] = round[p] /\ round'[s] = round[s]
      /\ wire'[p] = wire[p] \o d /\ wire[p] \in Seq(Words)
      /\ late \in Nat /\ late' \in Nat /\ late' >= late
  BY <1>0 DEF Steps, Typed
<1>4. \A q \in Streams(s) : /\ q \in Seq(Words) /\ Len(q) \in 0 .. 4
                            /\ q \o d \in Seq(Words) /\ Len(q \o d) = Len(q) + Len(d)
                            /\ Len(d) \in Nat /\ (Len(d) = 0 <=> d = <<>>)
                            /\ \A k \in 0 .. Len(q) : Left(q, k) \o d = Left(q \o d, k)
  <2> SUFFICES ASSUME NEW q \in Streams(s)
               PROVE  /\ q \in Seq(Words) /\ Len(q) \in 0 .. 4
                      /\ q \o d \in Seq(Words) /\ Len(q \o d) = Len(q) + Len(d)
                      /\ Len(d) \in Nat /\ (Len(d) = 0 <=> d = <<>>)
                      /\ \A k \in 0 .. Len(q) : Left(q, k) \o d = Left(q \o d, k)
    OBVIOUS
  <2>1. q \in Seq(Words) /\ Len(q) \in 0 .. 4
    BY StreamProps
  <2>2. q \o d \in Seq(Words) /\ Len(q \o d) = Len(q) + Len(d)
    BY <2>1, ConcatProperties
  <2>3. Len(d) \in Nat /\ (Len(d) = 0 <=> d = <<>>)
    BY LenProperties, EmptySeq
  <2>4. ASSUME NEW k \in 0 .. Len(q) PROVE Left(q, k) \o d = Left(q \o d, k)
    <3>1. q \in Seq(Words)
      BY <2>1
    <3> QED
      BY <3>1, LeftConcat
  <2> QED
    BY <2>1, <2>2, <2>3, <2>4
<1> HIDE DEF p
<1>5. CASE pc[p] = "returned"
  BY <1>3, <1>5 DEF Link, p
<1>6. CASE Even(U, p)
  <2>1. PICK q \in Streams(s), k \in 0 .. 3 :
          /\ Wrote(U, s, q) /\ HasRead(U, p, k)
          /\ k <= Len(q) /\ (k = 2 => Len(q) > 2)
          /\ wire[p] = Left(q, k)
    BY <1>0, <1>6 DEF Even
  <2>2. /\ q \o d \in Streams(s)' /\ Wrote(V, s, q \o d)' /\ HasRead(V, p, k)'
    BY <1>1, <1>2, <2>1
  <2>3. k <= Len(q \o d) /\ (k = 2 => Len(q \o d) > 2) /\ wire'[p] = Left(q \o d, k)
    BY <1>3, <1>4, <2>1
  <2>4. round'[p] = round'[s]
    BY <1>0, <1>3, <1>6 DEF Even
  <2>5. Even(V, p)'
    BY <1>0, <2>2, <2>3, <2>4 DEF Even
  <2> QED
    BY <2>5 DEF Link, p
<1>7. CASE Skewed(U, p)
  <2>1. PICK q \in Streams(s), v \in Told : Wrote(U, s, q) /\ wire[p] = <<Result(v)>> \o q
    BY <1>0, <1>7 DEF Skewed
  <2>2. q \o d \in Streams(s)' /\ Wrote(V, s, q \o d)'
    BY <1>1, <2>1
  <2>3. wire'[p] = <<Result(v)>> \o (q \o d)
    <3>1. <<Result(v)>> \in Seq(Words) /\ q \in Seq(Words)
      BY <1>4, StreamWords
    <3> QED
      BY <1>3, <2>1, <3>1, ConcatAssociative
  <2>4. /\ late' > 0 /\ round'[p] = round'[s] /\ pc'[p] \in {"write_sig", "read_sig"}
    BY <1>0, <1>3, <1>7 DEF Skewed
  <2>5. Result(v)' = Result(v)
    BY DEF Result, Word
  <2>6. Skewed(V, p)'
    BY <1>0, <2>2, <2>3, <2>4, <2>5 DEF Skewed
  <2> QED
    BY <2>6 DEF Link, p
<1>8. CASE Ahead(U, p)
  <2>1. PICK q \in Streams(s) : /\ Wrote(U, s, q) /\ Len(q) >= 3
                                /\ \/ late > 0 /\ wire[p] = Left(q, 3)
                                   \/ Len(q) = 4 /\ wire[p] = <<>>
    BY <1>0, <1>8 DEF Ahead
  <2>2. round[p] = round[s] + 1 /\ pc[p] \in {"write_sig", "read_sig"} /\ s \notin U
    BY <1>0, <1>8 DEF Ahead
  <2>3. q \o d \in Streams(s)' /\ Wrote(V, s, q \o d)' /\ s \notin V
    <3>1. round[s] \in Nat
      BY DEF Typed
    <3> QED
      BY <1>1, <2>1, <2>2, <3>1 DEF p
  <2>4. Len(q \o d) >= 3
    BY <1>4, <2>1
  <2>5. \/ late' > 0 /\ wire'[p] = Left(q \o d, 3)
        \/ Len(q \o d) = 4 /\ wire'[p] = <<>>
    <3>1. CASE late > 0 /\ wire[p] = Left(q, 3)
      <4>1. 3 \in 0 .. Len(q)
        BY <1>4, <2>1
      <4> QED
        BY <1>3, <1>4, <3>1, <4>1
    <3>2. CASE Len(q) = 4 /\ wire[p] = <<>>
      <4>1. q \o d \in Streams(s)
        BY <2>3, <1>1
      <4>2. Len(q \o d) \in 0 .. 4
        BY <4>1, StreamProps
      <4>3. Len(q \o d) = 4 + Len(d) /\ Len(d) \in Nat /\ (Len(d) = 0 <=> d = <<>>)
        BY <1>4, <3>2
      <4>4. d = <<>>
        BY <4>2, <4>3
      <4> QED
        BY <1>3, <1>4, <3>2, <4>4
    <3> QED
      BY <2>1, <3>1, <3>2
  <2>6. Ahead(V, p)'
    BY <1>0, <1>3, <2>2, <2>3, <2>4, <2>5 DEF Ahead
  <2> QED
    BY <2>6 DEF Link, p
<1>9. CASE Behind(U, p)
  <2>1. PICK x \in {"SUCCESS", "AGAIN"}, q \in {<<>>, <<Sig>>}, k \in 0 .. 3 :
          /\ HasRead(U, p, k)
          /\ wire[p] = Left(Full(s, x), k) \o q
          /\ x = "SUCCESS" => pc[p] = "read_result" /\ mine[p] = "AGAIN"
          /\ pc[s] = "write_sig" => q = <<>>
          /\ pc[s] = "read_sig" => q = <<Sig>>
          /\ pc[s] \in {"write_sig", "read_sig", "returned"}
    BY <1>0, <1>9 DEF Behind
  <2>2. /\ round[s] = round[p] + 1
        /\ pc[p] \in {"read_size", "read_packet", "write_result", "read_result"}
        /\ late = 0 => pc[p] = "read_result"
        /\ p \notin U /\ s \notin U
    BY <1>0, <1>9 DEF Behind
  <2>3. p \notin V /\ s \notin V
    <3>1. round[p] \in Nat
      BY <1>0 DEF Typed
    <3> QED
      BY <2>2, <3>1 DEF p
  <2>4. /\ round'[s] = round'[p] + 1 /\ (late' = 0 => pc'[p] = "read_result")
        /\ pc'[p] \in {"read_size", "read_packet", "write_result", "read_result"}
    BY <1>3, <2>2
  <2> DEFINE G(y) == /\ y \in {<<>>, <<Sig>>}
                     /\ wire'[p] = Left(Full(s, x), k) \o y
                     /\ pc'[s] = "write_sig" => y = <<>>
                     /\ pc'[s] = "read_sig" => y = <<Sig>>
                     /\ pc'[s] \in {"write_sig", "read_sig", "returned"}
  <2>5. G(q \o d)
    <3>1. wire'[p] = (Left(Full(s, x), k) \o q) \o d
      BY <1>3, <2>1
    <3>2. Left(Full(s, x), k) \in Seq(Words) /\ q \in Seq(Words)
      <4>1. Full(s, x) \in Seq(Words) /\ Len(Full(s, x)) = 4 /\ <<Sig>> \in Seq(Words)
        BY StreamWords DEF Told
      <4>2. k \in 0 .. Len(Full(s, x))
        BY <4>1
      <4>3. q \in Seq(Words)
        BY <4>1, EmptySeq
      <4> QED
        BY <4>1, <4>2, <4>3, LeftProps
    <3>3. (Left(Full(s, x), k) \o q) \o d = Left(Full(s, x), k) \o (q \o d)
      <4> DEFINE a == Left(Full(s, x), k)
      <4>1. a \in Seq(Words)
        BY <3>2
      <4> HIDE DEF a
      <4>2. \A y \in Seq(Words) : (a \o y) \o d = a \o (y \o d)
        BY <4>1, ConcatAssociative
      <4>3. (a \o q) \o d = a \o (q \o d)
        BY <3>2, <4>2, Zenon
      <4> QED
        BY <4>3 DEF a
    <3>4. CASE pc[s] = "write_sig" /\ pc'[s] = "read_sig" /\ d = <<Sig>>
      <4>1. q \o d = <<Sig>>
        BY <2>1, <3>4, StreamsGrow DEF Told
      <4> QED
        BY <3>1, <3>3, <3>4, <4>1
    <3>5. CASE pc'[s] = "returned" /\ d = <<>>
      <4>1. q \o d = q
        BY <3>2, <3>5, ConcatEmptySeq
      <4> QED
        BY <2>1, <3>1, <3>3, <3>5, <4>1
    <3> QED
      BY <1>9, <3>4, <3>5 DEF p
  <2>6. HasRead(V, p, k)' /\ (x = "SUCCESS" => pc'[p] = "read_result" /\ mine'[p] = "AGAIN")
    BY <1>2, <1>3, <2>1
  <2>7. Left(Full(s, x), k)' = Left(Full(s, x), k) /\ Sig' = Sig
    BY <1>1 DEF Left, Sig, Word
  <2>8. Behind(V, p)'
    <3> DEFINE y == q \o d
    <3>1. G(y)
      BY <2>5
    <3> HIDE DEF y
    <3> QED
      BY <1>0, <2>3, <2>4, <2>6, <2>7, <3>1 DEF Behind
  <2> QED
    BY <2>8 DEF Link, p
<1> QED
  BY <1>5, <1>6, <1>7, <1>8, <1>9 DEF Link, p

-----------------------------------------------------------------------------
(* The next word *)

LEMMA NextEven ==
  ASSUME NEW s \in Sides, NEW U, Even(U, s)
  PROVE  \E q \in Streams(Peer(s)), k \in 0 .. 3 :
           /\ Wrote(U, Peer(s), q) /\ HasRead(U, s, k) /\ k <= Len(q) /\ (k = 2 => Len(q) > 2)
           /\ wire[s] = Left(q, k)
           /\ wire[s] = <<>> <=> k = Len(q)
           /\ k < Len(q) => Head(wire[s]) = q[k + 1] /\ Tail(wire[s]) = Left(q, k + 1)
<1>1. PICK q \in Streams(Peer(s)), k \in 0 .. 3 :
        /\ Wrote(U, Peer(s), q) /\ HasRead(U, s, k) /\ k <= Len(q) /\ (k = 2 => Len(q) > 2)
        /\ wire[s] = Left(q, k)
  BY DEF Even
<1>2. q \in Seq(Words) /\ Len(q) \in 0 .. 4
  BY Pair, StreamProps
<1>3. k \in 0 .. Len(q)
  BY <1>1, <1>2
<1>4. wire[s] = <<>> <=> k = Len(q)
  BY <1>1, <1>2, <1>3, LeftNone
<1>5. k < Len(q) => Head(wire[s]) = q[k + 1] /\ Tail(wire[s]) = Left(q, k + 1)
  BY <1>1, <1>2, <1>3, LeftTail
<1> QED
  BY <1>1, <1>4, <1>5

\* A side whose peer has started over reads the words of the round before.
LastRound(U, s, x, q, k) ==
  /\ HasRead(U, s, k)
  /\ x = "SUCCESS" => pc[s] = "read_result" /\ mine[s] = "AGAIN"
  /\ pc[Peer(s)] = "write_sig" => q = <<>>
  /\ pc[Peer(s)] = "read_sig" => q = <<Sig>>
  /\ pc[Peer(s)] \in {"write_sig", "read_sig", "returned"}
  /\ wire[s] = Left(Full(Peer(s), x), k) \o q
  /\ wire[s] # <<>>
  /\ Head(wire[s]) = Full(Peer(s), x)[k + 1]
  /\ Tail(wire[s]) = Left(Full(Peer(s), x), k + 1) \o q

LEMMA NextBehind ==
  ASSUME NEW s \in Sides, NEW U, Behind(U, s)
  PROVE  \E x \in {"SUCCESS", "AGAIN"}, q \in {<<>>, <<Sig>>}, k \in 0 .. 3 :
           LastRound(U, s, x, q, k)
<1>1. PICK x \in {"SUCCESS", "AGAIN"}, q \in {<<>>, <<Sig>>}, k \in 0 .. 3 :
           /\ HasRead(U, s, k)
           /\ x = "SUCCESS" => pc[s] = "read_result" /\ mine[s] = "AGAIN"
           /\ pc[Peer(s)] = "write_sig" => q = <<>>
           /\ pc[Peer(s)] = "read_sig" => q = <<Sig>>
           /\ pc[Peer(s)] \in {"write_sig", "read_sig", "returned"}
           /\ wire[s] = Left(Full(Peer(s), x), k) \o q
  BY DEF Behind
<1> DEFINE f == Full(Peer(s), x)
           g == f \o q
<1>2. f \in Seq(Words) /\ Len(f) = 4 /\ <<Sig>> \in Seq(Words)
  BY Pair, StreamWords DEF Told
<1>3. q \in Seq(Words)
  BY <1>2, EmptySeq
<1> HIDE DEF f
<1>4. /\ g \in Seq(Words) /\ Len(g) = 4 + Len(q) /\ Len(q) \in Nat
      /\ \A i \in 1 .. 4 : g[i] = f[i]
  <2>1. /\ f \o q \in Seq(Words) /\ Len(f \o q) = Len(f) + Len(q)
        /\ \A i \in 1 .. Len(f) + Len(q) :
             (f \o q)[i] = IF i <= Len(f) THEN f[i] ELSE q[i - Len(f)]
    BY <1>2, <1>3, ConcatProperties
  <2>2. Len(q) \in Nat
    BY <1>3, LenProperties
  <2>3. \A i \in 1 .. 4 : i \in 1 .. Len(f) + Len(q) /\ i <= Len(f)
    BY <1>2, <2>2
  <2> QED
    BY <1>2, <2>1, <2>2, <2>3
<1>5. k \in 0 .. Len(f) /\ k + 1 \in 0 .. Len(f)
  BY <1>2
<1>6. Left(f, k) \o q = Left(g, k) /\ Left(f, k + 1) \o q = Left(g, k + 1)
  BY <1>2, <1>3, <1>5, LeftConcat
<1> HIDE DEF g
<1>7. k \in 0 .. Len(g) /\ k < Len(g) /\ k + 1 \in 1 .. 4
  BY <1>4
<1>8. /\ Left(g, k) # <<>>
      /\ Head(Left(g, k)) = g[k + 1] /\ Tail(Left(g, k)) = Left(g, k + 1)
  BY <1>4, <1>7, LeftNone, LeftTail
<1>9. /\ wire[s] # <<>> /\ Head(wire[s]) = f[k + 1]
      /\ Tail(wire[s]) = Left(f, k + 1) \o q
  <2>1. wire[s] = Left(g, k)
    BY <1>1, <1>6 DEF f
  <2> QED
    BY <1>4, <1>6, <1>7, <1>8, <2>1
<1>10. LastRound(U, s, x, q, k)
  BY <1>1, <1>9 DEF f, LastRound
<1> QED
  BY <1>10

\* Only a result can come before a signature, and only once a read timed out.
LEMMA NextStale ==
  ASSUME NEW s \in Sides, NEW U, Typed, Skewed(U, s) \/ Ahead(U, s), wire[s] # <<>>
  PROVE  late > 0 /\ Head(wire[s]).t = "result"
<1>0. Peer(s) \in Sides
  BY Pair
<1>1. CASE Skewed(U, s)
  <2>1. PICK q \in Streams(Peer(s)), v \in Told : wire[s] = <<Result(v)>> \o q
    BY <1>1 DEF Skewed
  <2>2. /\ <<Result(v)>> \in Seq(Words) /\ Len(<<Result(v)>>) = 1
        /\ <<Result(v)>>[1] = Result(v) /\ q \in Seq(Words) /\ Len(q) \in Nat
    BY <1>0, <2>1, StreamWords, StreamProps
  <2>3. wire[s] \in Seq(Words) /\ wire[s][1] = Result(v)
    <3> DEFINE a == <<Result(v)>>
    <3>1. a \in Seq(Words) /\ Len(a) = 1 /\ a[1] = Result(v)
      BY <2>2
    <3> HIDE DEF a
    <3>2. /\ a \o q \in Seq(Words)
          /\ \A i \in 1 .. Len(a) + Len(q) :
               (a \o q)[i] = IF i <= Len(a) THEN a[i] ELSE q[i - Len(a)]
      BY <2>2, <3>1, ConcatProperties
    <3>3. a \o q \in Seq(Words) /\ (a \o q)[1] = Result(v)
      BY <2>2, <3>1, <3>2
    <3> QED
      BY <2>1, <3>3 DEF a
  <2>4. Head(wire[s]) = Result(v)
    BY <2>3, HeadTailProperties
  <2> QED
    BY <1>1, <2>1, <2>4, <1>0, WordFields DEF Skewed
<1>2. CASE Ahead(U, s)
  <2>1. PICK q \in Streams(Peer(s)) : Len(q) >= 3 /\ late > 0 /\ wire[s] = Left(q, 3)
    BY <1>2 DEF Ahead
  <2>2. q \in Seq(Words) /\ Len(q) \in 0 .. 4
    BY <1>0, StreamProps
  <2>3. 3 \in 0 .. Len(q)
    BY <2>1, <2>2
  <2>4. Len(q) # 3
    <3>1. Left(q, 3) = <<>> <=> 3 = Len(q)
      BY <2>2, <2>3, LeftNone
    <3> QED
      BY <2>1, <3>1
  <2>5. Len(q) = 4 /\ 3 < Len(q)
    <3> DEFINE n == Len(q)
    <3>1. n \in 0 .. 4 /\ n >= 3 /\ n # 3
      BY <2>1, <2>2, <2>4
    <3> HIDE DEF n
    <3>2. n = 4 /\ 3 < n
      BY <3>1
    <3> QED
      BY <3>2 DEF n
  <2>6. Head(wire[s]) = q[4]
    <3>1. Head(Left(q, 3)) = q[3 + 1]
      BY <2>2, <2>3, <2>5, LeftTail
    <3> QED
      BY <2>1, <3>1
  <2>7. PICK v \in Told : q = Full(Peer(s), v)
    BY <1>0, <2>5, StreamProps
  <2>8. q[4] = Result(v)
    BY <1>0, <2>7, StreamWords
  <2> QED
    BY <1>0, <2>1, <2>6, <2>8, WordFields
<1> QED
  BY <1>1, <1>2

-----------------------------------------------------------------------------
(* The words for the side that steps *)

\* A write of s does not change what is on its way to s.
LEMMA OwnWaits ==
  ASSUME NEW s \in Sides, NEW U, Typed, Typed', Steps(s),
         round'[s] = round[s], mine'[s] = mine[s], wire'[s] = wire[s], Link(U, s),
         <<pc[s], pc'[s]>> \in {<<"write_sig", "read_sig">>, <<"send_packet", "read_size">>,
                                <<"write_result", "read_result">>}
  PROVE  Link(U, s)'
<1> DEFINE p == Peer(s)
<1>0. p \in Sides
  BY Pair
<1>1. /\ Streams(p)' = Streams(p) /\ (\A v : Full(p, v)' = Full(p, v))
      /\ \A q : Wrote(U, p, q) <=> Wrote(U, p, q)'
  BY <1>0, SameWords, SameWrote DEF Steps
<1>2. \A k : HasRead(U, s, k) => HasRead(U, s, k)'
  BY DEF HasRead
<1>3. /\ pc'[p] = pc[p] /\ mine'[p] = mine[p] /\ round'[p] = round[p] /\ round'[s] = round[s]
      /\ late \in Nat /\ late' \in Nat /\ late' >= late
  BY DEF Steps, Typed
<1>4. \/ pc[s] = "write_sig" /\ pc'[s] = "read_sig"
      \/ pc[s] = "send_packet" /\ pc'[s] = "read_size"
      \/ pc[s] = "write_result" /\ pc'[s] = "read_result"
  OBVIOUS
<1>5. CASE Even(U, s)
  <2>1. Even(U, s)'
    BY <1>1, <1>2, <1>3, <1>5 DEF Even, Left
  <2> QED
    BY <2>1 DEF Link
<1>6. CASE Skewed(U, s)
  <2>1. Skewed(U, s)'
    BY <1>1, <1>3, <1>4, <1>6 DEF Skewed, Result, Word
  <2> QED
    BY <2>1 DEF Link
<1>7. CASE Ahead(U, s)
  <2>1. Ahead(U, s)'
    BY <1>1, <1>3, <1>4, <1>7 DEF Ahead, Left
  <2> QED
    BY <2>1 DEF Link
<1>8. CASE Behind(U, s)
  <2>1. PICK x \in {"SUCCESS", "AGAIN"}, q \in {<<>>, <<Sig>>}, k \in 0 .. 3 :
          /\ HasRead(U, s, k)
          /\ wire[s] = Left(Full(p, x), k) \o q
          /\ x = "SUCCESS" => pc[s] = "read_result" /\ mine[s] = "AGAIN"
          /\ pc[p] = "write_sig" => q = <<>>
          /\ pc[p] = "read_sig" => q = <<Sig>>
          /\ pc[p] \in {"write_sig", "read_sig", "returned"}
    BY <1>8 DEF Behind
  <2>2. /\ round[p] = round[s] + 1 /\ s \notin U /\ p \notin U
        /\ pc[s] \in {"read_size", "read_packet", "write_result", "read_result"}
    BY <1>8 DEF Behind
  <2>3. pc[s] = "write_result" /\ pc'[s] = "read_result"
    BY <1>4, <2>2
  <2>4. Left(Full(p, x), k)' = Left(Full(p, x), k) /\ Sig' = Sig
    BY <1>1 DEF Left, Sig, Word
  <2>5. Behind(U, s)'
    BY <1>2, <1>3, <2>1, <2>2, <2>3, <2>4 DEF Behind
  <2> QED
    BY <2>5 DEF Link
<1> QED
  BY <1>4, <1>5, <1>6, <1>7, <1>8 DEF Link

\* A side that reads what it waits for has read one word more.
LEMMA OwnReads ==
  ASSUME NEW s \in Sides, NEW U, NEW V, Typed, Typed', Steps(s),
         round'[s] = round[s], wire'[s] = Tail(wire[s]), wire[s] # <<>>,
         Peer(s) \in U <=> Peer(s) \in V,
         pc[s] = "read_size" => Head(wire[s]).t = "size",
         \/ pc[s] = "read_sig" /\ pc'[s] = "send_packet"
         \/ pc[s] = "read_sig" /\ pc'[s] = "write_result" /\ s \in V
         \/ pc[s] = "read_size" /\ pc'[s] = "read_packet" /\ s \notin V
         \/ pc[s] = "read_packet" /\ pc'[s] = "write_result" /\ s \notin V,
         \/ Even(U, s)
         \/ Behind(U, s) /\ pc[s] # "read_sig"
  PROVE  Link(V, s)'
<1> DEFINE p == Peer(s)
<1>0. p \in Sides
  BY Pair
<1>1. /\ Streams(p)' = Streams(p) /\ (\A v : Full(p, v)' = Full(p, v))
      /\ \A q : Wrote(U, p, q) <=> Wrote(V, p, q)'
  BY <1>0, SameWords, SameWrote DEF Steps
<1>2. \A k \in 0 .. 3 : HasRead(U, s, k) => k + 1 \in 0 .. 3 /\ HasRead(V, s, k + 1)'
  BY DEF HasRead
<1>3. /\ pc'[p] = pc[p] /\ mine'[p] = mine[p] /\ round'[p] = round[p] /\ round'[s] = round[s]
      /\ late \in Nat /\ late' \in Nat /\ late' >= late
  BY DEF Steps, Typed
<1>4. CASE Even(U, s)
  <2>1. PICK q \in Streams(p), k \in 0 .. 3 :
           /\ Wrote(U, p, q) /\ HasRead(U, s, k) /\ k <= Len(q) /\ (k = 2 => Len(q) > 2)
           /\ wire[s] = Left(q, k)
           /\ wire[s] = <<>> <=> k = Len(q)
           /\ k < Len(q) => Head(wire[s]) = q[k + 1] /\ Tail(wire[s]) = Left(q, k + 1)
    BY <1>4, NextEven
  <2>2. q \in Seq(Words) /\ Len(q) \in 0 .. 4
    BY <1>0, StreamProps
  <2>3. k < Len(q) /\ k + 1 <= Len(q)
    BY <2>1, <2>2
  <2>4. k + 1 = 2 => Len(q) > 2
    <3>1. k = 1 => pc[s] = "read_size"
      BY <2>1 DEF HasRead
    <3>2. Len(q) = 2 /\ k = 1 => Head(wire[s]).t = "result"
      <4>1. Len(q) = 2 => q[2] = Result("DROP_CONNECTION")
        BY <1>0, StreamProps
      <4> SUFFICES ASSUME Len(q) = 2, k = 1 PROVE Head(wire[s]).t = "result"
        OBVIOUS
      <4>2. Head(wire[s]) = q[2]
        BY <2>1, <2>3
      <4>3. Head(wire[s]) = Result("DROP_CONNECTION")
        BY <4>1, <4>2
      <4> QED
        BY <1>0, <4>3, WordFields DEF Told
    <3>3. ~(Len(q) = 2 /\ k = 1)
      BY <3>1, <3>2
    <3> DEFINE n == Len(q)
    <3>4. n \in 0 .. 4 /\ k + 1 <= n /\ ~(n = 2 /\ k = 1)
      BY <2>2, <2>3, <3>3
    <3> HIDE DEF n
    <3>5. k + 1 = 2 => n > 2
      BY <3>4
    <3> QED
      BY <3>5 DEF n
  <2>5. round[s] = round[p]
    BY <1>4 DEF Even
  <2>6. Even(V, s)'
    <3>1. /\ Wrote(V, p, q)' /\ HasRead(V, s, k + 1)' /\ k + 1 \in 0 .. 3
          /\ wire'[s] = Left(q, k + 1) /\ q \in Streams(p)'
      BY <1>1, <1>2, <2>1, <2>3
    <3> DEFINE n == k + 1
    <3>2. /\ Wrote(V, p, q)' /\ HasRead(V, s, n)' /\ n \in 0 .. 3
          /\ wire'[s] = Left(q, n) /\ q \in Streams(p)' /\ n <= Len(q) /\ (n = 2 => Len(q) > 2)
      BY <2>3, <2>4, <3>1
    <3> HIDE DEF n
    <3> QED
      BY <1>3, <2>5, <3>2 DEF Even
  <2> QED
    BY <2>6 DEF Link
<1>5. CASE Behind(U, s) /\ pc[s] # "read_sig"
  <2>0. Behind(U, s)
    BY <1>5
  <2>1. PICK x \in {"SUCCESS", "AGAIN"}, q \in {<<>>, <<Sig>>}, k \in 0 .. 3 :
          LastRound(U, s, x, q, k)
    BY <2>0, NextBehind
  <2>2. /\ round[p] = round[s] + 1 /\ p \notin U /\ (late = 0 => pc[s] = "read_result")
    BY <1>5 DEF Behind
  <2>3. HasRead(V, s, k + 1)' /\ k + 1 \in 0 .. 3
    BY <1>2, <2>1 DEF LastRound
  <2>4. x = "AGAIN" /\ s \notin V /\ p \notin V /\ late > 0
        /\ pc'[s] \in {"read_packet", "write_result"}
    BY <1>3, <1>5, <2>1, <2>2 DEF LastRound
  <2> DEFINE n == k + 1
  <2>5. HasRead(V, s, n)' /\ n \in 0 .. 3 /\ wire'[s] = Left(Full(p, x), n) \o q
    BY <2>1, <2>3 DEF LastRound
  <2> HIDE DEF n
  <2>6. Left(Full(p, x), n)' = Left(Full(p, x), n) /\ Sig' = Sig
    BY <1>1 DEF Left, Sig, Word
  <2>7. /\ wire'[s] = Left(Full(p, x), n)' \o q /\ q \in {<<>>, <<Sig>>}'
        /\ pc'[p] = "write_sig" => q = <<>>
        /\ pc'[p] = "read_sig" => q = <<Sig>>'
        /\ pc'[p] \in {"write_sig", "read_sig", "returned"}
    BY <1>3, <2>1, <2>5, <2>6 DEF LastRound
  <2>8. /\ round'[p] = round'[s] + 1 /\ late' # 0
        /\ pc'[s] \in {"read_size", "read_packet", "write_result", "read_result"}
    BY <1>3, <2>2, <2>4
  <2>9. Behind(V, s)'
    BY <2>4, <2>5, <2>7, <2>8 DEF Behind
  <2> QED
    BY <2>9 DEF Link
<1> QED
  BY <1>4, <1>5

-----------------------------------------------------------------------------
(* What a step may be: the rest of the invariant for each kind *)

\* s gets on within its round.
LEMMA Progress ==
  ASSUME NEW s \in Sides, Typed, Typed', Rest, Steps(s), late' = late,
         round'[s] = round[s], outcome'[s] = outcome[s],
         pc[s] \notin {"read_result", "returned"}, pc'[s] # "returned",
         mine'[s] = "SUCCESS" /\ pc'[s] \in {"write_result", "read_result"} => Compatible,
         \/ pc[s] = "write_sig" /\ pc'[s] = "read_sig" /\ wire'[s] = wire[s]
         \/ /\ pc[s] # "write_sig"
            /\ pc[s] = "read_sig" => wire[s] # <<>>
            /\ pc[s] = "read_size" => wire[s] # <<Result("DROP_CONNECTION")>>
  PROVE  Rest'
<1> DEFINE p == Peer(s)
<1>0. p \in Sides /\ Peer(p) = s /\ \A t \in Sides : t = s \/ t = p
  BY Pair
<1>1. /\ pc'[p] = pc[p] /\ mine'[p] = mine[p] /\ round'[p] = round[p] /\ outcome'[p] = outcome[p]
      /\ round'[s] = round[s] /\ late' = late /\ Compatible' = Compatible
  BY DEF Steps, Compatible
<1> HIDE DEF p
<1>2. outcome[s] = "running" /\ outcome'[s] = "running"
  BY DEF Typed
<1>3. Closed(p)' = Closed(p) /\ ~Closed(s) /\ ~Closed(s)'
  BY <1>1, <1>2 DEF Closed
<1>4. Vetted'
  BY <1>0, <1>1 DEF Vetted, Rest
<1>5. Agreed'
  <2>1. outcome'[p] # "SUCCESS"
    BY <1>0, <1>1 DEF Agreed, Rest
  <2> QED
    BY <1>0, <1>2, <2>1 DEF Agreed
<1>6. Settled'
  <2>1. late = 0 => ~(Closed(p) /\ mine[p] = "SUCCESS")
    BY <1>0, <1>3 DEF Settled, Rest
  <2> QED
    BY <1>0, <1>1, <1>3, <2>1 DEF Settled
<1>7. Alone'
  <2>1. late = 0 /\ Closed(p) =>
          \/ pc[s] = "read_size" /\ wire[s] = <<Result("DROP_CONNECTION")>>
          \/ /\ pc[s] \in {"write_sig", "read_sig"} /\ round[s] = round[p] + 1
             /\ wire[s] = <<>>
    BY <1>0, <1>3 DEF Alone, Rest, p
  <2>2. late = 0 /\ Closed(p) =>
          pc'[s] = "read_sig" /\ round'[s] = round'[p] + 1 /\ wire'[s] = <<>>
    BY <1>1, <2>1
  <2> QED
    BY <1>0, <1>1, <1>3, <2>2 DEF Alone, p
<1>8. Together'
  <2>1. late = 0 => /\ round[s] <= round[p] + 1 /\ round[p] <= round[s] + 1
                    /\ round[s] > round[p] => pc[p] \in {"read_result", "returned"}
                    /\ ~(round[p] > round[s])
    BY <1>0 DEF Together, Rest, p
  <2>2. Peer(s) = p
    BY DEF p
  <2>3. late' = 0 =>
          /\ round'[s] <= round'[p] + 1 /\ round'[p] <= round'[s] + 1
          /\ round'[s] > round'[p] => pc'[p] \in {"read_result", "returned"}
          /\ round'[p] > round'[s] => pc'[s] \in {"read_result", "returned"}
    BY <1>1, <2>1
  <2> QED
    BY <1>0, <2>2, <2>3 DEF Together
<1> QED
  BY <1>4, <1>5, <1>6, <1>7, <1>8 DEF Rest

\* s returns, and not success.
LEMMA Closes ==
  ASSUME NEW s \in Sides, Typed, Typed', Rest, Steps(s), round'[s] = round[s],
         wire'[Peer(s)] = wire[Peer(s)],
         pc[s] # "returned", pc'[s] = "returned", outcome'[s] # "SUCCESS",
         \/ mine'[s] = mine[s] /\ pc[s] \in {"write_result", "read_result"}
         \/ mine'[s] # "SUCCESS" /\ pc[s] # "read_result",
         late' = 0 /\ mine'[s] = "SUCCESS" =>
           \/ Closed(Peer(s))
           \/ /\ pc[Peer(s)] = "read_result" /\ mine[Peer(s)] # "SUCCESS"
              /\ mine[Peer(s)] = "AGAIN" => round[Peer(s)] = MAX_NUM_TIMEOUTS,
         late' = 0 /\ ~Closed(Peer(s)) =>
           \/ pc[Peer(s)] = "read_result" /\ round[Peer(s)] = round[s]
           \/ pc[Peer(s)] = "read_size" /\ wire[Peer(s)] = <<Result("DROP_CONNECTION")>>
           \/ /\ pc[Peer(s)] \in {"write_sig", "read_sig"} /\ round[Peer(s)] = round[s] + 1
              /\ wire[Peer(s)] = <<>>
  PROVE  Rest'
<1> DEFINE p == Peer(s)
<1>0. p \in Sides /\ Peer(p) = s /\ p # s /\ \A t \in Sides : t = s \/ t = p
  BY Pair
<1>1. /\ pc'[p] = pc[p] /\ mine'[p] = mine[p] /\ round'[p] = round[p] /\ outcome'[p] = outcome[p]
      /\ round'[s] = round[s] /\ late \in Nat /\ late' \in {late, late + 1}
      /\ Compatible' = Compatible
  BY DEF Steps, Compatible, Typed
<1>2. Result("DROP_CONNECTION")' = Result("DROP_CONNECTION") /\ Result("SUCCESS")' = Result("SUCCESS")
  BY DEF Result, Word
<1>3. Closed(p)' = Closed(p) /\ Closed(s)'
  BY <1>1 DEF Closed, Typed
<1>4. Vetted'
  BY <1>0, <1>1 DEF Vetted, Rest
<1>5. Agreed'
  <2>1. outcome'[p] = "SUCCESS" =>
          /\ Compatible' /\ mine'[p] = "SUCCESS" /\ mine[s] = "SUCCESS"
          /\ round'[p] = round'[s] /\ pc[s] \in {"read_result", "returned"}
    BY <1>0, <1>1 DEF Agreed, Rest
  <2>2. pc[s] \in {"read_result", "returned"} => mine'[s] = mine[s] \/ pc[s] = "returned"
    OBVIOUS
  <2>3. outcome'[p] = "SUCCESS" => mine'[s] = "SUCCESS"
    BY <1>1, <2>1, <2>2
  <2> QED
    BY <1>0, <2>1, <2>3 DEF Agreed
<1>6. Settled'
  BY <1>0, <1>1, <1>3 DEF Settled
<1>7. Alone'
  BY <1>0, <1>1, <1>2, <1>3 DEF Alone
<1>8. Together'
  <2>1. late = 0 => /\ round[s] <= round[p] + 1 /\ round[p] <= round[s] + 1
                    /\ round[s] > round[p] => pc[p] \in {"read_result", "returned"}
    BY <1>0 DEF Together, Rest
  <2>2. late' = 0 => late = 0
    BY <1>1
  <2> HIDE DEF p
  <2>3. Peer(s) = p
    BY DEF p
  <2> QED
    BY <1>0, <1>1, <2>1, <2>2, <2>3 DEF Together
<1> QED
  BY <1>4, <1>5, <1>6, <1>7, <1>8 DEF Rest

\* s starts the next round.
LEMMA MovesOn ==
  ASSUME NEW s \in Sides, Typed, Typed', Rest, Steps(s),
         round'[s] = round[s] + 1, round[s] < MAX_NUM_TIMEOUTS,
         pc'[s] = "write_sig", pc[s] # "returned", outcome'[s] = outcome[s],
         mine[s] \in {"SUCCESS", "AGAIN"}, outcome[Peer(s)] # "SUCCESS",
         round[s] <= round[Peer(s)],
         late' = 0 /\ Closed(Peer(s)) =>
           pc[s] = "read_result" /\ (round[s] = round[Peer(s)] => wire'[s] = <<>>),
         late' = 0 /\ round[s] = round[Peer(s)] => pc[Peer(s)] \in {"read_result", "returned"}
  PROVE  Rest'
<1> DEFINE p == Peer(s)
<1>0. p \in Sides /\ Peer(p) = s /\ Peer(s) = p /\ p # s /\ \A t \in Sides : t = s \/ t = p
  BY Pair
<1>1. /\ pc'[p] = pc[p] /\ mine'[p] = mine[p] /\ round'[p] = round[p] /\ outcome'[p] = outcome[p]
      /\ late \in Nat /\ late' \in {late, late + 1} /\ (late' = 0 => late = 0)
      /\ Compatible' = Compatible /\ round[s] \in Nat /\ round[p] \in Nat
  BY <1>0 DEF Steps, Compatible, Typed
<1>2. outcome[s] = "running" /\ outcome'[s] = "running"
  BY DEF Typed
<1>3. Closed(p)' = Closed(p) /\ ~Closed(s) /\ ~Closed(s)'
  BY <1>1, <1>2 DEF Closed
<1> HIDE DEF p
<1>4. Vetted'
  BY <1>0, <1>1 DEF Vetted, Rest
<1>5. Agreed'
  <2>1. outcome'[p] # "SUCCESS"
    BY <1>1 DEF p
  <2> QED
    BY <1>0, <1>2, <2>1 DEF Agreed
<1>6. Settled'
  <2>1. late = 0 /\ Closed(p) /\ mine[p] = "SUCCESS" =>
          mine[s] # "SUCCESS" /\ (mine[s] = "AGAIN" => round[s] = MAX_NUM_TIMEOUTS)
    BY <1>0, <1>3 DEF Settled, Rest
  <2>2. ~(late = 0 /\ Closed(p) /\ mine[p] = "SUCCESS")
    BY <1>1, <2>1 DEF MAX_NUM_TIMEOUTS
  <2> QED
    BY <1>0, <1>1, <1>3, <2>2 DEF Settled
<1>7. Alone'
  <2>1. late = 0 /\ Closed(p) =>
          \/ pc[s] = "read_result" /\ round[s] = round[p]
          \/ pc[s] = "read_size"
          \/ pc[s] \in {"write_sig", "read_sig"}
    BY <1>0, <1>3 DEF Alone, Rest
  <2>2. late' = 0 /\ Closed(p) =>
          pc'[s] = "write_sig" /\ round'[s] = round'[p] + 1 /\ wire'[s] = <<>>
    BY <1>0, <1>1, <2>1
  <2> QED
    BY <1>0, <1>1, <1>3, <2>2 DEF Alone
<1>8. Together'
  <2>1. late = 0 => round[p] <= round[s] + 1
    BY <1>0 DEF Together, Rest
  <2>2. late' = 0 =>
          /\ round'[s] <= round'[p] + 1 /\ round'[p] <= round'[s] + 1
          /\ round'[s] > round'[p] => pc'[p] \in {"read_result", "returned"}
          /\ ~(round'[p] > round'[s])
    <3>1. round[s] <= round[p] /\
          (late' = 0 /\ round[s] = round[p] => pc[p] \in {"read_result", "returned"})
      BY <1>0
    <3> QED
      BY <1>1, <2>1, <3>1
  <2> QED
    BY <1>0, <2>2 DEF Together
<1> QED
  BY <1>4, <1>5, <1>6, <1>7, <1>8 DEF Rest

\* s returns success.
LEMMA Succeeds ==
  ASSUME NEW s \in Sides, Typed, Typed', Rest, Steps(s), late' = late,
         round'[s] = round[s], mine'[s] = mine[s],
         wire'[Peer(s)] = wire[Peer(s)],
         pc[s] = "read_result", pc'[s] = "returned", outcome'[s] = "SUCCESS",
         mine[s] = "SUCCESS", mine[Peer(s)] = "SUCCESS", round[s] = round[Peer(s)],
         pc[Peer(s)] \in {"read_result", "returned"},
         pc[Peer(s)] = "read_result" => wire[Peer(s)] = <<Result("SUCCESS")>>
  PROVE  Rest'
<1> DEFINE p == Peer(s)
<1>0. p \in Sides /\ Peer(p) = s /\ Peer(s) = p /\ p # s /\ \A t \in Sides : t = s \/ t = p
  BY Pair
<1>1. /\ pc'[p] = pc[p] /\ mine'[p] = mine[p] /\ round'[p] = round[p] /\ outcome'[p] = outcome[p]
      /\ wire'[p] = wire[p] /\ Compatible' = Compatible /\ Compatible
      /\ mine[p] = "SUCCESS" /\ round[s] = round[p] /\ pc[p] \in {"read_result", "returned"}
      /\ pc[p] = "read_result" => wire[p] = <<Result("SUCCESS")>>
  BY <1>0 DEF Steps, Compatible, Rest, Vetted
<1>2. outcome[s] = "running"
  BY DEF Typed
<1>3. Closed(p)' = Closed(p) /\ ~Closed(s) /\ ~Closed(s)'
  BY <1>1, <1>2 DEF Closed
<1>4. Result("SUCCESS")' = Result("SUCCESS")
  BY DEF Result, Word
<1> HIDE DEF p
<1>5. Vetted'
  BY <1>0, <1>1 DEF Vetted
<1>6. Agreed'
  BY <1>0, <1>1, <1>4 DEF Agreed
<1>7. late = 0 => ~Closed(p)
  BY <1>0, <1>1, <1>3 DEF Settled, Rest
<1>8. Settled'
  BY <1>0, <1>1, <1>3, <1>7 DEF Settled
<1>9. Alone'
  BY <1>0, <1>1, <1>3, <1>7 DEF Alone
<1>10. Together'
  <2>1. ~(round'[s] > round'[p]) /\ ~(round'[p] > round'[s])
        /\ round'[s] <= round'[p] + 1 /\ round'[p] <= round'[s] + 1
    BY <1>0, <1>1 DEF Typed
  <2> QED
    BY <1>0, <2>1 DEF Together
<1> QED
  BY <1>5, <1>6, <1>8, <1>9, <1>10 DEF Rest

-----------------------------------------------------------------------------
(* What a step does to the words on their way *)

\* A write of s: nothing is sent to a side that has closed.
LEMMA PeerHears ==
  ASSUME NEW s \in Sides, NEW U, NEW d \in Seq(Words), Typed, Typed', Steps(s),
         round'[s] = round[s], outcome'[s] = outcome[s],
         wire'[Peer(s)] = IF Closed(Peer(s)) THEN wire[Peer(s)] ELSE wire[Peer(s)] \o d,
         \A q \in Streams(s) : Wrote(U, s, q) =>
           q \o d \in Streams(s) /\ Wrote(U, s, q \o d)',
         round[Peer(s)] # round[s] + 1 \/ late > 0,
         Behind(U, Peer(s)) => pc[s] = "write_sig" /\ pc'[s] = "read_sig" /\ d = <<Sig>>,
         Link(U, Peer(s))
  PROVE  Link(U, Peer(s))'
<1> DEFINE p == Peer(s)
<1>0. p \in Sides /\ Peer(p) = s
  BY Pair
<1>1. CASE Closed(p)
  <2>1. pc'[p] = "returned"
    BY <1>0, <1>1 DEF Typed, Closed, Steps
  <2> QED
    BY <2>1 DEF Link
<1>2. CASE ~Closed(p)
  BY <1>2, PeerKeeps
<1> QED
  BY <1>1, <1>2

LEMMA NothingWritten ==
  ASSUME NEW s \in Sides, NEW q \in Streams(s)
  PROVE  q \o <<>> = q /\ <<>> \in Seq(Words)
<1>1. q \in Seq(Words) /\ <<>> \in Seq(Words)
  BY StreamProps, EmptySeq
<1> QED
  BY <1>1, ConcatEmptySeq

\* A read of s, which writes nothing.
LEMMA PeerUnheard ==
  ASSUME NEW s \in Sides, NEW U, NEW V, Typed, Typed', Steps(s),
         round'[s] = round[s], wire'[Peer(s)] = wire[Peer(s)],
         Peer(s) \in U <=> Peer(s) \in V,
         round[Peer(s)] = round[s] \/ (s \in U <=> s \in V),
         \A q \in Streams(s) : Wrote(U, s, q) => Wrote(V, s, q)',
         Behind(U, Peer(s)) => pc'[s] = "returned",
         Link(U, Peer(s))
  PROVE  Link(V, Peer(s))'
<1> DEFINE p == Peer(s)
           d == <<>>
<1>0. p \in Sides
  BY Pair
<1>1. d \in Seq(Words) /\ wire[p] \in Seq(Words)
  BY <1>0, EmptySeq DEF Typed
<1>2. wire'[p] = wire[p] \o d
  BY <1>1, ConcatEmptySeq
<1>3. \A q \in Streams(s) : q \o d = q
  BY NothingWritten
<1>4. d = <<>>
  OBVIOUS
<1> HIDE DEF d
<1>5. \A q \in Streams(s) : Wrote(U, s, q) => q \o d \in Streams(s) /\ Wrote(V, s, q \o d)'
  <2> SUFFICES ASSUME NEW q \in Streams(s), Wrote(U, s, q)
               PROVE  q \o d \in Streams(s) /\ Wrote(V, s, q \o d)'
    OBVIOUS
  <2>1. q \o d = q /\ Wrote(V, s, q)'
    BY <1>3
  <2>2. Wrote(V, s, q \o d)'
    BY <2>1, <1>4 DEF Wrote
  <2> QED
    BY <2>1, <2>2
<1> QED
  BY <1>1, <1>2, <1>4, <1>5, PeerKeeps

\* A side that returns has written no more than before.
LEMMA LastWords ==
  ASSUME NEW s \in Sides, NEW U \in SUBSET Sides, Typed, Typed', Steps(s), Linked(U),
         round'[s] = round[s], wire'[Peer(s)] = wire[Peer(s)],
         pc[s] # "returned", pc'[s] = "returned", outcome'[s] # "SUCCESS",
         mine'[s] = mine[s] \/ pc[s] \notin {"write_result", "read_result"}
  PROVE  Linked(U)'
<1> DEFINE p == Peer(s)
<1>0. p \in Sides /\ Peer(p) = s /\ p # s /\ \A t \in Sides : t = s \/ t = p
  BY Pair
<1>1. Closed(s)'
  BY DEF Closed, Typed
<1>2. /\ pc[s] \in Pcs
      /\ s \in U => pc[s] \in {"write_result", "read_result"} /\ Unable(s)
  BY DEF Typed, Linked, Mute
<1>3. /\ Signed(s)' = Signed(s) /\ (\A v : Full(s, v)' = Full(s, v))
      /\ <<Sig>>' = <<Sig>> /\ Short' = Short
  BY SameWords DEF Steps, Sig, Short, Result, Word
<1>4. pc[s] = "read_result" => Say(s)' = Say(s)
  BY DEF Say
<1>5. \A q \in Streams(s) : Wrote(U, s, q) => Wrote(U, s, q)'
  <2> SUFFICES ASSUME NEW q \in Streams(s), Wrote(U, s, q) PROVE Wrote(U, s, q)'
    OBVIOUS
  <2>1. CASE s \in U
    <3>1. q \in {<<>>, <<Sig>>, Short}
      BY <1>2, <2>1 DEF Wrote
    <3> QED
      BY <1>1, <1>3, <2>1, <3>1 DEF Wrote
  <2>2. CASE s \notin U
    <3>1. q \in {<<>>, <<Sig>>, Signed(s)} \/ (pc[s] = "read_result" /\ q = Full(s, Say(s)))
      BY <1>2, <2>2 DEF Wrote
    <3>2. q \in {<<>>, <<Sig>>, Signed(s), Full(s, Say(s))}'
      BY <1>3, <1>4, <3>1
    <3> QED
      BY <1>1, <2>2, <3>2 DEF Wrote
  <2> QED
    BY <2>1, <2>2
<1>6. Link(U, p)'
  BY <1>0, <1>5, PeerUnheard DEF Linked
<1>7. Link(U, s)'
  BY DEF Link
<1>8. Mute(U)'
  <2>2. s \in U => Unable(s)' /\ pc'[s] \in {"write_result", "read_result", "returned"}
    BY <1>2 DEF Unable
  <2>3. p \in U => Unable(p)' /\ pc'[p] \in {"write_result", "read_result", "returned"}
    BY DEF Unable, Steps, Linked, Mute
  <2> QED
    BY <1>0, <2>2, <2>3 DEF Mute
<1> QED
  BY <1>0, <1>6, <1>7, <1>8 DEF Linked

-----------------------------------------------------------------------------
(* Packets *)

LEMMA Encrypts ==
  ASSUME NEW s \in Sides, Typed, NEW e \in encrypt_packet(s)
  PROVE  /\ e[1] = "SUCCESS" => e[2] = Packet(s) /\ e[2].how = How(s)
         /\ e[1] # "SUCCESS" => e[1] \in {"INTERNAL_ERROR", "ABORT"}
<1>1. hdata[s].mechanism \in Mechanisms
  BY DEF Typed
<1> DEFINE a == <<"SUCCESS", Packet(s)>>
           b == <<"INTERNAL_ERROR", "nobuffer">>
           c == <<"ABORT", "nobuffer">>
<1>2. e \in {a, b, c}
  <2>1. CASE hdata[s].mechanism = "none"
    BY <2>1 DEF encrypt_packet, none_encrypt_packet, Packet, How
  <2>2. CASE hdata[s].mechanism = "munge"
    BY <2>2 DEF encrypt_packet, munge_encrypt_packet, Packet, How
  <2>3. CASE hdata[s].mechanism = "key_in_file"
    BY <2>3 DEF encrypt_packet, filekey_encrypt_packet, key_encrypt_packet, read_key, Packet, How
  <2>4. CASE hdata[s].mechanism = "explicit_key"
    BY <2>4 DEF encrypt_packet, key_encrypt_packet, Packet, How
  <2> QED
    BY <1>1, <2>1, <2>2, <2>3, <2>4 DEF Mechanisms
<1>3. a[1] = "SUCCESS" /\ a[2] = Packet(s) /\ b[1] = "INTERNAL_ERROR" /\ c[1] = "ABORT"
  OBVIOUS
<1>4. Packet(s).how = How(s)
  BY WordFields DEF Told
<1> QED
  BY <1>2, <1>3, <1>4

LEMMA Decrypts ==
  ASSUME NEW s \in Sides, Typed, NEW b, NEW r \in decrypt_packet(s, b)
  PROVE  r \in Checks
<1>1. hdata[s].mechanism \in Mechanisms
  BY DEF Typed
<1>2. compare_packets(s, b.packet) \in Checks
  BY DEF compare_packets, Checks
<1> QED
  BY <1>1, <1>2 DEF decrypt_packet, none_decrypt_packet, munge_decrypt_packet,
     key_decrypt_packet, Mechanisms, Checks

\* Only a peer that was called with the same can send a packet that passes.
LEMMA Vets ==
  ASSUME NEW s \in Sides, Typed, NEW r \in decrypt_packet(s, Packet(Peer(s))), r = "SUCCESS"
  PROVE  Compatible
<1> DEFINE p == Peer(s)
           b == Packet(p)
<1>0. p \in Sides /\ Peer(p) = s
  BY Pair
<1>1. hdata[s].mechanism \in Mechanisms /\ hdata[p].mechanism \in Mechanisms
  BY <1>0 DEF Typed
<1>2. /\ b.how = How(p) /\ b.packet = encode_packet(p)
      /\ b.key = IF How(p) = "key" THEN hdata[p].key ELSE "nokey"
  BY DEF Packet, Buffer
<1> HIDE DEF b
<1>3. /\ hdata[s].mechanism = "none" => b.how = "none"
      /\ hdata[s].mechanism = "munge" => b.how = "munge"
      /\ hdata[s].mechanism \in {"key_in_file", "explicit_key"} =>
           b.how = "key" /\ b.key = hdata[s].key
      /\ compare_packets(s, b.packet) = "SUCCESS"
  BY <1>1 DEF decrypt_packet, none_decrypt_packet, munge_decrypt_packet,
     key_decrypt_packet, Mechanisms, b
<1>4. /\ hdata[s].mechanism = "none" <=> hdata[p].mechanism = "none"
      /\ hdata[s].mechanism = "munge" <=> hdata[p].mechanism = "munge"
      /\ hdata[s].mechanism \in {"key_in_file", "explicit_key"} => hdata[s].key = hdata[p].key
  BY <1>1, <1>2, <1>3 DEF How, Mechanisms
<1>5. hdata[s].session = hdata[p].session /\ hdata[s].uid = hdata[p].uid
  <2> DEFINE e == [encode_packet(s) EXCEPT !.signature = p]
             g == encode_packet(p)
  <2>1. e.session_id = hdata[s].session /\ e.uid = hdata[s].uid
    BY DEF encode_packet
  <2>2. g.session_id = hdata[p].session /\ g.uid = hdata[p].uid
    BY DEF encode_packet
  <2>3. e = g
    BY <1>2, <1>3 DEF compare_packets
  <2> HIDE DEF e, g
  <2> QED
    BY <2>1, <2>2, <2>3
<1>6. CASE s = "client" /\ p = "server"
  BY <1>1, <1>4, <1>5, <1>6 DEF Compatible, Mechanisms
<1>7. CASE s = "server" /\ p = "client"
  BY <1>1, <1>4, <1>5, <1>7 DEF Compatible, Mechanisms
<1> QED
  BY <1>6, <1>7 DEF Sides, Peer

LEMMA ShortDiffers ==
  ASSUME NEW s \in Sides
  PROVE  Short # <<>> /\ Short # <<Sig>> /\ Short # Signed(s) /\ Short # Full(s, Say(s))
<1> DEFINE h == Short
           o == <<Sig>>
           g == Signed(s)
           f == Full(s, Say(s))
<1>1. Say(s) \in Told
  BY DEF Say, Told
<1>2. Len(h) = 2 /\ Len(o) = 1 /\ Len(g) = 3 /\ Len(f) = 4 /\ Len(<<>>) = 0
  BY <1>1, StreamWords
<1> HIDE DEF h, o, g, f
<1>3. h # <<>> /\ h # o /\ h # g /\ h # f
  BY <1>2
<1> QED
  BY <1>3 DEF h, o, g, f

-----------------------------------------------------------------------------
(* The steps of handshake_main *)

LEMMA StillLinked ==
  ASSUME NEW s \in Sides, NEW U, NEW V \in SUBSET Sides, Steps(s), Linked(U),
         Peer(s) \in U <=> Peer(s) \in V, Link(V, s)', Link(V, Peer(s))',
         s \in V => Unable(s)' /\ pc'[s] \in {"write_result", "read_result", "returned"}
  PROVE  Linked(V)'
<1> DEFINE p == Peer(s)
<1>0. p \in Sides /\ \A t \in Sides : t = s \/ t = p
  BY Pair
<1>1. p \in V => Unable(p)' /\ pc'[p] \in {"write_result", "read_result", "returned"}
  BY DEF Linked, Mute, Unable, Steps
<1> QED
  BY <1>0, <1>1 DEF Linked, Mute

\* While no read has timed out, a side is at most one round ahead of one that
\* waits for the result or has returned.
LEMMA NotLeftBehind ==
  ASSUME NEW s \in Sides, Typed, Rest, pc[s] \notin {"read_result", "returned"}
  PROVE  round[Peer(s)] # round[s] + 1 \/ late > 0
<1> SUFFICES ASSUME late = 0 PROVE round[Peer(s)] # round[s] + 1
  BY DEF Typed
<1>1. Peer(s) \in Sides /\ Peer(Peer(s)) = s
  BY Pair
<1>2. round[Peer(s)] > round[s] => pc[s] \in {"read_result", "returned"}
  BY <1>1 DEF Rest, Together
<1>3. round[s] \in Nat
  BY DEF Typed
<1> QED
  BY <1>2, <1>3

LEMMA SentWord ==
  ASSUME NEW s \in Sides, NEW w \in Words, Typed, Sent(s, w)
  PROVE  /\ <<w>> \in Seq(Words)
         /\ wire'[s] = wire[s]
         /\ wire'[Peer(s)] = IF Closed(Peer(s)) THEN wire[Peer(s)] ELSE wire[Peer(s)] \o <<w>>
<1>1. Peer(s) \in Sides /\ Peer(s) # s /\ wire \in [Sides -> Seq(Words)]
  BY Pair DEF Typed
<1>2. Append(wire[Peer(s)], w) = wire[Peer(s)] \o <<w>>
  BY <1>1, AppendIsConcat
<1> QED
  BY <1>1, <1>2 DEF Sent

LEMMA WritesSig ==
  ASSUME NEW s \in Sides, NEW U \in SUBSET Sides, Typed, Typed', Rest, Linked(U), write_sig(s)
  PROVE  Inv'
<1> DEFINE p == Peer(s)
<1>0. p \in Sides /\ Peer(p) = s /\ p # s
  BY Pair
<1>1. Steps(s) /\ late' = late /\ round' = round /\ outcome' = outcome /\ mine' = mine
  BY <1>0 DEF write_sig, Steps, Typed
<1>2. pc[s] = "write_sig" /\ pc'[s] = "read_sig"
  BY DEF write_sig, Typed
<1>3. /\ <<Sig>> \in Seq(Words) /\ wire'[s] = wire[s]
      /\ wire'[p] = IF Closed(p) THEN wire[p] ELSE wire[p] \o <<Sig>>
  BY SentWord DEF write_sig, Sig, Words
<1>4. Link(U, s) /\ Link(U, p)
  BY <1>0 DEF Linked
<1>5. Link(U, s)'
  BY <1>1, <1>2, <1>3, <1>4, OwnWaits
<1>6. \A q \in Streams(s) : Wrote(U, s, q) =>
        q \o <<Sig>> \in Streams(s) /\ Wrote(U, s, q \o <<Sig>>)'
  <2> SUFFICES ASSUME NEW q \in Streams(s), Wrote(U, s, q)
               PROVE  q \o <<Sig>> \in Streams(s) /\ Wrote(U, s, q \o <<Sig>>)'
    OBVIOUS
  <2>1. q = <<>>
    BY <1>2 DEF Wrote
  <2>2. q \o <<Sig>> = <<Sig>>
    BY <2>1, StreamsGrow DEF Told
  <2>3. <<Sig>>' = <<Sig>>
    BY DEF Sig, Word
  <2> QED
    BY <1>2, <2>2, <2>3 DEF Streams, Wrote
<1>7. Link(U, p)'
  BY <1>1, <1>2, <1>3, <1>4, <1>6, NotLeftBehind, PeerHears
<1>8. Linked(U)'
  BY <1>1, <1>2, <1>5, <1>7, StillLinked DEF Linked, Mute
<1>9. Rest'
  BY <1>1, <1>2, <1>3, Progress
<1> QED
  BY <1>8, <1>9 DEF Inv

LEMMA SendsPacket ==
  ASSUME NEW s \in Sides, NEW U \in SUBSET Sides, Typed, Typed', Rest, Linked(U), send_packet(s)
  PROVE  Inv'
<1> DEFINE p == Peer(s)
<1>a. PICK d : d = <<Size(s), Packet(s)>>
  OBVIOUS
<1>0. p \in Sides /\ Peer(p) = s /\ p # s
  BY Pair
<1>1. Steps(s) /\ late' = late /\ round' = round /\ outcome' = outcome /\ mine' = mine
  BY <1>0 DEF send_packet, Steps, Typed
<1>2. pc[s] = "send_packet" /\ pc'[s] = "read_size" /\ s \notin U
  BY DEF send_packet, Typed, Linked, Mute
<1>3. /\ d \in Seq(Words) /\ wire'[s] = wire[s]
      /\ wire'[p] = IF Closed(p) THEN wire[p] ELSE wire[p] \o d
  <2>1. PICK e \in encrypt_packet(s) :
          /\ e[1] = "SUCCESS"
          /\ wire' = [wire EXCEPT ![p] =
                        IF Closed(p) THEN @ ELSE @ \o <<Word("size", e[2].how), e[2]>>]
    BY DEF send_packet
  <2>2. e[2] = Packet(s) /\ Word("size", e[2].how) = Size(s)
    BY <2>1, Encrypts DEF Size
  <2>3. d \in Seq(Words)
    BY <1>a, StreamWords DEF Told
  <2> QED
    BY <1>0, <1>a, <2>1, <2>2, <2>3 DEF Typed
<1>4. Link(U, s) /\ Link(U, p)
  BY <1>0 DEF Linked
<1>5. Link(U, s)'
  BY <1>1, <1>2, <1>3, <1>4, OwnWaits
<1>6. \A q \in Streams(s) : Wrote(U, s, q) => q \o d \in Streams(s) /\ Wrote(U, s, q \o d)'
  <2> SUFFICES ASSUME NEW q \in Streams(s), Wrote(U, s, q)
               PROVE  q \o d \in Streams(s) /\ Wrote(U, s, q \o d)'
    OBVIOUS
  <2>1. q = <<Sig>>
    BY <1>2 DEF Wrote
  <2>2. q \o d = Signed(s)
    BY <1>a, <2>1, StreamsGrow DEF Told
  <2>3. Signed(s)' = Signed(s)
    BY <1>1, SameWords DEF Steps
  <2> QED
    BY <1>2, <2>2, <2>3 DEF Streams, Wrote
<1>7. ~Behind(U, p)
  BY <1>0, <1>2 DEF Behind
<1>8. Link(U, p)'
  BY <1>1, <1>2, <1>3, <1>4, <1>6, <1>7, NotLeftBehind, PeerHears
<1>9. Linked(U)'
  BY <1>1, <1>2, <1>5, <1>8, StillLinked
<1>10. Rest'
  BY <1>1, <1>2, Progress
<1> QED
  BY <1>9, <1>10 DEF Inv

LEMMA WritesResult ==
  ASSUME NEW s \in Sides, NEW U \in SUBSET Sides, Typed, Typed', Rest, Linked(U), write_result(s)
  PROVE  Inv'
<1> DEFINE p == Peer(s)
<1>a. PICK w : w = Result(Say(s))
  OBVIOUS
<1>0. p \in Sides /\ Peer(p) = s /\ p # s
  BY Pair
<1>1. Steps(s) /\ late' = late /\ round' = round /\ outcome' = outcome /\ mine' = mine
  BY <1>0 DEF write_result, Steps, Typed
<1>2. pc[s] = "write_result" /\ pc'[s] = "read_result"
  BY DEF write_result, Typed
<1>3. Say(s) \in Told /\ w \in Words /\ Say(s)' = Say(s)
  BY <1>1, <1>a DEF Say, Told, Words
<1>4. /\ <<w>> \in Seq(Words) /\ wire'[s] = wire[s]
      /\ wire'[p] = IF Closed(p) THEN wire[p] ELSE wire[p] \o <<w>>
  <2>1. Sent(s, w)
    BY <1>a DEF write_result, Result, Say
  <2> QED
    BY <1>3, <2>1, SentWord
<1>5. Link(U, s) /\ Link(U, p)
  BY <1>0 DEF Linked
<1>6. Link(U, s)'
  BY <1>1, <1>2, <1>4, <1>5, OwnWaits
<1>7. \A q \in Streams(s) : Wrote(U, s, q) =>
        q \o <<w>> \in Streams(s) /\ Wrote(U, s, q \o <<w>>)'
  <2> SUFFICES ASSUME NEW q \in Streams(s), Wrote(U, s, q)
               PROVE  q \o <<w>> \in Streams(s) /\ Wrote(U, s, q \o <<w>>)'
    OBVIOUS
  <2>1. Full(s, Say(s))' = Full(s, Say(s)) /\ Short' = Short
    BY <1>1, <1>3, SameWords DEF Steps, Short, Sig, Result, Word
  <2>2. CASE s \in U
    <3>1. q = <<Sig>> /\ w = Result("DROP_CONNECTION")
      BY <1>2, <1>a, <2>2 DEF Wrote, Linked, Mute, Unable, Say
    <3>2. q \o <<w>> = Short
      BY <3>1, StreamsGrow DEF Told
    <3> QED
      BY <1>2, <2>1, <2>2, <3>2 DEF Streams, Wrote
  <2>3. CASE s \notin U
    <3>1. q = Signed(s)
      BY <1>2, <2>3 DEF Wrote
    <3>2. q \o <<w>> = Full(s, Say(s))
      BY <1>3, <1>a, <3>1, StreamsGrow
    <3> QED
      BY <1>2, <1>3, <2>1, <2>3, <3>2 DEF Streams, Wrote
  <2> QED
    BY <2>2, <2>3
<1>8. ~Behind(U, p)
  BY <1>0, <1>2 DEF Behind
<1>9. Link(U, p)'
  BY <1>1, <1>2, <1>4, <1>5, <1>7, <1>8, NotLeftBehind, PeerHears
<1>10. Linked(U)'
  BY <1>1, <1>2, <1>6, <1>9, StillLinked DEF Linked, Mute, Unable
<1>11. mine'[s] = "SUCCESS" => Compatible
  BY <1>1, <1>2 DEF Rest, Vetted
<1>12. Rest'
  BY <1>1, <1>2, <1>11, Progress
<1> QED
  BY <1>10, <1>12 DEF Inv

\* What a side waits for in its round comes, unless its peer is a round apart
\* or could not sign.
LEMMA EvenHead ==
  ASSUME NEW s \in Sides, NEW U, Even(U, s), wire[s] # <<>>
  PROVE  /\ pc[s] = "read_sig" => Head(wire[s]) = Sig
         /\ pc[s] = "read_size" => \/ Head(wire[s]) = Size(Peer(s))
                                   \/ /\ Head(wire[s]) = Result("DROP_CONNECTION")
                                      /\ Wrote(U, Peer(s), Short)
         /\ pc[s] = "read_packet" => Head(wire[s]) = Packet(Peer(s))
<1> DEFINE p == Peer(s)
<1>0. p \in Sides
  BY Pair
<1>1. PICK q \in Streams(p), k \in 0 .. 3 :
        /\ Wrote(U, p, q) /\ HasRead(U, s, k) /\ k <= Len(q) /\ (k = 2 => Len(q) > 2)
        /\ wire[s] = Left(q, k)
        /\ wire[s] = <<>> <=> k = Len(q)
        /\ k < Len(q) => Head(wire[s]) = q[k + 1] /\ Tail(wire[s]) = Left(q, k + 1)
  BY NextEven
<1>2. /\ Len(q) \in 0 .. 4
      /\ Len(q) >= 1 => q[1] = Sig
      /\ Len(q) = 2 <=> q = Short
      /\ Len(q) = 2 => q[2] = Result("DROP_CONNECTION")
      /\ Len(q) >= 3 => q[2] = Size(p) /\ q[3] = Packet(p)
  BY <1>0, StreamProps
<1> DEFINE n == Len(q)
<1>3. n \in 0 .. 4 /\ k < n
  BY <1>1, <1>2
<1>4. Head(wire[s]) = q[k + 1]
  BY <1>1, <1>3
<1>5. /\ n >= 1 => q[1] = Sig
      /\ n = 2 <=> q = Short
      /\ n = 2 => q[2] = Result("DROP_CONNECTION")
      /\ n >= 3 => q[2] = Size(p) /\ q[3] = Packet(p)
  BY <1>2
<1> HIDE DEF n
<1>6. pc[s] = "read_sig" => Head(wire[s]) = Sig
  <2>1. pc[s] = "read_sig" => k = 0
    BY <1>1 DEF HasRead
  <2> QED
    BY <1>3, <1>4, <1>5, <2>1
<1>7. pc[s] = "read_size" => \/ Head(wire[s]) = Size(p)
                             \/ Head(wire[s]) = Result("DROP_CONNECTION") /\ Wrote(U, p, Short)
  <2>1. pc[s] = "read_size" => k = 1
    BY <1>1 DEF HasRead
  <2>2. k = 1 => n = 2 \/ n >= 3
    BY <1>3
  <2> QED
    BY <1>1, <1>4, <1>5, <2>1, <2>2
<1>8. pc[s] = "read_packet" => Head(wire[s]) = Packet(p)
  <2>1. pc[s] = "read_packet" => k = 2
    BY <1>1 DEF HasRead
  <2>2. k = 2 => n >= 3
    BY <1>3
  <2> QED
    BY <1>1, <1>4, <1>5, <2>1, <2>2
<1> QED
  BY <1>6, <1>7, <1>8

LEMMA BehindHead ==
  ASSUME NEW s \in Sides, NEW U, Behind(U, s)
  PROVE  /\ wire[s] # <<>>
         /\ pc[s] = "read_size" => Head(wire[s]) = Size(Peer(s))
         /\ pc[s] = "read_packet" => Head(wire[s]) = Packet(Peer(s))
<1>1. PICK x \in {"SUCCESS", "AGAIN"}, q \in {<<>>, <<Sig>>}, k \in 0 .. 3 :
        LastRound(U, s, x, q, k)
  BY NextBehind
<1>2. /\ Full(Peer(s), x)[2] = Size(Peer(s)) /\ Full(Peer(s), x)[3] = Packet(Peer(s))
  BY Pair, StreamWords DEF Told
<1>3. (pc[s] = "read_size" => k = 1) /\ (pc[s] = "read_packet" => k = 2)
  BY <1>1 DEF LastRound, HasRead
<1> QED
  BY <1>1, <1>2, <1>3 DEF LastRound

\* goto done with a socket error
LEMMA DoneReturns ==
  ASSUME NEW s \in Sides, Typed, NEW r, r # "AGAIN", Done(s, r, TRUE)
  PROVE  /\ mine'[s] = r /\ mine'[Peer(s)] = mine[Peer(s)]
         /\ pc'[s] = "returned" /\ pc'[Peer(s)] = pc[Peer(s)]
         /\ outcome'[s] = r /\ outcome'[Peer(s)] = outcome[Peer(s)]
         /\ round' = round
<1>1. Peer(s) \in Sides /\ Peer(s) # s
  BY Pair
<1> QED
  BY <1>1 DEF Done, Returns, Typed

LEMMA DoneShares ==
  ASSUME NEW s \in Sides, Typed, NEW r, Done(s, r, FALSE)
  PROVE  /\ mine'[s] = r /\ mine'[Peer(s)] = mine[Peer(s)]
         /\ pc'[s] = "write_result" /\ pc'[Peer(s)] = pc[Peer(s)]
         /\ outcome' = outcome /\ round' = round
<1>1. Peer(s) \in Sides /\ Peer(s) # s
  BY Pair
<1> QED
  BY <1>1 DEF Done, Typed

LEMMA Takes ==
  ASSUME NEW s \in Sides, Typed, Take(s)
  PROVE  wire'[s] = Tail(wire[s]) /\ wire'[Peer(s)] = wire[Peer(s)]
<1>1. Peer(s) \in Sides /\ Peer(s) # s
  BY Pair
<1> QED
  BY <1>1 DEF Take, Typed

\* A word that is no signature is the result of an earlier round, and ends it.
LEMMA ReadsSig ==
  ASSUME NEW s \in Sides, NEW U \in SUBSET Sides, Typed, Typed', Rest, Linked(U), read_sig(s)
  PROVE  Inv'
<1> DEFINE p == Peer(s)
<1>0. p \in Sides /\ Peer(p) = s /\ p # s
  BY Pair
<1>1. /\ pc[s] = "read_sig" /\ wire[s] # <<>> /\ s \notin U
      /\ hdata' = hdata /\ late' = late /\ late \in Nat
  BY DEF read_sig, Arrived, Linked, Mute, Typed
<1>2. wire'[s] = Tail(wire[s]) /\ wire'[p] = wire[p]
  BY Takes DEF read_sig
<1>3. Link(U, s) /\ Link(U, p)
  BY <1>0 DEF Linked
<1>4. CASE Head(wire[s]).t # "sig"
  <2>1. Done(s, "DROP_CONNECTION", TRUE)
    BY <1>4 DEF read_sig
  <2>2. /\ mine'[s] = "DROP_CONNECTION" /\ pc'[s] = "returned"
        /\ outcome'[s] = "DROP_CONNECTION" /\ round' = round /\ Steps(s)
    BY <1>1, <2>1, DoneReturns DEF Steps
  <2>3. ~Even(U, s)
    BY <1>1, <1>4, EvenHead, WordFields DEF Told
  <2>4. Skewed(U, s) \/ Ahead(U, s)
    BY <1>1, <1>3, <2>3 DEF Link, Behind
  <2>5. late' # 0
    BY <1>1, <2>4, NextStale
  <2>6. Linked(U)'
    BY <1>1, <1>2, <2>2, LastWords
  <2>7. Rest'
    BY <1>1, <1>2, <2>2, <2>5, Closes
  <2> QED
    BY <2>6, <2>7 DEF Inv
<1>5. CASE Head(wire[s]).t = "sig"
  <2>1. Even(U, s) /\ round[p] = round[s]
    <3>1. ~Skewed(U, s) /\ ~Ahead(U, s)
      BY <1>1, <1>5, NextStale
    <3> QED
      BY <1>1, <1>3, <3>1 DEF Link, Behind, Even
  <2>2. PICK e \in encrypt_packet(s) :
          IF e[1] # "SUCCESS"
          THEN Done(s, e[1], FALSE)
          ELSE /\ pc' = [pc EXCEPT ![s] = "send_packet"]
               /\ UNCHANGED <<mine, round, outcome>>
    BY <1>5 DEF read_sig
  <2>3. ~Behind(U, p)
    BY <1>0, <2>1 DEF Behind, Typed
  <2>4. CASE e[1] # "SUCCESS"
    <3>1. Done(s, e[1], FALSE) /\ e[1] \in {"INTERNAL_ERROR", "ABORT"}
      BY <2>2, <2>4, Encrypts
    <3>2. /\ mine'[s] \in {"INTERNAL_ERROR", "ABORT"} /\ pc'[s] = "write_result"
          /\ round' = round /\ outcome' = outcome /\ Steps(s)
      BY <1>1, <3>1, DoneShares DEF Steps
    <3> DEFINE V == U \cup {s}
    <3>3. V \in SUBSET Sides /\ s \in V /\ (p \in U <=> p \in V)
      BY <1>0
    <3> HIDE DEF V
    <3>4. Link(V, s)'
      BY <1>1, <1>2, <2>1, <3>2, <3>3, OwnReads
    <3>5. \A q \in Streams(s) : Wrote(U, s, q) => Wrote(V, s, q)'
      BY <1>1, <3>2, <3>3 DEF Wrote, Sig, Word
    <3>6. Link(V, p)'
      BY <1>2, <1>3, <2>1, <2>3, <3>2, <3>3, <3>5, PeerUnheard
    <3>7. Linked(V)'
      BY <3>2, <3>3, <3>4, <3>6, StillLinked DEF Unable
    <3>8. Rest'
      BY <1>1, <3>2, Progress
    <3> QED
      BY <3>3, <3>7, <3>8 DEF Inv
  <2>5. CASE e[1] = "SUCCESS"
    <3>1. /\ pc' = [pc EXCEPT ![s] = "send_packet"]
          /\ mine' = mine /\ round' = round /\ outcome' = outcome
      BY <2>2, <2>5
    <3>2. pc'[s] = "send_packet" /\ Steps(s)
      BY <1>0, <1>1, <3>1 DEF Steps, Typed
    <3>3. Link(U, s)'
      BY <1>1, <1>2, <2>1, <3>1, <3>2, OwnReads
    <3>4. \A q \in Streams(s) : Wrote(U, s, q) => Wrote(U, s, q)'
      BY <1>1, <3>2 DEF Wrote, Sig, Word
    <3>5. Link(U, p)'
      BY <1>2, <1>3, <2>1, <2>3, <3>1, <3>2, <3>4, PeerUnheard
    <3>6. Linked(U)'
      BY <1>1, <3>2, <3>3, <3>5, StillLinked
    <3>7. Rest'
      BY <1>1, <3>1, <3>2, Progress
    <3> QED
      BY <3>6, <3>7 DEF Inv
  <2> QED
    BY <2>4, <2>5
<1> QED
  BY <1>4, <1>5

\* A word that is no size is the result of a peer that could not sign, which
\* waits for the answer.
LEMMA RecvsSize ==
  ASSUME NEW s \in Sides, NEW U \in SUBSET Sides, Typed, Typed', Rest, Linked(U), recv_size(s)
  PROVE  Inv'
<1> DEFINE p == Peer(s)
<1>0. p \in Sides /\ Peer(p) = s /\ p # s
  BY Pair
<1>1. /\ pc[s] = "read_size" /\ wire[s] # <<>> /\ s \notin U
      /\ hdata' = hdata /\ late' = late /\ late \in Nat
  BY DEF recv_size, Arrived, Linked, Mute, Typed
<1>2. wire'[s] = Tail(wire[s]) /\ wire'[p] = wire[p]
  BY Takes DEF recv_size
<1>3. /\ Link(U, p)
      /\ Even(U, s) \/ Behind(U, s)
  BY <1>0, <1>1 DEF Linked, Link, Skewed, Ahead
<1>4. ~Behind(U, p)
  BY <1>0, <1>1 DEF Behind
<1>5. CASE Head(wire[s]).t = "size"
  <2>1. pc' = [pc EXCEPT ![s] = "read_packet"] /\ mine' = mine /\ round' = round /\ outcome' = outcome
    BY <1>5 DEF recv_size
  <2>2. pc'[s] = "read_packet" /\ Steps(s)
    BY <1>0, <1>1, <2>1 DEF Steps, Typed
  <2>3. Link(U, s)'
    BY <1>1, <1>2, <1>3, <1>5, <2>1, <2>2, OwnReads
  <2>4. Signed(s)' = Signed(s)
    BY <1>1, SameWords
  <2>5. \A q \in Streams(s) : Wrote(U, s, q) => Wrote(U, s, q)'
    BY <1>1, <2>2, <2>4 DEF Wrote
  <2>6. Link(U, p)'
    BY <1>2, <1>3, <1>4, <2>1, <2>2, <2>5, PeerUnheard
  <2>7. Linked(U)'
    BY <1>1, <2>2, <2>3, <2>6, StillLinked
  <2>8. wire[s] # <<Result("DROP_CONNECTION")>>
    <3>1. Head(<<Result("DROP_CONNECTION")>>).t = "result"
      BY <1>0, WordFields DEF Told
    <3> QED
      BY <1>5, <3>1
  <2>9. Rest'
    BY <1>1, <2>1, <2>2, <2>8, Progress
  <2> QED
    BY <2>7, <2>9 DEF Inv
<1>6. CASE Head(wire[s]).t # "size"
  <2>1. /\ Even(U, s) /\ Wrote(U, p, Short)
        /\ Head(wire[s]) = Result("DROP_CONNECTION")
    <3>1. Size(p).t = "size"
      BY <1>0, WordFields DEF Told
    <3>2. ~Behind(U, s)
      BY <1>1, <1>6, <3>1, BehindHead
    <3> QED
      BY <1>1, <1>3, <1>6, <3>1, <3>2, EvenHead
  <2>2. Value(s) = "DROP_CONNECTION"
    BY <1>0, <2>1, WordFields DEF Value, Told
  <2>3. Done(s, "DROP_CONNECTION", TRUE)
    BY <1>6, <2>2 DEF recv_size
  <2>4. /\ mine'[s] = "DROP_CONNECTION" /\ pc'[s] = "returned"
        /\ outcome'[s] = "DROP_CONNECTION" /\ round' = round /\ Steps(s)
    BY <1>1, <2>3, DoneReturns DEF Steps
  <2>5. Linked(U)'
    BY <1>1, <1>2, <2>4, LastWords
  <2>6. ~Closed(p) => pc[p] = "read_result" /\ round[p] = round[s]
    <3>1. pc[p] = "read_result" \/ Closed(p)
      BY <1>0, <2>1, ShortDiffers DEF Wrote
    <3> QED
      BY <2>1, <3>1 DEF Even
  <2>7. Rest'
    BY <1>1, <1>2, <2>4, <2>6, Closes
  <2> QED
    BY <2>5, <2>7 DEF Inv
<1> QED
  BY <1>5, <1>6

LEMMA RecvsPacket ==
  ASSUME NEW s \in Sides, NEW U \in SUBSET Sides, Typed, Typed', Rest, Linked(U), recv_packet(s)
  PROVE  Inv'
<1> DEFINE p == Peer(s)
<1>0. p \in Sides /\ Peer(p) = s /\ p # s
  BY Pair
<1>1. /\ pc[s] = "read_packet" /\ wire[s] # <<>> /\ s \notin U
      /\ hdata' = hdata /\ late' = late /\ late \in Nat
  BY DEF recv_packet, Arrived, Linked, Mute, Typed
<1>2. wire'[s] = Tail(wire[s]) /\ wire'[p] = wire[p]
  BY Takes DEF recv_packet
<1>3. /\ Link(U, p)
      /\ Even(U, s) \/ Behind(U, s)
  BY <1>0, <1>1 DEF Linked, Link, Skewed, Ahead
<1>4. ~Behind(U, p)
  BY <1>0, <1>1 DEF Behind
<1>5. Head(wire[s]) = Packet(p)
  BY <1>1, <1>3, EvenHead, BehindHead
<1>6. PICK r \in decrypt_packet(s, Packet(p)) : Done(s, r, FALSE)
  BY <1>5 DEF recv_packet
<1>7. /\ mine'[s] = r /\ pc'[s] = "write_result" /\ round' = round /\ outcome' = outcome /\ Steps(s)
  BY <1>1, <1>6, DoneShares DEF Steps
<1>8. r = "SUCCESS" => Compatible
  BY <1>6, Vets
<1>9. Link(U, s)'
  BY <1>1, <1>2, <1>3, <1>7, OwnReads
<1>10. Signed(s)' = Signed(s)
  BY <1>1, SameWords
<1>11. \A q \in Streams(s) : Wrote(U, s, q) => Wrote(U, s, q)'
  BY <1>1, <1>7, <1>10 DEF Wrote
<1>12. Link(U, p)'
  BY <1>2, <1>3, <1>4, <1>7, <1>11, PeerUnheard
<1>13. Linked(U)'
  BY <1>1, <1>7, <1>9, <1>12, StillLinked
<1>14. Rest'
  BY <1>1, <1>7, <1>8, Progress
<1> QED
  BY <1>13, <1>14 DEF Inv

\* handshake_main returns the result of a side's own checks, or the peer's.
LEMMA SharedReturns ==
  ASSUME NEW s \in Sides, Typed, NEW w, Shared(s, w), mine' = mine, hdata' = hdata,
         late' \in {late, late + 1},
         NEW r, r = IF mine[s] = "SUCCESS" THEN w ELSE mine[s]
  PROVE  /\ Steps(s)
         /\ \/ /\ r = "AGAIN" /\ round[s] < MAX_NUM_TIMEOUTS
               /\ round'[s] = round[s] + 1 /\ pc'[s] = "write_sig" /\ outcome'[s] = outcome[s]
            \/ /\ r = "AGAIN" => ~(round[s] < MAX_NUM_TIMEOUTS)
               /\ round'[s] = round[s] /\ pc'[s] = "returned"
               /\ outcome'[s] = IF r = "AGAIN" THEN "ABORT" ELSE r
<1>1. Peer(s) \in Sides /\ Peer(s) # s
  BY Pair
<1>2. Returns(s, r)
  BY DEF Shared
<1>3. CASE r = "AGAIN" /\ round[s] < MAX_NUM_TIMEOUTS
  <2>1. /\ round' = [round EXCEPT ![s] = @ + 1]
        /\ pc' = [pc EXCEPT ![s] = "write_sig"]
        /\ outcome' = outcome
    BY <1>2, <1>3 DEF Returns
  <2> QED
    BY <1>1, <1>3, <2>1 DEF Steps, Typed
<1>4. CASE ~(r = "AGAIN" /\ round[s] < MAX_NUM_TIMEOUTS)
  <2>1. /\ outcome' = [outcome EXCEPT ![s] = IF r = "AGAIN" THEN "ABORT" ELSE r]
        /\ pc' = [pc EXCEPT ![s] = "returned"]
        /\ round' = round
    BY <1>2, <1>4 DEF Returns
  <2> QED
    BY <1>1, <1>4, <2>1 DEF Steps, Typed
<1> QED
  BY <1>3, <1>4

\* A side of which a packet has been read could sign it.
LEMMA SignersSign ==
  ASSUME NEW s \in Sides, NEW U, Typed, Rest, Mute(U),
         NEW q \in Streams(s), Wrote(U, s, q), Len(q) >= 3
  PROVE  /\ s \notin U
         /\ pc[s] \in {"read_size", "read_packet", "write_result", "read_result", "returned"}
         /\ Len(q) = 4 => q = Full(s, Say(s)) /\ pc[s] \in {"read_result", "returned"}
         /\ Closed(s) /\ pc[s] = "returned" => Wrote(U, s, Full(s, Say(s)))
<1>1. Len(Short) = 2 /\ Len(Signed(s)) = 3 /\ Len(<<Sig>>) = 1 /\ Len(<<>>) = 0
  BY StreamWords DEF Told
<1> DEFINE h == Short
           g == Signed(s)
           f == Full(s, Say(s))
           o == <<Sig>>
           n == <<>>
<1>2. ~(Len(h) >= 3) /\ ~(Len(o) >= 3) /\ ~(Len(n) >= 3) /\ ~(Len(g) = 4)
  BY <1>1
<1> HIDE DEF h, g, f, o, n
<1>3. q # h /\ q # o /\ q # n /\ (Len(q) = 4 => q # g)
  BY <1>2
<1>4. s \in U => pc[s] \in {"write_result", "read_result", "returned"}
  BY DEF Mute
<1>5. \/ pc[s] \in {"read_size", "read_packet"} /\ q = g
      \/ pc[s] = "write_result" /\ s \notin U /\ q = g
      \/ pc[s] = "read_result" /\ s \notin U /\ q = f
      \/ pc[s] = "returned" /\ ~Closed(s) /\ q = f
      \/ pc[s] = "returned" /\ Closed(s) /\ s \notin U /\ q \in {g, f}
  BY <1>3 DEF Wrote, h, g, f, o, n
<1>6. s \notin U
  <2>1. pc[s] = "returned" /\ ~Closed(s) => mine[s] = "SUCCESS"
    BY DEF Typed, Closed, Rest, Agreed
  <2>2. s \in U => mine[s] # "SUCCESS"
    BY DEF Mute, Unable
  <2> QED
    BY <1>4, <1>5, <2>1, <2>2
<1>7. pc[s] \in {"read_size", "read_packet", "write_result", "read_result", "returned"}
  BY <1>5
<1>8. Len(q) = 4 => q = f /\ pc[s] \in {"read_result", "returned"}
  BY <1>3, <1>5
<1>9. Closed(s) /\ pc[s] = "returned" => Wrote(U, s, f)
  BY <1>6 DEF Wrote, f
<1> QED
  BY <1>6, <1>7, <1>8, <1>9 DEF f

\* The peer of a side that starts over has all four words of the round before.
LEMMA PeerFallsBehind ==
  ASSUME NEW s \in Sides, NEW U, Typed, Typed', Steps(s), Even(U, Peer(s)),
         round'[s] = round[s] + 1, wire'[Peer(s)] = wire[Peer(s)],
         pc[s] = "read_result", pc'[s] = "write_sig", s \notin U, Peer(s) \notin U,
         pc[Peer(s)] \in {"read_size", "read_packet", "write_result", "read_result"},
         late' = 0 => pc[Peer(s)] = "read_result",
         \/ mine[s] = "AGAIN"
         \/ mine[s] = "SUCCESS" /\ mine[Peer(s)] = "AGAIN" /\ pc[Peer(s)] = "read_result"
  PROVE  Link(U, Peer(s))'
<1> DEFINE p == Peer(s)
<1>0. p \in Sides /\ Peer(p) = s
  BY Pair
<1>1. /\ pc'[p] = pc[p] /\ mine'[p] = mine[p] /\ round'[p] = round[p] /\ hdata' = hdata
      /\ round[s] = round[p]
  BY <1>0 DEF Steps, Even
<1> HIDE DEF p
<1>2. PICK q \in Streams(s), k \in 0 .. 3 :
        /\ Wrote(U, s, q) /\ HasRead(U, p, k) /\ k <= Len(q) /\ wire[p] = Left(q, k)
  BY <1>0 DEF Even, p
<1>3. PICK x : x = mine[s]
  OBVIOUS
<1>4. x \in {"SUCCESS", "AGAIN"} /\ x \in Told /\ Say(s) = x
  BY <1>3 DEF Say, Told
<1>5. q = Full(s, x)
  BY <1>2, <1>4 DEF Wrote
<1>6. /\ Left(Full(s, x), k)' = Left(Full(s, x), k)
      /\ HasRead(U, p, k)'
  <2>1. Full(s, x)' = Full(s, x)
    BY <1>1, SameWords
  <2> QED
    BY <1>1, <1>2, <2>1 DEF Left, HasRead
<1>7. wire'[p] = Left(Full(s, x), k)' \o <<>>
  <2>1. wire[p] \in Seq(Words) /\ wire'[p] = wire[p]
    BY <1>0 DEF Typed, p
  <2> QED
    BY <1>2, <1>5, <1>6, <2>1, ConcatEmptySeq
<1>8. /\ round'[s] = round'[p] + 1 /\ Peer(p) = s
      /\ pc'[p] \in {"read_size", "read_packet", "write_result", "read_result"}
      /\ late' = 0 => pc'[p] = "read_result"
      /\ p \notin U /\ s \notin U
      /\ x = "SUCCESS" => pc'[p] = "read_result" /\ mine'[p] = "AGAIN"
  BY <1>0, <1>1, <1>3 DEF p
<1>9. PICK q2 : q2 = <<>>
  OBVIOUS
<1>10. /\ q2 \in {<<>>, <<Sig>>}' /\ wire'[p] = Left(Full(s, x), k)' \o q2
       /\ pc'[s] = "write_sig" => q2 = <<>>
       /\ pc'[s] # "read_sig" /\ pc'[s] \in {"write_sig", "read_sig", "returned"}
  BY <1>7, <1>9
<1>11. Behind(U, p)'
  BY <1>4, <1>6, <1>8, <1>10 DEF Behind
<1> QED
  BY <1>11 DEF Link, p

\* Once three words have been read, the result is what is left.
LEMMA LastOfFour ==
  ASSUME NEW s \in Sides, NEW v \in Told
  PROVE  Left(Full(s, v), 3) = <<Result(v)>> /\ Left(Full(s, v), 4) = <<>>
<1> DEFINE f == Full(s, v)
           l == Left(f, 3)
           o == <<Result(v)>>
<1>1. f \in Seq(Words) /\ Len(f) = 4 /\ f[4] = Result(v)
  BY StreamWords
<1>2. o \in Seq(Words) /\ Len(o) = 1 /\ o[1] = Result(v)
  BY StreamWords
<1> HIDE DEF f, o
<1>3. l \in Seq(Words) /\ Len(l) = 1 /\ l[1] = f[4]
  <2>1. 3 \in 0 .. Len(f) /\ Len(f) - 3 = 1
    BY <1>1
  <2>2. /\ Left(f, 3) \in Seq(Words) /\ Len(Left(f, 3)) = Len(f) - 3
        /\ \A i \in 1 .. Len(f) - 3 : Left(f, 3)[i] = f[3 + i]
    BY <1>1, <2>1, LeftProps
  <2>3. 1 \in 1 .. Len(f) - 3 /\ 3 + 1 = 4
    BY <2>1
  <2>4. Left(f, 3)[1] = f[4]
    BY <2>2, <2>3
  <2> QED
    BY <2>1, <2>2, <2>4
<1> HIDE DEF l
<1>4. l = o
  BY <1>1, <1>2, <1>3, SeqEqual
<1>5. Left(f, 4) = <<>>
  <2>1. 4 \in 0 .. Len(f)
    BY <1>1
  <2> QED
    BY <1>1, <2>1, LeftNone
<1> QED
  BY <1>4, <1>5 DEF f, l, o

LEMMA StartsAhead ==
  ASSUME NEW s \in Sides, NEW U, Steps(s), round'[s] = round[s] + 1,
         round[s] = round[Peer(s)], pc'[s] = "write_sig", Peer(s) \notin U,
         NEW q \in Streams(Peer(s)), Wrote(U, Peer(s), q), Len(q) >= 3,
         \/ late' > 0 /\ wire'[s] = Left(q, 3)
         \/ Len(q) = 4 /\ wire'[s] = <<>>
  PROVE  Link(U, s)'
<1>1. q \in Streams(Peer(s))' /\ Wrote(U, Peer(s), q)' /\ Peer(s)' = Peer(s)
  BY Pair, SameWords, SameWrote DEF Steps
<1>2. round'[s] = round'[Peer(s)] + 1
  BY DEF Steps
<1>3. Ahead(U, s)'
  BY <1>1, <1>2 DEF Ahead, Left
<1> QED
  BY <1>3 DEF Link

\* A read that fails before the results are exchanged, or a write.
LEMMA FailsEarly ==
  ASSUME NEW s \in Sides, NEW U \in SUBSET Sides, Typed, Typed', Rest, Linked(U),
         pc[s] \notin {"write_result", "read_result", "returned"},
         Done(s, "INTERNAL_ERROR", TRUE), hdata' = hdata, wire' = wire,
         late' \in {late, late + 1}, late' > 0 \/ Closed(Peer(s))
  PROVE  Inv'
<1>1. /\ mine'[s] = "INTERNAL_ERROR" /\ pc'[s] = "returned"
      /\ outcome'[s] = "INTERNAL_ERROR" /\ round' = round /\ Steps(s)
  BY DoneReturns DEF Steps
<1>2. Linked(U)'
  BY <1>1, LastWords
<1>3. late' = 0 => Closed(Peer(s))
  BY DEF Typed
<1>4. Rest'
  BY <1>1, <1>3, Closes
<1> QED
  BY <1>2, <1>4 DEF Inv

\* The result cannot be sent, or the peer's does not come.
LEMMA GivesUp ==
  ASSUME NEW s \in Sides, NEW U \in SUBSET Sides, Typed, Typed', Rest, Linked(U),
         \/ pc[s] = "read_result" /\ wire[s] = <<>>
         \/ pc[s] = "write_result" /\ Closed(Peer(s)),
         Shared(s, "INTERNAL_ERROR"), mine' = mine, hdata' = hdata, wire' = wire,
         late' \in {late, late + 1}, late' > 0 \/ Closed(Peer(s))
  PROVE  Inv'
<1> DEFINE p == Peer(s)
<1>0. p \in Sides /\ Peer(p) = s /\ p # s /\ Peer(s) = p
  BY Pair
<1>1. PICK r : r = IF mine[s] = "SUCCESS" THEN "INTERNAL_ERROR" ELSE mine[s]
  OBVIOUS
<1>2. /\ Steps(s)
      /\ \/ /\ r = "AGAIN" /\ round[s] < MAX_NUM_TIMEOUTS
            /\ round'[s] = round[s] + 1 /\ pc'[s] = "write_sig" /\ outcome'[s] = outcome[s]
         \/ /\ r = "AGAIN" => ~(round[s] < MAX_NUM_TIMEOUTS)
            /\ round'[s] = round[s] /\ pc'[s] = "returned"
            /\ outcome'[s] = IF r = "AGAIN" THEN "ABORT" ELSE r
  BY <1>1, SharedReturns
<1>3. /\ late \in Nat /\ late' \in Nat /\ (late' = 0 => late = 0 /\ Closed(p))
      /\ Closed(p) => pc[p] = "returned"
  BY <1>0 DEF Typed, Closed
<1>4. CASE pc'[s] = "returned"
  <2>1. round'[s] = round[s] /\ outcome'[s] # "SUCCESS"
    BY <1>1, <1>2, <1>4
  <2>2. Linked(U)'
    BY <1>2, <1>4, <2>1, LastWords
  <2>3. Rest'
    BY <1>2, <1>3, <1>4, <2>1, Closes
  <2> QED
    BY <2>2, <2>3 DEF Inv
<1>5. CASE pc'[s] # "returned"
  <2>1. /\ mine[s] = "AGAIN" /\ round[s] < MAX_NUM_TIMEOUTS /\ round'[s] = round[s] + 1
        /\ pc'[s] = "write_sig" /\ outcome'[s] = outcome[s]
    BY <1>1, <1>2, <1>5
  <2>2. s \notin U /\ Link(U, s) /\ Link(U, p) /\ Mute(U)
    BY <1>0, <2>1 DEF Linked, Mute, Unable
  <2>3. late' = 0 => pc[s] = "read_result"
    BY <1>0, <1>3 DEF Rest, Alone, Typed, Closed
  <2>4. CASE Even(U, s)
    <3>1. PICK q \in Streams(p), k \in 0 .. 3 :
            /\ Wrote(U, p, q) /\ HasRead(U, s, k) /\ k <= Len(q) /\ (k = 2 => Len(q) > 2)
            /\ wire[s] = Left(q, k)
            /\ wire[s] = <<>> <=> k = Len(q)
            /\ k < Len(q) => Head(wire[s]) = q[k + 1] /\ Tail(wire[s]) = Left(q, k + 1)
      BY <2>4, NextEven
    <3>2. k = 3
      BY <2>2, <3>1 DEF HasRead
    <3>3. /\ Len(q) >= 3 /\ wire[s] = Left(q, 3) /\ (wire[s] = <<>> <=> 3 = Len(q))
          /\ Len(q) \in 0 .. 4
      BY <1>0, <3>1, <3>2, StreamProps
    <3>4. /\ p \notin U
          /\ pc[p] \in {"read_size", "read_packet", "write_result", "read_result", "returned"}
          /\ Closed(p) => Wrote(U, p, Full(p, Say(p)))
      BY <1>0, <1>3, <2>2, <3>1, <3>3, SignersSign
    <3>5. round[s] = round[p]
      BY <2>4 DEF Even
    <3>6. Link(U, s)'
      <4>1. CASE late' > 0
        BY <1>2, <2>1, <3>1, <3>3, <3>4, <3>5, <4>1, StartsAhead
      <4>2. CASE ~(late' > 0)
        <5>1. Closed(p) /\ wire[s] = <<>>
          BY <1>3, <2>3, <4>2
        <5>2. Say(p) \in Told
          BY DEF Say, Told
        <5>3. Full(p, Say(p)) \in Streams(p) /\ Len(Full(p, Say(p))) = 4
          BY <1>0, <5>2, StreamWords DEF Streams
        <5> DEFINE f == Full(p, Say(p))
        <5>4. f \in Streams(p) /\ Len(f) = 4 /\ Len(f) >= 3 /\ Wrote(U, p, f)
          BY <3>4, <5>1, <5>3
        <5> HIDE DEF f
        <5>5. PICK g \in Streams(p) : Len(g) = 4 /\ Len(g) >= 3 /\ Wrote(U, p, g)
          BY <5>4
        <5> QED
          BY <1>2, <2>1, <3>4, <3>5, <5>1, <5>5, StartsAhead
      <4> QED
        BY <4>1, <4>2
    <3>7. Link(U, p)'
      <4>1. CASE pc[p] = "returned"
        BY <1>2, <4>1 DEF Link, Steps
      <4>2. CASE pc[p] # "returned"
        <5>1. pc[s] = "read_result" /\ late' # 0
          BY <1>3, <4>2
        <5>2. Even(U, p)
          BY <1>0, <2>2, <3>4, <3>5, <4>2 DEF Link, Skewed, Ahead, Behind, Typed
        <5> QED
          BY <1>2, <2>1, <2>2, <3>4, <4>2, <5>1, <5>2, PeerFallsBehind
      <4> QED
        BY <4>1, <4>2
    <3>8. Linked(U)'
      BY <1>2, <2>2, <3>6, <3>7, StillLinked DEF Linked
    <3>9. outcome[p] # "SUCCESS"
      BY <1>0, <2>1 DEF Rest, Agreed
    <3>10. Rest'
      <4>1. round[s] <= round[p]
        BY <3>5 DEF Typed
      <4> QED
        BY <1>2, <1>3, <2>1, <2>3, <3>9, <4>1, MovesOn
    <3> QED
      BY <3>8, <3>10 DEF Inv
  <2>5. CASE Behind(U, s)
    <3>1. PICK x \in {"SUCCESS", "AGAIN"}, q \in {<<>>, <<Sig>>}, k \in 0 .. 3 :
            LastRound(U, s, x, q, k)
      BY <2>5, NextBehind
    <3>2. pc[s] = "write_result" /\ Closed(p) /\ pc[p] = "returned"
      BY <1>3, <3>1 DEF LastRound
    <3>3. p \notin U /\ round[p] = round[s] + 1
      BY <2>5 DEF Behind
    <3>4. late' > 0
      BY <1>3, <2>3, <3>2
    <3>5. k = 3 /\ wire[s] = Left(Full(p, x), 3) \o q
      BY <2>2, <3>1, <3>2 DEF LastRound, HasRead
    <3>6. Left(Full(p, x), 3) = <<Result(x)>>
      BY <1>0, LastOfFour DEF Told
    <3>7. Skewed(U, s)'
      <4>1. Wrote(U, p, q)' /\ q \in Streams(p)'
        <5>1. Wrote(U, p, q) /\ q \in Streams(p)
          BY <3>1, <3>2, <3>3 DEF Wrote, Streams
        <5> QED
          BY <1>0, <1>2, <5>1, SameWrote, SameWords DEF Steps
      <4>2. wire'[s] = <<Result(x)>>' \o q
        BY <3>5, <3>6 DEF Result, Word
      <4>3. round'[s] = round'[p] /\ x \in Told
        BY <1>2, <2>1, <3>3 DEF Steps, Told
      <4> QED
        BY <2>1, <3>4, <4>1, <4>2, <4>3 DEF Skewed
    <3>8. Link(U, s)' /\ Link(U, p)'
      BY <1>2, <3>2, <3>7 DEF Link, Steps
    <3>9. Linked(U)'
      BY <1>2, <2>2, <3>8, StillLinked
    <3>10. outcome[p] # "SUCCESS"
      BY <3>2 DEF Closed
    <3>11. Rest'
      <4>1. round[s] <= round[p]
        BY <3>3 DEF Typed
      <4> QED
        BY <1>2, <1>3, <2>1, <2>3, <3>4, <3>10, <4>1, MovesOn
    <3> QED
      BY <3>9, <3>11 DEF Inv
  <2> QED
    BY <2>2, <2>4, <2>5 DEF Link, Skewed, Ahead
<1> QED
  BY <1>4, <1>5

\* The result read is that of the round before: s catches up, or gives up.
LEMMA CatchesUp ==
  ASSUME NEW s \in Sides, NEW U \in SUBSET Sides, Typed, Typed', Rest, Linked(U),
         share_result(s), Behind(U, s)
  PROVE  Inv'
<1> DEFINE p == Peer(s)
<1>0. p \in Sides /\ Peer(p) = s /\ p # s /\ Peer(s) = p
  BY Pair
<1>1. /\ pc[s] = "read_result" /\ wire'[s] = Tail(wire[s]) /\ wire'[p] = wire[p]
      /\ hdata' = hdata /\ mine' = mine /\ late' = late /\ late \in Nat
  BY Takes DEF share_result, Typed
<1>2. PICK x \in {"SUCCESS", "AGAIN"}, q \in {<<>>, <<Sig>>}, k \in 0 .. 3 :
        LastRound(U, s, x, q, k)
  BY NextBehind
<1>3. /\ round[p] = round[s] + 1 /\ s \notin U /\ p \notin U
      /\ round[s] \in Nat /\ round[p] <= MAX_NUM_TIMEOUTS
  BY <1>0 DEF Behind, Typed
<1>4. k = 3 /\ x \in Told
  BY <1>1, <1>2, <1>3 DEF LastRound, HasRead, Told
<1>5. Head(wire[s]) = Result(x) /\ Value(s) = x
  <2>1. Head(wire[s]) = Full(p, x)[4]
    BY <1>2, <1>4 DEF LastRound
  <2>2. Full(p, x)[4] = Result(x) /\ Result(x).t = "result" /\ Result(x).v = x
    BY <1>0, <1>4, StreamWords, WordFields
  <2> QED
    BY <2>1, <2>2 DEF Value
<1>6. wire'[s] = q
  <2>1. Tail(wire[s]) = Left(Full(p, x), 4) \o q
    BY <1>2, <1>4, SMTT(30) DEF LastRound
  <2>2. Left(Full(p, x), 4) = <<>>
    BY <1>0, <1>4, LastOfFour
  <2>3. q \in Seq(Words)
    BY <1>0, StreamWords DEF Told
  <2> QED
    BY <1>1, <2>1, <2>2, <2>3, ConcatEmptySeq
<1>7. PICK r : r = IF mine[s] = "SUCCESS" THEN x ELSE mine[s]
  OBVIOUS
<1>8. /\ Steps(s)
      /\ \/ /\ r = "AGAIN" /\ round[s] < MAX_NUM_TIMEOUTS
            /\ round'[s] = round[s] + 1 /\ pc'[s] = "write_sig" /\ outcome'[s] = outcome[s]
         \/ /\ r = "AGAIN" => ~(round[s] < MAX_NUM_TIMEOUTS)
            /\ round'[s] = round[s] /\ pc'[s] = "returned"
            /\ outcome'[s] = IF r = "AGAIN" THEN "ABORT" ELSE r
  <2>1. Shared(s, x)
    BY <1>5 DEF share_result
  <2> QED
    BY <1>1, <1>7, <2>1, SharedReturns
<1>9. x = "SUCCESS" => mine[s] = "AGAIN"
  BY <1>2 DEF LastRound
<1>10. outcome[p] # "SUCCESS"
  BY <1>0, <1>3 DEF Rest, Agreed
<1>11. /\ pc[p] \in {"write_sig", "read_sig", "returned"}
       /\ pc[p] = "write_sig" => q = <<>>
       /\ pc[p] = "read_sig" => q = <<Sig>>
       /\ pc[p] = "returned" <=> Closed(p)
  <2>1. pc[p] = "returned" <=> Closed(p)
    BY <1>0, <1>10 DEF Typed, Closed
  <2> QED
    BY <1>2, <2>1 DEF LastRound
<1>12. /\ Mute(U) /\ Link(U, p)
       /\ pc[p] = "returned" \/ Ahead(U, p)
  BY <1>0, <1>3 DEF Linked, Link, Even, Skewed, Behind
<1>13. CASE pc'[s] = "returned"
  <2>1. round'[s] = round[s] /\ outcome'[s] # "SUCCESS" /\ mine[s] \notin {"SUCCESS", "AGAIN"}
    <3>1. round[s] < MAX_NUM_TIMEOUTS
      BY <1>3 DEF MAX_NUM_TIMEOUTS
    <3>2. r # "AGAIN" /\ round'[s] = round[s] /\ outcome'[s] = r
      BY <1>8, <1>13, <3>1
    <3>3. mine[s] # "SUCCESS" /\ r = mine[s]
      BY <1>7, <1>9, <3>2
    <3> QED
      BY <3>2, <3>3
  <2>2. Linked(U)'
    BY <1>1, <1>8, <1>13, <2>1, LastWords
  <2>3. late' = 0 /\ ~Closed(p) =>
          /\ pc[p] \in {"write_sig", "read_sig"} /\ round[p] = round[s] + 1
          /\ wire[p] = <<>>
    BY <1>1, <1>3, <1>11, <1>12 DEF Ahead
  <2>4. Rest'
    BY <1>1, <1>8, <1>13, <2>1, <2>3, Closes
  <2> QED
    BY <2>2, <2>4 DEF Inv
<1>14. CASE pc'[s] # "returned"
  <2>1. /\ mine[s] \in {"SUCCESS", "AGAIN"} /\ round[s] < MAX_NUM_TIMEOUTS
        /\ round'[s] = round[s] + 1 /\ pc'[s] = "write_sig" /\ outcome'[s] = outcome[s]
    BY <1>7, <1>8, <1>14
  <2>2. Link(U, s)'
    <3>1. Wrote(U, p, q) /\ q \in Streams(p)
      BY <1>3, <1>11 DEF Wrote, Streams
    <3>2. Wrote(U, p, q)' /\ q \in Streams(p)'
      BY <1>0, <1>8, <3>1, SameWrote, SameWords DEF Steps
    <3>3. Left(q, 0) = q /\ 0 <= Len(q)
      BY <1>0, <3>1, StreamProps, LeftAll
    <3>4. HasRead(U, s, 0)' /\ round'[s] = round'[p]
      BY <1>3, <1>8, <2>1 DEF HasRead, Steps
    <3>5. Left(q, 0)' = Left(q, 0)
      BY DEF Left
    <3>6. Even(U, s)'
      <4>1. PICK z \in 0 .. 3 : z = 0
        OBVIOUS
      <4>2. /\ Wrote(U, p, q)' /\ HasRead(U, s, z)' /\ z <= Len(q) /\ z # 2
            /\ wire'[s] = Left(q, z)
        BY <1>6, <3>2, <3>3, <3>4, <4>1
      <4> QED
        BY <3>2, <3>4, <4>2 DEF Even, Left
    <3> QED
      BY <3>6 DEF Link
  <2>3. Link(U, p)'
    <3>1. CASE pc[p] = "returned"
      BY <1>8, <3>1 DEF Link, Steps
    <3>2. CASE Ahead(U, p)
      <4>1. PICK y \in Streams(s) : /\ Wrote(U, s, y) /\ Len(y) >= 3
                                    /\ \/ late > 0 /\ wire[p] = Left(y, 3)
                                       \/ Len(y) = 4 /\ wire[p] = <<>>
        BY <1>0, <3>2 DEF Ahead
      <4>2. y = Full(s, Say(s)) /\ Say(s) \in Told
        BY <1>1, <1>3, <4>1 DEF Wrote, Say, Told
      <4>3. /\ pc'[p] \in {"write_sig", "read_sig"} /\ round'[p] = round'[s] /\ late' = late
            /\ wire'[p] = wire[p]
        BY <1>1, <1>3, <1>8, <2>1, <3>2 DEF Ahead, Steps
      <4>4. PICK n : n = <<>>
        OBVIOUS
      <4>5. Wrote(U, s, n)' /\ n \in Streams(s)' /\ n \in Seq(Words)
        BY <2>1, <4>4, EmptySeq DEF Wrote, Streams
      <4>6. CASE late > 0 /\ wire[p] = Left(y, 3)
        <5>1. PICK v \in Told : v = Say(s)
          BY <4>2
        <5>2. wire[p] = <<Result(v)>>
          BY <4>2, <4>6, <5>1, LastOfFour
        <5>3. <<Result(v)>> \o n = <<Result(v)>> /\ <<Result(v)>>' = <<Result(v)>>
          <6>1. <<Result(v)>> \in Seq(Words)
            BY <1>0, StreamWords
          <6> QED
            BY <4>4, <6>1, ConcatEmptySeq DEF Result, Word
        <5>4. wire'[p] = <<Result(v)>>' \o n
          BY <4>3, <5>2, <5>3
        <5>5. Skewed(U, p)'
          BY <1>0, <4>3, <4>5, <4>6, <5>4 DEF Skewed
        <5> QED
          BY <5>5 DEF Link
      <4>7. CASE wire[p] = <<>>
        <5>1. PICK z \in 0 .. 3 : z = 0
          OBVIOUS
        <5>2. Left(n, z) = n /\ z <= Len(n) /\ HasRead(U, p, z)'
          <6>1. Len(n) = 0 /\ Left(n, 0) = n
            BY <4>4, <4>5, LeftAll
          <6>2. HasRead(U, p, 0)'
            BY <4>3 DEF HasRead
          <6> QED
            BY <5>1, <6>1, <6>2
        <5>3. wire'[p] = Left(n, z) /\ z # 2
          BY <4>3, <4>4, <4>7, <5>1, <5>2
        <5>4. Even(U, p)'
          BY <1>0, <4>3, <4>5, <5>2, <5>3 DEF Even, Left
        <5> QED
          BY <5>4 DEF Link
      <4> QED
        BY <4>1, <4>6, <4>7
    <3> QED
      BY <1>12, <3>1, <3>2
  <2>4. Linked(U)'
    BY <1>3, <1>8, <2>2, <2>3, StillLinked
  <2>5. Rest'
    <3>1. round[s] <= round[p] /\ round[s] # round[p]
      BY <1>3
    <3> QED
      BY <1>1, <1>8, <1>10, <2>1, <3>1, MovesOn
  <2> QED
    BY <2>4, <2>5 DEF Inv
<1> QED
  BY <1>13, <1>14

LEMMA LastOfTwo == Left(Short, 1) = <<Result("DROP_CONNECTION")>>
<1> DEFINE f == Short
           l == Left(f, 1)
           o == <<Result("DROP_CONNECTION")>>
<1>1. /\ f \in Seq(Words) /\ Len(f) = 2 /\ f[2] = Result("DROP_CONNECTION")
      /\ o \in Seq(Words) /\ Len(o) = 1 /\ o[1] = Result("DROP_CONNECTION")
  <2>1. "client" \in Sides /\ "DROP_CONNECTION" \in Told
    BY DEF Sides, Told
  <2> QED
    BY <2>1, StreamWords
<1> HIDE DEF f, o
<1>2. l \in Seq(Words) /\ Len(l) = 1 /\ l[1] = f[2]
  <2>1. 1 \in 0 .. Len(f) /\ Len(f) - 1 = 1
    BY <1>1
  <2>2. /\ Left(f, 1) \in Seq(Words) /\ Len(Left(f, 1)) = Len(f) - 1
        /\ \A i \in 1 .. Len(f) - 1 : Left(f, 1)[i] = f[1 + i]
    BY <1>1, <2>1, LeftProps
  <2>3. 1 \in 1 .. Len(f) - 1 /\ 1 + 1 = 2
    BY <2>1
  <2>4. Left(f, 1)[1] = f[2]
    BY <2>2, <2>3
  <2> QED
    BY <2>1, <2>2, <2>4
<1> HIDE DEF l
<1>3. l = o
  BY <1>1, <1>2, SeqEqual
<1> QED
  BY <1>3 DEF f, l, o

\* A side that could not sign reads its peer's size for a result.
LEMMA Misreads ==
  ASSUME NEW s \in Sides, NEW U \in SUBSET Sides, Typed, Typed', Rest, Linked(U),
         share_result(s), Even(U, s), s \in U
  PROVE  Inv'
<1> DEFINE p == Peer(s)
<1>0. p \in Sides /\ Peer(p) = s /\ p # s /\ Peer(s) = p
  BY Pair
<1>1. /\ pc[s] = "read_result" /\ wire'[s] = Tail(wire[s]) /\ wire'[p] = wire[p]
      /\ hdata' = hdata /\ mine' = mine /\ late' = late /\ wire[s] # <<>>
  BY Takes DEF share_result, Arrived
<1>2. /\ Unable(s) /\ Link(U, p) /\ Mute(U) /\ round[s] = round[p]
      /\ mine[s] \in {"INTERNAL_ERROR", "ABORT"}
  BY <1>0 DEF Linked, Mute, Even, Unable
<1>3. /\ Steps(s) /\ round'[s] = round[s] /\ pc'[s] = "returned" /\ outcome'[s] = mine[s]
  <2>1. PICK w : Shared(s, w)
    BY DEF share_result
  <2>2. PICK r : r = IF mine[s] = "SUCCESS" THEN w ELSE mine[s]
    OBVIOUS
  <2>3. r = mine[s] /\ r # "AGAIN"
    BY <1>2, <2>2
  <2>4. /\ Steps(s)
        /\ \/ /\ r = "AGAIN" /\ round[s] < MAX_NUM_TIMEOUTS
              /\ round'[s] = round[s] + 1 /\ pc'[s] = "write_sig" /\ outcome'[s] = outcome[s]
           \/ /\ r = "AGAIN" => ~(round[s] < MAX_NUM_TIMEOUTS)
              /\ round'[s] = round[s] /\ pc'[s] = "returned"
              /\ outcome'[s] = IF r = "AGAIN" THEN "ABORT" ELSE r
    BY <1>1, <2>1, <2>2, SharedReturns
  <2> QED
    BY <2>3, <2>4
<1>4. PICK q \in Streams(p), k \in 0 .. 3 :
        /\ Wrote(U, p, q) /\ HasRead(U, s, k) /\ k <= Len(q) /\ (k = 2 => Len(q) > 2)
        /\ wire[s] = Left(q, k)
        /\ wire[s] = <<>> <=> k = Len(q)
        /\ k < Len(q) => Head(wire[s]) = q[k + 1] /\ Tail(wire[s]) = Left(q, k + 1)
  BY NextEven
<1>5. q # <<>> /\ q # <<Sig>>
  <2>1. k = 1 /\ Len(q) # 1
    BY <1>1, <1>4 DEF HasRead
  <2>2. Len(<<Sig>>) = 1 /\ Len(<<>>) = 0
    BY <1>0, StreamWords DEF Told
  <2>3. Len(q) \in 0 .. 4
    BY <1>0, StreamProps
  <2>4. Len(q) # 0
    BY <1>4, <2>1, <2>3
  <2> DEFINE o == <<Sig>>
  <2>5. q # o
    <3>1. Len(q) # Len(o)
      BY <2>1, <2>2
    <3> HIDE DEF o
    <3> QED
      BY <3>1
  <2> QED
    BY <2>2, <2>4, <2>5
<1>6. pc[p] \in {"read_size", "read_packet", "write_result", "read_result", "returned"}
      /\ (pc[p] = "write_result" => p \notin U)
  BY <1>0, <1>4, <1>5 DEF Wrote
<1>7. pc[p] = "returned" => Closed(p)
  BY <1>0, <1>2 DEF Typed, Rest, Agreed, Closed
<1>8. pc[p] \in {"read_size", "read_packet", "write_result"} =>
        pc[p] = "read_size" /\ wire[p] = <<Result("DROP_CONNECTION")>>
  <2> SUFFICES ASSUME pc[p] \in {"read_size", "read_packet", "write_result"}
               PROVE  pc[p] = "read_size" /\ wire[p] = <<Result("DROP_CONNECTION")>>
    OBVIOUS
  <2>1. Even(U, p)
    BY <1>0, <1>2 DEF Link, Skewed, Ahead, Behind, Typed
  <2>2. PICK y \in Streams(s), n \in 0 .. 3 :
          /\ Wrote(U, s, y) /\ HasRead(U, p, n) /\ n <= Len(y) /\ (n = 2 => Len(y) > 2)
          /\ wire[p] = Left(y, n)
    BY <1>0, <2>1 DEF Even
  <2>3. y = Short
    BY <1>1, <2>2 DEF Wrote
  <2>4. Len(y) = 2
    BY <1>0, <2>3, StreamWords DEF Told
  <2>5. n # 2 /\ n # 3
    BY <2>2, <2>4
  <2>6. n = 1 /\ pc[p] = "read_size"
    BY <1>6, <2>2, <2>5 DEF HasRead
  <2> QED
    BY <2>2, <2>3, <2>6, LastOfTwo
<1>9. Linked(U)'
  BY <1>1, <1>2, <1>3, LastWords
<1>10. Rest'
  <2>1. mine'[s] # "SUCCESS" /\ outcome'[s] # "SUCCESS" /\ mine'[s] = mine[s]
    BY <1>1, <1>2, <1>3
  <2> QED
    BY <1>1, <1>2, <1>3, <1>6, <1>7, <1>8, <2>1, Closes
<1> QED
  BY <1>9, <1>10 DEF Inv

\* The result read is the one the peer has written in this round.
LEMMA Hears ==
  ASSUME NEW s \in Sides, NEW U \in SUBSET Sides, Typed, Typed', Rest, Linked(U),
         share_result(s), Even(U, s), s \notin U
  PROVE  Inv'
<1> DEFINE p == Peer(s)
<1>0. p \in Sides /\ Peer(p) = s /\ p # s /\ Peer(s) = p
  BY Pair
<1>1. /\ pc[s] = "read_result" /\ wire'[s] = Tail(wire[s]) /\ wire'[p] = wire[p]
      /\ hdata' = hdata /\ mine' = mine /\ late' = late /\ wire[s] # <<>>
      /\ late \in Nat /\ mine[p] \in Checks /\ mine[s] \in Checks
  BY <1>0, Takes DEF share_result, Arrived, Typed
<1>2. /\ Link(U, p) /\ Mute(U) /\ round[s] = round[p] /\ round[s] \in 1 .. MAX_NUM_TIMEOUTS
  BY <1>0 DEF Linked, Even, Typed
<1>3. PICK q \in Streams(p), k \in 0 .. 3 :
        /\ Wrote(U, p, q) /\ HasRead(U, s, k) /\ k <= Len(q) /\ (k = 2 => Len(q) > 2)
        /\ wire[s] = Left(q, k)
        /\ wire[s] = <<>> <=> k = Len(q)
        /\ k < Len(q) => Head(wire[s]) = q[k + 1] /\ Tail(wire[s]) = Left(q, k + 1)
  BY NextEven
<1>4. /\ q = Full(p, Say(p)) /\ Say(p) \in Told /\ p \notin U
      /\ pc[p] \in {"read_result", "returned"}
      /\ Head(wire[s]) = Result(Say(p)) /\ wire'[s] = <<>> /\ Len(q) >= 3
      /\ Len(q) = 4
  <2>1. k = 3 /\ Len(q) \in 0 .. 4
    BY <1>0, <1>1, <1>3, StreamProps DEF HasRead
  <2> DEFINE n == Len(q)
  <2>2. n \in 0 .. 4 /\ 3 <= n /\ n # 3
    BY <1>1, <1>3, <2>1
  <2> HIDE DEF n
  <2>3. n = 4 /\ 3 < n /\ n >= 3
    BY <2>2
  <2>4. Len(q) = 4 /\ 3 < Len(q) /\ Len(q) >= 3
    BY <2>3 DEF n
  <2>5. p \notin U /\ q = Full(p, Say(p)) /\ pc[p] \in {"read_result", "returned"}
    BY <1>0, <1>2, <1>3, <2>4, SignersSign
  <2>6. Say(p) \in Told
    BY DEF Say, Told
  <2>7. Head(wire[s]) = q[4] /\ Tail(wire[s]) = Left(q, 4)
    BY <1>3, <2>1, <2>4
  <2>8. q[4] = Result(Say(p)) /\ Left(q, 4) = <<>>
    BY <1>0, <2>5, <2>6, StreamWords, LastOfFour
  <2> QED
    BY <1>1, <2>4, <2>5, <2>6, <2>7, <2>8
<1>5. PICK w : w = IF Say(p) = "DROP_CONNECTION" THEN "CONNECTION_REFUSED" ELSE mine[p]
  OBVIOUS
<1>6. PICK r : r = IF mine[s] = "SUCCESS" THEN w ELSE mine[s]
  OBVIOUS
<1>7. /\ Steps(s)
      /\ \/ /\ r = "AGAIN" /\ round[s] < MAX_NUM_TIMEOUTS
            /\ round'[s] = round[s] + 1 /\ pc'[s] = "write_sig" /\ outcome'[s] = outcome[s]
         \/ /\ r = "AGAIN" => ~(round[s] < MAX_NUM_TIMEOUTS)
            /\ round'[s] = round[s] /\ pc'[s] = "returned"
            /\ outcome'[s] = IF r = "AGAIN" THEN "ABORT" ELSE r
  <2>1. Result(Say(p)).t = "result" /\ Result(Say(p)).v = Say(p)
    BY <1>0, <1>4, WordFields
  <2>2. Value(s) = Say(p)
    BY <1>4, <2>1 DEF Value
  <2>3. (IF Value(s) \in {"SUCCESS", "AGAIN"} THEN Value(s) ELSE "CONNECTION_REFUSED") = w
    BY <1>4, <1>5, <2>2 DEF Say, Told
  <2>4. Shared(s, w)
    BY <2>3 DEF share_result
  <2> QED
    BY <1>1, <1>6, <2>4, SharedReturns
<1>8. /\ w \in {"SUCCESS", "AGAIN", "CONNECTION_REFUSED"}
      /\ w = "SUCCESS" <=> mine[p] = "SUCCESS"
      /\ w = "AGAIN" <=> mine[p] = "AGAIN"
  BY <1>5 DEF Say
\* The peer has returned success only if this side's own checks succeeded.
<1>9. /\ outcome[p] = "SUCCESS" => mine[p] = "SUCCESS" /\ mine[s] = "SUCCESS"
      /\ pc[p] = "returned" => (Closed(p) \/ outcome[p] = "SUCCESS")
  BY <1>0 DEF Rest, Agreed, Typed, Closed
<1>10. CASE r = "SUCCESS"
  <2>1. mine[s] = "SUCCESS" /\ mine[p] = "SUCCESS"
    BY <1>6, <1>8, <1>10
  <2>2. round'[s] = round[s] /\ pc'[s] = "returned" /\ outcome'[s] = "SUCCESS"
    BY <1>7, <1>10
  <2>3. \A y \in Streams(s) : Wrote(U, s, y) => Wrote(U, s, y)'
    <3> SUFFICES ASSUME NEW y \in Streams(s), Wrote(U, s, y) PROVE Wrote(U, s, y)'
      OBVIOUS
    <3>1. y = Full(s, "SUCCESS")
      BY <1>1, <2>1 DEF Wrote, Say
    <3>2. Full(s, "SUCCESS")' = Full(s, "SUCCESS")
      BY <1>1, SameWords
    <3>3. ~Closed(s)' /\ Say(s)' = "SUCCESS"
      BY <1>1, <2>1, <2>2 DEF Closed, Say
    <3> QED
      BY <2>2, <3>1, <3>2, <3>3 DEF Wrote
  <2>4. ~Behind(U, p)
    BY <1>0, <1>2 DEF Behind, Typed
  <2>5. Link(U, p)'
    BY <1>1, <1>2, <1>7, <2>2, <2>3, <2>4, PeerUnheard
  <2>6. Link(U, s)'
    BY <2>2 DEF Link
  <2>7. Linked(U)'
    BY <1>7, <2>5, <2>6, StillLinked
  <2>8. pc[p] = "read_result" => wire[p] = <<Result("SUCCESS")>>
    <3> SUFFICES ASSUME pc[p] = "read_result" PROVE wire[p] = <<Result("SUCCESS")>>
      OBVIOUS
    <3>1. Even(U, p)
      BY <1>0, <1>2 DEF Link, Skewed, Ahead, Behind, Typed
    <3>2. PICK y \in Streams(s), n \in 0 .. 3 :
            Wrote(U, s, y) /\ HasRead(U, p, n) /\ wire[p] = Left(y, n)
      BY <1>0, <3>1 DEF Even
    <3>3. y = Full(s, "SUCCESS") /\ n = 3
      BY <1>1, <1>4, <2>1, <3>2 DEF Wrote, HasRead, Say
    <3> QED
      BY <3>2, <3>3, LastOfFour DEF Told
  <2>9. Rest'
    BY <1>1, <1>2, <1>4, <1>7, <2>1, <2>2, <2>8, Succeeds
  <2> QED
    BY <2>7, <2>9 DEF Inv
<1>11. CASE r # "SUCCESS" /\ pc'[s] = "returned"
  <2>1. round'[s] = round[s] /\ outcome'[s] # "SUCCESS"
        /\ (r = "AGAIN" => round[s] = MAX_NUM_TIMEOUTS)
    BY <1>2, <1>7, <1>11 DEF MAX_NUM_TIMEOUTS
  <2>2. Linked(U)'
    BY <1>1, <1>7, <1>11, <2>1, LastWords
  <2>3. mine[s] = "SUCCESS" => w # "SUCCESS" /\ r = w
    BY <1>6, <1>11
  <2>4. mine[s] = "SUCCESS" =>
          /\ mine[p] # "SUCCESS"
          /\ mine[p] = "AGAIN" => round[p] = MAX_NUM_TIMEOUTS
    BY <1>2, <1>8, <2>1, <2>3
  <2>5. ~Closed(p) => pc[p] = "read_result" /\ round[p] = round[s]
    BY <1>2, <1>4, <1>9, <2>4
  <2>6. Rest'
    BY <1>1, <1>7, <1>11, <2>1, <2>4, <2>5, Closes
  <2> QED
    BY <2>2, <2>6 DEF Inv
<1>12. CASE r # "SUCCESS" /\ pc'[s] # "returned"
  <2>1. /\ r = "AGAIN" /\ round[s] < MAX_NUM_TIMEOUTS
        /\ round'[s] = round[s] + 1 /\ pc'[s] = "write_sig" /\ outcome'[s] = outcome[s]
    BY <1>7, <1>12
  <2>2. mine[s] = "AGAIN" \/ (mine[s] = "SUCCESS" /\ mine[p] = "AGAIN")
    BY <1>6, <1>8, <2>1
  <2>3. outcome[p] # "SUCCESS"
    BY <1>9, <2>2
  <2>4. Link(U, s)'
    BY <1>2, <1>3, <1>4, <1>7, <2>1, StartsAhead
  <2>5. Link(U, p)'
    <3>1. CASE pc[p] = "returned"
      BY <1>7, <3>1 DEF Link, Steps
    <3>2. CASE pc[p] = "read_result"
      <4>1. Even(U, p)
        BY <1>0, <1>2, <3>2 DEF Link, Skewed, Ahead, Behind, Typed
      <4> QED
        BY <1>1, <1>4, <1>7, <2>1, <2>2, <3>2, <4>1, PeerFallsBehind
    <3> QED
      BY <1>4, <3>1, <3>2
  <2>6. Linked(U)'
    BY <1>2, <1>7, <2>4, <2>5, StillLinked DEF Linked
  <2>7. Rest'
    <3>1. round[s] <= round[p]
      BY <1>2
    <3>2. mine[s] \in {"SUCCESS", "AGAIN"}
      BY <2>2
    <3> QED
      BY <1>1, <1>4, <1>7, <2>1, <2>3, <3>1, <3>2, MovesOn
  <2> QED
    BY <2>6, <2>7 DEF Inv
<1> QED
  BY <1>10, <1>11, <1>12

-----------------------------------------------------------------------------
(* Types *)

Control == /\ pc \in [Sides -> Pcs] /\ outcome \in [Sides -> Outcomes]
           /\ round \in [Sides -> 1 .. MAX_NUM_TIMEOUTS]
           /\ \A s \in Sides : pc[s] = "returned" <=> outcome[s] # "running"

LEMMA ReturnsTyped ==
  ASSUME NEW s \in Sides, Typed, NEW r \in Outcomes \ {"running"}, Returns(s, r),
         pc[s] # "returned"
  PROVE  Control'
<1>1. CASE r = "AGAIN" /\ round[s] < MAX_NUM_TIMEOUTS
  <2>1. /\ round' = [round EXCEPT ![s] = @ + 1]
        /\ pc' = [pc EXCEPT ![s] = "write_sig"]
        /\ outcome' = outcome
    BY <1>1 DEF Returns
  <2>2. round' \in [Sides -> 1 .. MAX_NUM_TIMEOUTS]
    BY <1>1, <2>1, SMTT(30) DEF Typed, MAX_NUM_TIMEOUTS
  <2>3. pc' \in [Sides -> Pcs]
    BY <2>1 DEF Typed, Pcs
  <2> QED
    BY <2>1, <2>2, <2>3 DEF Typed, Control
<1>2. CASE ~(r = "AGAIN" /\ round[s] < MAX_NUM_TIMEOUTS)
  <2>1. /\ outcome' = [outcome EXCEPT ![s] = IF r = "AGAIN" THEN "ABORT" ELSE r]
        /\ pc' = [pc EXCEPT ![s] = "returned"]
        /\ round' = round
    BY <1>2 DEF Returns
  <2> QED
    BY <2>1 DEF Typed, Control, Pcs, Outcomes, Checks
<1> QED
  BY <1>1, <1>2

LEMMA DoneTyped ==
  ASSUME NEW s \in Sides, Typed, NEW r \in Checks, NEW b \in BOOLEAN, Done(s, r, b),
         pc[s] # "returned"
  PROVE  Control' /\ mine' \in [Sides -> Checks]
<1>1. mine' \in [Sides -> Checks]
  BY DEF Done, Typed
<1>2. CASE b
  BY <1>1, <1>2, ReturnsTyped DEF Done, Outcomes, Checks
<1>3. CASE ~b
  BY <1>1, <1>3 DEF Done, Typed, Control, Pcs
<1> QED
  BY <1>2, <1>3

LEMMA SharedTyped ==
  ASSUME NEW s \in Sides, Typed, NEW w \in Outcomes \ {"running"}, Shared(s, w),
         pc[s] # "returned"
  PROVE  Control'
<1>1. PICK r : r = IF mine[s] = "SUCCESS" THEN w ELSE mine[s]
  OBVIOUS
<1>2. mine[s] \in Checks
  BY DEF Typed
<1>3. r \in Outcomes \ {"running"}
  BY <1>1, <1>2 DEF Outcomes, Checks
<1> QED
  BY <1>1, <1>3, ReturnsTyped DEF Shared

Wires == wire \in [Sides -> Seq(Words)]

LEMMA WiresTyped ==
  ASSUME NEW s \in Sides, Typed, hdata' = hdata,
         \/ wire' = wire
         \/ wire[s] # <<>> /\ Take(s)
         \/ \E w \in Words : Sent(s, w)
         \/ send_packet(s)
  PROVE  Wires'
<1>1. Words' = Words /\ wire \in [Sides -> Seq(Words)] /\ Peer(s) \in Sides
  BY SameWords, Pair DEF Typed
<1>2. CASE wire' = wire
  BY <1>1, <1>2 DEF Wires
<1>3. CASE wire[s] # <<>> /\ Take(s)
  <2>1. Tail(wire[s]) \in Seq(Words)
    BY <1>1, <1>3, HeadTailProperties
  <2>2. wire' = [wire EXCEPT ![s] = Tail(wire[s])]
    BY <1>3 DEF Take
  <2>3. wire' \in [Sides -> Seq(Words)]
    BY <1>1, <2>1, <2>2
  <2> QED
    BY <1>1, <2>3 DEF Wires
<1>4. CASE \E w \in Words : Sent(s, w)
  <2>1. PICK w \in Words : Sent(s, w)
    BY <1>4
  <2>2. Append(wire[Peer(s)], w) \in Seq(Words)
    BY <1>1, AppendProperties
  <2>3. wire' = [wire EXCEPT ![Peer(s)] = IF Closed(Peer(s)) THEN wire[Peer(s)]
                                          ELSE Append(wire[Peer(s)], w)]
    BY <2>1 DEF Sent
  <2>4. wire' \in [Sides -> Seq(Words)]
    BY <1>1, <2>2, <2>3
  <2> QED
    BY <1>1, <2>4 DEF Wires
<1>5. CASE send_packet(s)
  <2>1. PICK e \in encrypt_packet(s) :
          /\ e[1] = "SUCCESS"
          /\ wire' = [wire EXCEPT ![Peer(s)] = IF Closed(Peer(s)) THEN @
                                               ELSE @ \o <<Word("size", e[2].how), e[2]>>]
    BY <1>5 DEF send_packet
  <2>2. e[2] = Packet(s) /\ Word("size", e[2].how) = Size(s)
    BY <2>1, Encrypts DEF Size
  <2> DEFINE d == <<Size(s), Packet(s)>>
  <2>3. d \in Seq(Words)
    BY StreamWords DEF Told
  <2>4. wire' = [wire EXCEPT ![Peer(s)] = IF Closed(Peer(s)) THEN wire[Peer(s)]
                                          ELSE wire[Peer(s)] \o d]
    BY <2>1, <2>2
  <2> HIDE DEF d
  <2>5. wire[Peer(s)] \o d \in Seq(Words)
    BY <1>1, <2>3, ConcatProperties
  <2>6. wire' \in [Sides -> Seq(Words)]
    BY <1>1, <2>4, <2>5
  <2> QED
    BY <1>1, <2>6 DEF Wires
<1> QED
  BY <1>2, <1>3, <1>4, <1>5

LEMMA FailTyped ==
  ASSUME NEW s \in Sides, Typed, Fail(s)
  PROVE  Control' /\ mine' \in [Sides -> Checks]
<1>1. CASE pc[s] \in {"read_sig", "read_size", "read_packet"} /\ Done(s, "INTERNAL_ERROR", TRUE)
  BY <1>1, DoneTyped DEF Checks
<1>2. CASE pc[s] = "read_result" /\ Shared(s, "INTERNAL_ERROR") /\ mine' = mine
  BY <1>2, SharedTyped DEF Outcomes, Checks, Typed
<1> QED
  BY <1>1, <1>2 DEF Fail

LEMMA StepTyped ==
  ASSUME NEW s \in Sides, Typed, handshake_main(s) \/ read_timeout(s)
  PROVE  Typed'
<1>1. hdata' = hdata /\ late' \in Nat
  <2>1. CASE handshake_main(s)
    <3>1. hdata' = hdata /\ late' = late
      BY <2>1 DEF handshake_main, write_sig, read_sig, send_packet, recv_size, recv_packet,
         write_result, share_result, read_eof, write_fails
    <3> QED
      BY <3>1 DEF Typed
  <2>2. CASE read_timeout(s)
    BY <2>2 DEF read_timeout, Typed
  <2> QED
    BY <2>1, <2>2
<1> SUFFICES Control' /\ Wires' /\ mine' \in [Sides -> Checks]
  BY <1>1 DEF Control, Wires, Typed
<1>2. CASE write_sig(s)
  <2>1. Control' /\ mine' \in [Sides -> Checks]
    BY <1>2 DEF write_sig, Control, Typed, Pcs
  <2>2. Sig \in Words /\ Sent(s, Sig)
    BY <1>2 DEF write_sig, Sig, Words
  <2> QED
    BY <1>1, <2>1, <2>2, WiresTyped
<1>3. CASE read_sig(s)
  <2>1. Wires'
    BY <1>1, <1>3, WiresTyped DEF read_sig, Arrived
  <2>2. CASE Done(s, "DROP_CONNECTION", TRUE)
    BY <1>3, <2>1, <2>2, DoneTyped DEF read_sig, Checks
  <2>3. CASE Head(wire[s]).t = "sig"
    <3>1. PICK e \in encrypt_packet(s) :
            IF e[1] # "SUCCESS"
            THEN Done(s, e[1], FALSE)
            ELSE /\ pc' = [pc EXCEPT ![s] = "send_packet"]
                 /\ UNCHANGED <<mine, round, outcome>>
      BY <1>3, <2>3 DEF read_sig
    <3>2. CASE e[1] # "SUCCESS"
      <4>1. e[1] \in Checks /\ Done(s, e[1], FALSE) /\ pc[s] # "returned"
        BY <1>3, <3>1, <3>2, Encrypts DEF Checks, read_sig
      <4> QED
        BY <2>1, <4>1, DoneTyped
    <3>3. CASE e[1] = "SUCCESS"
      BY <1>3, <2>1, <3>1, <3>3 DEF Control, Typed, Pcs, read_sig
    <3> QED
      BY <3>2, <3>3
  <2> QED
    BY <1>3, <2>2, <2>3 DEF read_sig
<1>4. CASE send_packet(s)
  <2>1. Control' /\ mine' \in [Sides -> Checks]
    BY <1>4 DEF send_packet, Control, Typed, Pcs
  <2> QED
    BY <1>1, <1>4, <2>1, WiresTyped
<1>5. CASE recv_size(s)
  <2>1. Wires' /\ pc[s] = "read_size"
    BY <1>1, <1>5, WiresTyped DEF recv_size, Arrived
  <2>2. CASE pc' = [pc EXCEPT ![s] = "read_packet"] /\ UNCHANGED <<mine, round, outcome>>
    BY <2>1, <2>2 DEF Control, Typed, Pcs
  <2>3. CASE \E r \in decrypt_packet(s, NoBytes) : Done(s, r, FALSE)
    BY <2>1, <2>3, Decrypts, DoneTyped
  <2>4. CASE Done(s, "DROP_CONNECTION", TRUE)
    BY <2>1, <2>4, DoneTyped DEF Checks
  <2> QED
    BY <1>5, <2>2, <2>3, <2>4 DEF recv_size
<1>6. CASE recv_packet(s)
  <2>1. Wires' /\ pc[s] = "read_packet"
    BY <1>1, <1>6, WiresTyped DEF recv_packet, Arrived
  <2>2. PICK r \in decrypt_packet(s, Head(wire[s])) : Done(s, r, FALSE)
    BY <1>6 DEF recv_packet
  <2> QED
    BY <2>1, <2>2, Decrypts, DoneTyped
<1>7. CASE write_result(s)
  <2>1. Control' /\ mine' \in [Sides -> Checks]
    BY <1>7 DEF write_result, Control, Typed, Pcs
  <2>2. Result(Say(s)) \in Words /\ Sent(s, Result(Say(s)))
    BY <1>7 DEF write_result, Result, Say, Words, Told
  <2> QED
    BY <1>1, <2>1, <2>2, WiresTyped
<1>8. CASE share_result(s)
  <2>1. Wires' /\ pc[s] = "read_result" /\ mine' = mine
    BY <1>1, <1>8, WiresTyped DEF share_result, Arrived
  <2>2. PICK w \in Outcomes \ {"running"} : Shared(s, w)
    <3>1. \A v : (IF v \in {"SUCCESS", "AGAIN"} THEN v ELSE "CONNECTION_REFUSED")
                   \in Outcomes \ {"running"}
      BY DEF Outcomes, Checks
    <3> QED
      BY <1>8, <3>1 DEF share_result
  <2> QED
    BY <2>1, <2>2, SharedTyped DEF Typed
<1>9. CASE read_eof(s)
  BY <1>1, <1>9, FailTyped, WiresTyped DEF read_eof
<1>10. CASE write_fails(s)
  <2>1. Wires'
    BY <1>1, <1>10, WiresTyped DEF write_fails
  <2>2. CASE pc[s] \in {"write_sig", "send_packet"} /\ Done(s, "INTERNAL_ERROR", TRUE)
    BY <2>1, <2>2, DoneTyped DEF Checks
  <2>3. CASE pc[s] = "write_result" /\ Shared(s, "INTERNAL_ERROR") /\ mine' = mine
    BY <2>1, <2>3, SharedTyped DEF Outcomes, Checks, Typed
  <2> QED
    BY <1>10, <2>2, <2>3 DEF write_fails
<1>11. CASE read_timeout(s)
  BY <1>1, <1>11, FailTyped, WiresTyped DEF read_timeout
<1> QED
  BY <1>2, <1>3, <1>4, <1>5, <1>6, <1>7, <1>8, <1>9, <1>10, <1>11 DEF handshake_main

-----------------------------------------------------------------------------
(* The theorems *)

LEMMA FailStep ==
  ASSUME NEW s \in Sides, NEW U \in SUBSET Sides, Typed, Typed', Rest, Linked(U),
         Fail(s), ~Arrived(s), hdata' = hdata, wire' = wire,
         late' \in {late, late + 1}, late' > 0 \/ Closed(Peer(s))
  PROVE  Inv'
<1>1. CASE pc[s] \in {"read_sig", "read_size", "read_packet"} /\ Done(s, "INTERNAL_ERROR", TRUE)
  BY <1>1, FailsEarly
<1>2. CASE pc[s] = "read_result" /\ Shared(s, "INTERNAL_ERROR") /\ mine' = mine
  BY <1>2, GivesUp DEF Arrived
<1> QED
  BY <1>1, <1>2 DEF Fail

LEMMA StepKeeps ==
  ASSUME NEW s \in Sides, Inv, handshake_main(s) \/ read_timeout(s)
  PROVE  Inv'
<1>1. Typed /\ Rest /\ Typed'
  BY StepTyped DEF Inv
<1>2. PICK U \in SUBSET Sides : Linked(U)
  BY DEF Inv
<1>3. late \in Nat
  BY <1>1 DEF Typed
<1>4. CASE write_sig(s)
  BY <1>1, <1>2, <1>4, WritesSig
<1>5. CASE read_sig(s)
  BY <1>1, <1>2, <1>5, ReadsSig
<1>6. CASE send_packet(s)
  BY <1>1, <1>2, <1>6, SendsPacket
<1>7. CASE recv_size(s)
  BY <1>1, <1>2, <1>7, RecvsSize
<1>8. CASE recv_packet(s)
  BY <1>1, <1>2, <1>8, RecvsPacket
<1>9. CASE write_result(s)
  BY <1>1, <1>2, <1>9, WritesResult
<1>10. CASE share_result(s)
  <2>1. Even(U, s) \/ Behind(U, s)
    BY <1>2, <1>10 DEF share_result, Linked, Link, Skewed, Ahead
  <2> QED
    BY <1>1, <1>2, <1>10, <2>1, Hears, Misreads, CatchesUp
<1>11. CASE read_eof(s)
  BY <1>1, <1>2, <1>11, FailStep DEF read_eof
<1>12. CASE read_timeout(s)
  <2>1. late' > 0 /\ late' \in {late, late + 1}
    BY <1>3, <1>12 DEF read_timeout
  <2> QED
    BY <1>1, <1>2, <1>12, <2>1, FailStep DEF read_timeout
<1>13. CASE write_fails(s)
  <2>1. Closed(Peer(s)) /\ hdata' = hdata /\ wire' = wire /\ late' = late
    BY <1>13 DEF write_fails
  <2>2. CASE pc[s] \in {"write_sig", "send_packet"} /\ Done(s, "INTERNAL_ERROR", TRUE)
    BY <1>1, <1>2, <2>1, <2>2, FailsEarly
  <2>3. CASE pc[s] = "write_result" /\ Shared(s, "INTERNAL_ERROR") /\ mine' = mine
    BY <1>1, <1>2, <2>1, <2>3, GivesUp
  <2> QED
    BY <1>13, <2>2, <2>3 DEF write_fails
<1> QED
  BY <1>4, <1>5, <1>6, <1>7, <1>8, <1>9, <1>10, <1>11, <1>12, <1>13 DEF handshake_main

LEMMA Starts == Init => Inv
<1> SUFFICES ASSUME Init PROVE Inv
  OBVIOUS
<1>1. /\ \A s \in Sides : /\ pc[s] = "write_sig" /\ wire[s] = <<>> /\ round[s] = 1
                          /\ outcome[s] = "running" /\ mine[s] = "SUCCESS"
      /\ late = 0
  BY DEF Init
<1>2. Typed
  <2>1. wire \in [Sides -> Seq(Words)]
    BY EmptySeq DEF Init
  <2> QED
    BY <1>1, <2>1 DEF Init, Typed, Pcs, Checks, Outcomes, MAX_NUM_TIMEOUTS
<1>3. Vetted /\ Agreed /\ Settled /\ Alone
  BY <1>1, Pair DEF Vetted, Agreed, Settled, Alone, Closed
<1>4. Together
  BY <1>1, Pair DEF Together
<1> DEFINE U == {}
<1>5. \A s \in Sides : Even(U, s)
  <2> SUFFICES ASSUME NEW s \in Sides PROVE Even(U, s)
    OBVIOUS
  <2>1. Peer(s) \in Sides
    BY Pair
  <2>2. PICK q : q = <<>>
    OBVIOUS
  <2>3. q \in Streams(Peer(s)) /\ Wrote(U, Peer(s), q) /\ q \in Seq(Words) /\ Len(q) = 0
    BY <1>1, <2>1, <2>2, EmptySeq DEF Streams, Wrote
  <2>4. PICK k \in 0 .. 3 : k = 0
    OBVIOUS
  <2>5. HasRead(U, s, k) /\ wire[s] = Left(q, k) /\ k <= Len(q) /\ k # 2
    <3>1. Left(q, 0) = q
      BY <2>3, LeftAll
    <3>2. HasRead(U, s, k)
      BY <1>1, <2>4 DEF HasRead
    <3> QED
      BY <1>1, <2>2, <2>3, <2>4, <3>1, <3>2
  <2> QED
    BY <1>1, <2>1, <2>3, <2>5 DEF Even
<1>6. Linked(U)
  BY <1>5 DEF Linked, Mute, Link
<1> QED
  BY <1>2, <1>3, <1>4, <1>6 DEF Inv, Rest

LEMMA Unchanged ==
  ASSUME hdata' = hdata, pc' = pc, wire' = wire, mine' = mine, round' = round,
         outcome' = outcome, late' = late, Inv
  PROVE  Inv'
<1>1. Words' = Words /\ \A s \in Sides : Streams(s)' = Streams(s) /\ (\A v : Full(s, v)' = Full(s, v))
  <2>1. "client" \in Sides
    BY DEF Sides
  <2>2. Words' = Words
    BY <2>1, SameWords
  <2>3. \A s \in Sides : Streams(s)' = Streams(s) /\ (\A v : Full(s, v)' = Full(s, v))
    BY SameWords
  <2> QED
    BY <2>2, <2>3
<1>2. Typed'
  BY <1>1 DEF Inv, Typed
<1>3. Compatible' = Compatible /\ Result("SUCCESS")' = Result("SUCCESS")
      /\ Result("DROP_CONNECTION")' = Result("DROP_CONNECTION")
  BY DEF Compatible, Result, Word
<1>4. Rest'
  <2>1. Vetted' /\ Agreed'
    BY <1>3 DEF Inv, Rest, Vetted, Agreed
  <2>2. Settled' /\ Alone' /\ Together'
    BY <1>3 DEF Inv, Rest, Settled, Alone, Together, Closed
  <2> QED
    BY <2>1, <2>2 DEF Rest
<1>5. PICK U \in SUBSET Sides : Linked(U)
  BY DEF Inv
<1>6. \A s \in Sides : \A q : Wrote(U, s, q) <=> Wrote(U, s, q)'
  BY SameWrote
<1>7. \A s : \A k : HasRead(U, s, k) <=> HasRead(U, s, k)'
  BY DEF HasRead
<1>8. ASSUME NEW s \in Sides PROVE Link(U, s)'
  <2>1. Peer(s) \in Sides
    BY Pair
  <2>2. CASE pc[s] = "returned"
    BY <2>2 DEF Link
  <2>3. CASE Even(U, s)
    BY <1>1, <1>6, <1>7, <2>1, <2>3 DEF Link, Even, Left
  <2>4. CASE Skewed(U, s)
    BY <1>1, <1>6, <2>1, <2>4 DEF Link, Skewed, Result, Word
  <2>5. CASE Ahead(U, s)
    BY <1>1, <1>6, <2>1, <2>5 DEF Link, Ahead, Left
  <2>6. CASE Behind(U, s)
    <3>1. PICK x \in {"SUCCESS", "AGAIN"}, q \in {<<>>, <<Sig>>}, k \in 0 .. 3 :
            /\ HasRead(U, s, k)
            /\ wire[s] = Left(Full(Peer(s), x), k) \o q
            /\ x = "SUCCESS" => pc[s] = "read_result" /\ mine[s] = "AGAIN"
            /\ pc[Peer(s)] = "write_sig" => q = <<>>
            /\ pc[Peer(s)] = "read_sig" => q = <<Sig>>
            /\ pc[Peer(s)] \in {"write_sig", "read_sig", "returned"}
      BY <2>6 DEF Behind
    <3>2. Left(Full(Peer(s), x), k)' = Left(Full(Peer(s), x), k) /\ Sig' = Sig
      BY <1>1, <2>1 DEF Left, Sig, Word
    <3>3. Behind(U, s)'
      BY <1>7, <2>6, <3>1, <3>2 DEF Behind
    <3> QED
      BY <3>3 DEF Link
  <2> QED
    BY <1>5, <2>2, <2>3, <2>4, <2>5, <2>6 DEF Linked, Link
<1>9. Mute(U)'
  BY <1>5 DEF Linked, Mute, Unable
<1> QED
  BY <1>2, <1>4, <1>8, <1>9 DEF Inv, Linked

\* Whatever is read, late or misread: the words on their way are what is left
\* of what the peer has written.
THEOREM Invariance == Spec => []Inv
<1>1. Inv /\ [Next]_vars => Inv'
  <2> SUFFICES ASSUME Inv, [Next]_vars PROVE Inv'
    OBVIOUS
  <2>1. CASE \E s \in Sides : handshake_main(s) \/ read_timeout(s)
    BY <2>1, StepKeeps
  <2>2. CASE UNCHANGED vars
    <3>1. /\ hdata' = hdata /\ pc' = pc /\ wire' = wire /\ mine' = mine /\ heard' = heard
          /\ round' = round /\ outcome' = outcome /\ late' = late
      BY <2>2 DEF vars
    <3> QED
      BY <3>1, Unchanged
  <2> QED
    BY <2>1, <2>2 DEF Next
<1> QED
  BY <1>1, Starts, PTL DEF Spec

\* A side returns success only if each side's own checks of the other succeeded
\* in the same round; with no timeout both do or neither does.
THEOREM SuccessIsMutual == Spec => []MutualSuccess
<1>1. Inv => MutualSuccess
  <2> SUFFICES ASSUME Inv PROVE MutualSuccess
    OBVIOUS
  <2>1. Typed /\ Agreed /\ Settled
    BY DEF Inv, Rest
  <2>2. \A s \in Sides : outcome[s] = "SUCCESS" =>
          Compatible /\ mine[Peer(s)] = "SUCCESS" /\ round[Peer(s)] = round[s]
    BY <2>1 DEF Agreed
  <2>3. ASSUME late = 0, Returned, NEW s \in Sides, outcome[s] = "SUCCESS"
        PROVE  outcome[Peer(s)] = "SUCCESS"
    <3>1. Peer(s) \in Sides /\ Peer(Peer(s)) = s
      BY Pair
    <3>2. pc[s] = "returned" /\ pc[Peer(s)] = "returned" /\ ~Closed(s)
      BY <2>3, <3>1 DEF Returned, Closed
    <3>3. mine[Peer(s)] = "SUCCESS"
      BY <2>2, <2>3
    <3>4. ~Closed(Peer(s))
      BY <2>1, <2>3, <3>1, <3>2, <3>3 DEF Settled
    <3> QED
      BY <2>1, <3>1, <3>2, <3>4 DEF Closed, Typed
  <2>4. /\ "client" \in Sides /\ Peer("client") = "server"
        /\ "server" \in Sides /\ Peer("server") = "client"
    BY DEF Sides, Peer
  <2>5. late = 0 /\ Returned => (outcome["client"] = "SUCCESS" <=> outcome["server"] = "SUCCESS")
    BY <2>3, <2>4
  <2> QED
    BY <2>2, <2>5 DEF MutualSuccess
<1> QED
  BY <1>1, Invariance, PTL

\* As long as no read times out, the two sides are in the same round but for the
\* way into the next, and a word is read for what it is.
THEOREM RoundsInStep == Spec => []InStep
<1>1. Inv => InStep
  <2> SUFFICES ASSUME Inv, late = 0, NEW s \in Sides
               PROVE  /\ round[s] <= round[Peer(s)] + 1 /\ round[s] <= MAX_NUM_TIMEOUTS
                      /\ round[s] > round[Peer(s)] => pc[Peer(s)] \in {"read_result", "returned"}
                      /\ Arrived(s) =>
                           /\ pc[s] = "read_sig" => Head(wire[s]).t = "sig"
                           /\ pc[s] = "read_size" => Head(wire[s]).t = "size" \/ mine[Peer(s)] # "SUCCESS"
                           /\ pc[s] = "read_packet" => Head(wire[s]).t = "body"
                           /\ pc[s] = "read_result" => Head(wire[s]).t = "result" \/ mine[s] # "SUCCESS"
    BY DEF InStep
  <2> DEFINE p == Peer(s)
  <2>1. Typed /\ Rest /\ p \in Sides
    BY Pair DEF Inv
  <2>2. PICK U \in SUBSET Sides : Linked(U)
    BY DEF Inv
  <2>3. /\ round[s] <= round[p] + 1
        /\ round[s] > round[p] => pc[p] \in {"read_result", "returned"}
    BY <2>1 DEF Rest, Together
  <2>4. round[s] <= MAX_NUM_TIMEOUTS
    BY <2>1 DEF Typed
  <2>5. ASSUME Arrived(s), pc[s] \in {"read_sig", "read_size", "read_packet"}
        PROVE  /\ pc[s] = "read_sig" => Head(wire[s]).t = "sig"
               /\ pc[s] = "read_size" => Head(wire[s]).t = "size" \/ mine[p] # "SUCCESS"
               /\ pc[s] = "read_packet" => Head(wire[s]).t = "body"
    <3>1. wire[s] # <<>> /\ ~Skewed(U, s) /\ ~Ahead(U, s)
      BY <2>1, <2>5, NextStale DEF Arrived
    <3>2. Even(U, s)
      BY <2>2, <2>5, <3>1 DEF Linked, Link, Behind
    <3>3. Wrote(U, p, Short) => mine[p] # "SUCCESS"
      <4>1. Short # <<>> /\ Short # <<Sig>> /\ Short # Signed(p) /\ Short # Full(p, Say(p))
        BY <2>1, ShortDiffers
      <4>2. Wrote(U, p, Short) => p \in U
        BY <4>1 DEF Wrote
      <4> QED
        BY <2>2, <4>2 DEF Linked, Mute, Unable
    <3> QED
      BY <2>1, <3>1, <3>2, <3>3, EvenHead, WordFields DEF Told
  <2>6. ASSUME Arrived(s), pc[s] = "read_result", mine[s] = "SUCCESS"
        PROVE  Head(wire[s]).t = "result"
    <3>1. s \notin U /\ wire[s] # <<>> /\ Mute(U)
      BY <2>2, <2>6 DEF Linked, Mute, Unable, Arrived
    <3>2. Even(U, s) \/ Behind(U, s)
      BY <2>2, <2>6 DEF Linked, Link, Skewed, Ahead
    <3>3. CASE Even(U, s)
      <4>1. PICK q \in Streams(p), k \in 0 .. 3 :
              /\ Wrote(U, p, q) /\ HasRead(U, s, k) /\ k <= Len(q) /\ (k = 2 => Len(q) > 2)
              /\ wire[s] = Left(q, k)
              /\ wire[s] = <<>> <=> k = Len(q)
              /\ k < Len(q) => Head(wire[s]) = q[k + 1] /\ Tail(wire[s]) = Left(q, k + 1)
        BY <3>3, NextEven
      <4>2. k = 3 /\ Len(q) \in 0 .. 4
        BY <2>1, <2>6, <3>1, <4>1, StreamProps DEF HasRead
      <4> DEFINE n == Len(q)
      <4>3. n \in 0 .. 4 /\ 3 <= n /\ n # 3
        BY <3>1, <4>1, <4>2
      <4> HIDE DEF n
      <4>4. n = 4 /\ 3 < n
        BY <4>3
      <4>5. Len(q) = 4 /\ 3 < Len(q)
        BY <4>4 DEF n
      <4>6. PICK v \in Told : q = Full(p, v)
        BY <2>1, <4>5, StreamProps
      <4>7. q[4] = Result(v)
        BY <2>1, <4>6, StreamWords
      <4>8. Head(wire[s]) = q[4]
        BY <4>1, <4>2, <4>5
      <4> QED
        BY <2>1, <4>7, <4>8, WordFields
    <3>4. CASE Behind(U, s)
      <4>1. PICK x \in {"SUCCESS", "AGAIN"}, q \in {<<>>, <<Sig>>}, k \in 0 .. 3 :
              LastRound(U, s, x, q, k)
        BY <3>4, NextBehind
      <4>2. k = 3 /\ x \in Told
        BY <2>6, <3>1, <4>1 DEF LastRound, HasRead, Told
      <4>3. Head(wire[s]) = Full(p, x)[4]
        BY <4>1, <4>2 DEF LastRound
      <4>4. Full(p, x)[4] = Result(x)
        BY <2>1, <4>2, StreamWords
      <4> QED
        BY <2>1, <4>2, <4>3, <4>4, WordFields
    <3> QED
      BY <3>2, <3>3, <3>4
  <2> QED
    BY <2>3, <2>4, <2>5, <2>6
<1> QED
  BY <1>1, Invariance, PTL
=============================================================================
