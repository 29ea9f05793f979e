---------------------------- MODULE SessionClient ---------------------------
(***************************************************************************)
(* The client of Session: what its writes and reads do to the invariant,   *)
(* and its steps up to the end of a query and the last block of an INSERT. *)
(***************************************************************************)
EXTENDS SessionServer

-----------------------------------------------------------------------------
(* Types: what the client owns, and the streams.                           *)

Scalars ==
    /\ options \in Options
    /\ state \in {"Idle", "Selecting", "Inserting"}
    /\ events \in Tag /\ req \in Tag
    /\ call \in {"idle", "NextBlock", "drain", "EndInsert"} \cup Preparing \cup Inserts
    /\ goal \in {"Client", "Ping", "EndInsert", "~Client"} \cup Selects \cup Inserts
    /\ sent \in Nat /\ due \in Nat /\ pings \in Nat /\ cancels \in Nat
    /\ cut \in BOOLEAN
    /\ mustReset \in BOOLEAN
    /\ call \in {"NextBlock", "drain"} => state = "Selecting"
    /\ call \in Inserts \cup {"EndInsert"} => state = "Inserting"

Flows ==
    /\ out \in Seq(ToServerPacket) /\ c2s \in Seq(ToServerPacket)
    /\ s2c \in Seq(ToClientPacket)
    /\ srv \in [st : ServerStates, q : Tag]
    /\ produced \in Nat /\ taken \in Nat

\* The members of a sequence.
LEMMA Elements ==
    ASSUME NEW S, NEW c \in Seq(S)
    PROVE  Range(c) \subseteq S
BY DEF Range

\* The types are those of the client and those of the connection.
LEMMA TypesParts == Types <=> Scalars /\ Flows /\ mixed \in BOOLEAN
<1>1. Flows => Range(out) \cup Range(c2s) \subseteq [m : ToServer, q : Tag]
               /\ Range(s2c) \subseteq [m : ToClient, q : Tag]
  BY Elements, Zenon DEF Flows, ToServerPacket, ToClientPacket
<1>2. Types => Scalars /\ Flows /\ mixed \in BOOLEAN
  BY Zenon DEF Types, TypeOK, Scalars, Flows, Preparing, Pinging
<1>3. Scalars /\ Flows /\ mixed \in BOOLEAN => Types
  BY <1>1, Zenon DEF Types, TypeOK, Scalars, Flows, Preparing, Pinging
<1> QED BY <1>2, <1>3, Zenon

\* The same after a step.
LEMMA TypesPartsNext == Scalars' /\ Flows' /\ mixed' = FALSE => Types'
<1>1. Flows' => Range(out') \cup Range(c2s') \subseteq [m : ToServer, q : Tag]
                /\ Range(s2c') \subseteq [m : ToClient, q : Tag]
  BY Elements, Zenon DEF Flows, ToServerPacket, ToClientPacket
<1> QED BY <1>1, Zenon DEF Types, TypeOK, Scalars, Flows, Preparing, Pinging

-----------------------------------------------------------------------------
(* Writing.                                                                *)

\* All that the client has in its buffer, and ms after it.
Full(ms) == c2s \o out \o ms

Wrote(ms) == Send(ms) \/ SendFails(ms)

\* The stream with all of it.
LEMMA Whole ==
    ASSUME Flows, NEW ms \in Seq(ToServerPacket)
    PROVE  /\ Full(ms) \in Seq(ToServerPacket)
           /\ Len(c2s) \in Nat /\ Len(out) \in Nat /\ Len(ms) \in Nat
           /\ Len(Full(ms)) = Len(c2s) + Len(out) + Len(ms)
           /\ \A i \in 1 .. Len(c2s) : Full(ms)[i] = c2s[i]
           /\ \A i \in 1 .. Len(out) : Full(ms)[Len(c2s) + i] = out[i]
           /\ \A i \in 1 .. Len(ms) : Full(ms)[Len(c2s) + Len(out) + i] = ms[i]
           /\ Extends(Full(ms), c2s)
<1>1. c2s \in Seq(ToServerPacket) /\ out \in Seq(ToServerPacket)
  BY Zenon DEF Flows
<1>2. /\ c2s \o out \in Seq(ToServerPacket) /\ Len(c2s \o out) = Len(c2s) + Len(out)
      /\ \A i \in 1 .. Len(c2s) : (c2s \o out)[i] = c2s[i]
      /\ \A i \in 1 .. Len(out) : (c2s \o out)[Len(c2s) + i] = out[i]
  BY <1>1, Adding DEF Extends
<1>3. /\ Full(ms) \in Seq(ToServerPacket)
      /\ Len(Full(ms)) = Len(c2s \o out) + Len(ms)
      /\ \A i \in 1 .. Len(c2s \o out) : Full(ms)[i] = (c2s \o out)[i]
      /\ \A i \in 1 .. Len(ms) : Full(ms)[Len(c2s \o out) + i] = ms[i]
  BY <1>2, Adding DEF Extends, Full
<1>4. Len(c2s) \in Nat /\ Len(out) \in Nat /\ Len(ms) \in Nat
  BY <1>1
<1>5. \A i \in 1 .. Len(c2s) : Full(ms)[i] = c2s[i] /\ i \in 1 .. Len(c2s \o out)
  BY <1>2, <1>3, <1>4
<1>6. \A i \in 1 .. Len(out) : Full(ms)[Len(c2s) + i] = out[i]
  <2>1. \A i \in 1 .. Len(out) : Len(c2s) + i \in 1 .. Len(c2s \o out)
    BY <1>2, <1>4
  <2> QED BY <1>2, <1>3, <2>1, Zenon
<1>7. Len(Full(ms)) = Len(c2s) + Len(out) + Len(ms)
  BY <1>2, <1>3, Zenon
<1>8. Extends(Full(ms), c2s)
  <2>1. Len(c2s) <= Len(Full(ms))
    BY <1>4, <1>7
  <2> QED BY <1>5, <2>1, Zenon DEF Extends
<1> QED BY <1>2, <1>3, <1>4, <1>5, <1>6, <1>7, <1>8, Zenon

\* A write puts all of it on the wire, or a prefix.
LEMMA Writing ==
    ASSUME Flows, NEW ms \in Seq(ToServerPacket), Wrote(ms)
    PROVE  /\ c2s' \in Seq(ToServerPacket) /\ out' \in Seq(ToServerPacket)
           /\ Extends(Full(ms), c2s')
           /\ Send(ms) => c2s' = Full(ms) /\ Len(out') = 0
           /\ \A i \in 1 .. Len(out') :
                 \/ out'[i].m = "Torn"
                 \/ \E k \in 1 .. Len(out) : out'[i] = out[k]
                 \/ \E k \in 1 .. Len(ms) : out'[i] = ms[k]
<1>1. c2s \in Seq(ToServerPacket) /\ out \in Seq(ToServerPacket)
  BY Zenon DEF Flows
<1>2. CASE Send(ms)
  <2>1. c2s' = Full(ms) /\ out' = <<>>
    BY <1>2, Zenon DEF Send, Full
  <2>2. Full(ms) \in Seq(ToServerPacket)
    BY Whole, Zenon
  <2> QED BY <2>1, <2>2 DEF Extends
<1>3. CASE SendFails(ms)
  <2> DEFINE w == out \o ms
  <2>1. /\ w \in Seq(ToServerPacket) /\ Len(w) = Len(out) + Len(ms)
        /\ \A i \in 1 .. Len(out) : w[i] = out[i]
        /\ \A i \in 1 .. Len(ms) : w[Len(out) + i] = ms[i]
    BY <1>1, Adding DEF Extends
  <2>2. PICK k \in 0 .. Len(w) - 1 : c2s' = c2s \o SubSeq(w, 1, k)
    BY <1>3, Zenon DEF SendFails
  <2>3. out' \in {w, <<Packet("Torn", None)>>}
    BY <1>3, Zenon DEF SendFails
  <2> HIDE DEF w
  <2>4. Len(out) \in Nat /\ Len(ms) \in Nat /\ Len(c2s) \in Nat /\ k \in 0 .. Len(w)
    BY <1>1, <2>1
  <2>5. /\ SubSeq(w, 1, k) \in Seq(ToServerPacket) /\ Len(SubSeq(w, 1, k)) = k
        /\ \A i \in 1 .. k : SubSeq(w, 1, k)[i] = w[i]
    BY <2>1, <2>4, Beginning, Zenon
  <2>6. /\ c2s' \in Seq(ToServerPacket) /\ Len(c2s') = Len(c2s) + k
        /\ \A i \in 1 .. Len(c2s) : c2s'[i] = c2s[i]
        /\ \A i \in 1 .. k : c2s'[Len(c2s) + i] = w[i]
    <3> DEFINE b == SubSeq(w, 1, k)
    <3>1. b \in Seq(ToServerPacket) /\ Len(b) = k /\ c2s' = c2s \o b
      BY <2>2, <2>5, Zenon
    <3>2. \A i \in 1 .. k : b[i] = w[i]
      BY <2>5, Zenon
    <3> HIDE DEF b
    <3>3. /\ c2s \o b \in Seq(ToServerPacket) /\ Len(c2s \o b) = Len(c2s) + Len(b)
          /\ \A i \in 1 .. Len(c2s) : (c2s \o b)[i] = c2s[i]
          /\ \A i \in 1 .. Len(b) : (c2s \o b)[Len(c2s) + i] = b[i]
      <4>1. c2s \in Seq(ToServerPacket) /\ b \in Seq(ToServerPacket)
        BY <1>1, <3>1, Zenon
      <4>2. /\ c2s \o b \in Seq(ToServerPacket) /\ Len(c2s \o b) = Len(c2s) + Len(b)
            /\ Extends(c2s \o b, c2s)
            /\ \A i \in 1 .. Len(b) : (c2s \o b)[Len(c2s) + i] = b[i]
        BY <4>1, Adding
      <4> QED BY <4>2, Zenon DEF Extends
    <3>4. \A i \in 1 .. k : (c2s \o b)[Len(c2s) + i] = w[i]
      BY <3>1, <3>2, <3>3, Zenon
    <3> QED BY <3>1, <3>3, <3>4, Zenon
  <2>7. \A i \in 1 .. Len(w) : Full(ms)[Len(c2s) + i] = w[i]
    <3>1. ASSUME NEW i \in 1 .. Len(w), i > Len(out) PROVE Full(ms)[Len(c2s) + i] = w[i]
      <4>1. i - Len(out) \in 1 .. Len(ms)
        BY <2>1, <2>4, <3>1
      <4>2. /\ Full(ms)[Len(c2s) + Len(out) + (i - Len(out))] = ms[i - Len(out)]
            /\ w[Len(out) + (i - Len(out))] = ms[i - Len(out)]
        BY <2>1, <4>1, Whole, Zenon
      <4>3. Len(c2s) + Len(out) + (i - Len(out)) = Len(c2s) + i
            /\ Len(out) + (i - Len(out)) = i
        BY <2>1, <2>4
      <4> QED BY <4>2, <4>3, Zenon
    <3>2. ASSUME NEW i \in 1 .. Len(out) PROVE Full(ms)[Len(c2s) + i] = w[i]
      BY <2>1, Whole, Zenon
    <3> QED BY <2>1, <2>4, <3>1, <3>2
  <2>8. Extends(Full(ms), c2s')
    <3>1. Len(c2s') <= Len(Full(ms))
      BY <2>1, <2>4, <2>6, Whole
    <3>2. ASSUME NEW i \in 1 .. Len(c2s') PROVE Full(ms)[i] = c2s'[i]
      <4>1. CASE i \in 1 .. Len(c2s)
        BY <2>6, <4>1, Whole, Zenon
      <4>2. CASE i > Len(c2s)
        <5>1. i - Len(c2s) \in 1 .. k /\ i - Len(c2s) \in 1 .. Len(w)
          BY <2>4, <2>6, <4>2
        <5>2. Len(c2s) + (i - Len(c2s)) = i
          BY <2>4, <2>6
        <5>3. Full(ms)[Len(c2s) + (i - Len(c2s))] = w[i - Len(c2s)]
              /\ c2s'[Len(c2s) + (i - Len(c2s))] = w[i - Len(c2s)]
          BY <2>6, <2>7, <5>1, Zenon
        <5> QED BY <5>2, <5>3, Zenon
      <4> QED BY <2>4, <2>6, <4>1, <4>2
    <3> QED BY <3>1, <3>2, Zenon DEF Extends
  <2>9. out' \in Seq(ToServerPacket)
        /\ \A i \in 1 .. Len(out') : out'[i].m = "Torn" \/ (i \in 1 .. Len(w) /\ out'[i] = w[i])
    <3>1. Packet("Torn", None) \in ToServerPacket
      BY Zenon DEF Packet, ToServerPacket, ToServer, Tag
    <3>2. CASE out' = w
      BY <2>1, <3>2, Zenon
    <3>3. CASE out' = <<Packet("Torn", None)>>
      <4>1. /\ out' \in Seq(ToServerPacket)
            /\ \A i \in 1 .. Len(out') : out'[i] = Packet("Torn", None)
        BY <3>1, <3>3
      <4> QED BY <4>1 DEF Packet
    <3> QED BY <2>3, <3>2, <3>3, Zenon
  <2>10. \A i \in 1 .. Len(w) : \/ \E j \in 1 .. Len(out) : w[i] = out[j]
                                \/ \E j \in 1 .. Len(ms) : w[i] = ms[j]
    <3>1. ASSUME NEW i \in 1 .. Len(w), i > Len(out)
          PROVE  \E j \in 1 .. Len(ms) : w[i] = ms[j]
      <4>1. i - Len(out) \in 1 .. Len(ms) /\ Len(out) + (i - Len(out)) = i
        BY <2>1, <2>4, <3>1
      <4>2. w[Len(out) + (i - Len(out))] = ms[i - Len(out)]
        BY <2>1, <4>1, Zenon
      <4> QED BY <4>1, <4>2, Zenon
    <3>2. ASSUME NEW i \in 1 .. Len(out)
          PROVE  \E j \in 1 .. Len(out) : w[i] = out[j]
      BY <2>1, Zenon
    <3>3. \A i \in 1 .. Len(w) : i \in 1 .. Len(out) \/ i > Len(out)
      BY <2>1, <2>4
    <3> QED BY <3>1, <3>2, <3>3, Zenon
  <2>11. Send(ms) => c2s' = Full(ms) /\ Len(out') = 0
    BY Zenon DEF Send, Full
  <2>12. \A i \in 1 .. Len(out') : \/ out'[i].m = "Torn"
                                   \/ \E j \in 1 .. Len(out) : out'[i] = out[j]
                                   \/ \E j \in 1 .. Len(ms) : out'[i] = ms[j]
    BY <2>9, <2>10, Zenon
  <2> QED BY <2>6, <2>8, <2>9, <2>11, <2>12, Zenon
<1> QED BY <1>2, <1>3, Zenon DEF Wrote

\* It leaves what was there.
LEMMA WroteExtends ==
    ASSUME Flows, NEW ms \in Seq(ToServerPacket), Wrote(ms)
    PROVE  Extends(c2s', c2s)
<1>1. c2s \in Seq(ToServerPacket) /\ out \in Seq(ToServerPacket)
  BY Zenon DEF Flows
<1>2. CASE Send(ms)
  <2>1. c2s' = Full(ms)
    BY <1>2, Zenon DEF Send, Full
  <2> QED BY <2>1, Whole, Zenon
<1>3. CASE SendFails(ms)
  <2> DEFINE w == out \o ms
  <2>1. w \in Seq(ToServerPacket)
    BY <1>1, Adding, Zenon
  <2>2. PICK k \in 0 .. Len(w) - 1 : c2s' = c2s \o SubSeq(w, 1, k)
    BY <1>3, Zenon DEF SendFails
  <2> HIDE DEF w
  <2>3. k \in 0 .. Len(w)
    BY <2>1
  <2>4. SubSeq(w, 1, k) \in Seq(ToServerPacket)
    BY <2>1, <2>3, Beginning, Zenon
  <2>5. Extends(c2s \o SubSeq(w, 1, k), c2s)
    BY <1>1, <2>4, Adding, Zenon
  <2> QED BY <2>2, <2>5, Zenon
<1> QED BY <1>2, <1>3, Zenon DEF Wrote

\* Where a packet on the wire comes from.
LEMMA Located ==
    ASSUME Flows, NEW ms \in Seq(ToServerPacket), Wrote(ms),
           NEW i \in 1 .. Len(c2s')
    PROVE  \/ i \in 1 .. Len(c2s) /\ c2s'[i] = c2s[i]
           \/ i > Len(c2s) /\ \E k \in 1 .. Len(out) : c2s'[i] = out[k]
           \/ i > Len(c2s) /\ \E k \in 1 .. Len(ms) : c2s'[i] = ms[k]
<1>1. /\ Len(c2s) \in Nat /\ Len(out) \in Nat /\ Len(ms) \in Nat
      /\ Len(Full(ms)) = Len(c2s) + Len(out) + Len(ms)
      /\ \A k \in 1 .. Len(c2s) : Full(ms)[k] = c2s[k]
      /\ \A k \in 1 .. Len(out) : Full(ms)[Len(c2s) + k] = out[k]
      /\ \A k \in 1 .. Len(ms) : Full(ms)[Len(c2s) + Len(out) + k] = ms[k]
  BY Whole, Zenon
<1>2. Len(c2s') \in Nat /\ Len(c2s') <= Len(Full(ms)) /\ c2s'[i] = Full(ms)[i]
  BY Writing DEF Extends
<1>3. CASE i \in 1 .. Len(c2s)
  BY <1>1, <1>2, <1>3, Zenon
<1>4. CASE i > Len(c2s) /\ i <= Len(c2s) + Len(out)
  <2>1. i - Len(c2s) \in 1 .. Len(out) /\ Len(c2s) + (i - Len(c2s)) = i
    BY <1>1, <1>4
  <2>2. Full(ms)[Len(c2s) + (i - Len(c2s))] = out[i - Len(c2s)]
    BY <1>1, <2>1, Zenon
  <2> QED BY <1>2, <1>4, <2>1, <2>2, Zenon
<1>5. CASE i > Len(c2s) + Len(out)
  <2> DEFINE k == i - (Len(c2s) + Len(out))
  <2>1. k \in 1 .. Len(ms) /\ Len(c2s) + Len(out) + k = i /\ i > Len(c2s)
    BY <1>1, <1>2, <1>5
  <2>2. Full(ms)[Len(c2s) + Len(out) + k] = ms[k]
    BY <1>1, <2>1, Zenon
  <2> QED BY <1>2, <2>1, <2>2, Zenon
<1> QED BY <1>1, <1>2, <1>3, <1>4, <1>5

-----------------------------------------------------------------------------
(* Tags.                                                                   *)

\* The client has no request running: neither has the server, and nothing is
\* on its way but what a ping may leave.
Hushed ==
    /\ ~Has(c2s, Starts)
    /\ srv.st \notin Serving
    /\ srv.st = "greeting" => call \in Pinging
    /\ \A i \in 1 .. Len(s2c) :
          s2c[i].m = "Pong" \/ (call \in Pinging /\ i = 1 /\ s2c[i] = Packet("Hello", None))
    /\ ~Has(out, ToServer \ {"Ping"})
    /\ call \notin {"ping", "pingError"} => Len(out) = 0

\* s2c is as it was or without the packet that was read.
Read == s2c' = s2c \/ (s2c # <<>> /\ s2c' = Tail(s2c))

\* A read leaves packets that were there.
LEMMA Reading ==
    ASSUME Flows, Read
    PROVE  /\ s2c' \in Seq(ToClientPacket)
           /\ \A i \in 1 .. Len(s2c') : \E k \in 1 .. Len(s2c) : s2c'[i] = s2c[k]
           /\ \A kinds : Has(s2c', kinds) => Has(s2c, kinds)
<1>1. s2c \in Seq(ToClientPacket)
  BY Zenon DEF Flows
<1>2. CASE s2c' = s2c
  BY <1>1, <1>2, Zenon DEF Has
<1>3. CASE s2c # <<>> /\ s2c' = Tail(s2c)
  <2>1. s2c' \in Seq(ToClientPacket)
        /\ \A i \in 1 .. Len(s2c') : s2c'[i] = s2c[i + 1] /\ i + 1 \in 1 .. Len(s2c)
    BY <1>1, <1>3, Taking
  <2> QED BY <2>1, Zenon DEF Has
<1> QED BY <1>2, <1>3, Zenon DEF Read

\* A step that writes nothing keeps the tags, be it that a packet was read.
LEMMA TagsKept ==
    ASSUME Tags, Flows, Read, UNCHANGED <<srv, abandoned, req, c2s, out>>,
           state' \in {state, "Idle"}
    PROVE  Tags'
<1>1. \A i \in 1 .. Len(s2c') : \E k \in 1 .. Len(s2c) : s2c'[i] = s2c[k]
  BY Reading, Zenon
<1>2. Cancels(c2s)' /\ (srv'.st \in Serving =>
          \A i \in 1 .. Len(c2s') : c2s'[i].m = "Cancel" =>
              c2s'[i].q \in abandoned' \cup {srv'.q})
  BY Zenon DEF Tags, Cancels
<1>3. state' = "Inserting" => ~Has(out', {"Cancel"})
  BY Zenon DEF Tags
<1> QED BY <1>1, <1>2, <1>3 DEF Tags

\* So does one that writes the packets ms of the request that runs.
LEMMA TagsWritten ==
    ASSUME Tags, Flows, Read, NEW ms \in Seq(ToServerPacket), Wrote(ms),
           UNCHANGED <<srv, abandoned, req>>, state # "Idle", state' \in {state, "Idle"},
           ~Has(out, {"Cancel"}), ~Has(ms, Starts),
           \A i \in 1 .. Len(ms) : ms[i].m = "Cancel" => ms[i].q \in abandoned \cup {req},
           Send(ms) \/ state' # "Inserting" \/ ~Has(ms, {"Cancel"})
    PROVE  Tags'
<1>1. \A i \in 1 .. Len(s2c') : \E k \in 1 .. Len(s2c) : s2c'[i] = s2c[k]
  BY Reading, Zenon
<1>2. /\ \A i \in 1 .. Len(s2c) : s2c[i].m # "Pong" => s2c[i].q = req
      /\ \A i \in 1 .. Len(c2s) : c2s[i].m \in Starts => c2s[i].q = req
      /\ \A i \in 1 .. Len(out) : out[i].m \in Starts => out[i].q = req
      /\ srv.st \in Serving => srv.q = req
      /\ srv.st # "greeting"
  BY Zenon DEF Tags
<1>3. \A i \in 1 .. Len(out) : out[i].m # "Cancel"
  BY Zenon DEF Has
<1>4. \A i \in 1 .. Len(ms) : ms[i].m \notin Starts
  BY Zenon DEF Has
<1>5. ASSUME NEW i \in 1 .. Len(c2s'), c2s'[i].m \in Starts PROVE c2s'[i].q = req
  <2>1. \/ i \in 1 .. Len(c2s) /\ c2s'[i] = c2s[i]
        \/ \E k \in 1 .. Len(out) : c2s'[i] = out[k]
        \/ \E k \in 1 .. Len(ms) : c2s'[i] = ms[k]
    BY Located, Zenon
  <2> QED BY <1>2, <1>4, <1>5, <2>1, Zenon
<1>6. /\ Len(out') \in Nat
      /\ \A i \in 1 .. Len(out') : out'[i].m = "Torn"
             \/ (\E k \in 1 .. Len(out) : out'[i] = out[k])
             \/ (\E k \in 1 .. Len(ms) : out'[i] = ms[k])
  <2>1. /\ out' \in Seq(ToServerPacket)
        /\ \A i \in 1 .. Len(out') : \/ out'[i].m = "Torn"
                                     \/ \E k \in 1 .. Len(out) : out'[i] = out[k]
                                     \/ \E k \in 1 .. Len(ms) : out'[i] = ms[k]
    BY Writing, Zenon
  <2> QED BY <2>1
<1>7. \A i \in 1 .. Len(out') : out'[i].m \in Starts => out'[i].q = req
  BY <1>2, <1>4, <1>6 DEF Starts
<1>8. Cancels(c2s)'
  <2>1. ASSUME NEW i \in 1 .. Len(c2s'), NEW j \in 1 .. Len(c2s'), i < j,
               c2s'[i].m \in Starts, c2s'[j].m = "Cancel"
        PROVE  c2s'[j].q \in abandoned \cup {c2s'[i].q}
    <3>1. CASE j \in 1 .. Len(c2s) /\ c2s'[j] = c2s[j]
      <4>1. i \in 1 .. Len(c2s) /\ ~(i > Len(c2s))
        BY <2>1, <3>1
      <4>2. c2s'[i] = c2s[i]
        BY <4>1, Located, Zenon
      <4> QED BY <2>1, <3>1, <4>1, <4>2, Zenon DEF Tags, Cancels
    <3>2. CASE \E k \in 1 .. Len(ms) : c2s'[j] = ms[k]
      BY <1>5, <2>1, <3>2, Zenon
    <3> QED BY <1>3, <2>1, <3>1, <3>2, Located
  <2> QED BY <2>1, Zenon DEF Cancels
<1>9. ASSUME srv.st \in Serving, NEW i \in 1 .. Len(c2s'), c2s'[i].m = "Cancel"
      PROVE  c2s'[i].q \in abandoned \cup {srv.q}
  <2>1. \A k \in 1 .. Len(c2s) : c2s[k].m = "Cancel" => c2s[k].q \in abandoned \cup {srv.q}
    BY <1>9, Zenon DEF Tags
  <2> QED BY <1>2, <1>3, <1>9, <2>1, Located
<1>10. state' = "Inserting" => ~Has(out', {"Cancel"})
  <2>1. CASE Send(ms)
    <3>1. Len(out') = 0
      BY <2>1, Writing, Zenon
    <3> QED BY <3>1 DEF Has
  <2>2. CASE ~Has(ms, {"Cancel"})
    BY <1>3, <1>6, <2>2, Zenon DEF Has
  <2> QED BY <2>1, <2>2, Zenon
<1> QED BY <1>1, <1>2, <1>5, <1>7, <1>8, <1>9, <1>10 DEF Tags

\* The first packets of a request meet nothing of the one before it.
LEMMA TagsStarted ==
    ASSUME Tags, Flows, Hushed, call = "start", NEW ms \in Seq(ToServerPacket), Wrote(ms),
           UNCHANGED <<srv, abandoned, s2c>>, ~Has(ms, {"Cancel"}),
           \A i \in 1 .. Len(ms) : ms[i].m \in Starts => ms[i].q = req'
    PROVE  Tags'
<1>1. /\ \A i \in 1 .. Len(s2c) : s2c[i].m = "Pong"
      /\ Len(out) = 0
  BY Zenon DEF Hushed, Pinging
<1>2. srv.st \notin Serving \cup {"greeting"}
  BY Zenon DEF Hushed, Pinging
<1>3. \A i \in 1 .. Len(c2s) : c2s[i].m \notin Starts
  BY Zenon DEF Hushed, Has
<1>4. \A i \in 1 .. Len(ms) : ms[i].m # "Cancel"
  BY Zenon DEF Has
<1>5. \A i \in 1 .. Len(c2s') : \/ i \in 1 .. Len(c2s) /\ c2s'[i] = c2s[i]
                                \/ i > Len(c2s) /\ \E k \in 1 .. Len(ms) : c2s'[i] = ms[k]
  BY <1>1, Located
<1>6. \A i \in 1 .. Len(out') : out'[i].m = "Torn" \/ \E k \in 1 .. Len(ms) : out'[i] = ms[k]
  BY <1>1, Writing
<1>7. Cancels(c2s)'
  <2>1. ASSUME NEW i \in 1 .. Len(c2s'), NEW j \in 1 .. Len(c2s'), i < j,
               c2s'[i].m \in Starts, c2s'[j].m = "Cancel"
        PROVE  FALSE
    <3>1. j \in 1 .. Len(c2s)
      BY <1>4, <1>5, <2>1, Zenon
    <3>2. ~(i > Len(c2s))
      BY <2>1, <3>1
    <3> QED BY <1>3, <1>5, <2>1, <3>2, Zenon
  <2> QED BY <2>1, Zenon DEF Cancels
<1>8. \A i \in 1 .. Len(c2s') : c2s'[i].m \in Starts => c2s'[i].q = req'
  BY <1>3, <1>5
<1>9. \A i \in 1 .. Len(out') : /\ out'[i].m \in Starts => out'[i].q = req'
                                /\ out'[i].m # "Cancel"
  BY <1>4, <1>6, Zenon DEF Starts
<1> QED BY <1>1, <1>2, <1>7, <1>8, <1>9, Zenon DEF Tags, Has

\* An idle client adds pings.
LEMMA TagsPinged ==
    ASSUME Tags, Flows, Hushed, state' = "Idle", UNCHANGED <<srv, abandoned>>,
           \A i \in 1 .. Len(c2s') : \/ i \in 1 .. Len(c2s) /\ c2s'[i] = c2s[i]
                                     \/ c2s'[i].m = "Ping"
    PROVE  Tags'
<1>1. srv.st \notin Serving
  BY Zenon DEF Hushed
<1>2. Cancels(c2s)'
  BY Zenon DEF Tags, Cancels, Starts
<1> QED BY <1>1, <1>2, Zenon DEF Tags

\* New streams.
LEMMA NewStreams ==
    ASSUME state' = "Idle", Len(c2s') = 0, srv'.st \in {"idle", "greeting", "closed"}
    PROVE  Tags' /\ Ordered(c2s') /\ Fits(srv'.st, c2s')
<1>1. \A i \in 1 .. Len(c2s') : FALSE
  OBVIOUS
<1>2. Tags'
  BY <1>1, Zenon DEF Tags, Cancels, Serving
<1>3. Ordered(c2s') /\ Fits(srv'.st, c2s')
  BY <1>1, Zenon DEF Ordered, Fits, Has
<1> QED BY <1>2, <1>3, Zenon

-----------------------------------------------------------------------------
(* Reading.                                                                *)

\* The packet that is read is the first.
LEMMA Received ==
    ASSUME Flows, NEW p, ReceivePacket(p)
    PROVE  Read /\ p = s2c[1] /\ Len(s2c) > 0 /\ s2c' = Tail(s2c) /\ s2c # <<>>
<1>1. s2c # <<>> /\ p = Head(s2c) /\ s2c' = Tail(s2c)
  BY Zenon DEF ReceivePacket
<1>2. Head(s2c) = s2c[1] /\ Len(s2c) \in Nat \ {0}
  BY <1>1, Taking, Zenon DEF Flows
<1> QED BY <1>1, <1>2 DEF Read

\* A call that reads a response gets packets of its own request, and so do
\* the callbacks, unless they were abandoned.
LEMMA ReadsOwn ==
    ASSUME Common, Scalars, Flows, state # "Idle", NEW p, ReceivePacket(p)
    PROVE  mixed' = FALSE /\ misdelivered' \subseteq abandoned
<1>1. p = s2c[1] /\ 1 \in 1 .. Len(s2c)
  BY Received DEF Flows
<1>2. call \notin Preparing
  BY Zenon DEF Common, Control
<1>3. p.m # "Pong" => p.q = req
  BY <1>1, Zenon DEF Common, Tags
<1>4. mixed = FALSE
  BY TypesParts, Zenon DEF Common, Types
<1>5. mixed' = (mixed \/ (p.m # "Pong" /\ p.q # (IF call = "pong" THEN None ELSE req)))
  BY Zenon DEF ReceivePacket
<1>6. mixed' = FALSE
  BY <1>2, <1>3, <1>4, <1>5, Zenon DEF Preparing, Pinging
<1>7. events \in abandoned \cup {None} \/ events = req
  BY <1>2, Zenon DEF Common, Callbacks
<1>8. misdelivered' \subseteq abandoned
  BY <1>3, <1>7, Zenon DEF ReceivePacket, Common
<1> QED BY <1>6, <1>8, Zenon

\* A ping reads a Pong, or the Hello of a handshake that had failed.
LEMMA ReadsPong ==
    ASSUME Common, Scalars, Flows, Hushed, call = "pong", NEW p, ReceivePacket(p)
    PROVE  mixed' = FALSE /\ misdelivered' \subseteq abandoned
<1>1. p = s2c[1] /\ 1 \in 1 .. Len(s2c)
  BY Received DEF Flows
<1>2. p.m = "Pong" \/ (p.m = "Hello" /\ p.q = None)
  BY <1>1 DEF Hushed, Packet
<1>3. mixed = FALSE
  BY TypesParts, Zenon DEF Common, Types
<1>4. mixed' = (mixed \/ (p.m # "Pong" /\ p.q # (IF call = "pong" THEN None ELSE req)))
  BY Zenon DEF ReceivePacket
<1>5. mixed' = FALSE
  BY <1>2, <1>3, <1>4, Zenon
<1>6. misdelivered' \subseteq abandoned
  BY <1>2, Zenon DEF ReceivePacket, Common
<1> QED BY <1>5, <1>6, Zenon

-----------------------------------------------------------------------------
(* Steps.                                                                  *)

\* What the invariant says before a step.
LEMMA Parts ==
    ASSUME IInv
    PROVE  /\ Common /\ Scalars /\ Flows /\ Control /\ Callbacks /\ Tags
           /\ mixed = FALSE /\ misdelivered \cup stray \subseteq abandoned
           /\ ~mustReset /\ ~cut => Phases /\ Ordered(c2s) /\ Fits(srv.st, c2s)
           /\ ~Broken /\ ~cut => Ordered(c2s) /\ Fits(srv.st, c2s)
           /\ ~mustReset /\ cut => Lost
<1>1. Common
  BY Zenon DEF IInv
<1>2. Scalars /\ Flows
  BY <1>1, TypesParts, Zenon DEF Common
<1>3. mixed = FALSE
  BY <1>1, TypesParts, Zenon DEF Common
<1>4. ~mustReset => ~Broken
  BY Zenon DEF Broken
<1> QED BY <1>1, <1>2, <1>3, <1>4, Zenon DEF IInv, Common

\* What has to be shown after it.
LEMMA Collect ==
    ASSUME Scalars', Flows', mixed' = FALSE, Control', Callbacks', Tags',
           misdelivered' \subseteq abandoned', stray' \subseteq abandoned',
           ~Broken' /\ ~cut' => Ordered(c2s') /\ Fits(srv'.st, c2s'),
           ~mustReset' /\ ~cut' => Phases', ~mustReset' /\ cut' => Lost'
    PROVE  IInv'
<1>1. Types' /\ ~mixed'
  BY TypesPartsNext, Zenon
<1>2. Common'
  BY <1>1, Zenon DEF Common
<1> QED BY <1>2, Zenon DEF IInv

\* A client with no request running.
LEMMA Hushes ==
    ASSUME IInv, state = "Idle", ~mustReset
    PROVE  Hushed /\ (~cut => Quiet /\ Ordered(c2s) /\ Fits(srv.st, c2s)) /\ (cut => Mute)
<1>1. Flows
  BY Parts, Zenon
<1>2. CASE ~cut
  <2>1. Quiet /\ Ordered(c2s) /\ Fits(srv.st, c2s)
    BY <1>2, Parts, Zenon DEF Phases
  <2>2. Hushed
    BY <2>1, Zenon DEF Quiet, Hushed, Serving
  <2> QED BY <1>2, <2>1, <2>2, Zenon
<1>3. CASE cut
  <2>1. /\ Mute /\ ~Has(c2s, Starts) /\ ~Has(out, ToServer \ {"Ping"})
        /\ call \notin {"ping", "pingError"} => Len(out) = 0
    BY <1>3, Parts, Zenon DEF Lost
  <2>2. \A i \in 1 .. Len(s2c) : s2c[i].m = "Pong"
    <3>1. \A i \in 1 .. Len(s2c) : s2c[i].m \in ToClient
      <4>1. \A i \in 1 .. Len(s2c) : s2c[i] \in ToClientPacket
        BY <1>1 DEF Flows
      <4> QED BY <4>1 DEF ToClientPacket
    <3> QED BY <2>1, <3>1, Zenon DEF Mute, Has
  <2>3. Hushed
    BY <2>1, <2>2, Zenon DEF Mute, Hushed, Serving
  <2> QED BY <1>3, <2>1, <2>3, Zenon
<1> QED BY <1>2, <1>3, Zenon

\* Where all is lost the client may read Pongs and write what it likes.
LEMMA MuteKept ==
    ASSUME Flows, Mute, Read, UNCHANGED srv,
           c2s' = c2s \/ (c2s' \in Seq(ToServerPacket) /\ Extends(c2s', c2s))
    PROVE  Mute'
<1>1. ~Has(s2c', ToClient \ {"Pong"})
  BY Reading, Zenon DEF Mute
<1>2. Dead(srv.st, c2s')
  <2>1. CASE c2s' = c2s
    BY <2>1, Zenon DEF Mute
  <2>2. CASE c2s' \in Seq(ToServerPacket) /\ Extends(c2s', c2s)
    BY <2>2, DeadExtends, Zenon DEF Mute, Flows
  <2> QED BY <2>1, <2>2, Zenon
<1> QED BY <1>1, <1>2, Zenon DEF Mute, Has

\* Requests are numbered, and there is a number for the next.
LEMMA NumbersAreNatural ==
    ASSUME Scalars
    PROVE  req \in Nat /\ None \in Tag /\ (req < MaxRequests => req + 1 \in Tag)
BY SessionAssumption DEF Scalars, Tag, Request, None

\* A packet alone.
LEMMA Single ==
    ASSUME NEW m \in ToServer, NEW q \in Tag
    PROVE  /\ <<Packet(m, q)>> \in Seq(ToServerPacket)
           /\ Len(<<Packet(m, q)>>) = 1
           /\ \A i \in 1 .. Len(<<Packet(m, q)>>) :
                 /\ i = 1
                 /\ <<Packet(m, q)>>[i].m = m /\ <<Packet(m, q)>>[i].q = q
<1>1. Packet(m, q) \in ToServerPacket /\ Packet(m, q).m = m /\ Packet(m, q).q = q
  BY Zenon DEF Packet, ToServerPacket
<1> QED BY <1>1

\* A longer stream has what a shorter one has.
LEMMA HasExtends ==
    ASSUME NEW c \in Seq(ToServerPacket), NEW d \in Seq(ToServerPacket),
           Extends(d, c), NEW kinds, Has(c, kinds)
    PROVE  Has(d, kinds)
<1>1. PICK i \in 1 .. Len(c) : c[i].m \in kinds
  BY Zenon DEF Has
<1>2. i \in 1 .. Len(d) /\ d[i] = c[i]
  BY <1>1 DEF Extends
<1> QED BY <1>1, <1>2, Zenon DEF Has

\* A quiet connection stays so while the client does nothing with it.
LEMMA QuietKept ==
    ASSUME Quiet, UNCHANGED <<c2s, s2c, out, srv>>,
           call \in Pinging => call' \in Pinging,
           call' \notin {"ping", "pingError"} => Len(out) = 0
    PROVE  Quiet'
BY Zenon DEF Quiet

\* Nothing but the connection matters between two requests.
LEMMA QuietPhase ==
    ASSUME state' = "Idle", call' \notin Inserts, Quiet'
    PROVE  Phases'
BY Zenon DEF Phases

\* Nor where all is lost.
LEMMA LostPhase ==
    ASSUME state' = "Idle", Mute', ~Has(c2s', Starts), ~Has(out', ToServer \ {"Ping"}),
           call' \notin {"ping", "pingError"} => Len(out') = 0
    PROVE  Lost'
BY Zenon DEF Lost

-----------------------------------------------------------------------------
(* Pinging.                                                                *)

\* A call begins.
LEMMA BeginStep ==
    ASSUME IInv, NEW g \in {"Ping"} \cup Selects \cup Inserts, Begin(g),
           UNCHANGED options
    PROVE  IInv'
<1>1. /\ Scalars /\ Flows /\ Control /\ Callbacks /\ Tags /\ mixed = FALSE
      /\ misdelivered \cup stray \subseteq abandoned
  BY Parts, Zenon
<1>2. /\ call = "idle" /\ state = "Idle" /\ ~mustReset
      /\ g # "Ping" => req < MaxRequests
      /\ goal' = g
      /\ events' = IF g = "BeginInsert" THEN req + 1 ELSE events
      /\ UNCHANGED <<srv, produced, taken, stray, s2c, mixed, misdelivered>>
      /\ UNCHANGED <<state, out, req, sent, due, cut, cancels, mustReset, c2s, abandoned>>
  BY Zenon DEF Begin, Ready, NoServerStep, serverVars, NothingReceived
<1>3. /\ call' \in {"ping", "start"} /\ (call' = "start" => g # "Ping")
      /\ pings' \in {0, pings}
  BY Zenon DEF Begin
<1>4. Hushed /\ (~cut => Quiet /\ Ordered(c2s) /\ Fits(srv.st, c2s)) /\ (cut => Mute)
  BY <1>2, Hushes, Zenon
<1>5. Len(out) = 0
  BY <1>2, <1>4, Zenon DEF Hushed
<1>6. Scalars'
  BY <1>1, <1>2, <1>3, NumbersAreNatural DEF Scalars, Preparing, Pinging, Inserts
<1>7. Flows'
  BY <1>1, <1>2, Zenon DEF Flows
<1>8. Control'
  BY <1>1, <1>2, <1>3, Zenon DEF Control, Preparing, Pinging, Inserts
<1>9. Callbacks'
  BY <1>1, <1>2, <1>3, Zenon DEF Callbacks, Preparing, Pinging
<1>10. Tags'
  BY <1>1, <1>2, TagsKept, Zenon DEF Read
<1>11. ~cut => Phases'
  <2>1. ~cut => Quiet'
    BY <1>2, <1>3, <1>4, <1>5, QuietKept, Zenon DEF Pinging
  <2> QED BY <1>2, <1>3, <2>1, QuietPhase, Zenon DEF Inserts
<1>12. cut => Lost'
  <2>1. cut => Mute'
    BY <1>1, <1>2, <1>4, MuteKept, Zenon DEF Read
  <2> QED BY <1>2, <1>4, <1>5, <2>1, LostPhase, Zenon DEF Hushed
<1> QED BY <1>1, <1>2, <1>4, <1>6, <1>7, <1>8, <1>9, <1>10, <1>11, <1>12, Collect, Zenon

\* Pings reach the server, or fill the buffer.
LEMMA PingSendsStep ==
    ASSUME IInv, PingSends, UNCHANGED options
    PROVE  IInv'
<1>1. /\ Scalars /\ Flows /\ Control /\ Callbacks /\ Tags /\ mixed = FALSE
      /\ misdelivered \cup stray \subseteq abandoned
  BY Parts, Zenon
<1> DEFINE ms == <<Packet("Ping", None)>>
<1>2. /\ call = "ping" /\ pings' = pings + 1
      /\ UNCHANGED <<srv, produced, taken, stray, s2c, mixed, misdelivered>>
      /\ UNCHANGED <<state, events, goal, req, sent, due, cut, cancels, mustReset, abandoned>>
      /\ \/ Send(ms) /\ call' = "pong"
         \/ out' = Append(out, Packet("Ping", None)) /\ call' = "pingError" /\ UNCHANGED c2s
  BY Zenon DEF PingSends, NoServerStep, serverVars, NothingReceived
<1>3. state = "Idle" /\ ~mustReset /\ call' \in {"pong", "pingError"}
  BY <1>1, <1>2, Zenon DEF Control, Preparing, Pinging
<1>4. Hushed /\ (~cut => Quiet /\ Ordered(c2s) /\ Fits(srv.st, c2s)) /\ (cut => Mute)
  BY <1>3, Hushes, Zenon
<1>5. /\ ms \in Seq(ToServerPacket) /\ Packet("Ping", None) \in ToServerPacket
      /\ Packet("Ping", None).m = "Ping"
      /\ \A i \in 1 .. Len(ms) : ms[i].m = "Ping"
  <2>1. "Ping" \in ToServer /\ None \in Tag
    BY Zenon DEF ToServer, Tag
  <2> QED BY <2>1, Single DEF Packet, ToServerPacket
<1> HIDE DEF ms
<1>6. \A i \in 1 .. Len(out) : out[i].m = "Ping"
  <2>1. \A i \in 1 .. Len(out) : out[i].m \in ToServer
    BY <1>1, Kinds, Zenon DEF Flows
  <2> QED BY <1>4, <2>1, Zenon DEF Hushed, Has
<1>7. Scalars' /\ Control' /\ Callbacks'
  <2>1. Scalars'
    BY <1>1, <1>2, <1>3 DEF Scalars, Preparing, Pinging, Inserts
  <2>2. Control'
    BY <1>1, <1>2, <1>3, Zenon DEF Control, Preparing, Pinging, Inserts
  <2>3. Callbacks'
    BY <1>1, <1>2, <1>3, Zenon DEF Callbacks, Preparing, Pinging
  <2> QED BY <2>1, <2>2, <2>3, Zenon
<1>8. CASE Send(ms) /\ call' = "pong"
  <2>1. Wrote(ms)
    BY <1>8, Zenon DEF Wrote
  <2>2. /\ c2s' \in Seq(ToServerPacket) /\ out' \in Seq(ToServerPacket)
        /\ c2s' = Full(ms) /\ Len(out') = 0 /\ Extends(c2s', c2s)
    BY <1>1, <1>5, <1>8, <2>1, Writing, Whole, Zenon
  <2>3. \A i \in 1 .. Len(c2s') : \/ i \in 1 .. Len(c2s) /\ c2s'[i] = c2s[i]
                                  \/ c2s'[i].m = "Ping"
    BY <1>1, <1>5, <1>6, <2>1, Located
  <2>4. \A i \in 1 .. Len(c2s') : i > Len(c2s) => c2s'[i].m = "Ping"
    BY <1>1, <2>3 DEF Flows
  <2>5. ~cut => /\ srv.st \in {"idle", "greeting", "skip", "closed"} /\ ~Has(c2s, Starts)
                /\ srv.st = "skip" => Has(c2s, {"End"})
    BY <1>4, Zenon DEF Quiet
  <2>6. ~cut => Ordered(c2s') /\ Fits(srv.st, c2s') /\ ~Has(c2s', Starts)
    <3>1. c2s \in Seq(ToServerPacket) /\ c2s' \in Seq(ToServerPacket) /\ Extends(c2s', c2s)
      BY <1>1, <2>2, Zenon DEF Flows
    <3> QED BY <1>4, <2>4, <2>5, <3>1, PingsFit, Zenon
  <2>7. Tags'
    BY <1>1, <1>2, <1>3, <1>4, <2>3, TagsPinged, Zenon
  <2>8. ~cut /\ srv.st = "skip" => Has(c2s', {"End"})
    BY <1>1, <2>2, <2>5, HasExtends, Zenon DEF Flows
  <2>9. ~Has(out', ToServer \ {"Ping"})
    BY <2>2 DEF Has
  <2>10. ~cut => Phases'
    <3>1. CASE ~cut
      <4>1. Quiet'
        BY <1>2, <1>4, <1>8, <2>2, <2>6, <2>8, <2>9, <3>1 DEF Quiet, Pinging
      <4> QED BY <1>2, <1>3, <4>1, QuietPhase, Zenon DEF Inserts
    <3> QED BY <3>1, Zenon
  <2>11. cut => Lost'
    <3>1. CASE cut
      <4>1. Mute'
        BY <1>1, <1>2, <1>4, <2>2, <3>1, MuteKept, Zenon DEF Read
      <4>2. ~Has(c2s', Starts)
        BY <1>4, <2>3, Zenon DEF Hushed, Has, Starts
      <4> QED BY <1>2, <1>3, <2>2, <2>9, <4>1, <4>2, LostPhase, Zenon
    <3> QED BY <3>1, Zenon
  <2>12. Flows'
    BY <1>1, <1>2, <2>2, Zenon DEF Flows
  <2> QED BY <1>1, <1>2, <1>7, <2>6, <2>7, <2>10, <2>11, <2>12, Collect, Zenon
<1>9. CASE out' = Append(out, Packet("Ping", None)) /\ call' = "pingError" /\ UNCHANGED c2s
  <2>1. out' \in Seq(ToServerPacket)
    BY <1>1, <1>5, <1>9, Appending, Zenon DEF Flows
  <2>2. Flows'
    BY <1>1, <1>2, <1>9, <2>1, Zenon DEF Flows
  <2>3. ~Has(out', ToServer \ {"Ping"})
    BY <1>1, <1>4, <1>5, <1>9, HasAppend DEF Flows, Hushed
  <2>4. ~cut => Quiet'
    BY <1>2, <1>4, <1>9, <2>3, Zenon DEF Quiet, Pinging
  <2>5. ~cut => Phases'
    BY <1>2, <1>3, <2>4, QuietPhase, Zenon DEF Inserts
  <2>6. Tags'
    BY <1>1, <1>2, <1>3, <1>4, <1>9, TagsPinged, Zenon
  <2>7. cut => Lost'
    <3>1. cut => Mute'
      BY <1>1, <1>2, <1>4, <1>9, MuteKept, Zenon DEF Read
    <3> QED BY <1>2, <1>3, <1>4, <1>9, <2>3, <3>1, LostPhase, Zenon DEF Hushed
  <2>8. ~cut' => Ordered(c2s') /\ Fits(srv'.st, c2s')
    BY <1>2, <1>4, <1>9, Zenon
  <2> QED BY <1>1, <1>2, <1>7, <2>2, <2>5, <2>6, <2>7, <2>8, Collect, ZenonT(30)
<1> QED BY <1>2, <1>8, <1>9, Zenon

\* A Pong ends the pinging, all that is left are Pongs; or the call throws.
LEMMA PingReadsStep ==
    ASSUME IInv, PingReads, UNCHANGED options
    PROVE  IInv'
<1>1. /\ Common /\ Scalars /\ Flows /\ Control /\ Callbacks /\ Tags
      /\ misdelivered \cup stray \subseteq abandoned
  BY Parts, Zenon
<1>2. PICK p \in Range(s2c) :
        /\ ReceivePacket(p)
        /\ \/ /\ p.m = "Pong"
              /\ call' = IF goal = "Ping" THEN "idle" ELSE "start"
              /\ UNCHANGED <<events, mustReset>>
           \/ p.m # "Pong" /\ Throw /\ EnsureNull
  BY Zenon DEF PingReads
<1>3. /\ call = "pong"
      /\ UNCHANGED <<srv, produced, taken, stray>>
      /\ UNCHANGED <<state, out, goal, req, sent, due, cut, pings, cancels, c2s, abandoned>>
  BY Zenon DEF PingReads, NoServerStep, serverVars
<1>4. state = "Idle" /\ ~mustReset
  BY <1>1, <1>3, Zenon DEF Control, Preparing, Pinging
<1>5. Hushed /\ (~cut => Quiet /\ Ordered(c2s) /\ Fits(srv.st, c2s)) /\ (cut => Mute)
  BY <1>4, Hushes, Zenon
<1>6. mixed' = FALSE /\ misdelivered' \subseteq abandoned
  BY <1>1, <1>2, <1>3, <1>5, ReadsPong, Zenon
<1>7. Read /\ p = s2c[1] /\ Len(s2c) > 0 /\ s2c' = Tail(s2c) /\ s2c # <<>>
  BY <1>1, <1>2, Received, Zenon
<1>8. s2c' \in Seq(ToClientPacket)
  BY <1>1, <1>7, Reading, Zenon
<1>9. Flows'
  BY <1>1, <1>3, <1>8, Zenon DEF Flows
<1>10. Tags'
  BY <1>1, <1>3, <1>7, TagsKept, Zenon
<1>11. CASE p.m = "Pong" /\ call' = (IF goal = "Ping" THEN "idle" ELSE "start")
            /\ UNCHANGED <<events, mustReset>>
  <2>1. call' \in {"idle", "start"}
    BY <1>11, Zenon
  <2>2. Scalars' /\ Control' /\ Callbacks'
    <3>1. Scalars'
      BY <1>1, <1>3, <1>11, <2>1, Zenon DEF Scalars, Preparing, Pinging, Inserts
    <3>2. Control'
      BY <1>1, <1>3, <1>4, <1>11, Zenon DEF Control, Preparing, Pinging, Inserts
    <3>3. Callbacks'
      BY <1>1, <1>3, <1>4, <1>11, Zenon DEF Callbacks, Preparing, Pinging
    <3> QED BY <3>1, <3>2, <3>3, Zenon
  <2>3. /\ \A i \in 1 .. Len(s2c') : s2c'[i] = s2c[i + 1] /\ i + 1 \in 1 .. Len(s2c) /\ i + 1 # 1
        /\ Len(s2c) # 0
    BY <1>1, <1>7, Taking DEF Flows
  <2>4. \A i \in 1 .. Len(s2c') : s2c'[i].m = "Pong"
    BY <1>5, <2>3, Zenon DEF Hushed
  <2>5. ~cut => srv.st \in {"idle", "skip", "closed"}
    BY <1>5, <2>3, Zenon DEF Quiet
  <2>6. ~cut => Quiet'
    BY <1>3, <1>5, <2>1, <2>4, <2>5, Zenon DEF Quiet
  <2>7. ~cut => Phases'
    BY <1>3, <1>4, <2>1, <2>6, QuietPhase, Zenon DEF Inserts
  <2>8. cut => Lost'
    <3>1. cut => Mute'
      BY <1>1, <1>3, <1>5, <1>7, MuteKept, Zenon
    <3> QED BY <1>3, <1>4, <1>5, <2>1, <3>1, LostPhase, Zenon DEF Hushed
  <2>9. ~cut' => Ordered(c2s') /\ Fits(srv'.st, c2s')
    BY <1>3, <1>5, Zenon
  <2> QED BY <1>1, <1>3, <1>6, <1>9, <1>10, <2>2, <2>7, <2>8, <2>9, Collect, Zenon
<1>12. CASE p.m # "Pong" /\ Throw /\ EnsureNull
  <2>1. call' = "idle" /\ mustReset' = TRUE /\ events' = (IF goal = "BeginInsert" THEN None ELSE events)
    BY <1>12, Zenon DEF Throw, EnsureNull
  <2>2. Scalars' /\ Control' /\ Callbacks'
    <3>1. Scalars'
      BY <1>1, <1>3, <2>1, NumbersAreNatural, Zenon DEF Scalars, Preparing, Pinging, Inserts
    <3>2. Control'
      BY <1>3, <1>4, <2>1, Zenon DEF Control, Preparing, Pinging, Inserts
    <3>3. Callbacks'
      BY <1>1, <1>3, <1>4, <2>1, Zenon DEF Callbacks
    <3> QED BY <3>1, <3>2, <3>3, Zenon
  <2> QED BY <1>1, <1>3, <1>5, <1>6, <1>9, <1>10, <2>1, <2>2, Collect, Zenon
<1> QED BY <1>2, <1>11, <1>12, Zenon

\* A ping that fails is tried again, on the same or on new streams, or the
\* call throws.
LEMMA PingErrorStep ==
    ASSUME IInv, PingTimesOut \/ PingRetried \/ PingFails, UNCHANGED options
    PROVE  IInv'
<1>1. /\ Scalars /\ Flows /\ Control /\ Callbacks /\ Tags /\ mixed = FALSE
      /\ misdelivered \cup stray \subseteq abandoned
  BY Parts, Zenon
<1>2. /\ call \in {"pong", "pingError"}
      /\ UNCHANGED <<state, goal, req, sent, due, pings, cancels, abandoned, stray>>
      /\ UNCHANGED <<mixed, misdelivered>>
  BY Zenon DEF PingTimesOut, PingRetried, PingFails, NoServerStep, serverVars, NothingReceived,
         InitializeStreams
<1>3. state = "Idle" /\ ~mustReset
  BY <1>1, <1>2, Zenon DEF Control, Preparing, Pinging
<1>4. Hushed /\ (~cut => Quiet /\ Ordered(c2s) /\ Fits(srv.st, c2s)) /\ (cut => Mute)
  BY <1>3, Hushes, Zenon
<1>5. CASE \/ PingTimesOut
           \/ PingRetried /\ UNCHANGED <<c2s, s2c, out, srv, produced, taken, cut>>
  <2>1. /\ call' \in {"ping", "pingError"}
        /\ UNCHANGED <<events, mustReset, c2s, s2c, out, srv, produced, taken, cut>>
    BY <1>5, Zenon DEF PingTimesOut, PingRetried, NoServerStep, serverVars, NothingReceived
  <2>2. Scalars'
    BY <1>1, <1>2, <2>1, Zenon DEF Scalars, Preparing, Pinging, Inserts
  <2>3. Control'
    BY <1>1, <1>2, <1>3, <2>1, Zenon DEF Control, Preparing, Pinging, Inserts
  <2>4. Callbacks'
    BY <1>1, <1>2, <1>3, <2>1, Zenon DEF Callbacks, Preparing, Pinging
  <2>5. Flows' /\ Tags'
    BY <1>1, <1>2, <2>1, TagsKept, Zenon DEF Flows, Read
  <2>6. ~cut => Quiet'
    BY <1>4, <2>1, QuietKept, Zenon DEF Pinging
  <2>7. ~cut => Phases'
    BY <1>2, <1>3, <2>1, <2>6, QuietPhase, Zenon DEF Inserts
  <2>8. cut => Lost'
    <3>1. cut => Mute'
      BY <1>1, <2>1, <1>4, MuteKept, Zenon DEF Read
    <3> QED BY <1>2, <1>3, <1>4, <2>1, <3>1, LostPhase, Zenon DEF Hushed
  <2>9. ~cut' => Ordered(c2s') /\ Fits(srv'.st, c2s')
    BY <1>4, <2>1, Zenon
  <2> QED BY <1>1, <1>2, <2>1, <2>2, <2>3, <2>4, <2>5, <2>7, <2>8, <2>9, Collect, Zenon
<1>6. CASE PingRetried /\ \E st \in {"idle", "greeting"} : InitializeStreams(st)
  <2>1. PICK st \in {"idle", "greeting"} : InitializeStreams(st)
    BY <1>6, Zenon
  <2>2. call' = "ping" /\ UNCHANGED <<events, mustReset>>
    BY <1>6, Zenon DEF PingRetried
  <2>3. /\ c2s' = <<>> /\ s2c' = <<>> /\ out' = <<>>
        /\ srv' = [st |-> st, q |-> None] /\ produced' = 0 /\ taken' = 0 /\ cut' = FALSE
    BY <2>1, Zenon DEF InitializeStreams
  <2>4. Scalars'
    BY <1>1, <1>2, <2>2, <2>3, Zenon DEF Scalars, Preparing, Pinging, Inserts
  <2>5. Control'
    BY <1>1, <1>2, <1>3, <2>2, Zenon DEF Control, Preparing, Pinging, Inserts
  <2>6. Callbacks'
    BY <1>1, <1>2, <1>3, <2>2, Zenon DEF Callbacks, Preparing, Pinging
  <2>7. Flows'
    BY <2>3 DEF Flows, ServerStates, Tag
  <2>8. /\ srv'.st = st /\ srv'.q = None
        /\ Len(c2s') = 0 /\ Len(s2c') = 0 /\ Len(out') = 0
    BY <2>3, Zenon
  <2>9. Tags' /\ Ordered(c2s') /\ Fits(srv'.st, c2s')
    BY <1>2, <1>3, <2>8, NewStreams, Zenon
  <2>10. Quiet'
    BY <2>2, <2>8 DEF Quiet, Has, Pinging
  <2>11. Phases'
    BY <1>2, <1>3, <2>2, <2>10, QuietPhase, Zenon DEF Inserts
  <2> QED BY <1>1, <1>2, <2>3, <2>4, <2>5, <2>6, <2>7, <2>9, <2>11, Collect, Zenon
<1>7. CASE PingFails
  <2>1. /\ call' = "idle" /\ mustReset' = TRUE
        /\ events' = (IF goal = "BeginInsert" THEN None ELSE events)
        /\ UNCHANGED <<c2s, s2c, out, srv, produced, taken, cut>>
    BY <1>7, Zenon DEF PingFails, Throw, EnsureNull, NoServerStep, serverVars, NothingReceived
  <2>2. Scalars'
    BY <1>1, <1>2, <2>1, NumbersAreNatural, Zenon DEF Scalars, Preparing, Pinging, Inserts
  <2>3. Control'
    BY <1>2, <1>3, <2>1, Zenon DEF Control, Preparing, Pinging, Inserts
  <2>4. Callbacks'
    BY <1>1, <1>2, <1>3, <2>1, Zenon DEF Callbacks
  <2>5. Flows' /\ Tags'
    BY <1>1, <1>2, <2>1, TagsKept, Zenon DEF Flows, Read
  <2> QED BY <1>1, <1>2, <1>4, <2>1, <2>2, <2>3, <2>4, <2>5, Collect, Zenon
<1> QED BY <1>5, <1>6, <1>7, Zenon DEF PingRetried, NoServerStep, serverVars, NothingReceived

\* The request, its tables and the marker.
LEMMA StartShape ==
    ASSUME NEW g \in Selects \cup Inserts, NEW q \in Tag
    PROVE  /\ StartPackets(g, q) \in Seq(ToServerPacket)
           /\ Len(StartPackets(g, q)) \in {2, 3}
           /\ g \in Inserts => Len(StartPackets(g, q)) = 2
           /\ StartPackets(g, q)[1]
                 = Packet(IF g \in Inserts THEN "Insert" ELSE "Query", q)
           /\ StartPackets(g, q)[Len(StartPackets(g, q))].m = "End"
           /\ \A i \in 2 .. Len(StartPackets(g, q)) - 1 : StartPackets(g, q)[i].m = "Data"
<1> DEFINE h == Packet(IF g \in Inserts THEN "Insert" ELSE "Query", q)
           d == Packet("Data", q)
           e == Packet("End", q)
<1>1. h \in ToServerPacket /\ d \in ToServerPacket /\ e \in ToServerPacket
      /\ d.m = "Data" /\ e.m = "End"
  BY Zenon DEF Packet, ToServerPacket, ToServer
<1>2. StartPackets(g, q)
        = <<h>> \o (IF g = "SelectWithExternalData" THEN <<d>> ELSE <<>>) \o <<e>>
  BY Zenon DEF StartPackets
<1> HIDE DEF h, d, e
<1>3. CASE g = "SelectWithExternalData"
  <2> DEFINE two == <<h>> \o <<d>>
  <2>1. two \in Seq(ToServerPacket) /\ Len(two) = 2 /\ two[1] = h /\ two[2] = d
    BY <1>1
  <2>2. StartPackets(g, q) = two \o <<e>>
    BY <1>2, <1>3, Zenon
  <2> HIDE DEF two
  <2>3. /\ two \o <<e>> \in Seq(ToServerPacket) /\ Len(two \o <<e>>) = 3
        /\ (two \o <<e>>)[1] = h /\ (two \o <<e>>)[2] = d /\ (two \o <<e>>)[3] = e
    <3>1. <<e>> \in Seq(ToServerPacket) /\ Len(<<e>>) = 1 /\ <<e>>[1] = e
      BY <1>1
    <3>2. /\ two \o <<e>> \in Seq(ToServerPacket) /\ Len(two \o <<e>>) = 2 + 1
          /\ \A i \in 1 .. 2 : (two \o <<e>>)[i] = two[i]
          /\ \A i \in 1 .. 1 : (two \o <<e>>)[2 + i] = <<e>>[i]
      BY <2>1, <3>1, Adding DEF Extends
    <3>3. (two \o <<e>>)[2 + 1] = <<e>>[1] /\ 1 \in 1 .. 2 /\ 2 \in 1 .. 2 /\ 2 + 1 = 3
      BY <3>2
    <3> QED BY <2>1, <3>1, <3>2, <3>3, Zenon
  <2>4. g \notin Inserts
    BY <1>3, Zenon DEF Inserts
  <2>5. \A i \in 2 .. 3 - 1 : i = 2
    OBVIOUS
  <2> QED BY <1>1, <2>2, <2>3, <2>4, <2>5, Zenon DEF h
<1>4. CASE g # "SelectWithExternalData"
  <2> DEFINE one == <<h>> \o <<>>
  <2>1. one \in Seq(ToServerPacket) /\ Len(one) = 1 /\ one[1] = h
    BY <1>1
  <2>2. StartPackets(g, q) = one \o <<e>>
    BY <1>2, <1>4, Zenon
  <2> HIDE DEF one
  <2>3. /\ one \o <<e>> \in Seq(ToServerPacket) /\ Len(one \o <<e>>) = 2
        /\ (one \o <<e>>)[1] = h /\ (one \o <<e>>)[2] = e
    <3>1. <<e>> \in Seq(ToServerPacket) /\ Len(<<e>>) = 1 /\ <<e>>[1] = e
      BY <1>1
    <3>2. /\ one \o <<e>> \in Seq(ToServerPacket) /\ Len(one \o <<e>>) = 1 + 1
          /\ \A i \in 1 .. 1 : (one \o <<e>>)[i] = one[i]
          /\ \A i \in 1 .. 1 : (one \o <<e>>)[1 + i] = <<e>>[i]
      BY <2>1, <3>1, Adding DEF Extends
    <3>3. (one \o <<e>>)[1 + 1] = <<e>>[1] /\ 1 \in 1 .. 1 /\ 1 + 1 = 2
      BY <3>2
    <3> QED BY <2>1, <3>1, <3>2, <3>3
  <2>4. \A i \in 2 .. 2 - 1 : FALSE
    OBVIOUS
  <2> QED BY <1>1, <2>2, <2>3, <2>4, Zenon DEF h
<1> QED BY <1>3, <1>4, Zenon

-----------------------------------------------------------------------------
(* Starting a request.                                                     *)

\* What the packets of a new request do to the connection.
LEMMA Started ==
    ASSUME Flows, Hushed, call = "start", Tags,
           NEW g \in Selects \cup Inserts, NEW q \in Tag, req' = q,
           Wrote(StartPackets(g, q)), UNCHANGED <<srv, abandoned, s2c>>
    PROVE  /\ c2s' \in Seq(ToServerPacket) /\ out' \in Seq(ToServerPacket)
           /\ Tags' /\ Extends(c2s', c2s)
           /\ Quiet /\ Ordered(c2s) /\ Fits(srv.st, c2s) =>
                /\ Ordered(c2s') /\ Fits(srv.st, c2s')
                /\ srv.st \in {"idle", "skip", "closed"}
           /\ \A i \in 1 .. Len(s2c) : s2c[i].m = "Pong"
           /\ Send(StartPackets(g, q)) =>
                /\ Len(out') = 0
                /\ Len(c2s') \in 1 .. Len(c2s') /\ c2s'[Len(c2s')].m = "End"
                /\ \A i \in 1 .. Len(c2s') : c2s'[i].m \in Starts =>
                       c2s'[i].m = IF g \in Inserts THEN "Insert" ELSE "Query"
<1> DEFINE ms == StartPackets(g, q)
           k == IF g \in Inserts THEN "Insert" ELSE "Query"
           d == Full(ms)
<1>1. /\ ms \in Seq(ToServerPacket) /\ Len(ms) \in {2, 3}
      /\ g \in Inserts => Len(ms) = 2
      /\ ms[1] = Packet(k, q) /\ ms[Len(ms)].m = "End"
      /\ \A i \in 2 .. Len(ms) - 1 : ms[i].m = "Data"
  BY StartShape, Zenon
<1>2. k \in Starts /\ (k = "Insert" => g \in Inserts)
  BY Zenon DEF Starts
<1>3. Wrote(ms)
  BY Zenon
<1> HIDE DEF ms, k
<1>4. ms[1].m = k /\ ms[1].q = q
  <2>1. ms[1] = [m |-> k, q |-> q]
    BY <1>1, Zenon DEF Packet
  <2> QED BY <2>1
<1>5. /\ \A i \in 1 .. Len(s2c) : s2c[i].m = "Pong"
      /\ Len(out) = 0
      /\ ~Has(c2s, Starts)
  BY Zenon DEF Hushed, Pinging
<1>6. /\ d \in Seq(ToServerPacket) /\ Extends(d, c2s)
      /\ Len(c2s) \in Nat /\ Len(d) = Len(c2s) + Len(ms)
      /\ \A i \in 1 .. Len(ms) : d[Len(c2s) + i] = ms[i]
  <2>1. /\ d \in Seq(ToServerPacket) /\ Extends(d, c2s)
        /\ Len(c2s) \in Nat /\ Len(d) = Len(c2s) + Len(out) + Len(ms)
        /\ \A i \in 1 .. Len(ms) : d[Len(c2s) + Len(out) + i] = ms[i]
    BY <1>1, Whole, Zenon
  <2>2. Len(c2s) + Len(out) = Len(c2s)
    <3>1. Len(c2s) \in Nat
      BY <2>1, Zenon
    <3>2. Len(out) = 0
      BY <1>5, Zenon
    <3> QED BY <3>1, <3>2
  <2> QED BY <2>1, <2>2, Zenon
<1> HIDE DEF d
<1>7. \A i \in 1 .. Len(ms) : /\ ms[i].m = "Data" \/ (i = 1 /\ ms[i].m = k)
                                  \/ (i = Len(ms) /\ ms[i].m = "End")
                              /\ ms[i].m \in Starts => ms[i].m = k /\ ms[i].q = q
                              /\ ms[i].m # "Cancel"
  <2>1. \A i \in 1 .. Len(ms) : i = 1 \/ i = Len(ms) \/ i \in 2 .. Len(ms) - 1
    BY <1>1
  <2> QED BY <1>1, <1>2, <1>4, <2>1, Zenon DEF Starts
<1>8. \A i \in 1 .. Len(d) : i > Len(c2s) + 1 /\ i < Len(d) => d[i].m = "Data"
  <2>1. ASSUME NEW i \in 1 .. Len(d), i > Len(c2s) + 1, i < Len(d)
        PROVE  d[i].m = "Data"
    <3>1. i - Len(c2s) \in 2 .. Len(ms) - 1 /\ i - Len(c2s) \in 1 .. Len(ms)
          /\ Len(c2s) + (i - Len(c2s)) = i
      BY <1>1, <1>6, <2>1
    <3>2. d[Len(c2s) + (i - Len(c2s))] = ms[i - Len(c2s)]
      BY <1>6, <3>1, Zenon
    <3> QED BY <1>1, <3>1, <3>2, Zenon
  <2> QED BY <2>1, Zenon
<1>9. /\ d[Len(c2s) + 1].m = k /\ d[Len(d)].m = "End" /\ Len(d) >= Len(c2s) + 2
      /\ k = "Insert" => Len(d) = Len(c2s) + 2
      /\ Len(d) \in 1 .. Len(d)
  <2>1. 1 \in 1 .. Len(ms) /\ Len(ms) \in 1 .. Len(ms)
    BY <1>1
  <2>2. d[Len(c2s) + 1] = ms[1] /\ d[Len(c2s) + Len(ms)] = ms[Len(ms)]
    BY <1>6, <2>1, Zenon
  <2>3. Len(d) >= Len(c2s) + 2 /\ Len(d) \in 1 .. Len(d)
    <3>1. Len(ms) \in {2, 3}
      BY <1>1, Zenon
    <3>2. Len(c2s) \in Nat /\ Len(d) = Len(c2s) + Len(ms)
      BY <1>6, Zenon
    <3>3. CASE Len(ms) = 2
      BY <3>2, <3>3
    <3>4. CASE Len(ms) = 3
      BY <3>2, <3>4
    <3> QED BY <3>1, <3>3, <3>4, Zenon
  <2> QED BY <1>1, <1>2, <1>4, <1>6, <2>2, <2>3, Zenon
<1>10. ASSUME Quiet, Ordered(c2s), Fits(srv.st, c2s)
       PROVE  Ordered(d) /\ Fits(srv.st, d) /\ srv.st \in {"idle", "skip", "closed"}
  <2>1. c2s \in Seq(ToServerPacket)
    BY Zenon DEF Flows
  <2>2. srv.st \in {"idle", "skip", "closed"} /\ (srv.st = "skip" => Has(c2s, {"End"}))
    BY <1>10, Zenon DEF Quiet, Pinging
  <2> QED BY <1>2, <1>5, <1>6, <1>8, <1>9, <1>10, <2>1, <2>2, RequestFits, Zenon
<1>11. /\ c2s' \in Seq(ToServerPacket) /\ out' \in Seq(ToServerPacket)
       /\ Extends(d, c2s')
       /\ Send(ms) => c2s' = d /\ Len(out') = 0
  BY <1>1, <1>3, Writing, Zenon DEF d
<1>12. /\ Extends(c2s', c2s)
       /\ Quiet /\ Ordered(c2s) /\ Fits(srv.st, c2s) =>
            Ordered(c2s') /\ Fits(srv.st, c2s') /\ srv.st \in {"idle", "skip", "closed"}
  BY <1>1, <1>3, <1>6, <1>10, <1>11, PrefixKeeps, WroteExtends, Zenon
<1>13. Tags'
  BY <1>1, <1>3, <1>7, TagsStarted, Zenon DEF Has
<1>14. \A i \in 1 .. Len(c2s') : c2s'[i].m \in Starts => c2s'[i].m = k
  <2>1. \A i \in 1 .. Len(c2s) : c2s[i].m \notin Starts
    BY <1>5, Zenon DEF Has
  <2>2. ASSUME NEW i \in 1 .. Len(c2s'), c2s'[i].m \in Starts
        PROVE  c2s'[i].m = k
    <3>1. \/ i \in 1 .. Len(c2s) /\ c2s'[i] = c2s[i]
          \/ \E j \in 1 .. Len(out) : c2s'[i] = out[j]
          \/ \E j \in 1 .. Len(ms) : c2s'[i] = ms[j]
      BY <1>1, <1>3, Located, Zenon
    <3>2. \A j \in 1 .. Len(out) : FALSE
      <4>1. Len(out) = 0
        BY <1>5, Zenon
      <4> QED BY <4>1
    <3>3. PICK j \in 1 .. Len(ms) : c2s'[i] = ms[j]
      BY <2>1, <2>2, <3>1, <3>2, Zenon
    <3> QED BY <1>7, <2>2, <3>3, Zenon
  <2> QED BY <2>2, Zenon
<1> QED BY <1>5, <1>9, <1>11, <1>12, <1>13, <1>14 DEF ms, k

\* A SELECT is sent and its response awaited, or the call throws.
LEMMA StartSelectStep ==
    ASSUME IInv, StartSelect, UNCHANGED options
    PROVE  IInv'
<1>1. /\ Scalars /\ Flows /\ Control /\ Callbacks /\ Tags /\ mixed = FALSE
      /\ misdelivered \cup stray \subseteq abandoned
  BY Parts, Zenon
<1>2. /\ call = "start" /\ goal \in Selects /\ req' = req + 1 /\ cancels' = 0
      /\ UNCHANGED <<srv, produced, taken, stray, s2c, mixed, misdelivered>>
      /\ UNCHANGED <<goal, sent, due, cut, pings, abandoned>>
      /\ \/ /\ Send(StartPackets(goal, req + 1))
            /\ state' = "Selecting" /\ events' = req + 1
            /\ call' = IF goal = "BeginSelect" THEN "idle" ELSE "drain"
            /\ UNCHANGED mustReset
         \/ /\ SendFails(StartPackets(goal, req + 1))
            /\ state' = "Idle" /\ events' = None
            /\ call' = "idle" /\ mustReset' = TRUE
  BY Zenon DEF StartSelect, NoServerStep, serverVars, NothingReceived, ResetState, Throw
<1>3. state = "Idle" /\ ~mustReset /\ req + 1 \in Tag /\ call' \in {"idle", "drain"}
  BY <1>1, <1>2, NumbersAreNatural, Zenon DEF Control, Preparing, Pinging
<1>4. Hushed /\ (~cut => Quiet /\ Ordered(c2s) /\ Fits(srv.st, c2s)) /\ (cut => Mute)
  BY <1>3, Hushes, Zenon
<1>5. /\ c2s' \in Seq(ToServerPacket) /\ out' \in Seq(ToServerPacket)
      /\ Tags' /\ Extends(c2s', c2s)
      /\ ~cut => /\ Ordered(c2s') /\ Fits(srv.st, c2s')
                 /\ srv.st \in {"idle", "skip", "closed"}
      /\ \A i \in 1 .. Len(s2c) : s2c[i].m = "Pong"
      /\ Send(StartPackets(goal, req + 1)) =>
           /\ Len(out') = 0
           /\ Len(c2s') \in 1 .. Len(c2s') /\ c2s'[Len(c2s')].m = "End"
           /\ \A i \in 1 .. Len(c2s') : c2s'[i].m \in Starts => c2s'[i].m = "Query"
  <2>1. Wrote(StartPackets(goal, req + 1)) /\ goal \in Selects \cup Inserts /\ goal \notin Inserts
    BY <1>2, Zenon DEF Wrote, Selects, Inserts
  <2> QED BY <1>1, <1>2, <1>3, <1>4, <2>1, Started
<1>6. Scalars'
  BY <1>1, <1>2, <1>3, NumbersAreNatural, Zenon DEF Scalars, Selects, Inserts, Preparing, Pinging
<1>7. Control'
  BY <1>2, <1>3 DEF Control, Inserts, Preparing, Pinging
<1>8. Callbacks'
  BY <1>2, Zenon DEF Callbacks
<1>9. Flows'
  BY <1>1, <1>2, <1>5, Zenon DEF Flows
<1>10. ~mustReset' /\ ~cut' => Phases'
  <2>1. SUFFICES ASSUME ~mustReset', ~cut PROVE Phases'
    BY <1>2, Zenon
  <2>2. Send(StartPackets(goal, req + 1)) /\ state' = "Selecting"
    BY <1>2, <2>1, Zenon
  <2>3. /\ Len(out') = 0
        /\ Len(c2s') \in 1 .. Len(c2s') /\ c2s'[Len(c2s')].m = "End"
        /\ \A i \in 1 .. Len(c2s') : c2s'[i].m \in Starts => c2s'[i].m = "Query"
    BY <1>5, <2>2, Zenon
  <2>4. Ends'
    BY <1>2, <1>5, <2>1, Zenon DEF Ends, Has, EndsResponse
  <2>5. Has(c2s', {"End"}) /\ ~Has(c2s', {"Insert"})
    BY <2>3, Zenon DEF Has, Starts
  <2>6. \A i \in 1 .. Len(c2s') : \E k \in i .. Len(c2s') : c2s'[k].m = "End"
    <3>1. \A i \in 1 .. Len(c2s') : Len(c2s') \in i .. Len(c2s')
      BY <2>3
    <3> QED BY <2>3, <3>1, Zenon
  <2>7. Querying'
    BY <1>2, <1>5, <2>1, <2>3, <2>4, <2>5, <2>6 DEF Querying
  <2> QED BY <1>3, <2>2, <2>7, Zenon DEF Phases, Inserts
<1>11. ~mustReset' /\ cut' => Lost'
  <2>1. cut => Mute'
    BY <1>1, <1>2, <1>4, <1>5, MuteKept, Zenon DEF Read
  <2>2. ~mustReset' => Len(out') = 0 /\ state' # "Idle" /\ state' # "Inserting"
    BY <1>2, <1>5, Zenon DEF Inserts
  <2> QED BY <1>2, <2>1, <2>2, Zenon DEF Lost
<1> QED BY <1>1, <1>2, <1>5, <1>6, <1>7, <1>8, <1>9, <1>10, <1>11, Collect, Zenon

\* An INSERT is sent and its sample block awaited, or the call throws.
LEMMA StartInsertStep ==
    ASSUME IInv, StartInsert, UNCHANGED options
    PROVE  IInv'
<1>1. /\ Scalars /\ Flows /\ Control /\ Callbacks /\ Tags /\ mixed = FALSE
      /\ misdelivered \cup stray \subseteq abandoned
  BY Parts, Zenon
<1>2. /\ call = "start" /\ goal \in Inserts /\ req' = req + 1 /\ cancels' = 0
      /\ sent' = 0 /\ due' = 0 /\ state' = "Inserting"
      /\ UNCHANGED <<srv, produced, taken, stray, s2c, mixed, misdelivered>>
      /\ UNCHANGED <<goal, cut, pings, abandoned>>
      /\ \/ /\ Send(StartPackets(goal, req + 1))
            /\ call' = goal
            /\ UNCHANGED <<events, mustReset>>
         \/ /\ SendFails(StartPackets(goal, req + 1))
            /\ call' = "idle" /\ mustReset' = TRUE
            /\ events' = IF goal = "BeginInsert" THEN None ELSE events
  BY Zenon DEF StartInsert, NoServerStep, serverVars, NothingReceived, EnsureNull, Throw
<1>3. state = "Idle" /\ ~mustReset /\ req + 1 \in Tag /\ call' \in {"idle"} \cup Inserts
  BY <1>1, <1>2, NumbersAreNatural, Zenon DEF Control, Preparing, Pinging, Inserts
<1>4. Hushed /\ (~cut => Quiet /\ Ordered(c2s) /\ Fits(srv.st, c2s)) /\ (cut => Mute)
  BY <1>3, Hushes, Zenon
<1>5. /\ c2s' \in Seq(ToServerPacket) /\ out' \in Seq(ToServerPacket)
      /\ Tags' /\ Extends(c2s', c2s)
      /\ ~cut => /\ Ordered(c2s') /\ Fits(srv.st, c2s')
                 /\ srv.st \in {"idle", "skip", "closed"}
      /\ \A i \in 1 .. Len(s2c) : s2c[i].m = "Pong"
      /\ Send(StartPackets(goal, req + 1)) =>
           /\ Len(out') = 0
           /\ \A i \in 1 .. Len(c2s') : c2s'[i].m \in Starts => c2s'[i].m = "Insert"
  <2>1. Wrote(StartPackets(goal, req + 1)) /\ goal \in Selects \cup Inserts
    BY <1>2, Zenon DEF Wrote
  <2> QED BY <1>1, <1>2, <1>3, <1>4, <2>1, Started, Zenon
<1>6. Scalars'
  BY <1>1, <1>2, <1>3, NumbersAreNatural, Zenon DEF Scalars, Selects, Inserts, Preparing, Pinging
<1>7. Control'
  BY <1>2, <1>3 DEF Control, Inserts, Preparing, Pinging
<1>8. Callbacks'
  BY <1>1, <1>2, <1>3, Zenon DEF Callbacks
<1>9. Flows'
  BY <1>1, <1>2, <1>5, Zenon DEF Flows
<1>10. ~mustReset' /\ ~cut' => Phases'
  <2>1. SUFFICES ASSUME ~mustReset', ~cut PROVE Phases'
    BY <1>2, Zenon
  <2>2. Send(StartPackets(goal, req + 1)) /\ call' \in Inserts
    BY <1>2, <2>1, Zenon
  <2>3. /\ Len(out') = 0
        /\ \A i \in 1 .. Len(c2s') : c2s'[i].m \in Starts => c2s'[i].m = "Insert"
    BY <1>5, <2>2, Zenon
  <2>4. Ends'
    BY <1>2, <1>5, <2>1, Zenon DEF Ends, Has, EndsResponse
  <2>5. ~Has(c2s', {"Query"})
    BY <2>3, Zenon DEF Has, Starts
  <2>6. Opening'
    BY <1>2, <1>5, <2>1, <2>4, <2>5, Zenon DEF Opening, Has
  <2> QED BY <1>2, <2>2, <2>3, <2>6, Zenon DEF Phases
<1>11. ~mustReset' /\ cut' => Lost'
  <2>1. cut => Mute'
    BY <1>1, <1>2, <1>4, <1>5, MuteKept, Zenon DEF Read
  <2>2. ~mustReset' => Len(out') = 0 /\ state' # "Idle" /\ call' \in Inserts
    BY <1>2, <1>5, Zenon DEF Inserts
  <2> QED BY <1>2, <2>1, <2>2, Zenon DEF Lost
<1> QED BY <1>1, <1>2, <1>5, <1>6, <1>7, <1>8, <1>9, <1>10, <1>11, Collect, Zenon
-----------------------------------------------------------------------------
(* The end of a response.                                                  *)

\* A read keeps the end of the response last.
LEMMA LastRead ==
    ASSUME Flows, Read,
           Has(s2c, EndsResponse) =>
               \A i \in 1 .. Len(s2c) : s2c[i].m \in EndsResponse => i = Len(s2c)
    PROVE  /\ Has(s2c', EndsResponse) => Has(s2c, EndsResponse)
           /\ \A i \in 1 .. Len(s2c') : s2c'[i].m \in EndsResponse => i = Len(s2c')
<1>1. s2c \in Seq(ToClientPacket)
  BY Zenon DEF Flows
<1>2. \A i \in 1 .. Len(s2c) : s2c[i].m \in EndsResponse => i = Len(s2c)
  BY Zenon DEF Has
<1>3. CASE s2c' = s2c
  BY <1>2, <1>3, Zenon
<1>4. CASE s2c # <<>> /\ s2c' = Tail(s2c)
  <2>1. /\ Len(s2c) \in Nat /\ Len(s2c') = Len(s2c) - 1
        /\ \A i \in 1 .. Len(s2c') : s2c'[i] = s2c[i + 1] /\ i + 1 \in 1 .. Len(s2c)
    BY <1>1, <1>4, Taking
  <2>2. \A i \in 1 .. Len(s2c') : s2c'[i].m \in EndsResponse => i + 1 = Len(s2c)
    BY <1>2, <2>1, Zenon
  <2>3. Has(s2c', EndsResponse) => Has(s2c, EndsResponse)
    BY Reading, Zenon
  <2> QED BY <2>1, <2>2, <2>3
<1> QED BY <1>3, <1>4, Zenon DEF Read

\* So does a read of a response that the server has done with.
LEMMA EndsRead ==
    ASSUME Ends, Flows, Read
    PROVE  /\ Has(s2c', EndsResponse) => Has(s2c, EndsResponse)
           /\ \A i \in 1 .. Len(s2c') : s2c'[i].m \in EndsResponse => i = Len(s2c')
BY LastRead, Zenon DEF Ends

\* Nothing else changes what it says.
LEMMA EndsKept ==
    ASSUME Ends, Flows, Read, UNCHANGED <<c2s, srv>>
    PROVE  Ends'
BY EndsRead, Zenon DEF Ends

\* Once the end is read nothing is left.
LEMMA EndRead ==
    ASSUME Ends, Flows, NEW p, ReceivePacket(p), p.m \in EndsResponse
    PROVE  /\ Len(s2c') = 0
           /\ srv.st \in {"idle", "skip", "closed"}
           /\ ~Has(c2s, Starts)
<1>1. p = s2c[1] /\ Len(s2c) > 0 /\ s2c' = Tail(s2c) /\ s2c # <<>>
  BY Received, Zenon
<1>2. Len(s2c) \in Nat /\ Len(s2c') = Len(s2c) - 1 /\ 1 \in 1 .. Len(s2c)
  BY <1>1, Taking DEF Flows
<1>3. Has(s2c, EndsResponse)
  BY <1>1, <1>2, Zenon DEF Has
<1>4. Len(s2c) = 1 /\ ~Has(c2s, Starts \cup {"Ping"})
  BY <1>1, <1>2, <1>3, Zenon DEF Ends
<1>5. ~Has(c2s, Starts)
  BY <1>4, Zenon DEF Has
<1>6. Len(s2c') = 0
  <2>1. Len(s2c') = Len(s2c) - 1 /\ Len(s2c) = 1
    BY <1>2, <1>4, Zenon
  <2> QED BY <2>1
<1>7. srv.st \in {"idle", "skip", "closed"}
  BY <1>3, Zenon DEF Ends
<1> QED BY <1>5, <1>6, <1>7, Zenon

\* The connection is quiet when the response has ended.
LEMMA QuietAfterEnd ==
    ASSUME Ends, Flows, NEW p, ReceivePacket(p), p.m \in EndsResponse,
           UNCHANGED <<c2s, out, srv>>, Len(out) = 0,
           srv.st = "skip" => Has(c2s, {"End"})
    PROVE  Quiet'
<1>1. /\ Len(s2c') = 0 /\ srv.st \in {"idle", "skip", "closed"} /\ ~Has(c2s, Starts)
  BY EndRead, Zenon
<1> QED BY <1>1 DEF Quiet, Has

\* A query goes on while packets of its response are read.
LEMMA QueryingKept ==
    ASSUME Querying, Flows, Read, UNCHANGED <<c2s, out, srv>>
    PROVE  Querying'
<1>1. Ends'
  BY EndsKept, Zenon DEF Querying
<1> QED BY <1>1 DEF Querying

-----------------------------------------------------------------------------
(* Reading a result.                                                       *)

\* A Cancel is written while a query runs.
LEMMA CancelWritten ==
    ASSUME Flows, Tags, Len(out) = 0, state = "Selecting", Read, req \in Tag,
           Wrote(<<Packet("Cancel", req)>>),
           UNCHANGED <<srv, abandoned, req>>, state' \in {state, "Idle"}
    PROVE  /\ c2s' \in Seq(ToServerPacket) /\ out' \in Seq(ToServerPacket)
           /\ Tags' /\ Extends(c2s', c2s)
           /\ Send(<<Packet("Cancel", req)>>) => Len(out') = 0
           /\ Querying /\ Ordered(c2s) /\ Fits(srv.st, c2s) =>
                /\ Ordered(c2s') /\ Fits(srv.st, c2s')
                /\ Send(<<Packet("Cancel", req)>>) => Querying'
<1> DEFINE ms == <<Packet("Cancel", req)>>
           d == Full(ms)
<1>1. /\ ms \in Seq(ToServerPacket) /\ Len(ms) = 1 /\ Wrote(ms)
      /\ \A i \in 1 .. Len(ms) : i = 1 /\ ms[i].m = "Cancel" /\ ms[i].q = req
  <2>1. "Cancel" \in ToServer
    BY Zenon DEF ToServer
  <2> QED BY <2>1, Single
<1> HIDE DEF ms
<1>2. Len(out) = 0 /\ c2s \in Seq(ToServerPacket) /\ Len(c2s) \in Nat
  BY DEF Flows
<1>3. /\ d \in Seq(ToServerPacket) /\ Extends(d, c2s)
      /\ Len(d) = Len(c2s) + 1 /\ d[Len(d)].m = "Cancel"
      /\ \A i \in 1 .. Len(c2s) : d[i] = c2s[i]
  <2>1. /\ d \in Seq(ToServerPacket) /\ Extends(d, c2s)
        /\ Len(d) = Len(c2s) + Len(out) + Len(ms)
        /\ \A i \in 1 .. Len(ms) : d[Len(c2s) + Len(out) + i] = ms[i]
        /\ \A i \in 1 .. Len(c2s) : d[i] = c2s[i]
    BY <1>1, Whole, Zenon
  <2>2. Len(d) = Len(c2s) + 1 /\ 1 \in 1 .. Len(ms) /\ Len(c2s) + Len(out) + 1 = Len(d)
    BY <1>1, <1>2, <2>1
  <2> QED BY <1>1, <2>1, <2>2
<1> HIDE DEF d
<1>4. /\ c2s' \in Seq(ToServerPacket) /\ out' \in Seq(ToServerPacket)
      /\ Extends(d, c2s') /\ Extends(c2s', c2s)
      /\ Send(ms) => c2s' = d /\ Len(out') = 0
  BY <1>1, Writing, WroteExtends, Zenon DEF d
<1>5. Tags'
  <2>1. ~Has(out, {"Cancel"}) /\ ~Has(ms, Starts)
    BY <1>1, <1>2 DEF Has, Starts
  <2> QED BY <1>1, <2>1, TagsWritten, Zenon
<1>6. ASSUME Querying, Ordered(c2s), Fits(srv.st, c2s)
      PROVE  Ordered(c2s') /\ Fits(srv.st, c2s') /\ (Send(ms) => Querying')
  <2>1. /\ srv.st \in {"idle", "skip", "closed", "tables", "run", "cancelled"}
        /\ srv.st \in {"skip", "tables"} => Has(c2s, {"End"})
        /\ ~Has(c2s, {"Insert"})
        /\ \A i \in 1 .. Len(c2s) : c2s[i].m = "Query" =>
              \E k \in i .. Len(c2s) : c2s[k].m = "End"
    BY <1>6, Zenon DEF Querying
  <2>2. Ordered(d) /\ Fits(srv.st, d)
    BY <1>2, <1>3, <1>6, <2>1, CancelFits
  <2>3. Ordered(c2s') /\ Fits(srv.st, c2s')
    BY <1>3, <1>4, <2>2, PrefixKeeps
  <2>4. Send(ms) => Querying'
    <3>1. SUFFICES ASSUME Send(ms) PROVE Querying'
      BY Zenon
    <3>2. c2s' = d /\ Len(out') = 0
      BY <1>4, <3>1, Zenon
    <3>3. \A i \in 1 .. Len(d) : (i \in 1 .. Len(c2s) /\ d[i] = c2s[i]) \/ d[i].m = "Cancel"
      BY <1>2, <1>3
    <3>4. \A kinds : Has(d, kinds) => Has(c2s, kinds) \/ "Cancel" \in kinds
      BY <3>3, Zenon DEF Has
    <3>5. Has(c2s, {"End"}) => Has(d, {"End"})
      BY <1>2, <1>3, HasExtends, Zenon
    <3>6. Ends'
      <4>1. Ends
        BY <1>6, Zenon DEF Querying
      <4>2. ~Has(c2s, Starts \cup {"Ping"}) => ~Has(d, Starts \cup {"Ping"})
        BY <3>4, Zenon DEF Starts
      <4>3. Has(s2c, EndsResponse) => /\ srv.st \in {"idle", "skip", "closed"}
                                      /\ ~Has(c2s, Starts \cup {"Ping"})
        BY <4>1, Zenon DEF Ends
      <4>4. /\ Has(s2c', EndsResponse) => Has(s2c, EndsResponse)
            /\ \A i \in 1 .. Len(s2c') : s2c'[i].m \in EndsResponse => i = Len(s2c')
        BY <4>1, EndsRead, Zenon
      <4> QED BY <3>2, <4>2, <4>3, <4>4, Zenon DEF Ends
    <3>7. ASSUME NEW i \in 1 .. Len(d), d[i].m = "Query"
          PROVE  \E k \in i .. Len(d) : d[k].m = "End"
      <4>1. i \in 1 .. Len(c2s) /\ c2s[i].m = "Query"
        BY <3>3, <3>7, Zenon
      <4>2. PICK k \in i .. Len(c2s) : c2s[k].m = "End"
        BY <2>1, <4>1, Zenon
      <4>3. k \in 1 .. Len(c2s) /\ k \in i .. Len(d)
        BY <1>2, <1>3, <4>1
      <4> QED BY <1>3, <4>2, <4>3
    <3>8. ~Has(d, {"Insert"})
      BY <2>1, <3>4, Zenon
    <3> QED BY <2>1, <3>2, <3>5, <3>6, <3>7, <3>8 DEF Querying
  <2> QED BY <2>3, <2>4, Zenon
<1> QED BY <1>4, <1>5, <1>6, Zenon DEF ms

\* NextBlock and Cancel begin.
LEMMA SelectCalls ==
    ASSUME IInv, CallNextBlock \/ CallCancel, UNCHANGED options
    PROVE  IInv'
<1>1. /\ Scalars /\ Flows /\ Control /\ Callbacks /\ Tags /\ mixed = FALSE
      /\ misdelivered \cup stray \subseteq abandoned
  BY Parts, Zenon
<1>2. /\ call = "idle" /\ state = "Selecting" /\ ~mustReset
      /\ UNCHANGED <<srv, produced, taken, stray, s2c, mixed, misdelivered>>
      /\ UNCHANGED <<state, events, goal, req, sent, due, cut, pings, abandoned>>
  BY Zenon DEF CallNextBlock, CallCancel, Ready, NoServerStep, serverVars, NothingReceived
<1>3. /\ ~cut => Querying /\ Ordered(c2s) /\ Fits(srv.st, c2s)
      /\ cut => Mute
      /\ Len(out) = 0 /\ events = req /\ req \in Tag
  BY <1>1, <1>2, Parts, Zenon DEF Phases, Querying, Lost, Control, Scalars
<1>4. Callbacks'
  BY <1>2, <1>3, Zenon DEF Callbacks
<1>5. CASE CallNextBlock
  <2>1. call' = "NextBlock" /\ UNCHANGED <<out, c2s, cancels, mustReset>>
    BY <1>5, Zenon DEF CallNextBlock
  <2>2. Scalars'
    BY <1>1, <1>2, <2>1, Zenon DEF Scalars, Preparing, Pinging, Inserts
  <2>3. Control'
    BY <1>2, <1>3, <2>1, Zenon DEF Control, Preparing, Pinging, Inserts
  <2>4. Flows' /\ Tags'
    BY <1>1, <1>2, <2>1, TagsKept, Zenon DEF Flows, Read
  <2>5. ~cut => Phases'
    <3>1. ~cut => Querying'
      BY <1>1, <1>2, <1>3, <2>1, QueryingKept, Zenon DEF Read
    <3> QED BY <1>2, <1>3, <2>1, <3>1, Zenon DEF Phases, Inserts
  <2>6. cut => Lost'
    <3>1. cut => Mute'
      BY <1>1, <1>2, <1>3, <2>1, MuteKept, Zenon DEF Read
    <3> QED BY <1>2, <1>3, <2>1, <3>1, Zenon DEF Lost
  <2>7. ~cut' => Ordered(c2s') /\ Fits(srv'.st, c2s')
    BY <1>2, <1>3, <2>1, Zenon
  <2> QED BY <1>1, <1>2, <1>4, <2>1, <2>2, <2>3, <2>4, <2>5, <2>6, <2>7, Collect, Zenon
<1>6. CASE CallCancel
  <2> DEFINE ms == <<Packet("Cancel", req)>>
  <2>1. /\ cancels' = cancels + 1
        /\ \/ Send(ms) /\ call' = "drain" /\ UNCHANGED mustReset
           \/ SendFails(ms) /\ call' = "idle" /\ mustReset' = TRUE
    BY <1>6, Zenon DEF CallCancel, Throw
  <2>2. /\ c2s' \in Seq(ToServerPacket) /\ out' \in Seq(ToServerPacket)
        /\ Tags' /\ Extends(c2s', c2s) /\ (Send(ms) => Len(out') = 0)
        /\ ~cut => /\ Ordered(c2s') /\ Fits(srv.st, c2s')
                   /\ Send(ms) => Querying'
    BY <1>1, <1>2, <1>3, <2>1, CancelWritten DEF Wrote, Read
  <2>3. Scalars'
    <3>1. call' \in {"idle", "drain"}
      BY <2>1, Zenon
    <3>2. mustReset' \in BOOLEAN
      BY <1>1, <2>1, Zenon DEF Scalars
    <3>3. cancels' \in Nat
      BY <1>1, <2>1 DEF Scalars
    <3> QED BY <1>1, <1>2, <3>1, <3>2, <3>3 DEF Scalars, Preparing, Pinging, Inserts
  <2>4. Control'
    BY <1>2, <1>3, <2>1 DEF Control, Preparing, Pinging, Inserts
  <2>5. Flows'
    BY <1>1, <1>2, <2>2, Zenon DEF Flows
  <2>6. ~mustReset' /\ ~cut => Phases'
    BY <1>2, <2>1, <2>2, Zenon DEF Phases, Inserts
  <2>7. ~mustReset' /\ cut => Lost'
    <3>1. cut => Mute'
      BY <1>1, <1>2, <1>3, <2>2, MuteKept, Zenon DEF Read
    <3> QED BY <1>2, <2>1, <2>2, <3>1, Zenon DEF Lost
  <2> QED BY <1>1, <1>2, <1>3, <1>4, <2>2, <2>3, <2>4, <2>5, <2>6, <2>7, Collect, Zenon
<1> QED BY <1>5, <1>6, Zenon

\* A packet of a result is read: Cancel may follow a block, the last packet
\* ends the call.
LEMMA NextBlockReadsStep ==
    ASSUME IInv, NextBlockReads, UNCHANGED options
    PROVE  IInv'
<1>1. /\ Common /\ Scalars /\ Flows /\ Control /\ Callbacks /\ Tags
      /\ misdelivered \cup stray \subseteq abandoned
  BY Parts, Zenon
<1>2. PICK p \in Range(s2c) :
        /\ ReceivePacket(p)
        /\ \/ /\ p.m \in {"Info", "Pong"}
              /\ UNCHANGED <<state, events, call, mustReset, c2s, out, cancels>>
           \/ /\ p.m = "Data"
              /\ OnDataCancelable
              /\ call' = IF call = "NextBlock" THEN "idle" ELSE call
              /\ UNCHANGED <<state, events, mustReset>>
           \/ /\ p.m \in EndsResponse
              /\ ResetState
              /\ Return
              /\ UNCHANGED <<c2s, out, cancels>>
  BY Zenon DEF NextBlockReads
<1>3. /\ call \in {"NextBlock", "drain"}
      /\ UNCHANGED <<srv, produced, taken, stray, goal, req, sent, due, cut, pings, abandoned>>
  BY Zenon DEF NextBlockReads, NoServerStep, serverVars
<1>4. state = "Selecting" /\ ~mustReset
  BY <1>1, <1>3, Zenon DEF Control, Scalars
<1>5. /\ ~cut => Querying /\ Ordered(c2s) /\ Fits(srv.st, c2s)
      /\ cut => Mute
      /\ Len(out) = 0 /\ events = req /\ req \in Tag
  BY <1>1, <1>4, Parts, Zenon DEF Phases, Querying, Lost, Control, Scalars
<1>6. mixed' = FALSE /\ misdelivered' \subseteq abandoned
  BY <1>1, <1>2, <1>4, ReadsOwn, Zenon
<1>7. Read /\ s2c' \in Seq(ToClientPacket)
  BY <1>1, <1>2, Received, Reading, Zenon
<1>8. CASE /\ UNCHANGED <<state, events, mustReset, c2s, out, cancels>>
           /\ call' \in {"idle", call}
  <2>1. Scalars'
    BY <1>1, <1>3, <1>4, <1>8, Zenon DEF Scalars, Preparing, Pinging, Inserts
  <2>2. Control'
    BY <1>3, <1>4, <1>5, <1>8, Zenon DEF Control, Preparing, Pinging, Inserts
  <2>3. Callbacks'
    BY <1>3, <1>4, <1>5, <1>8, Zenon DEF Callbacks
  <2>4. Flows'
    BY <1>1, <1>3, <1>7, <1>8, Zenon DEF Flows
  <2>5. Tags'
    BY <1>1, <1>3, <1>7, <1>8, TagsKept
  <2>6. ~cut => Phases'
    <3>1. ~cut => Querying'
      BY <1>1, <1>3, <1>5, <1>7, <1>8, QueryingKept, Zenon
    <3> QED BY <1>3, <1>4, <1>8, <3>1, Zenon DEF Phases, Inserts
  <2>7. cut => Lost'
    <3>1. cut => Mute'
      BY <1>1, <1>3, <1>5, <1>7, <1>8, MuteKept, Zenon
    <3> QED BY <1>4, <1>5, <1>8, <3>1, Zenon DEF Lost
  <2>8. ~cut' => Ordered(c2s') /\ Fits(srv'.st, c2s')
    BY <1>3, <1>5, <1>8, Zenon
  <2> QED BY <1>1, <1>3, <1>6, <1>8, <2>1, <2>2, <2>3, <2>4, <2>5, <2>6, <2>7, <2>8, Collect, Zenon
<1>9. CASE /\ cancels' = cancels + 1 /\ Send(<<Packet("Cancel", events)>>)
           /\ call' \in {"idle", call} /\ UNCHANGED <<state, events, mustReset>>
  <2>1. /\ c2s' \in Seq(ToServerPacket) /\ out' \in Seq(ToServerPacket)
        /\ Tags' /\ Extends(c2s', c2s) /\ Len(out') = 0
        /\ ~cut => Ordered(c2s') /\ Fits(srv.st, c2s') /\ Querying'
    BY <1>1, <1>3, <1>4, <1>5, <1>7, <1>9, CancelWritten, Zenon DEF Wrote
  <2>2. Scalars'
    <3>1. cancels' \in Nat
      BY <1>1, <1>9 DEF Scalars
    <3> QED BY <1>1, <1>3, <1>4, <1>9, <3>1, Zenon DEF Scalars, Preparing, Pinging, Inserts
  <2>3. Control'
    BY <1>3, <1>4, <1>5, <1>9, Zenon DEF Control, Preparing, Pinging, Inserts
  <2>4. Callbacks'
    BY <1>3, <1>4, <1>5, <1>9, Zenon DEF Callbacks
  <2>5. Flows'
    BY <1>1, <1>3, <1>7, <2>1, Zenon DEF Flows
  <2>6. ~cut => Phases'
    BY <1>3, <1>4, <1>9, <2>1, Zenon DEF Phases, Inserts
  <2>7. cut => Lost'
    <3>1. cut => Mute'
      BY <1>1, <1>3, <1>5, <1>7, <2>1, MuteKept, Zenon
    <3> QED BY <1>4, <1>9, <2>1, <3>1, Zenon DEF Lost
  <2> QED BY <1>1, <1>3, <1>5, <1>6, <2>1, <2>2, <2>3, <2>4, <2>5, <2>6, <2>7, Collect, Zenon
<1>10. CASE p.m \in EndsResponse /\ ResetState /\ Return /\ UNCHANGED <<c2s, out, cancels>>
  <2>1. state' = "Idle" /\ events' = None /\ call' = "idle" /\ UNCHANGED mustReset
    BY <1>10, Zenon DEF ResetState, Return
  <2>2. Scalars'
    BY <1>1, <1>3, <1>10, <2>1, NumbersAreNatural DEF Scalars, Preparing, Pinging, Inserts
  <2>3. Control'
    BY <1>4, <2>1, Zenon DEF Control, Preparing, Pinging, Inserts
  <2>4. Callbacks'
    BY <2>1, Zenon DEF Callbacks
  <2>5. Flows'
    BY <1>1, <1>3, <1>7, <1>10, Zenon DEF Flows
  <2>6. Tags'
    BY <1>1, <1>3, <1>7, <1>10, <2>1, TagsKept
  <2>7. ~cut
    <3>1. p = s2c[1] /\ 1 \in 1 .. Len(s2c)
      BY <1>1, <1>2, Received DEF Flows
    <3>2. p.m \in ToClient \ {"Pong"}
      BY <1>10, Zenon DEF EndsResponse, ToClient
    <3> QED BY <1>5, <3>1, <3>2, Zenon DEF Mute, Has
  <2>8. Phases'
    <3>1. Ends /\ Len(out) = 0 /\ (srv.st = "skip" => Has(c2s, {"End"}))
      BY <1>5, <2>7, Zenon DEF Querying
    <3>2. Quiet'
      BY <1>1, <1>2, <1>3, <1>10, <3>1, QuietAfterEnd, Zenon
    <3> QED BY <2>1, <3>2, QuietPhase, Zenon DEF Inserts
  <2>9. Ordered(c2s') /\ Fits(srv'.st, c2s') /\ ~cut'
    BY <1>3, <1>5, <1>10, <2>7, Zenon
  <2> QED BY <1>1, <1>3, <1>6, <1>10, <2>1, <2>2, <2>3, <2>4, <2>5, <2>6, <2>8, <2>9, Collect, Zenon
<1> QED BY <1>2, <1>3, <1>8, <1>9, <1>10 DEF OnDataCancelable

\* NextBlock throws and forgets the query.
LEMMA NextBlockThrowsStep ==
    ASSUME IInv, NextBlockThrows, UNCHANGED options
    PROVE  IInv'
<1>1. /\ Common /\ Scalars /\ Flows /\ Control /\ Callbacks /\ Tags /\ mixed = FALSE
      /\ misdelivered \cup stray \subseteq abandoned
  BY Parts, Zenon
<1>2. /\ call \in {"NextBlock", "drain"}
      /\ state' = "Idle" /\ events' = None /\ call' = "idle" /\ mustReset' = TRUE
      /\ UNCHANGED <<srv, produced, taken, stray, goal, req, sent, due, cut, pings, abandoned>>
      /\ (\E p \in Range(s2c) : ReceivePacket(p)) \/ NothingReceived
      /\ \/ UNCHANGED <<c2s, out, cancels>>
         \/ cancels' = cancels + 1 /\ SendFails(<<Packet("Cancel", events)>>)
  BY Zenon DEF NextBlockThrows, ResetState, Throw, NoServerStep, serverVars
<1>3. state = "Selecting" /\ ~mustReset
  BY <1>1, <1>2, Zenon DEF Control, Scalars
<1>4. /\ ~cut => Querying /\ Ordered(c2s) /\ Fits(srv.st, c2s)
      /\ Len(out) = 0 /\ events = req /\ req \in Tag
  BY <1>1, <1>3, Parts, Zenon DEF Phases, Querying, Lost, Control, Scalars
<1>5. mixed' = FALSE /\ misdelivered' \subseteq abandoned /\ Read
  <2>1. ASSUME NEW p \in Range(s2c), ReceivePacket(p)
        PROVE  mixed' = FALSE /\ misdelivered' \subseteq abandoned /\ Read
    BY <1>1, <1>3, <2>1, ReadsOwn, Received, Zenon
  <2>2. CASE NothingReceived
    BY <1>1, <2>2, Zenon DEF NothingReceived, Read
  <2> QED BY <1>2, <2>1, <2>2, Zenon
<1>6. s2c' \in Seq(ToClientPacket)
  BY <1>1, <1>5, Reading, Zenon
<1>7. /\ c2s' \in Seq(ToServerPacket) /\ out' \in Seq(ToServerPacket)
      /\ Tags' /\ (~cut => Ordered(c2s') /\ Fits(srv.st, c2s'))
  <2>1. CASE UNCHANGED <<c2s, out, cancels>>
    BY <1>1, <1>2, <1>4, <1>5, <2>1, TagsKept DEF Flows
  <2>2. CASE SendFails(<<Packet("Cancel", events)>>)
    BY <1>1, <1>2, <1>3, <1>4, <1>5, <2>2, CancelWritten DEF Wrote
  <2> QED BY <1>2, <2>1, <2>2, Zenon
<1>8. Scalars'
  <2>1. cancels' \in Nat
    BY <1>1, <1>2 DEF Scalars
  <2> QED BY <1>1, <1>2, <2>1, NumbersAreNatural, Zenon DEF Scalars, Preparing, Pinging, Inserts
<1>9. Control'
  BY <1>2, Zenon DEF Control, Preparing, Pinging, Inserts
<1>10. Callbacks'
  BY <1>2, Zenon DEF Callbacks
<1>11. Flows'
  BY <1>1, <1>2, <1>6, <1>7, Zenon DEF Flows
<1> QED BY <1>1, <1>2, <1>5, <1>7, <1>8, <1>9, <1>10, <1>11, Collect, Zenon

-----------------------------------------------------------------------------
(* Inserting.                                                              *)

\* Blocks, a marker and perhaps a Cancel are written for an insert that has
\* its sample block and no marker yet.
LEMMA BlocksWritten ==
    ASSUME Flows, Tags, Ordered(c2s), state = "Inserting", state' = state, Len(out) = 0,
           Read, srv.st \in {"insert", "skip", "closed"},
           ~Has(c2s, Starts \cup {"Ping"}), ~Has(c2s, {"End"}),
           NEW ms \in Seq(ToServerPacket), Wrote(ms),
           \A i \in 1 .. Len(ms) : /\ ms[i].m \in {"Data", "End", "Cancel"}
                                   /\ ms[i].m = "End" => i = Len(ms)
                                   /\ ms[i].m = "Cancel" => ms[i].q \in abandoned \cup {req},
           Send(ms) \/ ~Has(ms, {"Cancel"}),
           UNCHANGED <<srv, abandoned, req>>
    PROVE  /\ c2s' \in Seq(ToServerPacket) /\ out' \in Seq(ToServerPacket)
           /\ Tags' /\ Ordered(c2s') /\ Fits(srv.st, c2s')
           /\ Send(ms) => /\ Len(out') = 0 /\ ~Has(c2s', Starts \cup {"Ping"})
                          /\ Len(c2s') = Len(c2s) + Len(ms)
                          /\ \A i \in 1 .. Len(c2s) : c2s'[i] = c2s[i]
                          /\ \A i \in 1 .. Len(ms) : c2s'[Len(c2s) + i] = ms[i]
<1> DEFINE d == Full(ms)
<1>1. c2s \in Seq(ToServerPacket) /\ Len(c2s) \in Nat /\ Len(ms) \in Nat
  BY DEF Flows
<1>2. /\ d \in Seq(ToServerPacket) /\ Len(d) = Len(c2s) + Len(ms)
      /\ \A i \in 1 .. Len(c2s) : d[i] = c2s[i]
      /\ \A i \in 1 .. Len(ms) : d[Len(c2s) + i] = ms[i]
  <2>1. /\ d \in Seq(ToServerPacket)
        /\ Len(d) = Len(c2s) + Len(out) + Len(ms)
        /\ \A i \in 1 .. Len(c2s) : d[i] = c2s[i]
        /\ \A i \in 1 .. Len(ms) : d[Len(c2s) + Len(out) + i] = ms[i]
    BY Whole, Zenon
  <2>2. Len(c2s) + Len(out) = Len(c2s)
    <3>1. \A n \in Nat : n + 0 = n
      OBVIOUS
    <3> QED BY <1>1, <3>1, Zenon
  <2> QED BY <2>1, <2>2, Zenon
<1>3. /\ c2s' \in Seq(ToServerPacket) /\ out' \in Seq(ToServerPacket)
      /\ Extends(d, c2s')
      /\ Send(ms) => c2s' = d /\ Len(out') = 0
  BY Writing, Zenon
<1> HIDE DEF d
<1>4. \A i \in 1 .. Len(d) :
         \/ i \in 1 .. Len(c2s) /\ d[i] = c2s[i]
         \/ \E k \in 1 .. Len(ms) : d[i] = ms[k] /\ i = Len(c2s) + k
  <2>1. ASSUME NEW i \in 1 .. Len(d), i > Len(c2s)
        PROVE  \E k \in 1 .. Len(ms) : d[i] = ms[k] /\ i = Len(c2s) + k
    <3>1. i - Len(c2s) \in 1 .. Len(ms) /\ i = Len(c2s) + (i - Len(c2s))
      BY <1>1, <1>2, <2>1
    <3>2. d[Len(c2s) + (i - Len(c2s))] = ms[i - Len(c2s)]
      BY <1>2, <3>1, Zenon
    <3> QED BY <3>1, <3>2, Zenon
  <2>2. \A i \in 1 .. Len(d) : i \in 1 .. Len(c2s) \/ i > Len(c2s)
    BY <1>1, <1>2
  <2> QED BY <1>2, <2>1, <2>2, Zenon
<1>5. \A i \in 1 .. Len(c2s) : c2s[i].m \notin Starts \cup {"Ping", "Torn", "End"}
  BY Zenon DEF Ordered, Has
<1>6. \A i \in 1 .. Len(d) : d[i].m \notin Starts \cup {"Ping", "Torn"}
  BY <1>4, <1>5, ZenonT(30) DEF Starts
<1>7. \A i \in 1 .. Len(d) : d[i].m = "End" => i = Len(d)
  BY <1>2, <1>4, <1>5, ZenonT(30)
<1>8. ~Has(d, Starts \cup {"Ping", "Torn"}) /\ ~Has(d, Starts \cup {"Ping"})
  BY <1>6, Zenon DEF Has
<1>9. Ordered(d) /\ Fits(srv.st, d)
  BY <1>2, <1>7, <1>8, BlocksFit, ZenonT(30)
<1>10. Ordered(c2s') /\ Fits(srv.st, c2s')
  BY <1>2, <1>3, <1>9, PrefixKeeps, Zenon
<1>11. Tags'
  <2>1. ~Has(out, {"Cancel"}) /\ ~Has(ms, Starts)
    BY DEF Has, Starts
  <2> QED BY <2>1, TagsWritten, Zenon
<1> QED BY <1>2, <1>3, <1>8, <1>10, <1>11, Zenon

\* One more block, or the marker.
LEMMA BlockCounted ==
    ASSUME NEW c \in Seq(ToServerPacket), NEW d \in Seq(ToServerPacket),
           Len(d) = Len(c) + 1, \A i \in 1 .. Len(c) : d[i] = c[i],
           d[Len(d)].m \in {"Data", "End"}, ~Has(c, {"End"}),
           \A i \in 1 .. Len(c) : c[i].m = "Cancel" => i = 1
    PROVE  /\ Lead(d) = Lead(c) /\ Marker(c) = 0
           /\ Marker(d) = IF d[Len(d)].m = "End" THEN 1 ELSE 0
           /\ \A i \in 1 .. Len(d) : d[i].m = "Cancel" => i = 1
<1>1. Len(c) \in Nat /\ Len(d) > 0
  OBVIOUS
<1>2. Len(c) > 0 => Len(c) \in 1 .. Len(c) /\ 1 \in 1 .. Len(c)
  BY <1>1
<1>3. Marker(c) = 0
  BY <1>2, Zenon DEF Marker, Has
<1>4. Marker(d) = IF d[Len(d)].m = "End" THEN 1 ELSE 0
  BY <1>1, Zenon DEF Marker
<1>5. Lead(d) = Lead(c)
  <2>1. CASE Len(c) > 0
    BY <1>1, <1>2, <2>1, Zenon DEF Lead
  <2>2. CASE Len(c) = 0
    <3>1. Len(d) = 1
      BY <2>2
    <3> QED BY <2>2, <3>1 DEF Lead
  <2> QED BY <1>1, <2>1, <2>2
<1>6. \A i \in 1 .. Len(d) : i \in 1 .. Len(c) \/ i = Len(d)
  BY <1>1
<1> QED BY <1>3, <1>4, <1>5, <1>6, Zenon

\* One packet more on the wire.
LEMMA OneWritten ==
    ASSUME Flows, Len(out) = 0, NEW ms \in Seq(ToServerPacket), Len(ms) = 1, Send(ms)
    PROVE  /\ c2s \in Seq(ToServerPacket) /\ c2s' \in Seq(ToServerPacket)
           /\ Len(c2s) \in Nat /\ Len(c2s') = Len(c2s) + 1
           /\ \A i \in 1 .. Len(c2s) : c2s'[i] = c2s[i]
           /\ \A i \in 1 .. Len(c2s') : i \in 1 .. Len(c2s) \/ i = Len(c2s')
           /\ c2s'[Len(c2s')] = ms[1] /\ Len(c2s') \in 1 .. Len(c2s')
           /\ Extends(c2s', c2s) /\ Len(out') = 0
<1>1. Wrote(ms)
  BY Zenon DEF Wrote
<1>2. /\ c2s' \in Seq(ToServerPacket) /\ c2s' = Full(ms) /\ Len(out') = 0
  BY <1>1, Writing, Zenon
<1>3. /\ Len(c2s) \in Nat /\ Len(c2s') = Len(c2s) + Len(out) + Len(ms)
      /\ \A i \in 1 .. Len(c2s) : c2s'[i] = c2s[i]
      /\ \A i \in 1 .. Len(ms) : c2s'[Len(c2s) + Len(out) + i] = ms[i]
      /\ Extends(c2s', c2s)
  BY <1>2, Whole, Zenon
<1>4. /\ Len(c2s') = Len(c2s) + 1 /\ Len(c2s) + Len(out) + 1 = Len(c2s')
      /\ Len(c2s') \in 1 .. Len(c2s') /\ 1 \in 1 .. Len(ms)
      /\ \A i \in 1 .. Len(c2s') : i \in 1 .. Len(c2s) \/ i = Len(c2s')
  BY <1>3
<1>5. c2s'[Len(c2s')] = ms[1]
  BY <1>3, <1>4, Zenon
<1>6. c2s \in Seq(ToServerPacket)
  BY Zenon DEF Flows
<1> QED BY <1>2, <1>3, <1>4, <1>5, <1>6, Zenon

\* A block that the server takes for the marker ends an insert.
LEMMA EndedByBlock ==
    ASSUME Flows, Scalars, Inserting, Ordered(c2s), Len(out) = 0, call = "idle",
           NEW ms \in Seq(ToServerPacket), Len(ms) = 1, ms[1].m = "End", Send(ms),
           UNCHANGED <<call, srv, s2c, taken, due>>
    PROVE  Ended'
<1>1. /\ c2s \in Seq(ToServerPacket) /\ c2s' \in Seq(ToServerPacket)
      /\ Len(c2s) \in Nat /\ Len(c2s') = Len(c2s) + 1
      /\ \A i \in 1 .. Len(c2s) : c2s'[i] = c2s[i]
      /\ \A i \in 1 .. Len(c2s') : i \in 1 .. Len(c2s) \/ i = Len(c2s')
      /\ c2s'[Len(c2s')].m = "End" /\ Len(c2s') \in 1 .. Len(c2s')
  BY OneWritten, Zenon
<1>2. /\ srv.st \in {"insert", "skip", "closed"}
      /\ ~Has(c2s, Starts \cup {"Ping"}) /\ ~Has(c2s, {"End"}) /\ ~Has(s2c, {"EndOfStream"})
      /\ \A i \in 1 .. Len(c2s) : c2s[i].m = "Cancel" => i = 1
  BY Zenon DEF Inserting
<1>3. \A i \in 1 .. Len(c2s) : c2s[i].m \in {"Data", "Cancel"}
  <2>1. \A i \in 1 .. Len(c2s) : c2s[i].m \in ToServer
    BY <1>1, Kinds, Zenon
  <2>2. \A i \in 1 .. Len(c2s) : c2s[i].m \notin Starts \cup {"Ping", "Torn", "End"}
    BY <1>2, Zenon DEF Ordered, Has
  <2> QED BY <2>1, <2>2, Zenon DEF ToServer, Starts
<1>4. \A i \in 1 .. Len(c2s') : /\ c2s'[i].m \in Blocks \cup {"Cancel"}
                                /\ c2s'[i].m = "Cancel" => i = 1
  <2>1. {"Data", "Cancel", "End"} = Blocks \cup {"Cancel"}
    BY Zenon DEF Blocks
  <2>2. \A i \in 1 .. Len(c2s') : c2s'[i].m \in {"Data", "Cancel", "End"}
    <3>1. \A i \in 1 .. Len(c2s) : c2s'[i].m \in {"Data", "Cancel"}
      BY <1>1, <1>3, Zenon
    <3> QED BY <1>1, <3>1, Zenon
  <2>3. \A i \in 1 .. Len(c2s') : c2s'[i].m = "Cancel" => i = 1
    BY <1>1, <1>2, ZenonT(30)
  <2> QED BY <2>1, <2>2, <2>3, Zenon
<1>5. Has(c2s', {"End"})
  BY <1>1, Zenon DEF Has
<1>6. srv.st = "insert" => EndsAt(c2s', Len(c2s'))
  <2>1. SUFFICES ASSUME srv.st = "insert" PROVE EndsAt(c2s', Len(c2s'))
    BY Zenon
  <2>2. taken + Len(c2s) = due + Lead(c2s) + Marker(c2s)
    BY <2>1, Zenon DEF Inserting
  <2>3. Lead(c2s') = Lead(c2s) /\ Marker(c2s) = 0
    BY <1>1, <1>2, BlockCounted, Zenon
  <2>4. Lead(c2s) \in Nat /\ taken \in Nat /\ due \in Nat
    BY Zenon DEF Lead, Scalars, Flows
  <2>5. taken + Len(c2s) = due + Lead(c2s) + 0
    BY <2>2, <2>3, Zenon
  <2>6. taken + Len(c2s') = due + 1 + Lead(c2s')
    BY <1>1, <2>3, <2>4, <2>5
  <2>7. \A k \in 1 .. Len(c2s') - 1 : k \in 1 .. Len(c2s)
    BY <1>1
  <2>8. \A k \in 1 .. Len(c2s') - 1 : c2s'[k].m = "Data" \/ (k = 1 /\ c2s'[k].m = "Cancel")
    <3>1. ASSUME NEW k \in 1 .. Len(c2s') - 1
          PROVE  c2s'[k].m = "Data" \/ (k = 1 /\ c2s'[k].m = "Cancel")
      <4>1. k \in 1 .. Len(c2s) /\ c2s'[k] = c2s[k]
        BY <1>1, <2>7, Zenon
      <4> QED BY <1>2, <1>3, <4>1, Zenon
    <3> QED BY <3>1, Zenon
  <2> QED BY <1>1, <2>6, <2>8, Zenon DEF EndsAt
<1>7. Has(s2c, EndsResponse) => /\ \A i \in 1 .. Len(s2c) : s2c[i].m \in EndsResponse => i = Len(s2c)
                                /\ srv.st \in {"idle", "skip", "closed"}
  BY Zenon DEF Inserting, Ends
<1>8. srv'.st = "insert" => \E i \in 1 .. Len(c2s') : EndsAt(c2s, i)'
  BY <1>1, <1>6, Zenon DEF EndsAt
<1> QED BY <1>2, <1>4, <1>5, <1>7, <1>8, Zenon DEF Ended

\* What is written behind such a block is of no use to the server.
LEMMA EndedWritten ==
    ASSUME Flows, Ended, Len(out) = 0, call = "idle", call' \in {"idle", "EndInsert"},
           NEW ms \in Seq(ToServerPacket), Len(ms) = 1, ms[1].m \in Blocks, Send(ms),
           UNCHANGED <<srv, s2c, taken, due>>
    PROVE  Ended'
<1>1. /\ c2s \in Seq(ToServerPacket) /\ c2s' \in Seq(ToServerPacket)
      /\ Len(c2s) \in Nat /\ Len(c2s') = Len(c2s) + 1
      /\ \A i \in 1 .. Len(c2s) : c2s'[i] = c2s[i]
      /\ \A i \in 1 .. Len(c2s') : i \in 1 .. Len(c2s) \/ i = Len(c2s')
      /\ c2s'[Len(c2s')].m \in Blocks /\ Len(c2s') \in 1 .. Len(c2s')
      /\ Extends(c2s', c2s)
  BY OneWritten, Zenon
<1>2. /\ \A i \in 1 .. Len(c2s) :
            /\ c2s[i].m \in Blocks \cup {"Cancel"}
            /\ c2s[i].m = "Cancel" => i = 1 /\ srv.st \in {"insert", "skip", "closed"}
      /\ srv.st \in {"idle", "skip", "closed", "confused", "insert", "finish"}
      /\ srv.st = "skip" => Has(c2s, {"End"})
      /\ srv.st = "insert" => \E i \in 1 .. Len(c2s) : EndsAt(c2s, i)
  BY Zenon DEF Ended
<1>3. "Cancel" \notin Blocks
  BY Zenon DEF Blocks
<1>4. \A i \in 1 .. Len(c2s') :
         /\ c2s'[i].m \in Blocks \cup {"Cancel"}
         /\ c2s'[i].m = "Cancel" => i = 1 /\ srv.st \in {"insert", "skip", "closed"}
  BY <1>1, <1>2, <1>3, Zenon
<1>5. srv.st = "skip" => Has(c2s', {"End"})
  BY <1>1, <1>2, HasExtends, Zenon
<1>6. srv.st \in {"skip", "insert"} => \E i \in 1 .. Len(c2s) : c2s[i].m = "End"
  BY <1>2, Zenon DEF EndsAt, Has
<1>7. Dead(srv.st, c2s')
  <2>1. \A i \in 1 .. Len(c2s) : i \in 1 .. Len(c2s') - 1
    BY <1>1
  <2>2. srv.st \in {"skip", "insert"} => \E i \in 1 .. Len(c2s') - 1 : c2s'[i].m = "End"
    BY <1>1, <1>6, <2>1, Zenon
  <2> QED BY <1>1, <1>2, <1>4, <2>2, Zenon DEF Dead
<1>8. srv.st = "insert" => \E i \in 1 .. Len(c2s') : EndsAt(c2s', i)
  <2>1. ASSUME NEW i \in 1 .. Len(c2s), EndsAt(c2s, i)
        PROVE  EndsAt(c2s', i) /\ i \in 1 .. Len(c2s')
    <3>1. i \in 1 .. Len(c2s') /\ (\A k \in 1 .. i - 1 : k \in 1 .. Len(c2s))
          /\ 1 \in 1 .. Len(c2s) /\ Len(c2s) > 0 /\ Len(c2s') > 0
      BY <1>1
    <3>2. Lead(c2s') = Lead(c2s)
      BY <1>1, <3>1, Zenon DEF Lead
    <3> QED BY <1>1, <2>1, <3>1, <3>2, Zenon DEF EndsAt
  <2> QED BY <1>2, <2>1, Zenon
<1>9. /\ Has(s2c, EndsResponse) =>
            /\ \A i \in 1 .. Len(s2c) : s2c[i].m \in EndsResponse => i = Len(s2c)
            /\ srv.st \in {"idle", "skip", "closed", "confused"}
      /\ srv.st = "finish" \/ Has(s2c, {"EndOfStream"}) => taken = due
  BY Zenon DEF Ended
<1>10. srv'.st = "insert" => \E i \in 1 .. Len(c2s') : EndsAt(c2s, i)'
  BY <1>8, Zenon DEF EndsAt
<1> QED BY <1>2, <1>4, <1>5, <1>7, <1>9, <1>10, Zenon DEF Ended

\* The next block of an insert.
LEMMA SendInsertBlockStep ==
    ASSUME IInv, SendInsertBlock, UNCHANGED options
    PROVE  IInv'
<1>1. /\ Scalars /\ Flows /\ Control /\ Callbacks /\ Tags /\ mixed = FALSE
      /\ misdelivered \cup stray \subseteq abandoned
  BY Parts, Zenon
<1>2. PICK b \in Blocks :
        /\ Pass(b)
        /\ \/ Send(<<Packet(b, req)>>) /\ Return
           \/ SendFails(<<Packet(b, req)>>) /\ Throw
  BY Zenon DEF SendInsertBlock
<1> DEFINE ms == <<Packet(b, req)>>
<1>3. /\ call = "idle" /\ state = "Inserting" /\ ~mustReset
      /\ UNCHANGED <<srv, produced, taken, stray, s2c, mixed, misdelivered>>
      /\ UNCHANGED <<state, events, goal, req, pings, cancels, abandoned>>
      /\ call' = "idle"
      /\ (Send(ms) /\ UNCHANGED mustReset) \/ (SendFails(ms) /\ mustReset' = TRUE)
      /\ sent' = sent + 1 /\ due' = IF b = "End" \/ cut THEN due ELSE due + 1
      /\ cut' = (cut \/ b = "End")
  BY <1>2, Zenon DEF SendInsertBlock, Ready, Return, Throw, NoServerStep, serverVars,
     NothingReceived, Pass
<1>4. /\ ~cut => Inserting /\ Ordered(c2s) /\ Fits(srv.st, c2s)
      /\ cut => Ended
      /\ Len(out) = 0 /\ req \in Tag
  BY <1>1, <1>3, Parts, Zenon DEF Phases, Lost, Inserts, Scalars
<1>5. /\ ms \in Seq(ToServerPacket) /\ Len(ms) = 1 /\ Wrote(ms) /\ ms[1].m = b
      /\ \A i \in 1 .. Len(ms) : i = 1 /\ ms[i].m = b /\ b \in {"Data", "End"}
      /\ Read /\ ~Has(ms, Starts \cup {"Cancel"})
  <2>1. b \in ToServer /\ b \in {"Data", "End"}
    BY Zenon DEF ToServer, Blocks
  <2>2. /\ ms \in Seq(ToServerPacket) /\ Len(ms) = 1 /\ Wrote(ms) /\ ms[1].m = b
        /\ \A i \in 1 .. Len(ms) : i = 1 /\ ms[i].m = b
    BY <1>3, <1>4, <2>1, Single DEF Wrote
  <2>3. Read
    BY <1>3, Zenon DEF Read
  <2>4. ~Has(ms, Starts \cup {"Cancel"})
    <3> HIDE DEF ms
    <3> QED BY <2>1, <2>2, Zenon DEF Has, Starts
  <2> QED BY <2>1, <2>2, <2>3, <2>4, Zenon
<1> HIDE DEF ms
<1>6. c2s' \in Seq(ToServerPacket) /\ out' \in Seq(ToServerPacket) /\ Tags'
  <2>1. ~Has(out, {"Cancel"}) /\ ~Has(ms, Starts) /\ ~Has(ms, {"Cancel"})
    BY <1>1, <1>3, <1>5, Zenon DEF Tags, Has
  <2>2. \A i \in 1 .. Len(ms) : ms[i].m = "Cancel" => ms[i].q \in abandoned \cup {req}
    BY <1>5, Zenon
  <2> QED BY <1>1, <1>3, <1>5, <2>1, <2>2, Writing, TagsWritten
<1>7. Scalars'
  <2>1. mustReset' \in BOOLEAN
    BY <1>1, <1>3, Zenon DEF Scalars
  <2>2. due' \in Nat /\ sent' \in Nat
    BY <1>1, <1>3 DEF Scalars
  <2>3. cut' \in BOOLEAN
    BY <1>3, Zenon
  <2> QED BY <1>1, <1>3, <2>1, <2>2, <2>3, Zenon DEF Scalars, Preparing, Pinging, Inserts
<1>8. Control'
  BY <1>3, Zenon DEF Control, Preparing, Pinging, Inserts
<1>9. Callbacks'
  BY <1>1, <1>3, Zenon DEF Callbacks
<1>10. Flows'
  BY <1>1, <1>3, <1>6, Zenon DEF Flows
<1>11. ~mustReset' /\ cut' => Lost'
  <2>1. SUFFICES ASSUME ~mustReset', cut' PROVE Lost'
    BY Zenon
  <2>2. Send(ms) /\ Len(out') = 0
    BY <1>1, <1>3, <1>4, <1>5, <2>1, OneWritten, Zenon
  <2>3. due' = due /\ (cut \/ b = "End")
    BY <1>3, <2>1, Zenon
  <2>4. Ended'
    <3>1. CASE cut
      BY <1>1, <1>3, <1>4, <1>5, <2>2, <2>3, <3>1, EndedWritten, Zenon
    <3>2. CASE ~cut
      BY <1>1, <1>3, <1>4, <1>5, <2>2, <2>3, <3>2, EndedByBlock, Zenon
    <3> QED BY <3>1, <3>2, Zenon
  <2> QED BY <1>3, <2>2, <2>4, Zenon DEF Lost, Inserts
<1>12. ASSUME ~cut'
       PROVE  /\ Ordered(c2s') /\ Fits(srv.st, c2s')
              /\ Send(ms) => ~Has(c2s', Starts \cup {"Ping"})
              /\ ~cut /\ due' = due + 1 /\ b = "Data"
              /\ srv.st \in {"insert", "skip", "closed"}
              /\ ~Has(c2s, {"End"}) /\ ~Has(s2c, {"EndOfStream"})
  <2>1. ~cut /\ due' = due + 1 /\ b = "Data"
    BY <1>3, <1>12, Zenon DEF Blocks
  <2>2. /\ srv.st \in {"insert", "skip", "closed"}
        /\ ~Has(c2s, Starts \cup {"Ping"}) /\ ~Has(c2s, {"End"}) /\ ~Has(s2c, {"EndOfStream"})
    BY <1>3, <1>4, <2>1, Zenon DEF Inserting
  <2>3. \A i \in 1 .. Len(ms) : /\ ms[i].m \in {"Data", "End", "Cancel"}
                                /\ ms[i].m = "End" => i = Len(ms)
                                /\ ms[i].m = "Cancel" => ms[i].q \in abandoned \cup {req}
    BY <1>5, <2>1, Zenon
  <2>4. ~Has(ms, {"Cancel"})
    BY <1>5, Zenon DEF Has
  <2>5. /\ Ordered(c2s') /\ Fits(srv.st, c2s')
        /\ Send(ms) => ~Has(c2s', Starts \cup {"Ping"})
    BY <1>1, <1>3, <1>4, <1>5, <2>1, <2>2, <2>3, <2>4, BlocksWritten, ZenonT(30)
  <2> QED BY <2>1, <2>2, <2>5, Zenon
<1>13. ~mustReset' /\ ~cut' => Phases'
  <2>1. SUFFICES ASSUME ~mustReset', ~cut' PROVE Phases'
    BY Zenon
  <2>2. Send(ms)
    BY <1>3, <2>1, Zenon
  <2>3. /\ Len(out') = 0 /\ Len(c2s') = Len(c2s) + 1 /\ Len(c2s) \in Nat
        /\ c2s \in Seq(ToServerPacket)
        /\ \A i \in 1 .. Len(c2s) : c2s'[i] = c2s[i]
        /\ \A i \in 1 .. Len(c2s') : i \in 1 .. Len(c2s) \/ i = Len(c2s')
        /\ c2s'[Len(c2s')].m = "Data"
    BY <1>1, <1>4, <1>5, <1>12, <2>1, <2>2, OneWritten, Zenon
  <2>4. ~Has(c2s', {"End"})
    BY <1>12, <2>1, <2>3, Zenon DEF Has
  <2>5. \A i \in 1 .. Len(c2s) : c2s[i].m = "Cancel" => i = 1
    BY <1>4, <1>12, <2>1, Zenon DEF Inserting
  <2>6. /\ Lead(c2s') = Lead(c2s) /\ Marker(c2s) = 0 /\ Marker(c2s') = 0
        /\ \A i \in 1 .. Len(c2s') : c2s'[i].m = "Cancel" => i = 1
    BY <1>6, <1>12, <2>1, <2>3, <2>5, BlockCounted, Zenon
  <2>7. srv.st = "insert" => taken' + Len(c2s') = due' + Lead(c2s') + Marker(c2s')
    <3>1. SUFFICES ASSUME srv.st = "insert"
                   PROVE  taken' + Len(c2s') = due' + Lead(c2s') + Marker(c2s')
      BY Zenon
    <3>2. taken + Len(c2s) = due + Lead(c2s) + Marker(c2s)
      BY <1>4, <1>12, <2>1, <3>1, Zenon DEF Inserting
    <3>3. Lead(c2s) \in Nat /\ taken \in Nat /\ due \in Nat
      BY <1>1, Zenon DEF Lead, Scalars, Flows
    <3>4. taken' = taken /\ due' = due + 1 /\ Len(c2s') = Len(c2s) + 1 /\ Len(c2s) \in Nat
      BY <1>3, <1>12, <2>1, <2>3, Zenon
    <3>5. taken + Len(c2s) = due + Lead(c2s) + 0
      BY <2>6, <3>2, Zenon
    <3> QED BY <2>6, <3>3, <3>4, <3>5
  <2>8. Inserting'
    <3>1. Ends'
      <4>1. Ends
        BY <1>4, <1>12, <2>1, Zenon DEF Inserting
      <4> QED BY <1>3, <1>12, <2>1, <2>2, <4>1, Zenon DEF Ends
    <3> QED BY <1>3, <1>12, <2>1, <2>2, <2>4, <2>6, <2>7, <3>1, Zenon DEF Inserting
  <2> QED BY <1>3, <2>3, <2>8, Zenon DEF Phases, Inserts
<1>14. ~cut' => Ordered(c2s') /\ Fits(srv'.st, c2s')
  BY <1>3, <1>12, Zenon
<1> QED BY <1>1, <1>3, <1>6, <1>7, <1>8, <1>9, <1>10, <1>11, <1>13, <1>14, Collect, Zenon

=============================================================================
