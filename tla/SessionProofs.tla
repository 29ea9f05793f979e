---------------------------- MODULE SessionProofs ---------------------------
(***************************************************************************)
(* The steps of the client of Session that read the response of an INSERT  *)
(* and those that reset the connection, and the theorems about Session,    *)
(* for every number of calls, blocks and packets.                          *)
(***************************************************************************)
EXTENDS SessionClient

-----------------------------------------------------------------------------
(* Ending an INSERT, and its response.                                     *)

\* The marker ends the insert; behind an insert that threw, the destructor
\* sends what may make no sense.
LEMMA CallEndInsertStep ==
    ASSUME IInv, NEW g \in {"EndInsert", "~Client"}, CallEndInsert(g), UNCHANGED options
    PROVE  IInv'
<1>1. /\ Scalars /\ Flows /\ Control /\ Callbacks /\ Tags /\ mixed = FALSE
      /\ misdelivered \cup stray \subseteq abandoned
  BY Parts, Zenon
<1> DEFINE ms == <<Packet("End", req)>>
<1>2. /\ call = "idle" /\ state = "Inserting" /\ (mustReset => g = "~Client") /\ goal' = g
      /\ UNCHANGED <<srv, produced, taken, stray, s2c, mixed, misdelivered>>
      /\ UNCHANGED <<state, events, req, sent, due, cut, pings, cancels, abandoned>>
      /\ \/ Send(ms) /\ call' = "EndInsert" /\ UNCHANGED mustReset
         \/ SendFails(ms) /\ call' = "idle" /\ mustReset' = TRUE
  BY Zenon DEF CallEndInsert, Ready, Throw, NoServerStep, serverVars, NothingReceived
<1>3. /\ ms \in Seq(ToServerPacket) /\ Len(ms) = 1 /\ Wrote(ms)
      /\ \A i \in 1 .. Len(ms) : i = 1 /\ ms[i].m = "End"
  <2>1. "End" \in ToServer /\ req \in Tag
    BY <1>1, Zenon DEF ToServer, Scalars
  <2> QED BY <1>2, <2>1, Single DEF Wrote
<1> HIDE DEF ms
<1>4. Read /\ ~Has(ms, {"Cancel"})
  BY <1>2, <1>3, Zenon DEF Read, Has
<1>5. Scalars'
  <2>1. mustReset' \in BOOLEAN
    BY <1>1, <1>2, Zenon DEF Scalars
  <2>2. call' \in {"idle", "EndInsert"} /\ goal' \in {"EndInsert", "~Client"}
    BY <1>2, Zenon
  <2> QED BY <1>1, <1>2, <2>1, <2>2, Zenon DEF Scalars, Preparing, Pinging, Inserts
<1>6. Control'
  BY <1>2 DEF Control, Preparing, Pinging, Inserts
<1>7. Callbacks'
  BY <1>1, <1>2, Zenon DEF Callbacks, Preparing, Pinging
<1>8. CASE mustReset
  <2>1. mustReset' = TRUE /\ goal' = "~Client"
    BY <1>1, <1>2, <1>8, Zenon DEF Scalars
  <2>2. c2s' \in Seq(ToServerPacket) /\ out' \in Seq(ToServerPacket)
    BY <1>1, <1>3, Writing, Zenon
  <2>3. Flows'
    BY <1>1, <1>2, <2>2, Zenon DEF Flows
  <2>4. Tags'
    <3>1. ~Has(out, {"Cancel"}) /\ ~Has(ms, Starts)
          /\ \A i \in 1 .. Len(ms) : ms[i].m = "Cancel" => ms[i].q \in abandoned \cup {req}
      BY <1>1, <1>2, <1>3, Zenon DEF Tags, Has, Starts
    <3> QED BY <1>1, <1>2, <1>3, <1>4, <3>1, TagsWritten
  <2>5. Broken'
    BY <2>1, Zenon DEF Broken
  <2> QED BY <1>1, <1>2, <1>5, <1>6, <1>7, <2>1, <2>3, <2>4, <2>5, Collect, Zenon
<1>9. CASE ~mustReset /\ cut
  <2>1. Ended /\ Len(out) = 0
    BY <1>2, <1>9, Parts, Zenon DEF Lost, Inserts
  <2>2. c2s' \in Seq(ToServerPacket) /\ out' \in Seq(ToServerPacket)
    BY <1>1, <1>3, Writing, Zenon
  <2>3. Flows'
    BY <1>1, <1>2, <2>2, Zenon DEF Flows
  <2>4. Tags'
    <3>1. ~Has(out, {"Cancel"}) /\ ~Has(ms, Starts)
          /\ \A i \in 1 .. Len(ms) : ms[i].m = "Cancel" => ms[i].q \in abandoned \cup {req}
      BY <1>1, <1>2, <1>3, Zenon DEF Tags, Has, Starts
    <3> QED BY <1>1, <1>2, <1>3, <1>4, <3>1, TagsWritten
  <2>5. ~mustReset' => Lost'
    <3>1. SUFFICES ASSUME ~mustReset' PROVE Lost'
      BY Zenon
    <3>2. Send(ms) /\ call' = "EndInsert"
      BY <1>2, <3>1, Zenon
    <3>3. ms[1].m \in Blocks
      <4>1. 1 \in 1 .. Len(ms)
        BY <1>3
      <4> QED BY <1>3, <4>1, Zenon DEF Blocks
    <3>4. Ended'
      BY <1>1, <1>2, <1>3, <2>1, <3>2, <3>3, EndedWritten, Zenon
    <3>5. Len(out') = 0
      BY <1>1, <1>3, <2>1, <3>2, OneWritten, Zenon
    <3> QED BY <1>2, <3>2, <3>4, <3>5, Zenon DEF Lost, Inserts
  <2> QED BY <1>1, <1>2, <1>5, <1>6, <1>7, <1>9, <2>3, <2>4, <2>5, Collect, Zenon
<1>10. CASE ~mustReset /\ ~cut
  <2>1. Inserting /\ Len(out) = 0 /\ Ordered(c2s) /\ Fits(srv.st, c2s)
    BY <1>2, <1>10, Parts, Zenon DEF Phases, Inserts
  <2>2. /\ srv.st \in {"insert", "skip", "closed"}
        /\ ~Has(c2s, Starts \cup {"Ping"}) /\ ~Has(c2s, {"End"}) /\ ~Has(s2c, {"EndOfStream"})
    BY <1>2, <2>1, Zenon DEF Inserting
  <2>3. /\ c2s' \in Seq(ToServerPacket) /\ out' \in Seq(ToServerPacket)
        /\ Tags' /\ Ordered(c2s') /\ Fits(srv.st, c2s')
        /\ Send(ms) => /\ Len(out') = 0 /\ ~Has(c2s', Starts \cup {"Ping"})
                       /\ Len(c2s') = Len(c2s) + Len(ms)
                       /\ \A i \in 1 .. Len(c2s) : c2s'[i] = c2s[i]
                       /\ \A i \in 1 .. Len(ms) : c2s'[Len(c2s) + i] = ms[i]
    <3>1. \A i \in 1 .. Len(ms) : /\ ms[i].m \in {"Data", "End", "Cancel"}
                                  /\ ms[i].m = "End" => i = Len(ms)
                                  /\ ms[i].m = "Cancel" => ms[i].q \in abandoned \cup {req}
      BY <1>3, Zenon
    <3> QED BY <1>1, <1>2, <1>3, <1>4, <2>1, <2>2, <3>1, BlocksWritten, Zenon
  <2>4. Flows'
    BY <1>1, <1>2, <2>3, Zenon DEF Flows
  <2>5. ~mustReset' => Phases'
    <3>1. SUFFICES ASSUME ~mustReset' PROVE Phases'
      BY Zenon
    <3>2. Send(ms) /\ call' = "EndInsert"
      BY <1>2, <3>1, Zenon
    <3>3. /\ Len(out') = 0 /\ ~Has(c2s', Starts \cup {"Ping"})
          /\ Len(c2s') = Len(c2s) + 1 /\ Len(c2s) \in Nat /\ c2s \in Seq(ToServerPacket)
          /\ \A i \in 1 .. Len(c2s) : c2s'[i] = c2s[i]
          /\ c2s'[Len(c2s')].m = "End"
      <4>1. 1 \in 1 .. Len(ms) /\ ms[1].m = "End"
        BY <1>3
      <4> QED BY <1>1, <1>3, <2>1, <2>3, <3>2, <4>1, OneWritten, Zenon
    <3>4. Has(c2s', {"End"})
      <4>1. Len(c2s') \in 1 .. Len(c2s')
        BY <3>3
      <4> QED BY <3>3, <4>1, Zenon DEF Has
    <3>5. \A i \in 1 .. Len(c2s) : c2s[i].m = "Cancel" => i = 1
      BY <2>1, Zenon DEF Inserting
    <3>6. /\ Lead(c2s') = Lead(c2s) /\ Marker(c2s) = 0 /\ Marker(c2s') = 1
          /\ \A i \in 1 .. Len(c2s') : c2s'[i].m = "Cancel" => i = 1
      BY <2>2, <2>3, <3>3, <3>5, BlockCounted
    <3>7. srv.st = "insert" => taken' + Len(c2s') = due' + Lead(c2s') + Marker(c2s')
      <4>1. SUFFICES ASSUME srv.st = "insert"
                     PROVE  taken' + Len(c2s') = due' + Lead(c2s') + Marker(c2s')
        BY Zenon
      <4>2. taken + Len(c2s) = due + Lead(c2s) + Marker(c2s)
        BY <2>1, <4>1, Zenon DEF Inserting
      <4>3. Lead(c2s) \in Nat /\ taken \in Nat /\ due \in Nat
        BY <1>1, Zenon DEF Lead, Scalars, Flows
      <4>4. taken' = taken /\ due' = due /\ Len(c2s') = Len(c2s) + 1 /\ Len(c2s) \in Nat
        BY <1>2, <3>3, Zenon
      <4>5. taken + Len(c2s) = due + Lead(c2s) + 0
        BY <3>6, <4>2, Zenon
      <4> QED BY <3>6, <4>3, <4>4, <4>5
    <3>8. Inserting'
      <4>1. Ends'
        BY <1>2, <2>1, <3>3 DEF Inserting, Ends
      <4> QED BY <1>2, <2>2, <3>2, <3>3, <3>4, <3>6, <3>7, <4>1 DEF Inserting
    <3> QED BY <1>2, <3>2, <3>3, <3>8 DEF Phases, Inserts
  <2> QED BY <1>1, <1>2, <1>5, <1>6, <1>7, <1>10, <2>3, <2>4, <2>5, Collect, Zenon
<1> QED BY <1>8, <1>9, <1>10, Zenon

\* EndInsert reads to the end of the response.
LEMMA EndInsertReadsStep ==
    ASSUME IInv, EndInsertReads, UNCHANGED options
    PROVE  IInv'
<1>1. /\ Common /\ Scalars /\ Flows /\ Control /\ Callbacks /\ Tags
      /\ misdelivered \cup stray \subseteq abandoned
  BY Parts, Zenon
<1>2. PICK p \in Range(s2c) :
        /\ ReceivePacket(p)
        /\ \/ call' = "idle" /\ mustReset' = TRUE /\ UNCHANGED state
           \/ /\ p.m \in EndsResponse
              /\ state' = "Idle" /\ call' = "idle" /\ UNCHANGED mustReset
           \/ UNCHANGED <<state, call, mustReset>>
  BY Zenon DEF EndInsertReads, Throw, Return
<1>3. /\ call = "EndInsert"
      /\ UNCHANGED <<srv, produced, taken, stray, events, out, goal, req, sent, due, cut, pings>>
      /\ UNCHANGED <<cancels, c2s, abandoned>>
  BY Zenon DEF EndInsertReads, NoServerStep, serverVars
<1>4. state = "Inserting" /\ state' \in {"Inserting", "Idle"}
  BY <1>1, <1>2, <1>3, Zenon DEF Scalars
<1>5. mixed' = FALSE /\ misdelivered' \subseteq abandoned
  BY <1>1, <1>2, <1>4, ReadsOwn, Zenon
<1>6. Read /\ s2c' \in Seq(ToClientPacket)
  BY <1>1, <1>2, Received, Reading, Zenon
<1>7. Flows' /\ Tags'
  BY <1>1, <1>3, <1>4, <1>6, TagsKept DEF Flows
<1>8. Callbacks'
  BY <1>1, <1>3, <1>4, Zenon DEF Callbacks, Preparing, Pinging
<1>9. Scalars'
  <2>1. mustReset' \in BOOLEAN
    BY <1>1, <1>2, Zenon DEF Scalars
  <2>2. call' = "idle" \/ (call' = "EndInsert" /\ state' = "Inserting")
    BY <1>2, <1>3, <1>4, Zenon
  <2> QED BY <1>1, <1>3, <1>4, <2>1, <2>2 DEF Scalars, Preparing, Pinging, Inserts
<1>10. Control'
  BY <1>1, <1>2, <1>3, <1>4 DEF Control, Preparing, Pinging, Inserts
<1>11. ~Broken' /\ ~cut' => Ordered(c2s') /\ Fits(srv'.st, c2s')
  <2>1. ~Broken' => ~Broken
    BY <1>2, <1>3, Zenon DEF Broken
  <2> QED BY <1>3, <2>1, Parts, Zenon
<1>12. ~mustReset' /\ ~cut' => Phases'
  <2>1. SUFFICES ASSUME ~mustReset', ~cut PROVE Phases'
    BY <1>3, Zenon
  <2>2. ~mustReset
    BY <1>2, <2>1, Zenon
  <2>3. Inserting /\ Len(out) = 0 /\ Ends
    BY <1>3, <1>4, <2>1, <2>2, Parts DEF Phases, Inserts, Inserting
  <2>4. CASE p.m \in EndsResponse /\ state' = "Idle" /\ call' = "idle"
    <3>1. srv.st = "skip" => Has(c2s, {"End"})
      BY <1>3, <2>3, Zenon DEF Inserting
    <3>2. Quiet'
      BY <1>1, <1>2, <1>3, <2>3, <2>4, <3>1, QuietAfterEnd
    <3> QED BY <2>4, <3>2, QuietPhase, Zenon DEF Inserts
  <2>5. CASE UNCHANGED <<state, call, mustReset>>
    <3>1. Ends'
      BY <1>1, <1>3, <1>6, <2>3, EndsKept, Zenon
    <3>2. \A kinds : Has(s2c', kinds) => Has(s2c, kinds)
      BY <1>1, <1>6, Reading, Zenon
    <3>3. Inserting'
      BY <1>3, <2>3, <2>5, <3>1, <3>2 DEF Inserting
    <3> QED BY <1>3, <1>4, <2>3, <2>5, <3>3, Zenon DEF Phases, Inserts
  <2> QED BY <1>2, <2>1, <2>4, <2>5, Zenon
<1>13. ~mustReset' /\ cut' => Lost'
  <2>1. SUFFICES ASSUME ~mustReset', cut PROVE Lost'
    BY <1>3, Zenon
  <2>2. ~mustReset
    BY <1>2, <2>1, Zenon
  <2>3. Ended /\ Len(out) = 0
    BY <1>3, <1>4, <2>1, <2>2, Parts, Zenon DEF Lost, Inserts
  <2>4. /\ Dead(srv.st, c2s)
        /\ \A i \in 1 .. Len(c2s) : c2s[i].m \in Blocks \cup {"Cancel"}
        /\ Has(s2c, EndsResponse) =>
              /\ \A i \in 1 .. Len(s2c) : s2c[i].m \in EndsResponse => i = Len(s2c)
              /\ srv.st \in {"idle", "skip", "closed", "confused"}
        /\ srv.st = "finish" \/ Has(s2c, {"EndOfStream"}) => taken = due
    BY <1>3, <2>3, Zenon DEF Ended
  <2>5. CASE p.m \in EndsResponse /\ state' = "Idle" /\ call' = "idle"
    <3>1. /\ p = s2c[1] /\ s2c # <<>> /\ s2c' = Tail(s2c)
          /\ Len(s2c) \in Nat /\ Len(s2c') = Len(s2c) - 1 /\ 1 \in 1 .. Len(s2c)
      BY <1>1, <1>2, Received, Taking DEF Flows
    <3>2. Has(s2c, EndsResponse) /\ 1 = Len(s2c)
      BY <2>4, <2>5, <3>1, Zenon DEF Has
    <3>3. \A i \in 1 .. Len(s2c') : FALSE
      BY <3>1, <3>2
    <3>4. Mute'
      BY <1>3, <2>4, <3>2, <3>3, Zenon DEF Mute, Has
    <3>5. ~Has(c2s', Starts)
      BY <1>3, <2>4, Zenon DEF Has, Starts, Blocks
    <3>6. Len(out') = 0 /\ ~Has(out', ToServer \ {"Ping"})
      BY <1>3, <2>3 DEF Has
    <3> QED BY <2>5, <3>4, <3>5, <3>6, LostPhase, Zenon
  <2>6. CASE UNCHANGED <<state, call, mustReset>>
    <3>1. /\ Has(s2c', EndsResponse) => Has(s2c, EndsResponse)
          /\ \A i \in 1 .. Len(s2c') : s2c'[i].m \in EndsResponse => i = Len(s2c')
      BY <1>1, <1>6, <2>4, LastRead, Zenon
    <3>2. Has(s2c', {"EndOfStream"}) => Has(s2c, {"EndOfStream"})
      BY <1>1, <1>6, Reading, Zenon
    <3>3. \A i \in 1 .. Len(c2s) : EndsAt(c2s, i) => EndsAt(c2s, i)'
      BY <1>3, Zenon DEF EndsAt
    <3>4. Ended'
      BY <1>3, <2>3, <2>6, <3>1, <3>2, <3>3, Zenon DEF Ended
    <3> QED BY <1>3, <1>4, <2>3, <2>6, <3>4, Zenon DEF Lost, Inserts
  <2> QED BY <1>2, <2>1, <2>5, <2>6, Zenon
<1> QED BY <1>1, <1>3, <1>5, <1>7, <1>8, <1>9, <1>10, <1>11, <1>12, <1>13, Collect, Zenon

\* Whatever makes an insert throw leaves the streams for the reset.
LEMMA InsertThrowsStep ==
    ASSUME IInv, InsertThrows, UNCHANGED options
    PROVE  IInv'
<1>1. /\ Common /\ Scalars /\ Flows /\ Control /\ Callbacks /\ Tags /\ mixed = FALSE
      /\ misdelivered \cup stray \subseteq abandoned
  BY Parts, Zenon
<1>2. /\ call \in Inserts \cup {"EndInsert"}
      /\ (\E p \in Range(s2c) : ReceivePacket(p)) \/ NothingReceived
      /\ call' = "idle" /\ mustReset' = TRUE
      /\ events' = IF goal = "BeginInsert" THEN None ELSE events
      /\ UNCHANGED <<srv, produced, taken, stray, state, out, goal, req, sent, due, cut, pings>>
      /\ UNCHANGED <<cancels, c2s, abandoned>>
  BY Zenon DEF InsertThrows, Throw, EnsureNull, NoServerStep, serverVars
<1>3. state = "Inserting"
  BY <1>1, <1>2, Zenon DEF Scalars
<1>4. mixed' = FALSE /\ misdelivered' \subseteq abandoned /\ Read
  <2>1. ASSUME NEW p \in Range(s2c), ReceivePacket(p)
        PROVE  mixed' = FALSE /\ misdelivered' \subseteq abandoned /\ Read
    BY <1>1, <1>3, <2>1, ReadsOwn, Received, Zenon
  <2>2. CASE NothingReceived
    BY <1>1, <2>2, Zenon DEF NothingReceived, Read
  <2> QED BY <1>2, <2>1, <2>2, Zenon
<1>5. Flows' /\ Tags'
  BY <1>1, <1>2, <1>4, Reading, TagsKept DEF Flows
<1>6. Scalars'
  BY <1>1, <1>2, <1>3, NumbersAreNatural, Zenon DEF Scalars, Preparing, Pinging, Inserts
<1>7. Control'
  BY <1>2, <1>3, Zenon DEF Control, Preparing, Pinging, Inserts
<1>8. Callbacks'
  BY <1>1, <1>2, <1>3, Zenon DEF Callbacks
<1>9. ~Broken' /\ ~cut' => Ordered(c2s') /\ Fits(srv'.st, c2s')
  <2>1. ~Broken' => ~Broken
    BY <1>2, Zenon DEF Broken
  <2> QED BY <1>2, <2>1, Parts, Zenon
<1> QED BY <1>1, <1>2, <1>4, <1>5, <1>6, <1>7, <1>8, <1>9, Collect, Zenon

\* What Insert sends when it has the sample block.
LEMMA InsertShape ==
    ASSUME NEW b \in Blocks, NEW q \in Tag, NEW e \in Tag
    PROVE  /\ InsertPackets(b, q) \in Seq(ToServerPacket) /\ Len(InsertPackets(b, q)) = 2
           /\ InsertPackets(b, q)[1].m = b /\ InsertPackets(b, q)[2].m = "End"
           /\ <<Packet("Cancel", e)>> \o InsertPackets(b, q) \in Seq(ToServerPacket)
           /\ Len(<<Packet("Cancel", e)>> \o InsertPackets(b, q)) = 3
           /\ (<<Packet("Cancel", e)>> \o InsertPackets(b, q))[1] = Packet("Cancel", e)
           /\ (<<Packet("Cancel", e)>> \o InsertPackets(b, q))[2].m = b
           /\ (<<Packet("Cancel", e)>> \o InsertPackets(b, q))[3].m = "End"
<1> DEFINE x == <<Packet("Cancel", e)>>
           y == InsertPackets(b, q)
<1>1. /\ Packet(b, q) \in ToServerPacket /\ Packet("End", q) \in ToServerPacket
      /\ Packet("Cancel", e) \in ToServerPacket
      /\ Packet(b, q).m = b /\ Packet("End", q).m = "End"
  <2>1. b \in ToServer
    BY Zenon DEF ToServer, Blocks
  <2> QED BY <2>1, Zenon DEF Packet, ToServerPacket, ToServer
<1>2. y \in Seq(ToServerPacket) /\ Len(y) = 2 /\ y[1].m = b /\ y[2].m = "End"
  BY <1>1 DEF InsertPackets
<1>3. x \in Seq(ToServerPacket) /\ Len(x) = 1 /\ x[1] = Packet("Cancel", e)
  BY <1>1
<1> HIDE DEF y, x
<1>4. /\ x \o y \in Seq(ToServerPacket) /\ Len(x \o y) = 3
      /\ (x \o y)[1] = x[1] /\ (x \o y)[2] = y[1] /\ (x \o y)[3] = y[2]
  <2>1. x \in Seq(ToServerPacket) /\ y \in Seq(ToServerPacket)
    BY <1>2, <1>3, Zenon
  <2>2. /\ x \o y \in Seq(ToServerPacket)
        /\ Len(x \o y) = Len(x) + Len(y)
        /\ Extends(x \o y, x)
        /\ \A i \in 1 .. Len(y) : (x \o y)[Len(x) + i] = y[i]
    BY <2>1, Adding
  <2>3. /\ Len(x \o y) = 1 + 2
        /\ \A i \in 1 .. 1 : (x \o y)[i] = x[i]
        /\ \A i \in 1 .. 2 : (x \o y)[1 + i] = y[i]
    BY <1>2, <1>3, <2>2, Zenon DEF Extends
  <2>4. (x \o y)[1 + 1] = y[1] /\ (x \o y)[1 + 2] = y[2] /\ (x \o y)[1] = x[1]
    BY <2>3
  <2>5. 1 + 1 = 2 /\ 1 + 2 = 3
    OBVIOUS
  <2> QED BY <2>2, <2>3, <2>4, <2>5, Zenon
<1> QED BY <1>2, <1>3, <1>4, Zenon DEF y, x

\* The packets of an insert of one block, with or without a Cancel.
OneBlock(c, b) ==
    \/ Len(c) = 2 /\ c[1].m = b /\ c[2].m = "End"
    \/ Len(c) = 3 /\ c[1].m = "Cancel" /\ c[2].m = b /\ c[3].m = "End"

\* What they are, and the count of the blocks among them.
LEMMA InsertCounted ==
    ASSUME NEW c \in Seq(ToServerPacket), NEW b \in Blocks, OneBlock(c, b)
    PROVE  /\ Has(c, {"End"})
           /\ \A i \in 1 .. Len(c) : /\ c[i].m = "Cancel" => i = 1
                                     /\ c[i].m \in {"Data", "End", "Cancel"}
           /\ b = "Data" => /\ Len(c) = 1 + Lead(c) + Marker(c)
                            /\ \A i \in 1 .. Len(c) : c[i].m = "End" => i = Len(c)
           /\ b = "End" => /\ Len(c) - 1 \in 1 .. Len(c) /\ c[Len(c) - 1].m = "End"
                           /\ Len(c) - 1 = 1 + Lead(c)
                           /\ \A k \in 1 .. Len(c) - 2 : k = 1 /\ c[k].m = "Cancel"
                           /\ Len(c) \in 1 .. Len(c) /\ c[Len(c)].m = "End"
<1>1. b \in {"Data", "End"}
  BY Zenon DEF Blocks
<1>2. CASE Len(c) = 2 /\ c[1].m = b /\ c[2].m = "End"
  <2>1. Lead(c) = 0 /\ Marker(c) = 1 /\ 1 \in 1 .. Len(c) /\ 2 \in 1 .. Len(c)
    BY <1>1, <1>2 DEF Lead, Marker
  <2>2. \A i \in 1 .. Len(c) : i = 1 \/ i = 2
    BY <1>2
  <2>3. Has(c, {"End"})
    BY <1>2, <2>1, Zenon DEF Has
  <2> QED BY <1>1, <1>2, <2>1, <2>2, <2>3
<1>3. CASE Len(c) = 3 /\ c[1].m = "Cancel" /\ c[2].m = b /\ c[3].m = "End"
  <2>1. Lead(c) = 1 /\ Marker(c) = 1 /\ 2 \in 1 .. Len(c) /\ 3 \in 1 .. Len(c)
    BY <1>3 DEF Lead, Marker
  <2>2. \A i \in 1 .. Len(c) : i = 1 \/ i = 2 \/ i = 3
    BY <1>3
  <2>3. Has(c, {"End"})
    BY <1>3, <2>1, Zenon DEF Has
  <2> QED BY <1>1, <1>3, <2>1, <2>2, <2>3
<1> QED BY <1>2, <1>3, Zenon DEF OneBlock

\* Insert and BeginInsert read up to the sample block.
LEMMA InsertReadsStep ==
    ASSUME IInv, InsertReads, UNCHANGED options
    PROVE  IInv'
<1>1. /\ Common /\ Scalars /\ Flows /\ Control /\ Callbacks /\ Tags
      /\ misdelivered \cup stray \subseteq abandoned
  BY Parts, Zenon
<1>2. PICK p \in Range(s2c) :
        /\ ReceivePacket(p)
        /\ \/ /\ p.m \in {"Info", "Pong"}
              /\ UNCHANGED <<events, call, mustReset, c2s, out, sent, due, cut, cancels>>
           \/ /\ p.m = "Data" /\ call = "BeginInsert"
              /\ Return /\ EnsureNull
              /\ UNCHANGED <<c2s, out, sent, due, cut, cancels>>
           \/ /\ p.m = "Data" /\ call = "Insert"
              /\ \E b \in Blocks :
                    /\ Pass(b)
                    /\ \/ /\ Send(InsertPackets(b, req))
                          /\ call' = "EndInsert"
                          /\ UNCHANGED <<mustReset, cancels>>
                       \/ /\ events # None /\ cancels < MaxCancels
                          /\ Send(<<Packet("Cancel", events)>> \o InsertPackets(b, req))
                          /\ cancels' = cancels + 1
                          /\ call' = "EndInsert"
                          /\ UNCHANGED mustReset
                       \/ SendFails(InsertPackets(b, req)) /\ Throw /\ UNCHANGED cancels
              /\ UNCHANGED events
           \/ /\ p.m \in EndsResponse
              /\ Throw /\ EnsureNull
              /\ UNCHANGED <<c2s, out, sent, due, cut, cancels>>
  BY Zenon DEF InsertReads
<1>3. /\ call \in Inserts
      /\ UNCHANGED <<srv, produced, taken, stray, state, goal, req, pings, abandoned>>
  BY Zenon DEF InsertReads, NoServerStep, serverVars
<1>4. state = "Inserting" /\ ~mustReset /\ goal = call
  BY <1>1, <1>3, Zenon DEF Control, Scalars, Inserts
<1>5. /\ ~cut => Opening /\ Ordered(c2s) /\ Fits(srv.st, c2s) /\ Ends
      /\ cut => Mute
      /\ Len(out) = 0
  BY <1>3, <1>4, Parts, Zenon DEF Phases, Opening, Lost
<1>6. mixed' = FALSE /\ misdelivered' \subseteq abandoned
  BY <1>1, <1>2, <1>4, ReadsOwn, Zenon
<1>7. /\ Read /\ s2c' \in Seq(ToClientPacket)
      /\ \A kinds : Has(s2c', kinds) => Has(s2c, kinds)
  BY <1>1, <1>2, Received, Reading, Zenon
<1>8. CASE UNCHANGED <<events, call, mustReset, c2s, out, sent, due, cut, cancels>>
  <2>1. Scalars'
    BY <1>1, <1>3, <1>8, Zenon DEF Scalars, Preparing, Pinging, Inserts
  <2>2. Control'
    BY <1>1, <1>3, <1>8, Zenon DEF Control
  <2>3. Callbacks'
    BY <1>1, <1>3, <1>8, Zenon DEF Callbacks
  <2>4. Flows' /\ Tags'
    BY <1>1, <1>3, <1>7, <1>8, TagsKept DEF Flows
  <2>5. ~cut => Phases'
    <3>1. ~cut => Ends'
      BY <1>1, <1>3, <1>5, <1>7, <1>8, EndsKept
    <3>2. ~cut => Opening'
      BY <1>3, <1>5, <1>7, <1>8, <3>1, Zenon DEF Opening
    <3> QED BY <1>3, <1>4, <1>5, <1>8, <3>2, Zenon DEF Phases, Inserts
  <2>6. cut => Lost'
    <3>1. cut => Mute'
      BY <1>1, <1>3, <1>5, <1>7, <1>8, MuteKept, Zenon
    <3> QED BY <1>3, <1>4, <1>5, <1>8, <3>1, Zenon DEF Lost, Inserts
  <2>7. ~cut' => Ordered(c2s') /\ Fits(srv'.st, c2s')
    BY <1>3, <1>5, <1>8, Zenon
  <2> QED BY <1>1, <1>3, <1>6, <1>8, <2>1, <2>2, <2>3, <2>4, <2>5, <2>6, <2>7, Collect, Zenon
<1>9. CASE p.m \in EndsResponse /\ Throw /\ EnsureNull /\ UNCHANGED <<c2s, out, sent, due, cut, cancels>>
  <2>1. /\ call' = "idle" /\ mustReset' = TRUE
        /\ events' = IF goal = "BeginInsert" THEN None ELSE events
    BY <1>9, Zenon DEF Throw, EnsureNull
  <2>2. Scalars'
    BY <1>1, <1>3, <1>4, <1>9, <2>1, NumbersAreNatural DEF Scalars, Preparing, Pinging, Inserts
  <2>3. Control'
    BY <1>3, <1>4, <2>1, Zenon DEF Control, Preparing, Pinging, Inserts
  <2>4. Callbacks'
    BY <1>1, <1>3, <1>4, <2>1 DEF Callbacks
  <2>5. Flows' /\ Tags'
    BY <1>1, <1>3, <1>7, <1>9, TagsKept DEF Flows
  <2> QED BY <1>1, <1>3, <1>5, <1>6, <1>9, <2>1, <2>2, <2>3, <2>4, <2>5, Collect, Zenon
<1>10. ASSUME p.m = "Data"
       PROVE  /\ srv.st \in {"insert", "skip", "closed"} /\ Len(c2s) = 0
              /\ srv.st = "insert" => taken = 0
              /\ due = 0 /\ ~Has(s2c, {"EndOfStream"})
              /\ Ends /\ Ordered(c2s) /\ ~cut
  <2>1. p = s2c[1] /\ 1 \in 1 .. Len(s2c)
    BY <1>1, <1>2, Received DEF Flows
  <2>2. Has(s2c, {"Data"})
    BY <1>10, <2>1, Zenon DEF Has
  <2>3. ~cut
    <3>1. p.m \in ToClient \ {"Pong"}
      BY <1>10, Zenon DEF ToClient
    <3> QED BY <1>5, <2>1, <3>1, Zenon DEF Mute, Has
  <2> QED BY <1>5, <2>2, <2>3, Zenon DEF Opening
<1>11. CASE /\ p.m = "Data" /\ call = "BeginInsert" /\ Return /\ EnsureNull
            /\ UNCHANGED <<c2s, out, sent, due, cut, cancels>>
  <2>1. call' = "idle" /\ events' = None /\ UNCHANGED mustReset
    BY <1>4, <1>11, Zenon DEF Return, EnsureNull
  <2>2. Scalars'
    BY <1>1, <1>3, <1>4, <1>11, <2>1, NumbersAreNatural DEF Scalars, Preparing, Pinging, Inserts
  <2>3. Control'
    BY <1>3, <1>4, <2>1 DEF Control, Preparing, Pinging, Inserts
  <2>4. Callbacks'
    BY <2>1, Zenon DEF Callbacks
  <2>5. Flows' /\ Tags'
    BY <1>1, <1>3, <1>7, <1>11, TagsKept DEF Flows
  <2>6. Phases'
    <3>1. Ends'
      BY <1>1, <1>3, <1>7, <1>10, <1>11, EndsKept
    <3>2. Lead(c2s') = 0 /\ Marker(c2s') = 0 /\ Len(c2s') = 0
      BY <1>10, <1>11 DEF Lead, Marker
    <3>3. /\ \A i \in 1 .. Len(c2s') : FALSE
          /\ \A kinds : ~Has(c2s', kinds)
      BY <3>2 DEF Has
    <3>4. srv'.st = "insert" => taken' + Len(c2s') = due' + Lead(c2s') + Marker(c2s')
      <4>1. srv'.st = "insert" => taken' = 0 /\ due' = 0
        BY <1>3, <1>10, <1>11, Zenon
      <4> QED BY <3>2, <4>1
    <3>5. srv'.st \in {"insert", "skip", "closed"} /\ ~Has(s2c', {"EndOfStream"})
      BY <1>3, <1>7, <1>10, <1>11, Zenon
    <3>6. Inserting'
      BY <2>1, <3>1, <3>3, <3>4, <3>5 DEF Inserting
    <3> QED BY <1>3, <1>4, <1>5, <1>11, <2>1, <3>6 DEF Phases, Inserts
  <2>7. Ordered(c2s') /\ Fits(srv'.st, c2s') /\ ~cut'
    BY <1>3, <1>5, <1>10, <1>11, Zenon
  <2> QED BY <1>1, <1>3, <1>6, <1>11, <2>1, <2>2, <2>3, <2>4, <2>5, <2>6, <2>7, Collect, Zenon
<1>12. ASSUME p.m = "Data", call = "Insert", NEW b \in Blocks, Pass(b), UNCHANGED events,
              cancels' \in Nat, NEW ms \in Seq(ToServerPacket), OneBlock(ms, b),
              ms[1].m = "Cancel" => ms[1].q \in abandoned,
              \/ Send(ms) /\ call' = "EndInsert" /\ UNCHANGED mustReset
              \/ /\ SendFails(ms) /\ call' = "idle" /\ mustReset' = TRUE
                 /\ ~Has(ms, {"Cancel"})
       PROVE  IInv'
  <2>1. /\ \A i \in 1 .. Len(ms) : /\ ms[i].m = "Cancel" => i = 1
                                   /\ ms[i].m \in {"Data", "End", "Cancel"}
        /\ b = "Data" => \A i \in 1 .. Len(ms) : ms[i].m = "End" => i = Len(ms)
    BY <1>12, InsertCounted, Zenon
  <2>2. /\ sent' = sent + 1 /\ cut' = (b = "End")
        /\ due' = IF b = "End" THEN 0 ELSE 1
        /\ b \in {"Data", "End"}
    <3>1. ~cut /\ due = 0
      BY <1>10, <1>12, Zenon
    <3>2. b \in {"Data", "End"}
      BY <1>12, Zenon DEF Blocks
    <3> QED BY <1>12, <3>1, <3>2 DEF Pass
  <2>3. \A i \in 1 .. Len(c2s) : FALSE
    <3>1. Len(c2s) = 0
      BY <1>10, <1>12, Zenon
    <3> QED BY <3>1
  <2>4. ~Has(c2s, Starts \cup {"Ping"}) /\ ~Has(c2s, {"End"})
    BY <2>3, Zenon DEF Has
  <2>5. \A i \in 1 .. Len(ms) : ms[i].m = "Cancel" => ms[i].q \in abandoned \cup {req}
    BY <1>12, <2>1, ZenonT(30)
  <2>6. Wrote(ms) /\ (Send(ms) \/ ~Has(ms, {"Cancel"}))
    BY <1>12, Zenon DEF Wrote
  <2>7. c2s' \in Seq(ToServerPacket) /\ out' \in Seq(ToServerPacket) /\ Tags'
    <3>1. ~Has(out, {"Cancel"}) /\ ~Has(ms, Starts)
      BY <1>1, <1>4, <2>1, Zenon DEF Tags, Has, Starts
    <3> QED BY <1>1, <1>3, <1>4, <1>7, <1>12, <2>5, <2>6, <3>1, Writing, TagsWritten, Zenon
  <2>8. ~cut' => Ordered(c2s') /\ Fits(srv.st, c2s') /\ (Send(ms) => ~Has(c2s', Starts \cup {"Ping"}))
    <3>1. SUFFICES ASSUME b = "Data"
                   PROVE  /\ Ordered(c2s') /\ Fits(srv.st, c2s')
                          /\ Send(ms) => ~Has(c2s', Starts \cup {"Ping"})
      BY <2>2, Zenon
    <3>2. srv.st \in {"insert", "skip", "closed"} /\ Ordered(c2s)
      BY <1>10, <1>12, Zenon
    <3>3. \A i \in 1 .. Len(ms) : /\ ms[i].m \in {"Data", "End", "Cancel"}
                                  /\ ms[i].m = "End" => i = Len(ms)
                                  /\ ms[i].m = "Cancel" => ms[i].q \in abandoned \cup {req}
      BY <2>1, <2>5, <3>1, Zenon
    <3> QED BY <1>1, <1>3, <1>4, <1>5, <1>7, <1>12, <2>4, <2>6, <3>2, <3>3, BlocksWritten,
           ZenonT(30)
  <2>9. Scalars'
    <3>1. mustReset' \in BOOLEAN
      BY <1>1, <1>12, Zenon DEF Scalars
    <3>2. call' \in {"idle", "EndInsert"}
      BY <1>12, Zenon
    <3>3. cut' \in BOOLEAN
      BY <2>2, Zenon
    <3>4. sent' \in Nat /\ due' \in Nat
      BY <1>1, <2>2 DEF Scalars
    <3>5. state' = "Inserting" /\ goal' = goal /\ events' = events /\ req' = req /\ pings' = pings
      BY <1>3, <1>4, <1>12, Zenon
    <3> QED BY <1>1, <1>12, <3>1, <3>2, <3>3, <3>4, <3>5, Zenon DEF Scalars, Preparing, Pinging, Inserts
  <2>10. Control'
    <3>1. call' = "idle" \/ (call' = "EndInsert" /\ ~mustReset')
      BY <1>4, <1>12, Zenon
    <3>2. goal' = "Insert" /\ state' = "Inserting"
      BY <1>3, <1>4, <1>12
    <3> QED BY <3>1, <3>2, Zenon DEF Control, Preparing, Pinging, Inserts
  <2>11. Callbacks'
    BY <1>1, <1>3, <1>4, <1>12 DEF Callbacks
  <2>12. Flows'
    BY <1>1, <1>3, <1>7, <2>7 DEF Flows
  <2>13. ASSUME Send(ms)
         PROVE  Len(out') = 0 /\ Len(c2s') = Len(ms) /\ OneBlock(c2s', b)
    <3>1. Len(c2s) = 0 /\ Len(out) = 0 /\ Len(ms) \in Nat
      BY <1>5, <1>10, <1>12
    <3>2. /\ Len(out') = 0
          /\ Len(c2s') = Len(c2s) + Len(out) + Len(ms)
          /\ \A i \in 1 .. Len(ms) : c2s'[Len(c2s) + Len(out) + i] = ms[i]
      <4>1. c2s' = Full(ms) /\ Len(out') = 0
        BY <1>1, <1>12, <2>6, <2>13, Writing, Zenon
      <4> QED BY <1>1, <1>12, <4>1, Whole, Zenon
    <3>3. /\ Len(c2s') = Len(ms)
          /\ \A i \in 1 .. Len(ms) : c2s'[i] = ms[i]
      BY <3>1, <3>2
    <3>4. OneBlock(c2s', b)
      <4>1. /\ Len(ms) = 2 => c2s'[1] = ms[1] /\ c2s'[2] = ms[2]
            /\ Len(ms) = 3 => c2s'[1] = ms[1] /\ c2s'[2] = ms[2] /\ c2s'[3] = ms[3]
        BY <3>3
      <4> QED BY <1>12, <3>3, <4>1, Zenon DEF OneBlock
    <3> QED BY <3>2, <3>3, <3>4, Zenon
  <2>14. srv.st \in {"insert", "skip", "closed"} /\ ~Has(s2c', {"EndOfStream"})
         /\ (srv.st = "insert" => taken' = 0)
    BY <1>3, <1>7, <1>10, <1>12, Zenon
  <2>15. ~mustReset' /\ ~cut' => Phases'
    <3>1. SUFFICES ASSUME ~mustReset', ~cut' PROVE Phases'
      BY Zenon
    <3>2. Send(ms) /\ call' = "EndInsert" /\ due' = 1 /\ b = "Data"
      BY <1>12, <2>2, <3>1, Zenon
    <3>3. /\ Len(out') = 0 /\ ~Has(c2s', Starts \cup {"Ping"})
      BY <2>8, <2>13, <3>1, <3>2, Zenon
    <3>4. /\ Len(c2s') = 1 + Lead(c2s') + Marker(c2s') /\ Has(c2s', {"End"})
          /\ \A i \in 1 .. Len(c2s') : c2s'[i].m = "Cancel" => i = 1
      BY <1>12, <2>7, <2>13, <3>2, InsertCounted, Zenon
    <3>5. srv.st = "insert" => taken' + Len(c2s') = due' + Lead(c2s') + Marker(c2s')
      <4>1. Len(c2s') \in Nat
        BY <2>7
      <4> QED BY <2>14, <3>2, <3>4, <4>1
    <3>6. Ends'
      <4>1. /\ Has(s2c', EndsResponse) => Has(s2c, EndsResponse)
            /\ \A i \in 1 .. Len(s2c') : s2c'[i].m \in EndsResponse => i = Len(s2c')
        BY <1>1, <1>7, <1>10, <1>12, EndsRead, Zenon
      <4> QED BY <1>3, <1>10, <1>12, <3>3, <4>1 DEF Ends
    <3>7. Inserting'
      BY <1>3, <2>14, <3>2, <3>3, <3>4, <3>5, <3>6 DEF Inserting
    <3> QED BY <1>3, <1>4, <3>2, <3>3, <3>7 DEF Phases, Inserts
  <2>16. ~mustReset' /\ cut' => Lost'
    <3>1. SUFFICES ASSUME ~mustReset', cut' PROVE Lost'
      BY Zenon
    <3>2. Send(ms) /\ call' = "EndInsert" /\ due' = 0 /\ b = "End"
      BY <1>12, <2>2, <3>1, Zenon
    <3>3. /\ Has(c2s', {"End"})
          /\ \A i \in 1 .. Len(c2s') : /\ c2s'[i].m = "Cancel" => i = 1
                                       /\ c2s'[i].m \in {"Data", "End", "Cancel"}
          /\ Len(c2s') - 1 \in 1 .. Len(c2s') /\ c2s'[Len(c2s') - 1].m = "End"
          /\ Len(c2s') - 1 = 1 + Lead(c2s')
          /\ \A k \in 1 .. Len(c2s') - 2 : k = 1 /\ c2s'[k].m = "Cancel"
          /\ Len(c2s') \in 1 .. Len(c2s') /\ c2s'[Len(c2s')].m = "End"
      BY <1>12, <2>7, <2>13, <3>2, InsertCounted, Zenon
    <3>4. /\ \A i \in 1 .. Len(c2s') : c2s'[i].m \in Blocks \cup {"Cancel"}
          /\ c2s'[Len(c2s')].m \in Blocks
      <4>1. {"Data", "End", "Cancel"} = Blocks \cup {"Cancel"} /\ "End" \in Blocks
        BY Zenon DEF Blocks
      <4> QED BY <3>3, <4>1, Zenon
    <3>5. Dead(srv.st, c2s')
      <4>1. Len(c2s') - 1 \in 1 .. Len(c2s') - 1
        BY <3>3
      <4> QED BY <2>14, <3>3, <3>4, <4>1, Zenon DEF Dead
    <3>6. srv.st = "insert" => \E i \in 1 .. Len(c2s') : EndsAt(c2s, i)'
      <4>1. /\ \A k \in 1 .. Len(c2s') - 1 - 1 : k = 1 /\ c2s'[k].m = "Cancel"
            /\ srv.st = "insert" => taken' + (Len(c2s') - 1) = due' + 1 + Lead(c2s')
        <5>1. Len(c2s') \in Nat /\ Len(c2s') - 1 - 1 = Len(c2s') - 2
          BY <2>7
        <5>2. Lead(c2s') \in Nat
          BY DEF Lead
        <5> QED BY <2>14, <3>2, <3>3, <5>1, <5>2
      <4> QED BY <3>3, <4>1, Zenon DEF EndsAt
    <3>7. /\ Has(s2c', EndsResponse) => srv.st \in {"idle", "skip", "closed"}
          /\ \A i \in 1 .. Len(s2c') : s2c'[i].m \in EndsResponse => i = Len(s2c')
      <4>1. Ends
        BY <1>10, <1>12, Zenon
      <4> QED BY <1>1, <1>7, <4>1, EndsRead, Zenon DEF Ends
    <3>8. Ended'
      BY <1>3, <2>14, <3>2, <3>3, <3>4, <3>5, <3>6, <3>7, Zenon DEF Ended
    <3> QED BY <1>3, <1>4, <2>13, <3>2, <3>8, Zenon DEF Lost, Inserts
  <2>17. ~cut' => Ordered(c2s') /\ Fits(srv'.st, c2s')
    BY <1>3, <2>8, Zenon
  <2> QED BY <1>1, <1>3, <1>6, <2>7, <2>9, <2>10, <2>11, <2>12, <2>15, <2>16, <2>17, Collect, Zenon
<1>13. ASSUME p.m = "Data", call = "Insert", UNCHANGED events, NEW b \in Blocks, Pass(b),
              \/ /\ Send(InsertPackets(b, req)) /\ call' = "EndInsert"
                 /\ UNCHANGED <<mustReset, cancels>>
              \/ /\ events # None /\ cancels < MaxCancels
                 /\ Send(<<Packet("Cancel", events)>> \o InsertPackets(b, req))
                 /\ cancels' = cancels + 1 /\ call' = "EndInsert"
                 /\ UNCHANGED mustReset
              \/ SendFails(InsertPackets(b, req)) /\ Throw /\ UNCHANGED cancels
       PROVE  IInv'
  <2>1. cancels' \in Nat /\ req \in Tag /\ events \in Tag
    BY <1>1, <1>13 DEF Scalars
  <2>2. /\ InsertPackets(b, req) \in Seq(ToServerPacket) /\ Len(InsertPackets(b, req)) = 2
        /\ InsertPackets(b, req)[1].m = b /\ InsertPackets(b, req)[2].m = "End"
    BY <1>13, <2>1, InsertShape, Zenon
  <2>3. CASE Send(<<Packet("Cancel", events)>> \o InsertPackets(b, req)) /\ events # None
             /\ call' = "EndInsert" /\ UNCHANGED mustReset
    <3> DEFINE ms == <<Packet("Cancel", events)>> \o InsertPackets(b, req)
    <3>1. events \in abandoned
      BY <1>1, <1>4, <1>13, <2>3 DEF Callbacks
    <3>2. /\ ms \in Seq(ToServerPacket) /\ Len(ms) = 3 /\ ms[1] = Packet("Cancel", events)
          /\ ms[2].m = b /\ ms[3].m = "End"
      BY <1>13, <2>1, InsertShape
    <3>3. ms[1].m = "Cancel" /\ ms[1].q \in abandoned /\ Send(ms)
      BY <2>3, <3>1, <3>2 DEF Packet
    <3> HIDE DEF ms
    <3>4. OneBlock(ms, b)
      BY <3>2, <3>3, Zenon DEF OneBlock
    <3> QED BY <1>12, <1>13, <2>1, <2>3, <3>2, <3>3, <3>4, Zenon
  <2>4. CASE \/ Send(InsertPackets(b, req)) /\ call' = "EndInsert" /\ UNCHANGED mustReset
             \/ SendFails(InsertPackets(b, req)) /\ Throw
    <3>1. b # "Cancel" /\ OneBlock(InsertPackets(b, req), b)
      BY <1>13, <2>2, Zenon DEF Blocks, OneBlock
    <3>2. ~Has(InsertPackets(b, req), {"Cancel"})
      BY <1>13, <2>2, <3>1, InsertCounted, Zenon DEF Has
    <3> QED BY <1>12, <1>13, <2>1, <2>2, <2>4, <3>1, <3>2, Zenon DEF Throw
  <2> QED BY <1>13, <2>3, <2>4
<1> QED BY <1>2, <1>8, <1>9, <1>11, <1>13

-----------------------------------------------------------------------------
(* ResetConnection.                                                        *)

\* New streams, or the old ones and an obligation to try again.
LEMMA ResetStep ==
    ASSUME IInv, CallResetConnection \/ ResetConnectionFails, UNCHANGED options
    PROVE  IInv'
<1>1. /\ Scalars /\ Flows /\ Control /\ Callbacks /\ Tags /\ mixed = FALSE
      /\ misdelivered \cup stray \subseteq abandoned
  BY Parts, Zenon
<1>2. ASSUME NEW st \in {"idle", "greeting", "closed"}, Reset(st),
             mustReset' \in BOOLEAN, ~mustReset' => st = "idle"
      PROVE  IInv'
  <2>1. /\ call = "idle" /\ goal # "~Client"
        /\ c2s' = <<>> /\ s2c' = <<>> /\ out' = <<>>
        /\ srv' = [st |-> st, q |-> None] /\ produced' = 0 /\ taken' = 0
        /\ state' = "Idle" /\ abandoned' = abandoned \cup ({events} \ {None})
        /\ cut' = FALSE
        /\ UNCHANGED <<stray, events, call, goal, req, sent, due, pings, cancels, mixed, misdelivered>>
    BY <1>2, Zenon DEF Reset, Ready, InitializeStreams
  <2>2. Scalars'
    BY <1>1, <1>2, <2>1, Zenon DEF Scalars, Inserts
  <2>3. Control'
    BY <2>1, Zenon DEF Control, Preparing, Pinging, Inserts
  <2>4. Callbacks'
    BY <2>1, Zenon DEF Callbacks
  <2>5. Flows'
    BY <2>1 DEF Flows, ServerStates, Tag
  <2>6. /\ srv'.st = st /\ srv'.q = None
        /\ Len(c2s') = 0 /\ Len(s2c') = 0 /\ Len(out') = 0
    BY <2>1, Zenon
  <2>7. Tags' /\ Ordered(c2s') /\ Fits(srv'.st, c2s')
    BY <2>1, <2>6, NewStreams, Zenon
  <2>8. ~mustReset' => Phases'
    <3>1. ~mustReset' => Quiet'
      BY <1>2, <2>6 DEF Quiet, Has
    <3> QED BY <2>1, <3>1, QuietPhase, Zenon DEF Inserts
  <2>9. misdelivered' \subseteq abandoned' /\ stray' \subseteq abandoned'
    BY <1>1, <2>1, Zenon
  <2> QED BY <1>1, <2>1, <2>2, <2>3, <2>4, <2>5, <2>7, <2>8, <2>9, Collect, Zenon
<1>3. CASE CallResetConnection
  BY <1>2, <1>3, Zenon DEF CallResetConnection
<1>4. CASE mustReset' = TRUE /\ \E st \in {"greeting", "closed"} : Reset(st)
  BY <1>2, <1>4, Zenon
<1>5. CASE /\ Ready /\ mustReset' = TRUE /\ NoServerStep /\ NothingReceived
           /\ UNCHANGED <<state, events, out, call, goal, req, sent, due, cut, pings, cancels, c2s, abandoned>>
  <2>1. /\ call = "idle" /\ goal # "~Client" /\ mustReset' = TRUE
        /\ UNCHANGED <<srv, produced, taken, stray, s2c, mixed, misdelivered>>
        /\ UNCHANGED <<state, events, out, call, goal, req, sent, due, cut, pings, cancels, c2s, abandoned>>
    BY <1>5, Zenon DEF Ready, NoServerStep, serverVars, NothingReceived
  <2>2. Scalars'
    BY <1>1, <2>1, Zenon DEF Scalars
  <2>3. Control'
    BY <1>1, <2>1, Zenon DEF Control
  <2>4. Callbacks'
    BY <1>1, <2>1, Zenon DEF Callbacks
  <2>5. Flows' /\ Tags'
    BY <1>1, <2>1, TagsKept, Zenon DEF Flows, Read
  <2>6. ~cut' => Ordered(c2s') /\ Fits(srv'.st, c2s')
    BY <2>1, Parts, Zenon DEF Broken
  <2> QED BY <1>1, <2>1, <2>2, <2>3, <2>4, <2>5, <2>6, Collect, Zenon
<1> QED BY <1>3, <1>4, <1>5, Zenon DEF ResetConnectionFails

-----------------------------------------------------------------------------
(* All of Session.                                                         *)

\* The invariant holds at first.
LEMMA InitIInv == Init => IInv
<1> SUFFICES ASSUME Init PROVE IInv
  BY Zenon
<1>1. Scalars
  <2>1. mustReset \in BOOLEAN
    BY Zenon DEF Init
  <2>2. /\ options \in Options /\ state = "Idle" /\ call = "idle" /\ goal = "Client"
        /\ events = None /\ req = 0 /\ sent = 0 /\ due = 0 /\ cut = FALSE
        /\ pings = 0 /\ cancels = 0
    BY Zenon DEF Init
  <2> QED BY <2>1, <2>2, Zenon DEF Scalars, Tag, Inserts, None
<1>2. Flows
  BY DEF Init, Flows, ServerStates, Tag
<1>3. mixed = FALSE /\ Types
  BY <1>1, <1>2, TypesParts, Zenon DEF Init
<1>4. Control
  BY Zenon DEF Init, Control, Preparing, Pinging, Inserts
<1>5. Callbacks
  BY Zenon DEF Init, Callbacks
<1>6. /\ Len(c2s) = 0 /\ Len(s2c) = 0 /\ Len(out) = 0 /\ srv.st = "idle"
      /\ state = "Idle" /\ call = "idle"
  BY Zenon DEF Init
<1>7. \A i \in 1 .. 0 : FALSE
  OBVIOUS
<1>8. Tags
  BY <1>6, <1>7, Zenon DEF Tags, Cancels, Serving
<1>9. Ordered(c2s) /\ Fits(srv.st, c2s)
  BY <1>6, <1>7, Zenon DEF Ordered, Fits, Has
<1>10. Quiet
  BY <1>6, <1>7, Zenon DEF Quiet, Has
<1>11. Phases
  BY <1>6, <1>10, Zenon DEF Phases, Inserts
<1>12. misdelivered \cup stray \subseteq abandoned
  BY Zenon DEF Init
<1>13. ~cut
  BY Zenon DEF Init
<1> QED BY <1>3, <1>4, <1>5, <1>8, <1>9, <1>11, <1>12, <1>13, Zenon DEF IInv, Common

\* A call, a step of the client and a step of the server keep it.
LEMMA NextIInv == IInv /\ [Next]_vars => IInv'
<1> SUFFICES ASSUME IInv, [Next]_vars PROVE IInv'
  BY Zenon
<1>1. CASE Calls
  BY <1>1, BeginStep, SelectCalls, SendInsertBlockStep, CallEndInsertStep, ResetStep DEF Calls
<1>2. CASE ClientSteps
  BY <1>2, PingSendsStep, PingReadsStep, PingErrorStep, StartSelectStep, StartInsertStep,
     NextBlockReadsStep, InsertReadsStep, EndInsertReadsStep DEF ClientSteps
<1>3. CASE ClientThrows
  BY <1>3, PingErrorStep, NextBlockThrowsStep, InsertThrowsStep, Zenon DEF ClientThrows
<1>4. CASE ServerSteps \/ (ServerDies /\ UNCHANGED Client)
  BY <1>4, ServerStep, Zenon DEF ServerSteps, Client
<1>5. CASE UNCHANGED vars
  <2>1. UNCHANGED <<options, state, events, out, call, goal, req, sent, due, cut, pings, cancels, mustReset,
                    srv, produced, taken, stray, c2s, s2c, abandoned, misdelivered, mixed>>
    BY <1>5, Zenon DEF vars, clientVars, serverVars
  <2>2. /\ Scalars /\ Flows /\ Control /\ Callbacks /\ Tags /\ mixed = FALSE
        /\ misdelivered \cup stray \subseteq abandoned
    BY Parts, Zenon
  <2>3. Scalars'
    BY <2>1, <2>2, Zenon DEF Scalars
  <2>4. Control' /\ Callbacks'
    BY <2>1, <2>2 DEF Control, Callbacks
  <2>5. Flows' /\ Tags'
    BY <2>1, <2>2, TagsKept, Zenon DEF Flows, Read
  <2>6. ~Broken' /\ ~cut' => Ordered(c2s') /\ Fits(srv'.st, c2s')
    BY <2>1, Parts, Zenon DEF Broken
  <2>7. ~mustReset' /\ ~cut' => Phases'
    <3>1. ~mustReset /\ ~cut => Phases
      BY Parts, Zenon
    <3>2. Ends => Ends'
      BY <2>1, Zenon DEF Ends
    <3>3. Quiet => Quiet'
      BY <2>1, Zenon DEF Quiet
    <3>4. Querying => Querying'
      BY <2>1, <3>2, Zenon DEF Querying
    <3>5. Opening => Opening'
      BY <2>1, <3>2, Zenon DEF Opening
    <3>6. Inserting => Inserting'
      BY <2>1, <3>2, Zenon DEF Inserting
    <3>7. Phases => Phases'
      BY <2>1, <3>3, <3>4, <3>5, <3>6 DEF Phases
    <3> QED BY <2>1, <3>1, <3>7, Zenon
  <2>8. ~mustReset' /\ cut' => Lost'
    <3>1. ~mustReset /\ cut => Lost
      BY Parts, Zenon
    <3>2. Mute => Mute'
      BY <2>1, Zenon DEF Mute
    <3>3. Ended => Ended'
      BY <2>1, Zenon DEF Ended, EndsAt
    <3>4. Lost => Lost'
      BY <2>1, <3>2, <3>3, Zenon DEF Lost
    <3> QED BY <2>1, <3>1, <3>4, Zenon
  <2> QED BY <2>1, <2>2, <2>3, <2>4, <2>5, <2>6, <2>7, <2>8, Collect, Zenon
<1> QED BY <1>1, <1>2, <1>3, <1>4, <1>5 DEF Next, Client

(* The facts about types, control, callbacks, tags, the packets on their   *)
(* way to the server and the phase of the request are inductive, for every *)
(* number of requests, packets, blocks, pings and cancels.                 *)
THEOREM Invariance == Spec => []IInv
<1>1. Init => IInv
  BY InitIInv, Zenon
<1>2. IInv /\ [Next]_vars => IInv'
  BY NextIInv, Zenon
<1> QED BY <1>1, <1>2, PTL DEF Spec

(* No call of the client consumes a packet that answers another request:   *)
(* whatever throws, ResetConnection and the retries of Ping leave nothing  *)
(* in the stream but Pongs, which every reader skips.                      *)
THEOREM OwnPacketsOnly == Spec => []NoCrossTalk
<1>1. IInv => NoCrossTalk
  BY Zenon DEF IInv, Common, NoCrossTalk
<1> QED BY <1>1, Invariance, PTL

(* A packet of a stream is at one of its places.                           *)
LEMMA Members ==
    ASSUME NEW S, NEW c \in Seq(S), NEW p \in Range(c)
    PROVE  \E i \in 1 .. Len(c) : p = c[i]
BY DEF Range

(* Between two calls an idle client that need not be reset has read the    *)
(* whole response and flushed all it wrote, and the server is ready, or    *)
(* the application ended an insert with one of its blocks.                 *)
THEOREM IdleIsDrained == Spec => []IdleMeansDrained
<1>1. IInv => IdleMeansDrained
  <2> SUFFICES ASSUME IInv PROVE IdleMeansDrained
    BY Zenon
  <2>1. TypeOK /\ Flows
    BY Parts, TypesParts, Zenon DEF IInv, Common, Types
  <2>2. ASSUME Ready, state = "Idle", ~mustReset
        PROVE  /\ out = <<>>
               /\ \A p \in Range(s2c) : p.m = "Pong"
               /\ srv.st \in {"idle", "skip", "closed"} \/ (cut /\ srv.st = "confused")
               /\ \A p \in Range(c2s) :
                     p.m \in {"Ping", "Cancel"} \/ srv.st \in {"skip", "closed"} \/ cut
    <3>1. /\ call = "idle"
          /\ ~cut => Quiet /\ Ordered(c2s) /\ Fits(srv.st, c2s)
          /\ cut => Mute /\ Len(out) = 0
      BY <2>2, Parts, Zenon DEF Phases, Lost, Ready
    <3>2. /\ Len(out) = 0
          /\ srv.st \in {"idle", "skip", "closed"} \/ (cut /\ srv.st = "confused")
          /\ \A i \in 1 .. Len(s2c) : s2c[i].m = "Pong"
      <4>1. CASE ~cut
        BY <3>1, <4>1, Zenon DEF Quiet, Pinging
      <4>2. CASE cut
        <5>1. srv.st \in {"idle", "skip", "closed", "confused"} /\ ~Has(s2c, ToClient \ {"Pong"})
          BY <3>1, <4>2, Zenon DEF Mute
        <5>2. \A i \in 1 .. Len(s2c) : s2c[i] \in ToClientPacket
          BY <2>1 DEF Flows
        <5>3. \A i \in 1 .. Len(s2c) : s2c[i].m \in ToClient
          BY <5>2, Zenon DEF ToClientPacket
        <5> QED BY <3>1, <4>2, <5>1, <5>3, Zenon DEF Has
      <4> QED BY <4>1, <4>2, Zenon
    <3>3. out = <<>>
      <4>1. out \in Seq(ToServerPacket)
        BY <2>1, Zenon DEF Flows
      <4> QED BY <3>2, <4>1, Nothing, Zenon
    <3>4. \A p \in Range(s2c) : p.m = "Pong"
      <4>1. s2c \in Seq(ToClientPacket)
        BY <2>1, Zenon DEF Flows
      <4>2. ASSUME NEW p \in Range(s2c) PROVE p.m = "Pong"
        <5>1. PICK i \in 1 .. Len(s2c) : p = s2c[i]
          BY <4>1, Members, Zenon
        <5> QED BY <3>2, <5>1, Zenon
      <4> QED BY <4>2, Zenon
    <3>5. ASSUME srv.st = "idle", ~cut, NEW i \in 1 .. Len(c2s)
          PROVE  c2s[i].m \in {"Ping", "Cancel"}
      <4>1. c2s[i].m \in ToServer /\ c2s[i].m \notin Starts /\ c2s[i].m # "Torn"
        BY <2>1, <3>1, <3>5, Kinds, Zenon DEF Flows, Quiet, Has, Ordered
      <4>2. \A k \in 1 .. i : k \in 1 .. Len(c2s) /\ c2s[k].m \notin Starts
        <5>1. \A k \in 1 .. Len(c2s) : c2s[k].m \notin Starts
          BY <3>1, <3>5, Zenon DEF Quiet, Has
        <5>2. Len(c2s) \in Nat
          BY <2>1 DEF Flows
        <5> QED BY <5>1, <5>2
      <4>3. c2s[i].m \notin {"Data", "End"}
        BY <3>1, <3>5, <4>2 DEF Fits
      <4> QED BY <4>1, <4>3, Zenon DEF ToServer, Starts
    <3>6. \A p \in Range(c2s) :
             p.m \in {"Ping", "Cancel"} \/ srv.st \in {"skip", "closed"} \/ cut
      <4>1. c2s \in Seq(ToServerPacket)
        BY <2>1, Zenon DEF Flows
      <4>2. ASSUME NEW p \in Range(c2s), srv.st = "idle", ~cut PROVE p.m \in {"Ping", "Cancel"}
        <5>1. PICK i \in 1 .. Len(c2s) : p = c2s[i]
          BY <4>1, Members, Zenon
        <5> QED BY <3>5, <4>2, <5>1
      <4> QED BY <3>2, <4>2, Zenon
    <3> QED BY <3>2, <3>3, <3>4, <3>6, Zenon
  <2> QED BY <2>1, <2>2, Zenon DEF IdleMeansDrained
<1> QED BY <1>1, Invariance, PTL

(* The server never gets a packet it has no use for, unless the            *)
(* application passed an insert a block that is an end marker, or the      *)
(* destructor ends an insert that threw.                                   *)
THEOREM ServerNeverConfused == Spec => []ServerUnderstands
<1>1. IInv => ServerUnderstands
  BY DEF IInv, Broken, Fits, ServerUnderstands
<1> QED BY <1>1, Invariance, PTL

(* Callbacks see the packets of their own query and a Cancel reaches its   *)
(* own query, unless the connection was reset under it.                    *)
THEOREM CallbacksOfTheirQuery == Spec => []OnlyAbandonedQueriesMisled
<1>1. IInv => OnlyAbandonedQueriesMisled
  BY Zenon DEF IInv, Common, OnlyAbandonedQueriesMisled
<1> QED BY <1>1, Invariance, PTL

(* When the server confirms an insert it has read all blocks of the        *)
(* application up to the first that is an end marker, and no other.        *)
THEOREM ConfirmedInsertIsWhole == Spec => []InsertComplete
<1>1. IInv => InsertComplete
  <2> SUFFICES ASSUME IInv, NEW p \in Range(s2c), p.m = "EndOfStream", call = "EndInsert",
                      ~mustReset
               PROVE  taken = due
    BY Zenon DEF InsertComplete
  <2>1. Flows /\ Scalars /\ (~cut => Phases) /\ (cut => Lost)
    BY Parts, Zenon
  <2>2. state = "Inserting"
    BY <2>1, Zenon DEF Scalars
  <2>3. (~cut => Inserting) /\ (cut => Ended)
    BY <2>1, <2>2, Zenon DEF Phases, Lost, Inserts
  <2>4. Has(s2c, {"EndOfStream"})
    <3>1. s2c \in Seq(ToClientPacket)
      BY <2>1, Zenon DEF Flows
    <3>2. PICK i \in 1 .. Len(s2c) : p = s2c[i]
      BY <3>1, Members, Zenon
    <3> QED BY <3>2, Zenon DEF Has
  <2> QED BY <2>3, <2>4, Zenon DEF Inserting, Ended
<1> QED BY <1>1, Invariance, PTL
=============================================================================
