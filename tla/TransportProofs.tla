--------------------------- MODULE TransportProofs ---------------------------
(***************************************************************************)
(* Proofs about module Transport: a client that is connected reads and     *)
(* writes through streams of one connection, on which the handshake was    *)
(* made; no step leaks a descriptor, closes one twice or touches one of    *)
(* the application; and the error a call throws is one of its own.  For    *)
(* every set of servers, every revision they speak and every number of     *)
(* addresses, resets and queries.                                          *)
(***************************************************************************)
EXTENDS Transport, TLAPS

-----------------------------------------------------------------------------
(* The inductive invariant: who owns which handle.                         *)

ClientEntry == [owner : {"client"}, addr : Servers, blocking : BOOLEAN,
                timeouts : BOOLEAN, connected : BOOLEAN]

Table ==
    /\ DOMAIN fds \subseteq Nat \ {0}
    /\ fds = [h \in DOMAIN fds |-> fds[h]]
    /\ \A h \in DOMAIN fds : \/ h = app /\ fds[h] = [owner |-> "app"]
                             \/ h # app /\ fds[h] \in ClientEntry

Held(h) == h # 0 => h \in DOMAIN fds /\ h # app

Owners ==
    /\ app # 0 => app \in DOMAIN fds
    /\ Held(raii) /\ Held(socket) /\ Held(socket_)
    /\ DOMAIN fds \subseteq {app, raii, socket, socket_}
    /\ raii = socket => raii = 0
    /\ raii = socket_ => raii = 0
    /\ socket = socket_ => socket = 0

Loop == {"configure", "connect", "poll", "unblock"}

Greeting == {"dispose", "hello", "receive", "fields"}

\* What holds which handle where in the call.
Places ==
    /\ pc \in {"ready", "gone", "resolve", "address", "tls", "install"}
              \cup Loop \cup Greeting
    /\ raii # 0 <=> pc \in Loop
    /\ pc \in {"tls", "install"} => socket # 0
    /\ socket # 0 => pc \in {"tls", "install", "dispose"}
    /\ pc \in Greeting => socket_ # 0

Usable(h) == fds[h].connected /\ fds[h].blocking /\ fds[h].timeouts

Prepared ==
    /\ input_ = socket_ /\ output_ = socket_
    /\ pc \in Loop \ {"configure"} => fds[raii].timeouts
    /\ pc = "unblock" => fds[raii].connected
    /\ socket # 0 => Usable(socket)
    /\ socket_ # 0 => Usable(socket_)

Handles == Table /\ Owners /\ Places /\ Prepared

-----------------------------------------------------------------------------
(* The inductive invariant, continued.                                     *)

\* The errors of this call, and the addresses that are left.
Errors ==
    /\ addrs \in Seq(Servers) /\ Len(addrs) <= MaxAddresses
    /\ last_err \in met \cup {NoError}
    /\ pc \notin Loop \cup {"address"} => last_err = NoError
    /\ pc = "address" => addrs # <<>> \/ last_err # NoError \/ errno \in met
    /\ ErrorOfThisCall

\* The first n fields that s knows are in server_info.
Understood(s, n) == \A i \in 1 .. n : i <= Knows(s) =>
                        server_info[Fields[i]] = Field(s, i)

\* What s sends after its first n fields.
Left(s, n) == IF n <= Knows(s) THEN Knows(s) - n ELSE 0

Rest(s, n) == [i \in 1 .. Left(s, n) |-> Field(s, n + i)]

Tags == {"Hello", "Exception", "other", "unset", "name", "revision",
         "timezone", "display_name", "version_patch"}

Kinds == {"Hello", "addendum", "query", "part"}

InfoType ==
    /\ server_info \in [Range(Fields) -> [field : Tags,
                                          of : Servers \cup {NoServer}]]
    /\ server_info["revision"].field = "revision"
           => server_info["revision"].of \in Servers
    /\ resets \in 0 .. MaxResets /\ queries \in 0 .. MaxQueries

\* Where ReceiveHello is in the packet.
Greets ==
    /\ hello \in BOOLEAN
    /\ hello => /\ socket_ # 0 /\ pc \notin Greeting
                /\ incoming = <<>> /\ Understood(Peer, 5)
    /\ pc = "receive" =>
           \E reply \in {"Hello", "Exception", "other"} :
               incoming = <<[field |-> reply, of |-> Peer]>>
                          \o (IF reply = "Hello" THEN Hello(Peer) ELSE <<>>)
    /\ pc = "fields" =>
           \E n \in 0 .. 5 :
               /\ next = [i \in 1 .. 5 - n |-> Fields[n + i]]
               /\ incoming = Rest(Peer, n)
               /\ Understood(Peer, n)

\* Every packet is a Hello or in the layout of server s.
InLayout(packets, s) == \A i \in DOMAIN packets :
                            \/ packets[i].kind = "Hello"
                            \/ packets[i].revision = Revision[s]

Written ==
    /\ sent \in Seq([kind : Kinds, revision : Nat])
    /\ buffer \in Seq([kind : Kinds, revision : Nat])
    /\ pc \in {"dispose", "hello"} => sent = <<>> /\ buffer = <<>>
    /\ pc \in {"receive", "fields"} => sent = <<HelloPacket>> /\ buffer = <<>>
    /\ hello => InLayout(sent, Peer) /\ InLayout(buffer, Peer)

\* Until InitializeStreams the call has changed nothing a caller sees.
Untouched ==
    pc \notin {"ready", "gone"} \cup Greeting =>
        before = [link |-> Link, last |-> result.class]

IInv == Handles /\ Errors /\ InfoType /\ Greets /\ Written /\ Untouched

\* Only InitializeStreams and the destructor change whom socket_ talks to.
Steady == InitializeStreams \/ Destroy \/ UNCHANGED <<Peer, socket_>>

-----------------------------------------------------------------------------
(* Sequences.                                                              *)

(* What follows the first element of a sequence that is put in front.      *)
LEMMA TailOfConcat ==
    ASSUME NEW S, NEW e \in S, NEW s \in Seq(S)
    PROVE  Head(<<e>> \o s) = e /\ Tail(<<e>> \o s) = s
<1>1. <<e>> \in Seq(S) /\ Len(<<e>>) = 1
  OBVIOUS
<1>2. /\ <<e>> \o s \in Seq(S) /\ Len(<<e>> \o s) = 1 + Len(s)
      /\ (<<e>> \o s)[1] = e
      /\ \A i \in 1 .. Len(s) : (<<e>> \o s)[i + 1] = s[i]
  BY <1>1
<1>3. Tail(<<e>> \o s) = [i \in 1 .. Len(s) |-> s[i]]
  BY <1>2
<1> QED BY <1>2, <1>3

(* Head and Tail of a sequence that is given as a function.                *)
LEMMA TailOfFunction ==
    ASSUME NEW m \in Nat, m > 0, NEW s, s = [i \in 1 .. m |-> s[i]]
    PROVE  /\ Len(s) = m /\ Head(s) = s[1]
           /\ Tail(s) = [i \in 1 .. m - 1 |-> s[i + 1]]
<1> DEFINE S == {s[i] : i \in 1 .. m}
<1>1. s \in [1 .. m -> S]
  BY Zenon
<1>2. s \in Seq(S) /\ Len(s) = m
  BY <1>1
<1> QED BY <1>2

-----------------------------------------------------------------------------
(* The Hello packet.                                                       *)

\* The fields of ServerInfo by number.
LEMMA FieldNames ==
    /\ Fields[1] = "name" /\ Fields[2] = "revision" /\ Fields[3] = "timezone"
    /\ Fields[4] = "display_name" /\ Fields[5] = "version_patch"
    /\ Range(Fields) = {Fields[i] : i \in 1 .. 5}
BY DEF Fields, Range

\* How many fields a server knows.
LEMMA KnowsRange ==
    ASSUME NEW s \in Servers
    PROVE  Revision[s] \in Nat /\ Knows(s) \in 2 .. 5
<1>1. Revision[s] \in Nat
  BY RevisionAssumption, Zenon
<1> QED BY <1>1 DEF Knows

(* After two fields server_info_.revision is the revision of the server.   *)
LEMMA RevisionRead ==
    ASSUME NEW s \in Servers, NEW n \in 2 .. 5, Understood(s, n)
    PROVE  revision_ = Revision[s]
<1>1. Knows(s) \in 2 .. 5
  BY KnowsRange, Zenon
<1>2. server_info[Fields[2]] = Field(s, 2)
  BY <1>1 DEF Understood
<1> QED BY <1>2, FieldNames DEF Field, revision_

(* ReceiveHello looks for the next field exactly if the server sent it.    *)
LEMMA ReadsWhatIsSent ==
    ASSUME NEW s \in Servers, NEW n \in 0 .. 4, Understood(s, n)
    PROVE  Reads(Fields[n + 1], revision_) <=> n + 1 <= Knows(s)
<1>1. Revision[s] \in Nat
  BY RevisionAssumption, Zenon
<1>2. CASE n \in {0, 1}
  BY <1>2, FieldNames, KnowsRange DEF Reads
<1>3. CASE n \in {2, 3, 4}
  <2>1. revision_ = Revision[s]
    BY <1>3, RevisionRead
  <2> HIDE DEF revision_
  <2> QED BY <1>1, <1>3, <2>1, FieldNames DEF Reads, Knows
<1> QED BY <1>2, <1>3

\* The handle the streams use belongs to a server.
LEMMA PeerIsServer ==
    ASSUME Handles, socket_ # 0
    PROVE  Peer \in Servers
BY Zenon DEF Handles, Table, Owners, Held, Peer, ClientEntry

\* A field of a server has one of the tags.
LEMMA FieldTag ==
    ASSUME NEW s \in Servers, NEW i \in 1 .. 5
    PROVE  Field(s, i) \in [field : Tags, of : Servers]
<1>1. i \in {1, 2, 3, 4, 5}
  OBVIOUS
<1>2. Fields[i] \in Tags
  BY <1>1, FieldNames, Zenon DEF Tags
<1> QED BY <1>2, Zenon DEF Field

(* The code in front of the fields.                                        *)
LEMMA AfterTheCode ==
    ASSUME NEW s \in Servers, NEW reply \in {"Hello", "Exception", "other"}
    PROVE  LET packet == <<[field |-> reply, of |-> s]>>
                         \o (IF reply = "Hello" THEN Hello(s) ELSE <<>>)
           IN  /\ Head(packet) = [field |-> reply, of |-> s]
               /\ reply = "Hello" => Tail(packet) = Rest(s, 0)
<1> DEFINE E == [field : Tags, of : Servers]
           rest == IF reply = "Hello" THEN Hello(s) ELSE <<>>
<1>1. [field |-> reply, of |-> s] \in E
  BY Zenon DEF Tags
<1>2. Knows(s) \in 2 .. 5
  BY KnowsRange, Zenon
<1>3. Hello(s) \in Seq(E) /\ Hello(s) = Rest(s, 0)
  <2>1. \A i \in 1 .. 5 : Field(s, i) \in E
    BY FieldTag, Zenon
  <2>2. Hello(s) = Rest(s, 0)
    <3>1. Left(s, 0) = Knows(s)
      BY <1>2 DEF Left
    <3> QED BY <1>2, <3>1 DEF Hello, Rest
  <2>3. \A i \in 1 .. Knows(s) : i \in 1 .. 5
    BY <1>2
  <2> HIDE DEF E
  <2>4. Hello(s) \in [1 .. Knows(s) -> E] /\ Knows(s) \in Nat
    BY <1>2, <2>1, <2>3 DEF Hello
  <2> QED BY <2>2, <2>4
<1>4. rest \in Seq(E)
  BY <1>3
<1> HIDE DEF E, rest
<1>5. /\ Head(<<[field |-> reply, of |-> s]>> \o rest) = [field |-> reply, of |-> s]
      /\ Tail(<<[field |-> reply, of |-> s]>> \o rest) = rest
  BY <1>1, <1>4, TailOfConcat, Zenon
<1> QED BY <1>3, <1>5, Zenon DEF rest

\* The fields have different names.
LEMMA FieldsDiffer ==
    ASSUME NEW i \in 1 .. 5, NEW j \in 1 .. 5, Fields[i] = Fields[j]
    PROVE  i = j
<1>1. i \in {1, 2, 3, 4, 5} /\ j \in {1, 2, 3, 4, 5}
  OBVIOUS
<1> QED BY <1>1, FieldNames

(* One field of the packet: it goes where it belongs, or it was not sent.  *)
LEMMA ReceiveFieldStep ==
    ASSUME NEW s \in Servers, NEW n \in 0 .. 5, Understood(s, n),
           next = [i \in 1 .. 5 - n |-> Fields[n + i]],
           incoming = Rest(s, n), InfoType, ReceiveField
    PROVE  /\ n + 1 \in 0 .. 5
           /\ next' = [i \in 1 .. 5 - (n + 1) |-> Fields[(n + 1) + i]]
           /\ incoming' = Rest(s, n + 1)
           /\ \A i \in 1 .. n + 1 : i <= Knows(s) =>
                  server_info'[Fields[i]] = Field(s, i)
           /\ InfoType'
<1>1. n \in 0 .. 4 /\ Head(next) = Fields[n + 1]
      /\ next' = [i \in 1 .. 5 - (n + 1) |-> Fields[(n + 1) + i]]
  <2>1. next # <<>> /\ next' = Tail(next)
    BY Zenon DEF ReceiveField
  <2>2. n \in 0 .. 4
    BY <2>1
  <2>3. /\ Head(next) = next[1]
        /\ Tail(next) = [i \in 1 .. (5 - n) - 1 |-> next[i + 1]]
    <3>1. 5 - n \in Nat /\ 5 - n > 0
      BY <2>2
    <3> QED BY <3>1, TailOfFunction
  <2>4. \A i \in 1 .. (5 - n) - 1 : next[i + 1] = Fields[(n + 1) + i]
    BY <2>2
  <2>5. (5 - n) - 1 = 5 - (n + 1) /\ next[1] = Fields[n + 1]
    BY <2>2
  <2> QED BY <2>1, <2>2, <2>3, <2>4, <2>5
<1>2. Knows(s) \in 2 .. 5
  BY KnowsRange, Zenon
<1>3. CASE n + 1 <= Knows(s)
  <2>1. Reads(Head(next), revision_)
    BY <1>1, <1>3, ReadsWhatIsSent, Zenon
  <2>2. /\ incoming' = Tail(incoming)
        /\ server_info' = [server_info EXCEPT ![Head(next)] = Head(incoming)]
        /\ UNCHANGED callVars
    BY <2>1, Zenon DEF ReceiveField
  <2>3. incoming = [i \in 1 .. Knows(s) - n |-> Field(s, n + i)]
    <3>1. Left(s, n) = Knows(s) - n
      BY <1>1, <1>2, <1>3 DEF Left
    <3> QED BY <3>1, Zenon DEF Rest
  <2>4. /\ Head(incoming) = incoming[1]
        /\ Tail(incoming) = [i \in 1 .. (Knows(s) - n) - 1 |-> incoming[i + 1]]
    <3>1. Knows(s) - n \in Nat /\ Knows(s) - n > 0
      BY <1>1, <1>2, <1>3
    <3> QED BY <2>3, <3>1, TailOfFunction
  <2>5. incoming[1] = Field(s, n + 1)
    BY <1>1, <1>2, <1>3, <2>3
  <2>10. incoming' = Rest(s, n + 1)
    <3>1. Left(s, n + 1) = (Knows(s) - n) - 1
      BY <1>1, <1>2, <1>3 DEF Left
    <3>2. \A i \in 1 .. (Knows(s) - n) - 1 :
              incoming[i + 1] = Field(s, (n + 1) + i)
      BY <1>1, <1>2, <2>3
    <3> QED BY <2>2, <2>4, <3>1, <3>2, Zenon DEF Rest
  <2>6. server_info' = [server_info EXCEPT ![Fields[n + 1]] = Field(s, n + 1)]
    BY <1>1, <2>2, <2>4, <2>5, Zenon
  <2>7. Fields[n + 1] \in Range(Fields)
    <3>1. n + 1 \in 1 .. 5
      BY <1>1
    <3> QED BY <3>1, FieldNames, Zenon
  <2>8. \A i \in 1 .. n + 1 : i <= Knows(s) =>
            server_info'[Fields[i]] = Field(s, i)
    <3> SUFFICES ASSUME NEW i \in 1 .. n + 1, i <= Knows(s)
                 PROVE  server_info'[Fields[i]] = Field(s, i)
      BY Zenon
    <3>1. CASE i = n + 1
      BY <2>6, <2>7, <3>1, Zenon DEF InfoType
    <3>2. CASE i \in 1 .. n
      <4>1. server_info[Fields[i]] = Field(s, i)
        BY <3>2, Zenon DEF Understood
      <4>2. Fields[i] # Fields[n + 1] /\ Fields[i] \in Range(Fields)
        <5>1. i \in 1 .. 5 /\ n + 1 \in 1 .. 5 /\ i # n + 1
          BY <1>1, <3>2
        <5> QED BY <5>1, FieldsDiffer, FieldNames, Zenon
      <4> QED BY <2>6, <4>1, <4>2, Zenon DEF InfoType
    <3>3. i = n + 1 \/ i \in 1 .. n
      BY <1>1
    <3> QED BY <3>1, <3>2, <3>3, Zenon
  <2>9. InfoType'
    <3>1. Field(s, n + 1) \in [field : Tags, of : Servers]
      <4>1. s \in Servers /\ n + 1 \in 1 .. 5
        BY <1>1
      <4> QED BY <4>1, FieldTag, Zenon
    <3>2. server_info' \in [Range(Fields) -> [field : Tags,
                                             of : Servers \cup {NoServer}]]
      BY <2>6, <3>1, Zenon DEF InfoType
    <3>3. server_info'["revision"].field = "revision"
              => server_info'["revision"].of \in Servers
      BY <2>6, <3>1, FieldNames DEF InfoType
    <3> QED BY <2>2, <3>2, <3>3, Zenon DEF InfoType, callVars
  <2> QED BY <1>1, <2>8, <2>9, <2>10
<1>4. CASE ~ (n + 1 <= Knows(s))
  <2>1. ~Reads(Head(next), revision_)
    BY <1>1, <1>4, ReadsWhatIsSent, Zenon
  <2>2. UNCHANGED <<incoming, server_info, callVars>>
    BY <2>1, Zenon DEF ReceiveField
  <2>3. Rest(s, n + 1) = Rest(s, n)
    <3>1. Left(s, n + 1) = 0 /\ Left(s, n) = 0
      BY <1>1, <1>2, <1>4 DEF Left
    <3> QED BY <3>1 DEF Rest
  <2>4. InfoType'
    BY <2>2, Zenon DEF InfoType, callVars
  <2>5. \A i \in 1 .. n + 1 : i <= Knows(s) =>
            server_info'[Fields[i]] = Field(s, i)
    BY <1>1, <1>2, <1>4, <2>2 DEF Understood
  <2> QED BY <1>1, <2>2, <2>3, <2>4, <2>5
<1> QED BY <1>3, <1>4, Zenon

(* The handshake reads what its server sends, field by field.              *)
LEMMA GreetsStep ==
    ASSUME IInv, [Next]_vars, Steady
    PROVE  Greets' /\ InfoType'
<1>0. Handles /\ Greets /\ InfoType
  BY Zenon DEF IInv
<1>1. ASSUME UNCHANGED <<pc, hello, incoming, server_info, next, Peer, socket_>>
      PROVE  Greets'
  BY <1>0, <1>1 DEF Greets, Understood, Rest
<1>2. ASSUME UNCHANGED <<hello, incoming, server_info, Peer, socket_>>,
             pc' \notin {"receive", "fields"}, hello => pc' \notin Greeting
      PROVE  Greets'
  BY <1>0, <1>2, Zenon DEF Greets, Understood
<1>3. ASSUME UNCHANGED <<server_info, queries, resets>>
      PROVE  InfoType'
  BY <1>0, <1>3, Zenon DEF InfoType
<1>4. ASSUME ~InitializeStreams, ~Destroy PROVE UNCHANGED <<Peer, socket_>>
  BY <1>4, Zenon DEF Steady
<1>5. CASE ResetConnection
  <2>1. UNCHANGED <<protocolVars, queries>> /\ resets' \in 0 .. MaxResets
        /\ pc' = "resolve" /\ pc = "ready"
    BY <1>0, <1>5, BoundsAssumption DEF ResetConnection, Begin, InfoType
  <2>2. ~InitializeStreams /\ ~Destroy
    BY <2>1, Zenon DEF InitializeStreams, Destroy
  <2>3. InfoType'
    BY <1>0, <2>1, Zenon DEF InfoType, protocolVars
  <2> QED BY <1>2, <1>4, <2>1, <2>2, <2>3, Zenon DEF protocolVars, Greeting
<1>6. CASE Destroy
  <2>1. pc' = "gone" /\ UNCHANGED <<server_info, callVars>>
    BY <1>6, Zenon DEF Destroy
  <2>2. hello' = FALSE
    BY <1>6, Zenon DEF Destroy
  <2>3. ~hello'
    BY <2>2, Zenon
  <2>4. hello' \in BOOLEAN
    BY <2>2, Zenon
  <2> QED BY <1>3, <2>1, <2>3, <2>4, Zenon DEF Greets, callVars
<1>7. CASE AppSteps
  <2>1. UNCHANGED <<pc, protocolVars, callVars, hello>>
    BY <1>7, Zenon DEF AppSteps, AppOpens, AppCloses, protocolVars
  <2>2. ~InitializeStreams /\ ~Destroy
    BY <2>1, Zenon DEF InitializeStreams, Destroy
  <2> QED BY <1>1, <1>3, <1>4, <2>1, <2>2, Zenon DEF protocolVars, callVars
<1>8. CASE ConnectSteps /\ UNCHANGED <<streamVars, protocolVars, callVars>>
  <2>1. pc' \notin Greeting /\ pc' # "gone"
    BY <1>8, Zenon DEF ConnectSteps, ResolveThrows, Resolves, SocketFails,
         SocketOpens, ConfigureThrows, Configures, ConnectFails,
         ConnectInProgress, Connects, PollThrows, PollTimesOut,
         PollFindsError, PollFindsConnected, UnblockThrows, Unblocks,
         SocketConnectThrows, TlsThrows, TlsConnects, LoopThrows,
         NextAddress, Throws, Greeting
  <2>2. ~InitializeStreams /\ ~Destroy
    BY <2>1, Zenon DEF InitializeStreams, Destroy, Greeting
  <2> QED
    BY <1>2, <1>3, <1>4, <1>8, <2>1, <2>2, Zenon DEF protocolVars, callVars, Greeting
<1>9. CASE InitializeStreams
  <2>1. pc' = "dispose" /\ UNCHANGED <<server_info, callVars>>
    BY <1>9, Zenon DEF InitializeStreams
  <2>2. hello' = FALSE
    BY <1>9, Zenon DEF InitializeStreams
  <2>3. ~hello'
    BY <2>2, Zenon
  <2>4. hello' \in BOOLEAN
    BY <2>2, Zenon
  <2> QED BY <1>3, <2>1, <2>3, <2>4, Zenon DEF Greets, callVars
<1>10. CASE DisposeSocket
  <2>1. /\ pc = "dispose" /\ pc' = "hello"
        /\ UNCHANGED <<protocolVars, callVars>>
    BY <1>10, Zenon DEF DisposeSocket
  <2>2. hello = FALSE /\ ~InitializeStreams /\ ~Destroy
    BY <1>0, <2>1, Zenon DEF InitializeStreams, Destroy, Greets, Greeting
  <2> QED
    BY <1>2, <1>3, <1>4, <2>1, <2>2, Zenon DEF protocolVars, callVars, Greeting
<1>11. ASSUME SendHelloThrows \/ ReceiveHelloRejects \/ ReadThrows
       PROVE  Greets' /\ InfoType'
  <2>1. /\ pc \in Greeting /\ pc # "dispose" /\ pc' = "ready"
        /\ UNCHANGED <<hello, server_info, callVars>>
    BY <1>11, Zenon DEF SendHelloThrows, ReceiveHelloRejects, ReadThrows, Throws,
         Greeting
  <2>2. ~hello' /\ hello' \in BOOLEAN
    BY <1>0, <2>1, Zenon DEF Greets
  <2> QED BY <1>3, <2>1, <2>2, Zenon DEF Greets, callVars
<1>12. CASE SendHello
  <2>1. /\ pc = "hello" /\ pc' = "receive"
        /\ UNCHANGED <<hello, server_info, callVars>>
    BY <1>12, Zenon DEF SendHello
  <2>2. ~InitializeStreams /\ ~Destroy
    BY <2>1, Zenon DEF InitializeStreams, Destroy
  <2>3. ~hello' /\ hello' \in BOOLEAN
    BY <1>0, <2>1, Zenon DEF Greets, Greeting
  <2>4. Peer' = Peer
    BY <1>4, <2>2, Zenon
  <2>5. PICK reply \in {"Hello", "Exception", "other"} :
            incoming' = <<[field |-> reply, of |-> Peer]>>
                        \o (IF reply = "Hello" THEN Hello(Peer) ELSE <<>>)
    BY <1>12, Zenon DEF SendHello
  <2>6. incoming' = <<[field |-> reply, of |-> Peer']>>
                    \o (IF reply = "Hello" THEN Hello(Peer') ELSE <<>>)
    BY <2>4, <2>5, Zenon
  <2>7. Greets'
    BY <2>1, <2>3, <2>6, Zenon DEF Greets
  <2> QED BY <1>3, <2>1, <2>7, Zenon DEF callVars
<1>13. CASE ReceiveHello
  <2>1. /\ pc = "receive" /\ pc' = "fields" /\ Head(incoming).field = "Hello"
        /\ incoming' = Tail(incoming) /\ next' = Fields
        /\ UNCHANGED <<hello, server_info, callVars>>
    BY <1>13, Zenon DEF ReceiveHello
  <2>2. ~InitializeStreams /\ ~Destroy
    BY <2>1, Zenon DEF InitializeStreams, Destroy
  <2>3. ~hello' /\ hello' \in BOOLEAN
    BY <1>0, <2>1, Zenon DEF Greets, Greeting
  <2>4. Peer' = Peer /\ Peer \in Servers
    <3>1. socket_ # 0
      BY <1>0, <2>1, Zenon DEF Handles, Places, Greeting
    <3> QED BY <1>0, <1>4, <2>2, <3>1, PeerIsServer, Zenon
  <2>5. incoming' = Rest(Peer, 0)
    <3>1. PICK reply \in {"Hello", "Exception", "other"} :
              incoming = <<[field |-> reply, of |-> Peer]>>
                         \o (IF reply = "Hello" THEN Hello(Peer) ELSE <<>>)
      BY <1>0, <2>1, Zenon DEF Greets
    <3>2. /\ Head(incoming) = [field |-> reply, of |-> Peer]
          /\ reply = "Hello" => Tail(incoming) = Rest(Peer, 0)
      BY <2>4, <3>1, AfterTheCode, Zenon
    <3>3. reply = "Hello"
      BY <2>1, <3>2
    <3> QED BY <2>1, <3>2, <3>3, Zenon
  <2>6. next' = [i \in 1 .. 5 - 0 |-> Fields[0 + i]]
    BY <2>1 DEF Fields
  <2>7. Understood(Peer, 0)' /\ Rest(Peer, 0)' = Rest(Peer, 0)
    BY <2>4 DEF Understood, Rest
  <2> QED
    BY <1>3, <2>1, <2>3, <2>5, <2>6, <2>7 DEF Greets, callVars
<1>14. CASE ReceiveField
  <2>1. pc = "fields" /\ UNCHANGED <<pc, hello>>
    BY <1>14, Zenon DEF ReceiveField
  <2>2. ~InitializeStreams /\ ~Destroy
    BY <2>1, Zenon DEF InitializeStreams, Destroy
  <2>3. ~hello' /\ hello' \in BOOLEAN
    BY <1>0, <2>1, Zenon DEF Greets, Greeting
  <2>4. Peer' = Peer /\ Peer \in Servers
    <3>1. socket_ # 0
      BY <1>0, <2>1, Zenon DEF Handles, Places, Greeting
    <3> QED BY <1>0, <1>4, <2>2, <3>1, PeerIsServer, Zenon
  <2>5. PICK n \in 0 .. 5 : /\ next = [i \in 1 .. 5 - n |-> Fields[n + i]]
                            /\ incoming = Rest(Peer, n)
                            /\ Understood(Peer, n)
    BY <1>0, <2>1, Zenon DEF Greets
  <2>6. /\ n + 1 \in 0 .. 5
        /\ next' = [i \in 1 .. 5 - (n + 1) |-> Fields[(n + 1) + i]]
        /\ incoming' = Rest(Peer, n + 1)
        /\ \A i \in 1 .. n + 1 : i <= Knows(Peer) =>
               server_info'[Fields[i]] = Field(Peer, i)
        /\ InfoType'
    BY <1>0, <1>14, <2>4, <2>5, ReceiveFieldStep, Zenon
  <2>7. Understood(Peer, n + 1)' /\ Rest(Peer, n + 1)' = Rest(Peer, n + 1)
    BY <2>4, <2>6, Zenon DEF Understood, Rest
  <2>8. Greets'
    BY <2>1, <2>3, <2>6, <2>7, Zenon DEF Greets
  <2> QED BY <2>6, <2>8, Zenon
<1>15. CASE HandshakeEnds
  <2>1. /\ pc = "fields" /\ next = <<>> /\ pc' = "ready"
        /\ UNCHANGED <<incoming, server_info, resets, queries>>
    BY <1>15 DEF HandshakeEnds
  <2>2. ~InitializeStreams /\ ~Destroy
    BY <2>1 DEF InitializeStreams, Destroy
  <2>3. hello' = TRUE
    BY <1>15 DEF HandshakeEnds
  <2>4. Peer' = Peer /\ socket_' = socket_ /\ Peer \in Servers /\ socket_ # 0
    <3>1. socket_ # 0
      BY <1>0, <2>1, Zenon DEF Handles, Places, Greeting
    <3> QED BY <1>0, <1>4, <2>2, <3>1, PeerIsServer, Zenon
  <2>5. PICK n \in 0 .. 5 : /\ next = [i \in 1 .. 5 - n |-> Fields[n + i]]
                            /\ incoming = Rest(Peer, n)
                            /\ Understood(Peer, n)
    BY <1>0, <2>1, Zenon DEF Greets
  <2>6. n = 5
    <3>1. Len(next) = 5 - n
      BY <2>5
    <3> QED BY <2>1, <3>1
  <2>7. Understood(Peer, 5)'
    BY <2>1, <2>4, <2>5, <2>6, Zenon DEF Understood
  <2>8. incoming' = <<>>
    <3>1. Left(Peer, 5) = 0
      BY <2>4, KnowsRange DEF Left
    <3> QED BY <2>1, <2>5, <2>6, <3>1 DEF Rest
  <2>9. Greets'
    BY <2>1, <2>3, <2>4, <2>7, <2>8, Zenon DEF Greets, Greeting
  <2> QED BY <1>3, <2>1, <2>9
<1>16. ASSUME NEW query, SendQuery(query) PROVE Greets' /\ InfoType'
  <2>1. /\ pc = "ready" /\ queries < MaxQueries /\ queries' = queries + 1
        /\ UNCHANGED <<pc, hello, incoming, server_info, next, resets>>
    BY <1>16, Zenon DEF SendQuery
  <2>2. ~InitializeStreams /\ ~Destroy
    BY <2>1, Zenon DEF InitializeStreams, Destroy
  <2>3. InfoType'
    BY <1>0, <2>1, BoundsAssumption DEF InfoType
  <2> QED BY <1>1, <1>4, <2>1, <2>2, <2>3, Zenon
<1>17. CASE UNCHANGED vars
  <2>1. UNCHANGED <<pc, hello, incoming, server_info, next, fds, socket_,
                    queries, resets>>
    BY <1>17, Zenon DEF vars, protocolVars, streamVars, osVars, callVars
  <2> QED BY <1>1, <1>3, <2>1, Zenon DEF Peer
<1> QED
  BY <1>5, <1>6, <1>7, <1>8, <1>9, <1>10, <1>11, <1>12, <1>13, <1>14, <1>15,
     <1>16, <1>17, Zenon DEF Next, ClientSteps

-----------------------------------------------------------------------------
(* What is written, and what a caller sees.                                *)

\* server_info_.revision is a number, right or wrong.
LEMMA RevisionType ==
    ASSUME InfoType
    PROVE  revision_ \in Nat
<1>1. \A s \in Servers : Revision[s] \in Nat
  BY KnowsRange, Zenon
<1> QED BY <1>1, Zenon DEF InfoType, revision_

\* A packet of the right layout is added to some.
LEMMA Appending ==
    ASSUME NEW packets \in Seq([kind : Kinds, revision : Nat]), NEW s,
           NEW k \in Kinds, NEW r \in Nat
    PROVE  LET more == Append(packets, [kind |-> k, revision |-> r])
           IN  /\ more \in Seq([kind : Kinds, revision : Nat])
               /\ InLayout(packets, s) /\ (k = "Hello" \/ r = Revision[s])
                      => InLayout(more, s)
<1> DEFINE more == Append(packets, [kind |-> k, revision |-> r])
<1>1. [kind |-> k, revision |-> r] \in [kind : Kinds, revision : Nat]
  BY Zenon
<1>2. /\ more \in Seq([kind : Kinds, revision : Nat])
      /\ Len(more) = Len(packets) + 1
      /\ more[Len(packets) + 1] = [kind |-> k, revision |-> r]
      /\ \A i \in 1 .. Len(packets) : more[i] = packets[i]
  BY <1>1
<1>3. DOMAIN more = 1 .. Len(more) /\ DOMAIN packets = 1 .. Len(packets)
  BY <1>2
<1>4. ASSUME InLayout(packets, s), k = "Hello" \/ r = Revision[s],
             NEW i \in 1 .. Len(packets) + 1
      PROVE  more[i].kind = "Hello" \/ more[i].revision = Revision[s]
  <2>1. CASE i = Len(packets) + 1
    BY <1>2, <1>4, <2>1
  <2>2. CASE i \in 1 .. Len(packets)
    BY <1>2, <1>3, <1>4, <2>2, Zenon DEF InLayout
  <2> QED BY <2>1, <2>2
<1>5. InLayout(packets, s) /\ (k = "Hello" \/ r = Revision[s])
          => InLayout(more, s)
  BY <1>2, <1>3, <1>4, Zenon DEF InLayout
<1> QED BY <1>2, <1>5, Zenon

\* The buffer is flushed.
LEMMA Flushing ==
    ASSUME NEW old \in Seq([kind : Kinds, revision : Nat]), NEW s,
           NEW more \in Seq([kind : Kinds, revision : Nat])
    PROVE  /\ old \o more \in Seq([kind : Kinds, revision : Nat])
           /\ InLayout(old, s) /\ InLayout(more, s) => InLayout(old \o more, s)
<1>1. /\ old \o more \in Seq([kind : Kinds, revision : Nat])
      /\ Len(old \o more) = Len(old) + Len(more)
      /\ \A i \in 1 .. Len(old) : (old \o more)[i] = old[i]
      /\ \A i \in 1 .. Len(more) : (old \o more)[Len(old) + i] = more[i]
  OBVIOUS
<1>2. ASSUME InLayout(old, s), InLayout(more, s),
             NEW i \in 1 .. Len(old) + Len(more)
      PROVE  \/ (old \o more)[i].kind = "Hello"
             \/ (old \o more)[i].revision = Revision[s]
  <2>1. CASE i \in 1 .. Len(old)
    BY <1>1, <1>2, <2>1 DEF InLayout
  <2>2. CASE i > Len(old)
    <3>1. i - Len(old) \in 1 .. Len(more) /\ i = Len(old) + (i - Len(old))
      BY <2>2
    <3> QED BY <1>1, <1>2, <3>1 DEF InLayout
  <2> QED BY <2>1, <2>2
<1> QED BY <1>1, <1>2 DEF InLayout

\* ConnectSteps stays out of the handshake.
LEMMA ConnectPlaces ==
    ASSUME ConnectSteps
    PROVE  /\ pc \notin Greeting \cup {"ready", "gone", "install"}
           /\ pc' \notin Greeting /\ pc' # "gone"
           /\ pc' = "ready" \/ result' = result
           /\ pc' = "ready" => result'.class \in {"connect", "tls"}
BY DEF ConnectSteps, ResolveThrows, Resolves, SocketFails, SocketOpens,
       ConfigureThrows, Configures, ConnectFails, ConnectInProgress, Connects,
       PollThrows, PollTimesOut, PollFindsError, PollFindsConnected,
       UnblockThrows, Unblocks, SocketConnectThrows, TlsThrows, TlsConnects,
       LoopThrows, NextAddress, Throws, Greeting

(* On a connection with a handshake only packets of its layout are sent.   *)
LEMMA WrittenStep ==
    ASSUME IInv, [Next]_vars, Steady, Greets'
    PROVE  Written'
<1> DEFINE Packets == Seq([kind : Kinds, revision : Nat])
<1>0. Handles /\ Greets /\ InfoType /\ Written
  BY Zenon DEF IInv
<1>1. ASSUME ~InitializeStreams, ~Destroy PROVE UNCHANGED <<Peer, socket_>>
  BY <1>1, Zenon DEF Steady
<1>2. ASSUME UNCHANGED <<sent, buffer>>, hello' => hello /\ Peer' = Peer,
             pc' \in Greeting => pc' = pc
      PROVE  Written'
  BY <1>0, <1>2, Zenon DEF Written, InLayout, Greeting
<1>3. CASE ResetConnection
  <2>1. UNCHANGED <<hello, sent, buffer>> /\ pc' = "resolve"
    BY <1>3, Zenon DEF ResetConnection, Begin, protocolVars
  <2>2. ~InitializeStreams /\ ~Destroy
    BY <2>1, Zenon DEF InitializeStreams, Destroy
  <2> QED BY <1>1, <1>2, <2>1, <2>2, Zenon DEF Greeting
<1>4. CASE Destroy
  <2>1. UNCHANGED <<sent, buffer>> /\ pc' = "gone"
    BY <1>4, Zenon DEF Destroy
  <2>2. ~hello'
    BY <1>4, Zenon DEF Destroy
  <2> QED BY <1>2, <2>1, <2>2, Zenon DEF Greeting
<1>5. CASE AppSteps
  <2>1. UNCHANGED <<pc, hello, sent, buffer>>
    BY <1>5, Zenon DEF AppSteps, AppOpens, AppCloses, protocolVars
  <2>2. ~InitializeStreams /\ ~Destroy
    BY <2>1, Zenon DEF InitializeStreams, Destroy
  <2> QED BY <1>1, <1>2, <2>1, <2>2, Zenon
<1>6. CASE ConnectSteps /\ UNCHANGED <<streamVars, protocolVars, callVars>>
  <2>1. UNCHANGED <<hello, sent, buffer>> /\ pc' \notin Greeting /\ pc' # "gone"
    BY <1>6, ConnectPlaces, Zenon DEF protocolVars
  <2>2. ~InitializeStreams /\ ~Destroy
    BY <2>1, Zenon DEF InitializeStreams, Destroy, Greeting
  <2> QED BY <1>1, <1>2, <2>1, <2>2, Zenon
<1>7. CASE InitializeStreams
  <2>1. sent' = <<>> /\ buffer' = <<>> /\ pc' = "dispose"
    BY <1>7, Zenon DEF InitializeStreams
  <2>2. ~hello'
    BY <1>7, Zenon DEF InitializeStreams
  <2> QED BY <2>1, <2>2 DEF Written
<1>8. CASE DisposeSocket
  <2>1. pc = "dispose" /\ pc' = "hello" /\ UNCHANGED <<hello, sent, buffer>>
    BY <1>8, Zenon DEF DisposeSocket, protocolVars
  <2>2. ~hello'
    BY <1>0, <2>1, Zenon DEF Greets, Greeting
  <2> QED BY <1>0, <2>1, <2>2, Zenon DEF Written
<1>9. CASE SendHello
  <2>1. /\ pc = "hello" /\ pc' = "receive" /\ sent' = Append(sent, HelloPacket)
        /\ UNCHANGED <<hello, buffer>>
    BY <1>9, Zenon DEF SendHello
  <2>2. ~hello'
    BY <1>0, <2>1, Zenon DEF Greets, Greeting
  <2>3. sent' = <<HelloPacket>> /\ buffer' = <<>>
    BY <1>0, <2>1 DEF Written
  <2>4. sent' \in Packets
    BY <2>3 DEF HelloPacket, Kinds
  <2> QED BY <1>0, <2>1, <2>2, <2>3, <2>4, Zenon DEF Written
<1>10. CASE SendHelloThrows
  <2>1. /\ pc = "hello" /\ pc' = "ready" /\ UNCHANGED <<hello, sent>>
        /\ buffer' = Append(buffer, HelloPacket)
    BY <1>10, Zenon DEF SendHelloThrows, Throws
  <2>2. ~hello'
    BY <1>0, <2>1, Zenon DEF Greets, Greeting
  <2>3. buffer' \in Packets
    BY <1>0, <2>1, Appending, Zenon DEF Written, HelloPacket, Kinds
  <2> QED BY <1>0, <2>1, <2>2, <2>3, Zenon DEF Written
<1>11. CASE ReceiveHello
  <2>1. pc = "receive" /\ pc' = "fields" /\ UNCHANGED <<hello, sent, buffer>>
    BY <1>11, Zenon DEF ReceiveHello
  <2>2. ~hello'
    BY <1>0, <2>1, Zenon DEF Greets, Greeting
  <2> QED BY <1>0, <2>1, <2>2, Zenon DEF Written
<1>12. ASSUME ReceiveHelloRejects \/ ReadThrows PROVE Written'
  <2>1. pc' = "ready" /\ UNCHANGED <<hello, sent, buffer>>
    BY <1>12, Zenon DEF ReceiveHelloRejects, ReadThrows, Throws
  <2>2. ~InitializeStreams /\ ~Destroy
    BY <2>1, Zenon DEF InitializeStreams, Destroy
  <2> QED BY <1>1, <1>2, <2>1, <2>2, Zenon DEF Greeting
<1>13. CASE ReceiveField
  <2>1. UNCHANGED <<pc, hello, sent, buffer>>
    BY <1>13, Zenon DEF ReceiveField
  <2>2. ~InitializeStreams /\ ~Destroy
    BY <2>1, Zenon DEF InitializeStreams, Destroy
  <2> QED BY <1>1, <1>2, <2>1, <2>2, Zenon
<1>14. CASE HandshakeEnds
  <2>1. /\ pc = "fields" /\ pc' = "ready" /\ UNCHANGED <<sent, server_info>>
        /\ \/ buffer' = buffer
           \/ buffer' = Append(buffer, [kind |-> "addendum",
                                        revision |-> revision_])
    BY <1>14 DEF HandshakeEnds
  <2>2. hello'
    BY <1>14 DEF HandshakeEnds
  <2>3. ~InitializeStreams /\ ~Destroy
    BY <2>1, Zenon DEF InitializeStreams, Destroy
  <2>4. Peer' = Peer /\ Peer \in Servers
    <3>1. socket_ # 0
      BY <1>0, <2>1, Zenon DEF Handles, Places, Greeting
    <3> QED BY <1>0, <1>1, <2>3, <3>1, PeerIsServer, Zenon
  <2>5. Understood(Peer, 5)
    BY <2>1, <2>2, <2>4, Zenon DEF Greets, Understood
  <2>6. revision_ = Revision[Peer] /\ revision_ \in Nat
    BY <1>0, <2>4, <2>5, RevisionRead, RevisionType
  <2>7. sent = <<HelloPacket>> /\ buffer = <<>>
    BY <1>0, <2>1, Zenon DEF Written
  <2>8. InLayout(sent, Peer) /\ InLayout(buffer, Peer)
    BY <2>7 DEF InLayout, HelloPacket
  <2>9. InLayout(buffer', Peer) /\ buffer' \in Packets
    <3>1. "addendum" \in Kinds /\ buffer \in Packets
      BY <1>0, Zenon DEF Written, Kinds
    <3> HIDE DEF revision_
    <3> QED BY <2>1, <2>6, <2>8, <3>1, Appending, Zenon
  <2>10. InLayout(sent, Peer)' /\ InLayout(buffer, Peer)'
    BY <2>1, <2>4, <2>8, <2>9, Zenon DEF InLayout
  <2>11. sent' \in Packets
    BY <1>0, <2>1, Zenon DEF Written
  <2> QED BY <2>1, <2>9, <2>10, <2>11 DEF Written
<1>15. ASSUME NEW query, SendQuery(query) PROVE Written'
  <2>1. pc = "ready" /\ UNCHANGED <<pc, hello>>
    BY <1>15, Zenon DEF SendQuery
  <2>2. ~InitializeStreams /\ ~Destroy
    BY <2>1, Zenon DEF InitializeStreams, Destroy
  <2>3. Peer' = Peer
    BY <1>1, <2>2, Zenon
  <2>4. PICK k \in Kinds :
            LET packets == Append(buffer, [kind |-> k, revision |-> revision_])
            IN  \/ buffer' = packets /\ sent' = sent
                \/ buffer' = <<>> /\ sent' = sent \o packets
    <3>1. "part" \in Kinds /\ "query" \in Kinds
      BY Zenon DEF Kinds
    <3>2. CASE Refuses(query)
      BY <1>15, <3>1, <3>2, Zenon DEF SendQuery
    <3>3. CASE ~Refuses(query)
      BY <1>15, <3>1, <3>3, Zenon DEF SendQuery
    <3> QED BY <3>2, <3>3, Zenon
  <2> DEFINE packets == Append(buffer, [kind |-> k, revision |-> revision_])
  <2>5. revision_ \in Nat /\ (hello => revision_ = Revision[Peer])
    BY <1>0, PeerIsServer, RevisionRead, RevisionType DEF Greets
  <2>6. /\ packets \in Packets
        /\ hello => InLayout(packets, Peer)
    <3> HIDE DEF revision_
    <3> QED BY <1>0, <2>5, Appending, Zenon DEF Written
  <2>7. /\ buffer' \in Packets /\ sent' \in Packets
        /\ hello => InLayout(buffer', Peer) /\ InLayout(sent', Peer)
    <3> HIDE DEF packets
    <3>1. <<>> \in Packets /\ InLayout(<<>>, Peer)
      BY DEF InLayout
    <3> QED BY <1>0, <2>4, <2>6, <3>1, Flushing, Zenon DEF Written, packets
  <2>8. hello' => InLayout(buffer, Peer)' /\ InLayout(sent, Peer)'
    BY <2>1, <2>3, <2>7, Zenon DEF InLayout
  <2> QED BY <2>1, <2>7, <2>8, Zenon DEF Written
<1>16. CASE UNCHANGED vars
  <2>1. UNCHANGED <<pc, hello, sent, buffer, fds, socket_>>
    BY <1>16, Zenon DEF vars, protocolVars, streamVars, osVars
  <2> QED BY <1>2, <2>1, Zenon DEF Peer
<1> QED
  BY <1>3, <1>4, <1>5, <1>6, <1>7, <1>8, <1>9, <1>10, <1>11, <1>12, <1>13,
     <1>14, <1>15, <1>16, Zenon DEF Next, ClientSteps

(* Until InitializeStreams a failing call leaves no trace.                 *)
LEMMA UntouchedStep ==
    ASSUME IInv, [Next]_vars, Steady
    PROVE  Untouched'
<1> SUFFICES ASSUME pc' \notin {"ready", "gone"} \cup Greeting
             PROVE  before' = [link |-> Link', last |-> result'.class]
  BY Zenon DEF Untouched
<1>0. Untouched
  BY Zenon DEF IInv
<1>1. ~InitializeStreams /\ ~Destroy
  BY Zenon DEF InitializeStreams, Destroy, Greeting
<1>2. Peer' = Peer
  BY <1>1, Zenon DEF Steady
<1>3. ASSUME UNCHANGED <<hello, before, result>>,
             pc \notin {"ready", "gone"} \cup Greeting
      PROVE  before' = [link |-> Link', last |-> result'.class]
  BY <1>0, <1>2, <1>3, Zenon DEF Untouched, Link
<1>4. CASE ResetConnection
  BY <1>2, <1>4, Zenon DEF ResetConnection, Begin, protocolVars, Link
<1>5. CASE AppSteps
  BY <1>3, <1>5, Zenon DEF AppSteps, AppOpens, AppCloses, protocolVars, callVars
<1>6. CASE ConnectSteps /\ UNCHANGED <<streamVars, protocolVars, callVars>>
  BY <1>3, <1>6, ConnectPlaces, Zenon DEF protocolVars, callVars
<1>7. CASE UNCHANGED vars
  BY <1>3, <1>7, Zenon DEF vars, protocolVars, callVars
<1>8. ASSUME NEW query, SendQuery(query) PROVE FALSE
  BY <1>8, Zenon DEF SendQuery
<1>9. ASSUME DisposeSocket \/ SendHello \/ ReceiveHello \/ ReceiveField
      PROVE  FALSE
  BY <1>9 DEF DisposeSocket, SendHello, ReceiveHello, ReceiveField, Greeting
<1>10. ASSUME SendHelloThrows \/ ReceiveHelloRejects \/ ReadThrows
              \/ HandshakeEnds
       PROVE  FALSE
  BY <1>10 DEF SendHelloThrows, ReceiveHelloRejects, ReadThrows, HandshakeEnds,
               Throws
<1> QED
  BY <1>1, <1>4, <1>5, <1>6, <1>7, <1>8, <1>9, <1>10, Zenon DEF Next, ClientSteps

-----------------------------------------------------------------------------
(* The refinement.                                                         *)

\* A client that is being constructed has no connection.
LEMMA AttemptInit == Init => Attempt!Init
<1> SUFFICES ASSUME Init PROVE Attempt!Init
  BY Zenon
<1>1. pc = "ready" /\ DOMAIN fds = {} /\ result.class = "none"
  BY DEF Init, SocketsInit
<1>2. hello = FALSE
  BY Zenon DEF Init
<1>3. Link = [peer |-> NoServer, hello |-> FALSE]
  BY <1>1, <1>2, Zenon DEF Link, Peer
<1> QED BY <1>1, <1>3, Zenon DEF Attempt!Init, Attempt!NoLink

(* Every step is a step of the attempt or changes nothing a caller sees.   *)
LEMMA AttemptStep ==
    ASSUME IInv, IInv', [Next]_vars, Steady
    PROVE  [Attempt!Next]_(Attempt!attemptVars)
<1> DEFINE link == IF pc \in {"ready", "gone"} THEN Link ELSE before.link
           last == IF pc \in {"ready", "gone"} THEN result.class ELSE before.last
<1>0. Handles /\ Greets /\ Untouched
  BY Zenon DEF IInv
<1>1. ASSUME ~InitializeStreams, ~Destroy PROVE UNCHANGED <<Peer, socket_>>
  BY <1>1, Zenon DEF Steady
<1>2. SUFFICES Attempt!Next \/ (link' = link /\ last' = last)
  BY Zenon DEF Attempt!attemptVars
<1>3. CASE ResetConnection
  <2>1. /\ pc = "ready" /\ pc' = "resolve"
        /\ before' = [link |-> Link, last |-> result.class]
    BY <1>3, Zenon DEF ResetConnection, Begin
  <2> QED BY <2>1, Zenon
<1>4. CASE Destroy
  <2>1. pc = "ready" /\ pc' = "gone" /\ result' = result /\ socket_' = 0
    BY <1>4, Zenon DEF Destroy, INVALID_SOCKET
  <2>2. hello' = FALSE
    BY <1>4, Zenon DEF Destroy
  <2>3. Peer' = NoServer
    BY <2>1, Zenon DEF IInv, Handles, Table, Peer
  <2>4. link' = [peer |-> NoServer, hello |-> FALSE] /\ last' = last
    BY <2>1, <2>2, <2>3, Zenon DEF Link
  <2> QED BY <2>4, Zenon DEF Attempt!Next, Attempt!Closes, Attempt!NoLink
<1>5. CASE AppSteps
  <2>1. UNCHANGED <<pc, hello, result, before>>
    BY <1>5, Zenon DEF AppSteps, AppOpens, AppCloses, protocolVars, callVars
  <2>2. ~InitializeStreams /\ ~Destroy
    BY <2>1, Zenon DEF InitializeStreams, Destroy
  <2> QED BY <1>1, <2>1, <2>2, Zenon DEF Link
<1>6. CASE ConnectSteps /\ UNCHANGED <<streamVars, protocolVars, callVars>>
  <2>1. UNCHANGED <<hello, before>> /\ pc' # "gone"
        /\ pc \notin {"ready", "gone"} \cup Greeting /\ pc' \notin Greeting
    BY <1>6, ConnectPlaces, Zenon DEF protocolVars, callVars
  <2>2. ~InitializeStreams /\ ~Destroy
    BY <2>1, Zenon DEF InitializeStreams, Destroy, Greeting
  <2>3. CASE pc' # "ready"
    BY <2>1, <2>3, Zenon
  <2>4. CASE pc' = "ready"
    <3>1. before.link = Link /\ result'.class \in {"connect", "tls"}
      BY <1>0, <1>6, <2>1, <2>4, ConnectPlaces DEF Untouched
    <3>2. link' = link /\ last' \in {"connect", "tls"}
      BY <1>1, <2>1, <2>2, <2>4, <3>1, Zenon DEF Link
    <3> QED BY <3>2, Zenon DEF Attempt!Next, Attempt!FailsToConnect
  <2> QED BY <2>3, <2>4, Zenon
<1>7. CASE InitializeStreams \/ DisposeSocket \/ SendHello \/ ReceiveHello
           \/ ReceiveField
  BY <1>7, Zenon DEF InitializeStreams, DisposeSocket, SendHello, ReceiveHello,
              ReceiveField, callVars
<1>8. ASSUME SendHelloThrows \/ ReceiveHelloRejects \/ ReadThrows
      PROVE  Attempt!Next
  <2>1. /\ pc \in Greeting /\ pc # "dispose" /\ pc' = "ready" /\ hello' = hello
        /\ result'.class \in {"lost", "rejected"}
    BY <1>8 DEF SendHelloThrows, ReceiveHelloRejects, ReadThrows, Throws,
         Greeting, SendErrors, ReceiveErrors, TLSErrors
  <2>2. ~InitializeStreams /\ ~Destroy
    BY <2>1, Zenon DEF InitializeStreams, Destroy
  <2>3. hello' = FALSE
    BY <1>0, <2>1, Zenon DEF Greets
  <2>4. Peer' \in Servers
    <3>1. socket_ # 0
      BY <1>0, <2>1, Zenon DEF Handles, Places
    <3> QED BY <1>0, <1>1, <2>2, <3>1, PeerIsServer, Zenon
  <2>5. link' = [peer |-> Peer', hello |-> FALSE]
        /\ last' \in {"lost", "rejected"}
    BY <2>1, <2>3, Zenon DEF Link
  <2> QED BY <2>4, <2>5, Zenon DEF Attempt!Next, Attempt!FailsToGreet
<1>9. CASE HandshakeEnds
  <2>1. pc = "fields" /\ pc' = "ready" /\ result'.class = "ok"
    BY <1>9 DEF HandshakeEnds, Ok
  <2>2. ~InitializeStreams /\ ~Destroy
    BY <2>1 DEF InitializeStreams, Destroy
  <2>3. hello' = TRUE
    BY <1>9 DEF HandshakeEnds
  <2>4. Peer' \in Servers
    <3>1. socket_ # 0
      BY <1>0, <2>1, Zenon DEF Handles, Places, Greeting
    <3> QED BY <1>0, <1>1, <2>2, <3>1, PeerIsServer, Zenon
  <2>5. link' = [peer |-> Peer', hello |-> TRUE] /\ last' = "ok"
    BY <2>1, <2>3, Zenon DEF Link
  <2> QED BY <2>4, <2>5, Zenon DEF Attempt!Next, Attempt!Succeeds
<1>10. ASSUME NEW query, SendQuery(query) PROVE link' = link /\ last' = last
  <2>1. pc = "ready" /\ UNCHANGED <<pc, hello, result, before>>
    BY <1>10, Zenon DEF SendQuery
  <2>2. ~InitializeStreams /\ ~Destroy
    BY <2>1, Zenon DEF InitializeStreams, Destroy
  <2> QED BY <1>1, <2>1, <2>2, Zenon DEF Link
<1>11. CASE UNCHANGED vars
  BY <1>11, Zenon DEF vars, osVars, streamVars, protocolVars, callVars, Link, Peer
<1> QED
  BY <1>3, <1>4, <1>5, <1>6, <1>7, <1>8, <1>9, <1>10, <1>11, Zenon
     DEF Next, ClientSteps

-----------------------------------------------------------------------------
(* Who owns which handle.                                                  *)

(* socket() returns a handle that nobody has, and not INVALID_SOCKET.      *)
LEMMA NewHandleIsNew ==
    ASSUME NEW h \in NewHandles
    PROVE  h \in Nat \ {0} /\ h \notin DOMAIN fds
BY DEF NewHandles

(* Closing a handle takes it, and nothing else, out of the table.          *)
LEMMA Closing ==
    ASSUME NEW h, Table, fds' = CloseSocket(fds, h),
           app' = app \/ (h = app /\ app' = 0)
    PROVE  /\ Table' /\ DOMAIN fds' = DOMAIN fds \ {h}
           /\ \A x \in DOMAIN fds \ {h} : fds'[x] = fds[x]
<1>1. DOMAIN fds' = DOMAIN fds \ {h}
  BY Zenon DEF CloseSocket, Restrict
<1> QED BY <1>1, Zenon DEF Table, CloseSocket, Restrict

(* Opening one adds it.                                                    *)
LEMMA Opening ==
    ASSUME NEW h \in NewHandles, NEW e, Table, fds' = OpenSocket(fds, h, e),
           \/ app' = h /\ app = 0 /\ e = [owner |-> "app"]
           \/ app' = app /\ app \in DOMAIN fds \cup {0} /\ e \in ClientEntry
    PROVE  /\ Table' /\ DOMAIN fds' = DOMAIN fds \cup {h}
           /\ fds'[h] = e
           /\ \A x \in DOMAIN fds : fds'[x] = fds[x]
<1>1. DOMAIN fds' = DOMAIN fds \cup {h}
  BY Zenon DEF OpenSocket
<1> QED BY <1>1, NewHandleIsNew DEF Table, OpenSocket

(* Changing how a handle of the client is set up changes nothing else.     *)
LEMMA Changing ==
    ASSUME NEW h \in DOMAIN fds, h # app, NEW e \in ClientEntry, Table,
           app' = app, fds' = [fds EXCEPT ![h] = e]
    PROVE  /\ Table' /\ DOMAIN fds' = DOMAIN fds /\ fds'[h] = e
           /\ \A x \in DOMAIN fds \ {h} : fds'[x] = fds[x]
<1>1. DOMAIN fds' = DOMAIN fds /\ fds'[h] = e
      /\ \A x \in DOMAIN fds \ {h} : fds'[x] = fds[x]
  BY Zenon DEF Table
<1> QED BY <1>1, Zenon DEF Table

(* A step that closes what the wrapper or the socket being made holds.     *)
LEMMA ClosingStep ==
    ASSUME Handles, NEW h, fds' = CloseSocket(fds, h), h # socket_ \/ h = 0,
           \/ h = raii /\ socket = 0
           \/ h = socket /\ raii = 0,
           raii' = 0, socket' = 0, UNCHANGED <<app, streamVars>>,
           \/ pc' \in {"ready", "address"}
           \/ pc' = "hello" /\ pc = "dispose"
    PROVE  Handles'
<1>0. Table /\ Owners /\ Places /\ Prepared
  BY Zenon DEF Handles
<1>1. /\ app' = app /\ socket_' = socket_ /\ input_' = input_
      /\ output_' = output_
  BY Zenon DEF streamVars
<1>2. /\ Table' /\ DOMAIN fds' = DOMAIN fds \ {h}
      /\ \A x \in DOMAIN fds \ {h} : fds'[x] = fds[x]
  BY <1>0, <1>1, Closing, Zenon
<1>3. h # app \/ h = 0
  BY <1>0, Zenon DEF Owners, Held
<1>4. Owners'
  BY <1>0, <1>1, <1>2, <1>3 DEF Owners, Held, Table
<1>5. Places'
  BY <1>0, <1>1, Zenon DEF Places, Loop, Greeting
<1>6. Prepared'
  BY <1>0, <1>1, <1>2, Zenon DEF Owners, Held, Prepared, Usable, Loop, Table
<1> QED BY <1>2, <1>4, <1>5, <1>6, Zenon DEF Handles

(* A step that sets up the socket of the wrapper.                          *)
LEMMA ChangingStep ==
    ASSUME Handles, pc \in Loop, NEW e \in ClientEntry,
           fds' = [fds EXCEPT ![raii] = e],
           \/ raii' = raii /\ socket' = socket /\ pc' \in Loop
              /\ (pc' # "configure" => e.timeouts)
              /\ (pc' = "unblock" => e.connected)
           \/ raii' = 0 /\ socket' = raii /\ pc' \in {"tls", "install"}
              /\ e.connected /\ e.blocking /\ e.timeouts,
           UNCHANGED <<app, streamVars>>
    PROVE  Handles'
<1>0. Table /\ Owners /\ Places /\ Prepared
  BY Zenon DEF Handles
<1>1. /\ app' = app /\ socket_' = socket_ /\ input_' = input_
      /\ output_' = output_
  BY Zenon DEF streamVars
<1>2. raii \in DOMAIN fds /\ raii # app /\ raii # socket_ /\ socket = 0
      /\ raii # 0
  BY <1>0, Zenon DEF Owners, Held, Places, Loop
<1>3. /\ Table' /\ DOMAIN fds' = DOMAIN fds /\ fds'[raii] = e
      /\ \A x \in DOMAIN fds \ {raii} : fds'[x] = fds[x]
  BY <1>0, <1>1, <1>2, Changing, Zenon
<1>4. Owners'
  BY <1>0, <1>1, <1>2, <1>3, Zenon DEF Owners, Held
<1>5. Places'
  BY <1>0, <1>1, <1>2, Zenon DEF Places, Loop, Greeting
<1>6. Prepared'
  <2>1. socket_' # 0 => Usable(socket_)'
    BY <1>0, <1>1, <1>2, <1>3, Zenon DEF Owners, Held, Prepared, Usable
  <2>2. socket' # 0 => Usable(socket)'
    BY <1>0, <1>1, <1>2, <1>3, Zenon DEF Usable
  <2> QED BY <1>0, <1>1, <1>2, <1>3, <2>1, <2>2, Zenon DEF Prepared, Loop
<1> QED BY <1>3, <1>4, <1>5, <1>6, Zenon DEF Handles

\* What the wrapper holds is a socket of the client.
LEMMA WrapperEntry ==
    ASSUME Table, Owners, Places, pc \in Loop
    PROVE  raii \in DOMAIN fds /\ fds[raii] \in ClientEntry
BY Zenon DEF Table, Owners, Held, Places

\* The loop has only addresses of servers.
LEMMA AddrsHead ==
    ASSUME addrs \in Seq(Servers), addrs # <<>>
    PROVE  /\ Head(addrs) \in Servers /\ Tail(addrs) \in Seq(Servers)
           /\ Len(Tail(addrs)) = Len(addrs) - 1 /\ Len(addrs) \in Nat
OBVIOUS

(* Every step keeps every handle with its one owner.                       *)
LEMMA HandlesStep == Handles /\ Errors /\ [Next]_vars => Handles'
<1> SUFFICES ASSUME Handles, Errors, [Next]_vars PROVE Handles'
  BY Zenon
<1>1. ASSUME UNCHANGED <<fds, app, raii, socket, streamVars>>, Places',
             pc' \in Loop \ {"configure"} => pc \in Loop \ {"configure"},
             pc' = "unblock" => pc = "unblock"
      PROVE  Handles'
  BY <1>1, Zenon DEF Handles, Table, Owners, Held, Prepared, Usable, streamVars
<1>2. CASE ResetConnection
  BY <1>1, <1>2, Zenon DEF Handles, Places, Loop, Greeting, ResetConnection, Begin,
                    streamVars
<1>3. CASE Destroy
  <2>0. Table /\ Owners /\ Places /\ Prepared
    BY Zenon DEF Handles
  <2>1. /\ fds' = CloseSocket(fds, socket_) /\ pc = "ready" /\ pc' = "gone"
        /\ UNCHANGED <<app, raii, socket>>
        /\ socket_' = 0 /\ input_' = 0 /\ output_' = 0
    BY <1>3, Zenon DEF Destroy, connectVars, INVALID_SOCKET
  <2>2. /\ Table' /\ DOMAIN fds' = DOMAIN fds \ {socket_}
        /\ \A x \in DOMAIN fds \ {socket_} : fds'[x] = fds[x]
    BY <2>0, <2>1, Closing, Zenon
  <2>3. raii = 0 /\ socket = 0
    BY <2>0, <2>1, Zenon DEF Places, Loop
  <2>4. Owners'
    BY <2>0, <2>1, <2>2, <2>3, Zenon DEF Owners, Held
  <2>5. Places'
    BY <2>1, <2>3, Zenon DEF Places, Loop, Greeting
  <2>6. Prepared'
    BY <2>1, <2>3, Zenon DEF Prepared, Loop
  <2> QED BY <2>2, <2>4, <2>5, <2>6, Zenon DEF Handles
<1>4. CASE AppOpens /\ AppSteps
  <2>0. Table /\ Owners /\ Places /\ Prepared
    BY Zenon DEF Handles
  <2>1. /\ app' \in NewHandles /\ fds' = OpenSocket(fds, app', [owner |-> "app"])
        /\ app = 0
        /\ UNCHANGED <<pc, raii, socket, socket_, input_, output_>>
    BY <1>4, Zenon DEF AppOpens, AppSteps, connectVars, streamVars, INVALID_SOCKET
  <2>2. /\ Table' /\ DOMAIN fds' = DOMAIN fds \cup {app'}
        /\ \A x \in DOMAIN fds : fds'[x] = fds[x]
    BY <2>0, <2>1, Opening, Zenon
  <2>4. Owners'
    BY <2>0, <2>1, <2>2, NewHandleIsNew, Zenon DEF Owners, Held, Table
  <2>5. Places'
    BY <2>0, <2>1, Zenon DEF Places
  <2>6. Prepared'
    BY <2>0, <2>1, <2>2, Zenon DEF Owners, Held, Places, Prepared, Usable, Loop
  <2> QED BY <2>2, <2>4, <2>5, <2>6, Zenon DEF Handles
<1>5. CASE AppCloses /\ AppSteps
  <2>0. Table /\ Owners /\ Places /\ Prepared
    BY Zenon DEF Handles
  <2>1. /\ fds' = CloseSocket(fds, app) /\ app # 0 /\ app' = 0
        /\ UNCHANGED <<pc, raii, socket, socket_, input_, output_>>
    BY <1>5, Zenon DEF AppCloses, AppSteps, connectVars, streamVars, INVALID_SOCKET
  <2>2. /\ Table' /\ DOMAIN fds' = DOMAIN fds \ {app}
        /\ \A x \in DOMAIN fds \ {app} : fds'[x] = fds[x]
    BY <2>0, <2>1, Closing, Zenon
  <2>4. Owners'
    BY <2>0, <2>1, <2>2, Zenon DEF Owners, Held, Table
  <2>5. Places'
    BY <2>0, <2>1, Zenon DEF Places
  <2>6. Prepared'
    BY <2>0, <2>1, <2>2, Zenon DEF Owners, Held, Places, Prepared, Usable, Loop
  <2> QED BY <2>2, <2>4, <2>5, <2>6, Zenon DEF Handles
<1>6. ASSUME ConnectSteps, UNCHANGED streamVars PROVE Handles'
  <2> USE DEF INVALID_SOCKET
  <2>1. Places /\ Owners /\ Table /\ Prepared
    BY Zenon DEF Handles
  <2>2. CASE ResolveThrows
    BY <1>1, <1>6, <2>1, <2>2, Zenon
       DEF ResolveThrows, Throws, osVars, Places, Loop, Greeting, streamVars
  <2>3. CASE Resolves
    BY <1>1, <1>6, <2>1, <2>3, Zenon
       DEF Resolves, osVars, Places, Loop, Greeting, streamVars
  <2>4. CASE SocketFails
    BY <1>1, <1>6, <2>1, <2>4, Zenon
       DEF SocketFails, Places, Loop, Greeting, streamVars
  <2>5. CASE SocketOpens
    <3>1. raii' \in NewHandles /\ \E e \in ClientEntry : fds' = OpenSocket(fds, raii', e)
      BY <2>5, AddrsHead, Zenon DEF SocketOpens, ClientEntry, Errors
    <3>2. /\ pc = "address" /\ pc' = "configure" /\ app' = app
          /\ socket' = socket /\ socket_' = socket_
          /\ input_' = input_ /\ output_' = output_
      BY <1>6, <2>5, Zenon DEF SocketOpens, streamVars
    <3>3. /\ Table' /\ DOMAIN fds' = DOMAIN fds \cup {raii'}
          /\ \A x \in DOMAIN fds : fds'[x] = fds[x]
      <4>1. app \in DOMAIN fds \cup {0}
        BY <2>1, Zenon DEF Owners
      <4> QED BY <2>1, <3>1, <3>2, <4>1, Opening, Zenon
    <3>4. raii' # 0 /\ raii' \notin DOMAIN fds
      BY <3>1, NewHandleIsNew, Zenon
    <3>5. raii = 0 /\ socket = 0
      BY <2>1, <3>2, Zenon DEF Places, Loop
    <3>6. Owners'
      BY <2>1, <3>2, <3>3, <3>4, <3>5, Zenon DEF Owners, Held, Table
    <3>7. Places'
      BY <2>1, <3>2, <3>4, Zenon DEF Places, Loop, Greeting
    <3>8. Prepared'
      BY <2>1, <3>2, <3>3, <3>5, Zenon DEF Prepared, Usable, Owners, Held, Loop
    <3> QED BY <3>3, <3>6, <3>7, <3>8, Zenon DEF Handles
  <2>6. ASSUME NEW e, LoopThrows(e), pc \in Loop PROVE Handles'
    BY <1>6, <2>1, <2>6, ClosingStep, Zenon
       DEF LoopThrows, Leaves, Throws, Places, Owners, Loop
  <2>7. CASE Configures
    <3> DEFINE e == [fds[raii] EXCEPT !.blocking = FALSE, !.timeouts = TRUE]
    <3>1. e \in ClientEntry /\ e.timeouts
      BY <2>1, <2>7, WrapperEntry, Zenon DEF Configures, ClientEntry, Loop
    <3>2. fds' = [fds EXCEPT ![raii] = e]
      BY <2>1, <2>7, WrapperEntry, Zenon DEF Configures, Table, Loop
    <3>3. /\ pc \in Loop /\ pc' = "connect" /\ raii' = raii
          /\ socket' = socket /\ UNCHANGED <<app, streamVars>>
      BY <1>6, <2>7, Zenon DEF Configures, connectVars, Loop
    <3> HIDE DEF e
    <3> QED BY <3>1, <3>2, <3>3, ChangingStep, Zenon DEF Loop
  <2>8. ASSUME NEW e, NEW code, NextAddress(e, code), pc \in Loop PROVE Handles'
    BY <1>6, <2>1, <2>8, ClosingStep, Zenon DEF NextAddress, Places, Owners, Loop
  <2>9. CASE ConnectInProgress
    BY <1>1, <1>6, <2>1, <2>9, Zenon
       DEF ConnectInProgress, connectVars, Places, Loop, Greeting, streamVars
  <2>10. CASE Connects \/ PollFindsConnected
    <3> DEFINE e == [fds[raii] EXCEPT !.connected = TRUE]
    <3>1. /\ pc \in Loop \ {"configure"} /\ pc' = "unblock" /\ raii' = raii
          /\ socket' = socket /\ UNCHANGED <<app, streamVars>>
          /\ fds' = [fds EXCEPT ![raii].connected = TRUE]
      BY <1>6, <2>10, Zenon DEF Connects, PollFindsConnected, connectVars, Loop
    <3>2. fds[raii] \in ClientEntry /\ fds[raii].timeouts
      BY <2>1, <3>1, WrapperEntry, Zenon DEF Prepared
    <3>3. e \in ClientEntry /\ e.timeouts /\ e.connected
      BY <3>2, Zenon DEF ClientEntry
    <3>4. fds' = [fds EXCEPT ![raii] = e]
      BY <2>1, <3>1, Zenon DEF Table
    <3> HIDE DEF e
    <3> QED BY <3>1, <3>3, <3>4, ChangingStep, Zenon DEF Loop
  <2>11. CASE Unblocks
    <3> DEFINE e == [fds[raii] EXCEPT !.blocking = TRUE]
    <3>1. /\ pc = "unblock" /\ pc' \in {"tls", "install"} /\ raii' = 0
          /\ socket' = raii /\ UNCHANGED <<app, streamVars>>
          /\ fds' = CloseSocket([fds EXCEPT ![raii].blocking = TRUE], 0)
      BY <1>6, <2>11, Zenon DEF Unblocks, Leaves, Release
    <3>2. /\ fds[raii] \in ClientEntry /\ fds[raii].timeouts
          /\ fds[raii].connected
      BY <2>1, <3>1, WrapperEntry, Zenon DEF Prepared, Loop
    <3>3. /\ e \in ClientEntry /\ e.timeouts = TRUE /\ e.connected = TRUE
          /\ e.blocking = TRUE
      BY <3>2, Zenon DEF ClientEntry
    <3>4. fds' = [fds EXCEPT ![raii] = e]
      BY <2>1, <3>1, Zenon DEF Table, CloseSocket, Restrict
    <3> HIDE DEF e
    <3>5. pc \in Loop
      BY <3>1, Zenon DEF Loop
    <3> QED BY <3>1, <3>3, <3>4, <3>5, ChangingStep, Zenon
  <2>12. CASE SocketConnectThrows
    BY <1>1, <1>6, <2>1, <2>12, Zenon
       DEF SocketConnectThrows, Throws, Leaves, osVars, Places, Loop, Greeting,
           streamVars
  <2>13. CASE TlsThrows
    BY <1>6, <2>1, <2>13, ClosingStep, Zenon
       DEF TlsThrows, Throws, Places, Owners, Loop
  <2>14. CASE TlsConnects
    BY <1>1, <1>6, <2>1, <2>14, Zenon
       DEF TlsConnects, osVars, connectVars, Places, Loop, Greeting, streamVars
  <2> QED
    BY <1>6, <2>2, <2>3, <2>4, <2>5, <2>6, <2>7, <2>8, <2>9, <2>10, <2>11,
       <2>12, <2>13, <2>14, Zenon
       DEF ConnectSteps, ConfigureThrows, PollThrows, UnblockThrows,
           ConnectFails, PollTimesOut, PollFindsError, Loop
<1>7. CASE InitializeStreams
  <2>1. /\ pc = "install" /\ pc' = "dispose"
        /\ fds' = fds /\ app' = app /\ raii' = raii
        /\ input_' = socket /\ output_' = socket
        /\ socket_' = socket /\ socket' = socket_
    BY <1>7, Zenon DEF InitializeStreams, osVars
  <2>2. Table' /\ Owners'
    BY <2>1, Zenon DEF Handles, Table, Owners, Held
  <2>3. Places'
    BY <2>1, Zenon DEF Handles, Places, Loop, Greeting
  <2>4. Prepared'
    BY <2>1, Zenon DEF Handles, Prepared, Usable, Loop
  <2> QED BY <2>2, <2>3, <2>4, Zenon DEF Handles
<1>8. CASE DisposeSocket
  BY <1>8, ClosingStep, Zenon
     DEF Handles, DisposeSocket, Places, Owners, Loop, INVALID_SOCKET
<1>9. CASE SendHello
  BY <1>1, <1>9, Zenon DEF Handles, SendHello, osVars, connectVars, Places, Loop,
                    Greeting, streamVars
<1>10. CASE SendHelloThrows
  BY <1>1, <1>10, Zenon DEF Handles, SendHelloThrows, Throws, osVars, Places, Loop,
                     Greeting, streamVars
<1>11. CASE ReceiveHello
  BY <1>1, <1>11, Zenon DEF Handles, ReceiveHello, osVars, connectVars, Places, Loop,
                     Greeting, streamVars
<1>12. CASE ReceiveHelloRejects
  BY <1>1, <1>12, Zenon DEF Handles, ReceiveHelloRejects, Throws, osVars, Places,
                     Loop, Greeting, streamVars
<1>13. CASE ReadThrows
  BY <1>1, <1>13, Zenon DEF Handles, ReadThrows, Throws, osVars, Places, Loop,
                     Greeting, streamVars
<1>14. CASE ReceiveField
  BY <1>1, <1>14 DEF Handles, ReceiveField, osVars, connectVars, Places, Loop,
                     Greeting, streamVars
<1>15. CASE HandshakeEnds
  BY <1>1, <1>15 DEF Handles, HandshakeEnds, osVars, connectVars, Places, Loop,
                     Greeting, streamVars
<1>16. ASSUME NEW query, SendQuery(query) PROVE Handles'
  BY <1>1, <1>16, Zenon DEF Handles, SendQuery, osVars, connectVars, Places, Loop,
                     Greeting, streamVars
<1>17. CASE UNCHANGED vars
  BY <1>1, <1>17, Zenon DEF Handles, vars, osVars, connectVars, Places, streamVars
<1> QED
  BY <1>2, <1>3, <1>4, <1>5, <1>6, <1>7, <1>8, <1>9, <1>10, <1>11, <1>12,
     <1>13, <1>14, <1>15, <1>16, <1>17, Zenon DEF Next, ClientSteps, AppSteps

(* Only InitializeStreams and the destructor change whom socket_ talks to. *)
LEMMA PeerKept ==
    ASSUME Handles, Errors, [Next]_vars, ~InitializeStreams, ~Destroy
    PROVE  Peer' = Peer /\ socket_' = socket_
<1>1. Handles'
  BY HandlesStep, Zenon
<1>2. SUFFICES /\ socket_' = socket_
               /\ socket_ # 0 => fds'[socket_] = fds[socket_]
  BY <1>1, Zenon DEF Handles, Table, Owners, Held, Peer
<1>3. Table /\ (socket_ # 0 => socket_ \in DOMAIN fds)
  BY Zenon DEF Handles, Owners, Held
<1>4. ASSUME NEW h, h # socket_, fds' = CloseSocket(fds, h), socket_ # 0
      PROVE  fds'[socket_] = fds[socket_]
  BY <1>3, <1>4, Zenon DEF CloseSocket, Restrict
<1>5. ASSUME NEW h \in NewHandles, NEW e, fds' = OpenSocket(fds, h, e), socket_ # 0
      PROVE  fds'[socket_] = fds[socket_]
  BY <1>3, <1>5, NewHandleIsNew, Zenon DEF OpenSocket
<1>6. ASSUME AppSteps \/ (ConnectSteps /\ UNCHANGED streamVars)
      PROVE  socket_' = socket_
  BY <1>6, Zenon DEF AppSteps, streamVars
<1>7. CASE AppOpens /\ AppSteps
  BY <1>5, <1>6, <1>7, Zenon DEF AppOpens
<1>8. CASE AppCloses /\ AppSteps
  <2>1. socket_ # 0 => app # socket_
    BY Zenon DEF Handles, Owners, Held
  <2> QED BY <1>4, <1>6, <1>8, <2>1, Zenon DEF AppCloses
<1>9. ASSUME ConnectSteps, UNCHANGED streamVars
      PROVE  socket_ # 0 => fds'[socket_] = fds[socket_]
  <2>1. CASE fds' = fds
    BY <2>1, Zenon
  <2>2. CASE SocketOpens
    BY <1>5, <2>2, Zenon DEF SocketOpens
  <2>3. ASSUME pc \in Loop, NEW e, NEW code, LoopThrows(e) \/ NextAddress(e, code)
        PROVE  socket_ # 0 => fds'[socket_] = fds[socket_]
    <3>1. raii # socket_ /\ fds' = CloseSocket(fds, raii)
      BY <2>3, Zenon DEF Handles, Owners, Places, LoopThrows, NextAddress
    <3> QED BY <1>4, <3>1, Zenon
  <2>4. ASSUME pc \in Loop
        PROVE  socket_ # 0 => raii # socket_
    BY <2>4, Zenon DEF Handles, Owners, Places
  <2>5. CASE Configures
    BY <1>3, <2>4, <2>5, Zenon DEF Configures, Loop
  <2>6. CASE Connects \/ PollFindsConnected
    BY <1>3, <2>4, <2>6, Zenon DEF Connects, PollFindsConnected, Loop
  <2>7. CASE Unblocks
    <3>1. /\ fds' = CloseSocket([fds EXCEPT ![raii].blocking = TRUE], 0)
          /\ pc \in Loop
      BY <2>7, Zenon DEF Unblocks, Release, INVALID_SOCKET, Loop
    <3> QED BY <1>3, <2>4, <3>1, Zenon DEF CloseSocket, Restrict
  <2>8. CASE TlsThrows
    <3>1. socket # socket_ /\ fds' = CloseSocket(fds, socket)
      BY <2>8, Zenon DEF Handles, Owners, Places, TlsThrows
    <3> QED BY <1>4, <3>1, Zenon
  <2> QED
    BY <1>9, <2>1, <2>2, <2>3, <2>5, <2>6, <2>7, <2>8, Zenon
       DEF ConnectSteps, ConfigureThrows, PollThrows, UnblockThrows,
           ConnectFails, PollTimesOut, PollFindsError, Loop, ResolveThrows,
           Resolves, SocketFails, ConnectInProgress, SocketConnectThrows,
           TlsConnects, osVars
<1>10. CASE DisposeSocket
  <2>1. socket # socket_ \/ socket_ = 0
    BY Zenon DEF Handles, Owners
  <2> QED BY <1>4, <1>10, <2>1, Zenon DEF DisposeSocket, streamVars
<1>11. CASE UNCHANGED <<fds, socket_>>
  BY <1>11, Zenon
<1>12. CASE ResetConnection \/ UNCHANGED vars
  BY <1>11, <1>12, Zenon DEF ResetConnection, vars, osVars, streamVars
<1>13. CASE SendHello \/ SendHelloThrows \/ ReceiveHello \/ ReceiveHelloRejects
  BY <1>11, <1>13 DEF SendHello, SendHelloThrows, ReceiveHello,
                      ReceiveHelloRejects, osVars, streamVars
<1>14. CASE ReadThrows \/ ReceiveField \/ HandshakeEnds
  BY <1>11, <1>14 DEF ReadThrows, ReceiveField, HandshakeEnds, osVars,
                      streamVars
<1>15. ASSUME NEW query, SendQuery(query) PROVE UNCHANGED <<fds, socket_>>
  BY <1>15, Zenon DEF SendQuery, osVars, streamVars
<1> QED
  BY <1>6, <1>7, <1>8, <1>9, <1>10, <1>11, <1>12, <1>13, <1>14, <1>15, Zenon
     DEF Next, ClientSteps, AppSteps

-----------------------------------------------------------------------------
(* The errors of a call.                                                   *)

(* last_err, or else errno, is an error of this call when the loop ends.   *)
LEMMA ErrorsStep == Handles /\ Errors /\ [Next]_vars => Errors'
<1> SUFFICES ASSUME Handles, Errors, [Next]_vars PROVE Errors'
  BY Zenon
<1> USE DEF Loop
<1>1. ASSUME UNCHANGED <<addrs, last_err, pc, errno, result, met>> PROVE Errors'
  BY <1>1, Zenon DEF Errors, ErrorOfThisCall
<1>2. CASE ResetConnection
  BY <1>2, Zenon DEF Errors, ErrorOfThisCall, ResetConnection, Begin
<1>3. CASE Destroy
  BY <1>3, Zenon DEF Errors, ErrorOfThisCall, Destroy, connectVars
<1>4. CASE AppSteps
  BY <1>1, <1>4, Zenon DEF AppSteps, AppOpens, AppCloses, connectVars
<1>5. CASE ConnectSteps
  <2>1. CASE ResolveThrows
    BY <2>1, Zenon DEF Errors, ErrorOfThisCall, ResolveThrows, Throws, osVars
  <2>2. CASE Resolves
    <3>1. PICK n \in 1 .. MaxAddresses : addrs' \in [1 .. n -> Servers]
      BY <2>2, Zenon DEF Resolves
    <3>2. addrs' \in Seq(Servers) /\ Len(addrs') = n /\ addrs' # <<>>
          /\ n <= MaxAddresses
      BY <3>1, MaxAddressesAssumption
    <3> QED BY <2>2, <3>2, Zenon DEF Errors, ErrorOfThisCall, Resolves, osVars
  <2>3. CASE SocketFails
    <3>1. addrs' \in Seq(Servers) /\ Len(addrs') <= MaxAddresses
      BY <2>3, AddrsHead, MaxAddressesAssumption DEF Errors, SocketFails
    <3> QED BY <2>3, <3>1, Zenon DEF Errors, ErrorOfThisCall, SocketFails
  <2>4. CASE SocketOpens
    <3>1. addrs' \in Seq(Servers) /\ Len(addrs') <= MaxAddresses
      BY <2>4, AddrsHead, MaxAddressesAssumption DEF Errors, SocketOpens
    <3> QED BY <2>4, <3>1, Zenon DEF Errors, ErrorOfThisCall, SocketOpens
  <2>5. ASSUME NEW e, LoopThrows(e) PROVE Errors'
    <3>1. addrs' \in Seq(Servers) /\ Len(addrs') = 0
      <4>1. addrs' = <<>>
        BY <2>5, Zenon DEF LoopThrows, Leaves
      <4> QED BY <4>1
    <3> QED BY <2>5, <3>1, MaxAddressesAssumption
            DEF Errors, ErrorOfThisCall, LoopThrows, Leaves, Throws
  <2>6. CASE Configures
    BY <2>6, Zenon DEF Errors, ErrorOfThisCall, Configures, connectVars
  <2>7. CASE ConnectFails
    BY <2>7, Zenon DEF Errors, ErrorOfThisCall, ConnectFails, NextAddress
  <2>8. CASE ConnectInProgress \/ Connects \/ PollFindsConnected
    BY <2>8, Zenon DEF Errors, ErrorOfThisCall, ConnectInProgress, Connects,
                PollFindsConnected, connectVars
  <2>9. CASE PollTimesOut \/ PollFindsError
    BY <2>9, Zenon DEF Errors, ErrorOfThisCall, PollTimesOut, PollFindsError,
                NextAddress, NoError
  <2>10. CASE Unblocks \/ SocketConnectThrows
    <3>0. addrs' = <<>> /\ last_err' = NoError /\ met' = met
      BY <2>10, Zenon DEF Unblocks, SocketConnectThrows, Leaves
    <3>1. addrs' \in Seq(Servers) /\ Len(addrs') = 0
      BY <3>0
    <3>2. pc' \notin Loop \cup {"address"}
      BY <2>10, Zenon DEF Unblocks, SocketConnectThrows, Throws
    <3>3. ErrorOfThisCall'
      BY <2>10 DEF Errors, ErrorOfThisCall, Unblocks, SocketConnectThrows,
                   Throws
    <3> QED BY <3>0, <3>1, <3>2, <3>3, MaxAddressesAssumption DEF Errors
  <2>11. CASE TlsThrows \/ TlsConnects
    BY <2>11 DEF Errors, ErrorOfThisCall, TlsThrows, TlsConnects, Throws,
                 connectVars
  <2> QED
    BY <1>5, <2>1, <2>2, <2>3, <2>4, <2>5, <2>6, <2>7, <2>8, <2>9, <2>10,
       <2>11, Zenon DEF ConnectSteps, ConfigureThrows, PollThrows, UnblockThrows
<1>6. CASE InitializeStreams \/ DisposeSocket
  BY <1>6, Zenon DEF Errors, ErrorOfThisCall, InitializeStreams, DisposeSocket, osVars
<1>7. CASE SendHello \/ ReceiveHello
  BY <1>7, Zenon DEF Errors, ErrorOfThisCall, SendHello, ReceiveHello, osVars,
              connectVars
<1>8. CASE SendHelloThrows \/ ReceiveHelloRejects \/ ReadThrows
  BY <1>8 DEF Errors, ErrorOfThisCall, SendHelloThrows, ReceiveHelloRejects,
              ReadThrows, Throws, osVars
<1>9. CASE ReceiveField
  BY <1>1, <1>9, Zenon DEF ReceiveField, osVars, connectVars
<1>10. CASE HandshakeEnds
  BY <1>10 DEF Errors, ErrorOfThisCall, HandshakeEnds, osVars, connectVars, Ok
<1>11. ASSUME NEW query, SendQuery(query) PROVE Errors'
  BY <1>1, <1>11, Zenon DEF SendQuery, osVars, connectVars
<1>12. CASE UNCHANGED vars
  BY <1>1, <1>12, Zenon DEF vars, osVars, connectVars
<1> QED
  BY <1>2, <1>3, <1>4, <1>5, <1>6, <1>7, <1>8, <1>9, <1>10, <1>11, <1>12, Zenon
     DEF Next, ClientSteps

-----------------------------------------------------------------------------
(* The theorems.                                                           *)

\* The constructor begins with no descriptor and no streams.
LEMMA InvInit == Init => IInv
<1> SUFFICES ASSUME Init PROVE IInv
  BY Zenon
<1>1. SocketsInit
  BY Zenon DEF Init
<1>2. Handles
  <2>1. DOMAIN fds = {}
    BY <1>1 DEF SocketsInit
  <2>2. Table
    BY <1>1, <2>1 DEF Table, SocketsInit
  <2>3. Owners
    BY <1>1, <2>1, Zenon DEF Init, Owners, Held, SocketsInit, INVALID_SOCKET
  <2>4. Places
    BY <1>1, Zenon DEF Init, Places, Loop, Greeting, SocketsInit, INVALID_SOCKET
  <2>5. Prepared
    BY <1>1, Zenon DEF Init, Prepared, Loop, SocketsInit, INVALID_SOCKET
  <2> QED BY <2>2, <2>3, <2>4, <2>5, Zenon DEF Handles
<1>3. Errors
  <2>1. addrs \in Seq(Servers) /\ Len(addrs) = 0
    BY <1>1 DEF SocketsInit
  <2> QED BY <1>1, <2>1, MaxAddressesAssumption
          DEF Init, SocketsInit, Errors, ErrorOfThisCall, Loop
<1>4. InfoType
  <2>1. Unset \in [field : Tags, of : Servers \cup {NoServer}]
    BY Zenon DEF Unset, Tags
  <2>2. server_info["revision"] = Unset
    <3>1. "revision" \in Range(Fields)
      BY FieldNames
    <3> QED BY <3>1, Zenon DEF Init
  <2> QED BY <2>1, <2>2, BoundsAssumption DEF Init, InfoType, Unset
<1>5. Greets
  BY Zenon DEF Init, Greets
<1>6. Written
  BY DEF Init, Written
<1>7. Untouched
  BY Zenon DEF Init, Untouched
<1> QED BY <1>2, <1>3, <1>4, <1>5, <1>6, <1>7, Zenon DEF IInv

\* Every step keeps the invariant.
LEMMA InvStep == IInv /\ [Next]_vars => IInv' /\ Steady
<1> SUFFICES ASSUME IInv, [Next]_vars PROVE IInv' /\ Steady
  BY Zenon
<1>1. Handles' /\ Errors'
  BY HandlesStep, ErrorsStep, Zenon DEF IInv
<1>2. Steady
  BY PeerKept, Zenon DEF IInv, Steady
<1>3. Greets' /\ InfoType'
  BY <1>2, GreetsStep, Zenon
<1>4. Written' /\ Untouched'
  BY <1>2, <1>3, WrittenStep, UntouchedStep, Zenon
<1> QED BY <1>1, <1>2, <1>3, <1>4, Zenon DEF IInv

(* The invariant holds in every state of every behaviour.                  *)
THEOREM Invariance == Spec => []IInv
BY InvInit, InvStep, PTL DEF Spec

(* No error path of SocketConnect, SSLSocket or ResetConnection leaks a    *)
(* descriptor, closes one twice or closes one of the application, however  *)
(* many addresses and resets there are.                                    *)
THEOREM EveryHandleOwnedOnce == Spec => []HandlesOwnedOnce
<1>1. IInv => HandlesOwnedOnce
  <2> SUFFICES ASSUME IInv PROVE HandlesOwnedOnce
    BY Zenon
  <2>1. Table /\ Owners /\ Places /\ Errors /\ InfoType
    BY Zenon DEF IInv, Handles
  <2>2. TypeOK
    <3>1. \A f \in DOMAIN server_info :
              server_info[f].of \in Servers \cup {NoServer}
      BY <2>1, Zenon DEF InfoType
    <3> QED BY <2>1, <3>1, Zenon
            DEF TypeOK, Places, Errors, InfoType, Loop, INVALID_SOCKET
  <2> DEFINE holders == <<raii, socket, socket_>>
             Open(who) == {h \in DOMAIN fds : fds[h].owner = who}
  <2>3. Range(holders) = {raii, socket, socket_}
    BY DEF Range
  <2>4. \A h \in DOMAIN fds : fds[h].owner = (IF h = app THEN "app" ELSE "client")
    BY <2>1 DEF Table, ClientEntry
  <2>5. Open("client") = {raii, socket, socket_} \ {0}
    BY <2>1, <2>4, Zenon DEF Table, Owners, Held
  <2>6. Open("app") = {app} \ {0}
    BY <2>1, <2>4, Zenon DEF Table, Owners
  <2>7. \A i, j \in DOMAIN holders :
            holders[i] = holders[j] => i = j \/ holders[i] = 0
    BY <2>1 DEF Owners
  <2> QED BY <2>2, <2>3, <2>5, <2>6, <2>7, Zenon DEF HandlesOwnedOnce, INVALID_SOCKET
<1> QED BY <1>1, Invariance, PTL

(* The streams always use the descriptor of socket_, and that one is open, *)
(* connected, blocking and has its timeouts.                               *)
THEOREM StreamsUseTheSocket == Spec => []StreamsFollowSocket
<1>1. IInv => StreamsFollowSocket
  BY Zenon DEF IInv, Handles, Table, Owners, Held, Prepared, Usable, ClientEntry,
         StreamsFollowSocket, INVALID_SOCKET
<1> QED BY <1>1, Invariance, PTL

(* ResetConnection throws an error it met itself.                          *)
THEOREM ThrowsItsOwnError == Spec => []ErrorOfThisCall
<1>1. IInv => ErrorOfThisCall
  BY Zenon DEF IInv, Errors
<1> QED BY <1>1, Invariance, PTL

(* A handshake reads the whole Hello packet, each field into its place,    *)
(* whatever revision the server has and whatever the server before it had. *)
THEOREM ReadsTheWholeHello == Spec => []HelloUnderstood
<1>1. IInv => HelloUnderstood
  <2> SUFFICES ASSUME IInv, hello, NEW x \in Range(Hello(Peer))
               PROVE  incoming = <<>> /\ server_info[x.field] = x
    <3>1. IInv /\ hello => incoming = <<>>
      BY Zenon DEF IInv, Greets
    <3> QED BY <3>1, Zenon DEF HelloUnderstood
  <2>1. incoming = <<>> /\ Understood(Peer, 5) /\ Peer \in Servers
    BY PeerIsServer, Zenon DEF IInv, Greets
  <2>2. Knows(Peer) \in 2 .. 5
    BY <2>1, KnowsRange, Zenon
  <2>3. PICK i \in 1 .. Knows(Peer) : x = Field(Peer, i)
    BY Zenon DEF Hello, Range
  <2>4. i \in 1 .. 5 /\ i <= Knows(Peer)
    BY <2>2
  <2>5. server_info[Fields[i]] = Field(Peer, i)
    BY <2>1, <2>4, Zenon DEF Understood
  <2>6. x.field = Fields[i]
    BY <2>3, Zenon DEF Field
  <2> QED BY <2>1, <2>3, <2>5, <2>6, Zenon
<1> QED BY <1>1, Invariance, PTL

(* On a connection that said hello every packet that reaches the server    *)
(* has the layout of the server's own revision.                            *)
THEOREM WritesTheServersLayout == Spec => []ServerReadsItsLayout
<1>1. IInv => ServerReadsItsLayout
  BY Zenon DEF IInv, Written, InLayout, ServerReadsItsLayout
<1> QED BY <1>1, Invariance, PTL

(* ResetConnection is the atomic attempt that the retry loops of module    *)
(* Connection take it to be: it fails and leaves the old connection, or    *)
(* fails and leaves one without a handshake, or succeeds.                  *)
THEOREM ResetIsAnAttempt == Spec => ImplementsAttempt
<1>1. IInv /\ [Next]_vars => [Attempt!Next]_(Attempt!attemptVars)
  BY InvStep, AttemptStep, Zenon
<1> QED BY <1>1, AttemptInit, Invariance, PTL
        DEF Spec, ImplementsAttempt, Attempt!Spec

=============================================================================
