---------------------------- MODULE SessionServer ---------------------------
(***************************************************************************)
(* The inductive invariant of Session, what it says of the stream of       *)
(* packets to the server, and the server's steps, which keep it.           *)
(***************************************************************************)
EXTENDS Session, TLAPS

-----------------------------------------------------------------------------
(* The packets on their way to the server, as a sequence c.                *)

ToServerPacket == [m : ToServer, q : Tag]
ToClientPacket == [m : ToClient, q : Tag]

Starts == {"Query", "Insert"}

Has(c, kinds) == \E i \in 1 .. Len(c) : c[i].m \in kinds

\* What packet i says of packet j, behind it: after an end marker no block and
\* no other marker before the next request; after a request no other one and
\* no ping; after an insert only its marker; no Cancel inside a query.
Behind(c, i, j) ==
    /\ c[i].m = "End" /\ c[j].m \in {"Data", "End"}
           => \E k \in i .. j : c[k].m \in Starts
    /\ c[i].m \in Starts => c[j].m \notin Starts \cup {"Ping"}
    /\ c[i].m = "Insert" => c[j].m = "End" /\ j = i + 1
    /\ c[i].m = "Query" /\ c[j].m = "Cancel" => \E k \in i .. j : c[k].m = "End"

\* Whole requests, one at a time.
Ordered(c) ==
    /\ ~Has(c, {"Torn"})
    /\ \A i, j \in 1 .. Len(c) : i < j => Behind(c, i, j)

\* What the server, in state st, may have before it.
Fits(st, c) ==
    /\ st # "confused"
    /\ st \in {"idle", "greeting"} =>
          \A j \in 1 .. Len(c) : c[j].m \in {"Data", "End"} =>
              \E k \in 1 .. j : c[k].m \in Starts
    /\ st = "tables" => /\ ~Has(c, Starts \cup {"Ping"})
                        /\ \A j \in 1 .. Len(c) : c[j].m = "Cancel" =>
                              \E k \in 1 .. j : c[k].m = "End"
    /\ st = "header" => \A j \in 1 .. Len(c) : c[j].m = "End" /\ j = 1
    /\ st \in {"run", "cancelled"} => ~Has(c, ToServer \ {"Cancel"})
    /\ st \in {"sample", "finish"} => Len(c) = 0
    /\ st = "insert" => /\ ~Has(c, Starts \cup {"Ping"})
                        /\ \A j \in 1 .. Len(c) : c[j].m = "End" => j = Len(c)
    /\ st = "skip" => \A j \in 1 .. Len(c) : c[j].m \in Starts \cup {"Ping"} =>
                          \E k \in 1 .. j : c[k].m = "End"

\* A Cancel behind a request belongs to this request or to an abandoned one.
Cancels(c) ==
    \A i, j \in 1 .. Len(c) :
        i < j /\ c[i].m \in Starts /\ c[j].m = "Cancel"
            => c[j].q \in abandoned \cup {c[i].q}

-----------------------------------------------------------------------------
(* The invariant.                                                          *)

Pinging == {"ping", "pong", "pingError"}
Preparing == Pinging \cup {"start"}

\* The server works on a request.
Serving == {"tables", "header", "run", "cancelled", "sample", "insert", "finish"}

ServerStates == Serving \cup {"idle", "skip", "greeting", "closed", "confused"}

Types ==
    /\ TypeOK
    /\ options \in Options
    /\ out \in Seq(ToServerPacket) /\ c2s \in Seq(ToServerPacket)
    /\ s2c \in Seq(ToClientPacket)
    /\ srv \in [st : ServerStates, q : Tag]
    /\ pings \in Nat /\ cancels \in Nat /\ produced \in Nat /\ taken \in Nat
    /\ mixed \in BOOLEAN

\* Where the client is and what it is doing.
Control ==
    /\ mustReset => call = "idle" \/ (call = "EndInsert" /\ goal = "~Client")
    /\ call \in Preparing => state = "Idle" /\ goal \in {"Ping"} \cup Selects \cup Inserts
    /\ call \in Preparing /\ goal # "Ping" => req < MaxRequests
    /\ call = "start" => goal # "Ping"
    /\ call \in Inserts => goal = call
    /\ call = "EndInsert" => goal \in {"Insert", "EndInsert", "~Client"}
    /\ state = "Selecting" => events = req

\* events_ points to the query that runs, to the insert that is being begun,
\* or to one that a reset has abandoned.
Callbacks ==
    \/ events \in abandoned \cup {None}
    \/ state = "Selecting" /\ events = req
    \/ goal = "BeginInsert" /\ call \in Preparing /\ events = req + 1
    \/ goal = "BeginInsert" /\ call = "BeginInsert" /\ events = req

\* While the client reads a response, everything in flight is of its request.
Tags ==
    /\ state # "Idle" =>
        /\ \A i \in 1 .. Len(s2c) : s2c[i].m # "Pong" => s2c[i].q = req
        /\ \A i \in 1 .. Len(c2s) : c2s[i].m \in Starts => c2s[i].q = req
        /\ \A i \in 1 .. Len(out) : out[i].m \in Starts => out[i].q = req
        /\ srv.st \in Serving => srv.q = req
        /\ srv.st # "greeting"
    /\ state = "Inserting" => ~Has(out, {"Cancel"})
    /\ Cancels(c2s)
    /\ srv.st \in Serving =>
          \A i \in 1 .. Len(c2s) : c2s[i].m = "Cancel" =>
              c2s[i].q \in abandoned \cup {srv.q}

\* The response ends with the last packet, and the server has then no part of
\* another request before it.
Ends ==
    Has(s2c, EndsResponse) =>
        /\ \A i \in 1 .. Len(s2c) : s2c[i].m \in EndsResponse => i = Len(s2c)
        /\ srv.st \in {"idle", "skip", "closed"}
        /\ ~Has(c2s, Starts \cup {"Ping"})

\* No request is on its way, and no packet but those of pings.
Quiet ==
    /\ ~Has(c2s, Starts)
    /\ srv.st \in {"idle", "skip", "closed"} \/ (call \in Pinging /\ srv.st = "greeting")
    /\ srv.st = "skip" => Has(c2s, {"End"})
    /\ srv.st = "greeting" => Len(s2c) = 0 /\ srv.q = None
    /\ \A i \in 1 .. Len(s2c) :
          s2c[i].m = "Pong" \/ (call \in Pinging /\ i = 1 /\ s2c[i] = Packet("Hello", None))
    /\ ~Has(out, ToServer \ {"Ping"})
    /\ call \notin {"ping", "pingError"} => Len(out) = 0

\* A query has been sent and its response is not yet read.
Querying ==
    /\ Len(out) = 0
    /\ Ends
    /\ srv.st \in {"idle", "skip", "closed", "tables", "run", "cancelled"}
    /\ srv.st \in {"skip", "tables"} => Has(c2s, {"End"})
    /\ ~Has(c2s, {"Insert"})
    /\ \A i \in 1 .. Len(c2s) : c2s[i].m = "Query" =>
          \E k \in i .. Len(c2s) : c2s[k].m = "End"

\* The blocks of an insert among the packets c: all but a Cancel before them
\* and the marker behind them.
Lead(c) == IF Len(c) > 0 /\ c[1].m = "Cancel" THEN 1 ELSE 0
Marker(c) == IF Len(c) > 0 /\ c[Len(c)].m = "End" THEN 1 ELSE 0

\* An insert waits for its sample block.
Opening ==
    /\ Ends
    /\ srv.st \in {"idle", "skip", "closed", "header", "sample", "insert"}
    /\ ~Has(c2s, {"Query"})
    /\ Has(s2c, {"Data"}) => srv.st \in {"insert", "skip", "closed"} /\ Len(c2s) = 0
    /\ srv.st = "insert" => Len(c2s) = 0
    /\ srv.st \in {"header", "sample", "insert"} => taken = 0
    /\ ~Has(s2c, {"EndOfStream"})
    /\ due = 0

\* An insert has its sample block.
Inserting ==
    /\ Ends
    /\ ~Has(c2s, Starts \cup {"Ping"})
    /\ srv.st \in {"idle", "skip", "closed", "insert", "finish"}
    /\ call = "idle" => /\ srv.st \in {"insert", "skip", "closed"}
                        /\ ~Has(c2s, {"End"}) /\ ~Has(s2c, {"EndOfStream"})
    /\ call = "EndInsert" /\ srv.st \in {"insert", "skip"} => Has(c2s, {"End"})
    /\ srv.st = "insert" => taken + Len(c2s) = due + Lead(c2s) + Marker(c2s)
    /\ \A i \in 1 .. Len(c2s) : c2s[i].m = "Cancel" => i = 1
    /\ srv.st = "finish" => taken = due
    /\ Has(s2c, {"EndOfStream"}) => Len(c2s) = 0 /\ taken = due

Phases ==
    /\ state = "Idle" => Quiet
    /\ state = "Selecting" => Querying
    /\ state = "Inserting" => Len(out) = 0
    /\ call \in Inserts => Opening
    /\ state = "Inserting" /\ call \notin Inserts => Inserting

\* The server, in state st with packets c before it, gets a block or a marker it
\* has no use for before it gets to another request, if it has not yet.
Dead(st, c) ==
    \/ st \in {"confused", "closed"}
    \/ /\ st \in {"idle", "skip", "insert", "finish"}
       /\ \E j \in 1 .. Len(c) :
             /\ c[j].m \in Blocks
             /\ \A k \in 1 .. j : c[k].m \in Blocks \cup {"Cancel"}
             /\ st \in {"skip", "insert"} => \E i \in 1 .. j - 1 : c[i].m = "End"

\* Nothing more will come from such a server, but for what an insert is owed.
Mute ==
    /\ Dead(srv.st, c2s)
    /\ srv.st \in {"idle", "skip", "closed", "confused"}
    /\ ~Has(s2c, ToClient \ {"Pong"})

\* The blocks of the insert end at packet i, the first marker.
EndsAt(c, i) ==
    /\ c[i].m = "End"
    /\ \A k \in 1 .. i - 1 : c[k].m = "Data" \/ (k = 1 /\ c[k].m = "Cancel")
    /\ taken + i = due + 1 + Lead(c)

\* An insert that one of its blocks has ended.
Ended ==
    /\ \A i \in 1 .. Len(c2s) :
          /\ c2s[i].m \in Blocks \cup {"Cancel"}
          /\ c2s[i].m = "Cancel" => i = 1 /\ srv.st \in {"insert", "skip", "closed"}
    /\ srv.st \in {"idle", "skip", "closed", "confused", "insert", "finish"}
    /\ call = "idle" /\ srv.st = "skip" => Has(c2s, {"End"})
    /\ call = "EndInsert" => Dead(srv.st, c2s)
    /\ Has(s2c, EndsResponse) =>
          /\ \A i \in 1 .. Len(s2c) : s2c[i].m \in EndsResponse => i = Len(s2c)
          /\ srv.st \in {"idle", "skip", "closed", "confused"}
    /\ srv.st = "insert" => \E i \in 1 .. Len(c2s) : EndsAt(c2s, i)
    /\ srv.st = "finish" \/ Has(s2c, {"EndOfStream"}) => taken = due

\* A connection on which a block has ended an insert.
Lost ==
    /\ state = "Idle" =>
          /\ ~Has(c2s, Starts)
          /\ ~Has(out, ToServer \ {"Ping"})
          /\ call \notin {"ping", "pingError"} => Len(out) = 0
    /\ state # "Idle" => Len(out) = 0
    /\ IF state = "Inserting" /\ call \notin Inserts THEN Ended ELSE Mute

\* The destructor ends an insert that has thrown: what it sends need not make
\* sense.
Broken == goal = "~Client" /\ mustReset

Common ==
    /\ Types /\ Control /\ Callbacks /\ Tags
    /\ ~mixed /\ misdelivered \cup stray \subseteq abandoned

IInv ==
    /\ Common
    /\ ~Broken /\ ~cut => Ordered(c2s) /\ Fits(srv.st, c2s)
    /\ ~mustReset => IF cut THEN Lost ELSE Phases

-----------------------------------------------------------------------------
(* Sequences.                                                              *)

\* d starts with c.
Extends(d, c) == Len(c) <= Len(d) /\ \A i \in 1 .. Len(c) : d[i] = c[i]

\* No packets.
LEMMA Nothing ==
    ASSUME NEW S, NEW c \in Seq(S), Len(c) = 0
    PROVE  c = <<>>
OBVIOUS

\* The places in a sequence of n packets and in what follows its first.
LEMMA Shifts ==
    ASSUME NEW n \in Nat \ {0}
    PROVE  /\ 1 \in 1 .. n
           /\ \A i \in 1 .. n - 1 : i + 1 \in 1 .. n
           /\ \A k \in 2 .. n : k - 1 \in 1 .. n - 1
OBVIOUS

\* What a reader takes, and what it leaves.
LEMMA Taking ==
    ASSUME NEW S, NEW c \in Seq(S), c # <<>>
    PROVE  /\ Head(c) = c[1] /\ c[1] \in S
           /\ Tail(c) \in Seq(S)
           /\ Len(c) \in Nat \ {0} /\ Len(Tail(c)) = Len(c) - 1
           /\ \A i \in 1 .. Len(c) - 1 : Tail(c)[i] = c[i + 1]
           /\ \A i \in 2 .. Len(c) : c[i] = Tail(c)[i - 1]
OBVIOUS

\* What a sender adds.
LEMMA Appending ==
    ASSUME NEW S, NEW c \in Seq(S), NEW e \in S
    PROVE  /\ Append(c, e) \in Seq(S)
           /\ Len(c) \in Nat /\ Len(Append(c, e)) = Len(c) + 1
           /\ \A i \in 1 .. Len(c) : Append(c, e)[i] = c[i]
           /\ Append(c, e)[Len(c) + 1] = e
           /\ Range(Append(c, e)) \subseteq S
BY DEF Range

\* What a writer adds.
LEMMA Adding ==
    ASSUME NEW S, NEW c \in Seq(S), NEW e \in Seq(S)
    PROVE  /\ c \o e \in Seq(S)
           /\ Len(c \o e) = Len(c) + Len(e)
           /\ Extends(c \o e, c)
           /\ \A i \in 1 .. Len(e) : (c \o e)[Len(c) + i] = e[i]
BY DEF Extends

\* The first k packets.
LEMMA Beginning ==
    ASSUME NEW S, NEW e \in Seq(S), NEW k \in 0 .. Len(e)
    PROVE  /\ SubSeq(e, 1, k) \in Seq(S)
           /\ Len(SubSeq(e, 1, k)) = k
           /\ \A i \in 1 .. k : SubSeq(e, 1, k)[i] = e[i]
OBVIOUS

\* The kinds of packets in a stream, before and after it is read or extended.
LEMMA HasTail ==
    ASSUME NEW S, NEW c \in Seq(S), c # <<>>, NEW kinds
    PROVE  /\ Has(Tail(c), kinds) => Has(c, kinds)
           /\ Has(c, kinds) /\ c[1].m \notin kinds => Has(Tail(c), kinds)
           /\ c[1].m \in kinds => Has(c, kinds)
<1>1. /\ Len(c) \in Nat \ {0} /\ Len(Tail(c)) = Len(c) - 1
      /\ \A i \in 1 .. Len(Tail(c)) : Tail(c)[i] = c[i + 1] /\ i + 1 \in 1 .. Len(c)
      /\ \A i \in 1 .. Len(c) : i = 1 \/ (c[i] = Tail(c)[i - 1] /\ i - 1 \in 1 .. Len(Tail(c)))
      /\ 1 \in 1 .. Len(c)
  BY Taking
<1> QED BY <1>1, Zenon DEF Has

\* Appending a packet adds its kind.
LEMMA HasAppend ==
    ASSUME NEW S, NEW c \in Seq(S), NEW e \in S, NEW kinds
    PROVE  Has(Append(c, e), kinds) <=> Has(c, kinds) \/ e.m \in kinds
<1> DEFINE d == Append(c, e)
<1>1. /\ Len(c) \in Nat /\ Len(d) = Len(c) + 1
      /\ \A i \in 1 .. Len(c) : d[i] = c[i] /\ i \in 1 .. Len(d)
      /\ d[Len(c) + 1] = e /\ Len(c) + 1 \in 1 .. Len(d)
      /\ \A i \in 1 .. Len(d) : i \in 1 .. Len(c) \/ i = Len(c) + 1
  BY Appending
<1> HIDE DEF d
<1>2. Has(d, kinds) <=> Has(c, kinds) \/ e.m \in kinds
  BY <1>1, Zenon DEF Has
<1> QED BY <1>2, Zenon DEF d

-----------------------------------------------------------------------------
(* The stream to the server.                                               *)

\* Every packet to the server has a kind and a request.
LEMMA Kinds ==
    ASSUME NEW c \in Seq(ToServerPacket)
    PROVE  /\ Len(c) \in Nat
           /\ \A i \in 1 .. Len(c) : c[i].m \in ToServer /\ c[i].q \in Tag
<1>1. \A i \in 1 .. Len(c) : c[i] \in ToServerPacket
  OBVIOUS
<1> QED BY <1>1 DEF ToServerPacket

\* A write that fails leaves a prefix of what it would have sent.
LEMMA PrefixKeeps ==
    ASSUME NEW c \in Seq(ToServerPacket), NEW d \in Seq(ToServerPacket),
           Extends(d, c), NEW st, Ordered(d), Fits(st, d)
    PROVE  Ordered(c) /\ Fits(st, c)
<1>1. Len(c) \in Nat /\ Len(d) \in Nat /\ Len(c) <= Len(d)
  BY DEF Extends
<1>2. \A i \in 1 .. Len(c) : i \in 1 .. Len(d) /\ d[i] = c[i]
  BY <1>1 DEF Extends
<1>3. \A kinds : Has(c, kinds) => Has(d, kinds)
  BY <1>2, Zenon DEF Has
<1>4. Ordered(c)
  <2>1. ASSUME NEW i \in 1 .. Len(c), NEW j \in 1 .. Len(c), i < j
        PROVE  Behind(c, i, j)
    <3>1. c[i] = d[i] /\ c[j] = d[j] /\ Behind(d, i, j)
      BY <1>2, <2>1, Zenon DEF Ordered
    <3>2. \A k \in i .. j : c[k] = d[k]
      BY <1>1, <1>2
    <3> QED BY <3>1, <3>2, Zenon DEF Behind
  <2> QED BY <1>3, <2>1, Zenon DEF Ordered
<1>5. Fits(st, c)
  <2>1. \A j \in 1 .. Len(c) : \A k \in 1 .. j : c[k] = d[k]
    BY <1>1, <1>2
  <2>2. st \in {"idle", "greeting"} =>
            \A j \in 1 .. Len(c) : c[j].m \in {"Data", "End"} =>
                \E k \in 1 .. j : c[k].m \in Starts
    BY <1>2, <2>1 DEF Fits
  <2>3. \A j \in 1 .. Len(c) : (\E k \in 1 .. j : d[k].m = "End")
                                   => \E k \in 1 .. j : c[k].m = "End"
    BY <2>1, Zenon
  <2>4. st \in {"tables", "skip"} =>
            \A j \in 1 .. Len(c) :
                c[j].m \in (IF st = "skip" THEN Starts \cup {"Ping"} ELSE {"Cancel"})
                    => \E k \in 1 .. j : c[k].m = "End"
    BY <1>2, <2>3, Zenon DEF Fits
  <2>5. st = "header" => \A j \in 1 .. Len(c) : c[j].m = "End" /\ j = 1
    BY <1>2 DEF Fits
  <2>6. st = "insert" => \A j \in 1 .. Len(c) : c[j].m = "End" => j = Len(c)
    BY <1>1, <1>2 DEF Fits
  <2>7. st \in {"sample", "finish"} => Len(c) = 0
    BY <1>1 DEF Fits
  <2> QED BY <1>3, <2>2, <2>4, <2>5, <2>6, <2>7, Zenon DEF Fits
<1> QED BY <1>4, <1>5, Zenon

\* What the server has not taken yet keeps its order.
LEMMA TailOrdered ==
    ASSUME NEW c \in Seq(ToServerPacket), c # <<>>, Ordered(c)
    PROVE  Ordered(Tail(c))
<1> DEFINE t == Tail(c)
<1>1. /\ Len(c) \in Nat /\ Len(t) = Len(c) - 1
      /\ \A i \in 1 .. Len(t) : t[i] = c[i + 1] /\ i + 1 \in 1 .. Len(c)
      /\ \A i \in 2 .. Len(c) : c[i] = t[i - 1]
  BY Taking
<1> HIDE DEF t
<1>2. ~Has(t, {"Torn"})
  BY <1>1, Zenon DEF Ordered, Has
<1>3. ASSUME NEW i \in 1 .. Len(t), NEW j \in 1 .. Len(t), i < j
      PROVE  Behind(t, i, j)
  <2>1. i + 1 \in 1 .. Len(c) /\ j + 1 \in 1 .. Len(c) /\ i + 1 < j + 1
    BY <1>1, <1>3
  <2>2. t[i] = c[i + 1] /\ t[j] = c[j + 1] /\ Behind(c, i + 1, j + 1)
    BY <1>1, <2>1, Zenon DEF Ordered
  <2>3. \A k \in i + 1 .. j + 1 : k - 1 \in i .. j /\ c[k] = t[k - 1]
    BY <1>1
  <2>4. (\E k \in i + 1 .. j + 1 : c[k].m = "End") => \E k \in i .. j : t[k].m = "End"
    BY <2>3, Zenon
  <2>5. (\E k \in i + 1 .. j + 1 : c[k].m \in Starts)
            => \E k \in i .. j : t[k].m \in Starts
    BY <2>3, Zenon
  <2> QED BY <2>2, <2>4, <2>5 DEF Behind
<1> QED BY <1>2, <1>3, Zenon DEF Ordered, t

\* When the server takes a packet it can make use of, the next one fits the
\* state it goes to.
LEMMA TailFits ==
    ASSUME NEW c \in Seq(ToServerPacket), c # <<>>, Ordered(c), NEW st, Fits(st, c)
    PROVE  /\ st = "idle" =>
                /\ c[1].m \in {"Cancel", "Ping"} => Fits("idle", Tail(c))
                /\ c[1].m = "Query" => Fits("tables", Tail(c))
                /\ c[1].m = "Insert" => Fits("header", Tail(c))
           /\ st = "tables" =>
                /\ c[1].m = "Data" => Fits("tables", Tail(c))
                /\ c[1].m = "End" => Fits("run", Tail(c))
           /\ st = "header" => Fits("sample", Tail(c))
           /\ st = "run" => Fits("cancelled", Tail(c))
           /\ st = "insert" =>
                /\ c[1].m \in {"Data", "Cancel"} => Fits("insert", Tail(c))
                /\ c[1].m = "End" => Fits("finish", Tail(c))
           /\ st = "skip" =>
                /\ c[1].m \in {"Data", "Cancel"} => Fits("skip", Tail(c))
                /\ c[1].m = "End" => Fits("idle", Tail(c))
<1> DEFINE t == Tail(c)
<1>1. /\ Len(c) \in Nat \ {0} /\ Len(t) = Len(c) - 1
      /\ \A i \in 1 .. Len(t) : t[i] = c[i + 1] /\ i + 1 \in 1 .. Len(c) /\ t[i] \in ToServerPacket
      /\ \A i \in 2 .. Len(c) : c[i] = t[i - 1]
  BY Taking
<1> HIDE DEF t
<1>2. \A i \in 1 .. Len(t) : Behind(c, 1, i + 1)
  BY <1>1 DEF Ordered
<1>3. ASSUME NEW kinds, NEW j \in 1 .. Len(t), c[1].m \notin kinds,
             \E k \in 1 .. j + 1 : c[k].m \in kinds
      PROVE  \E k \in 1 .. j : t[k].m \in kinds
  <2>1. PICK k \in 1 .. j + 1 : c[k].m \in kinds
    BY <1>3, Zenon
  <2>2. k - 1 \in 1 .. j /\ c[k] = t[k - 1]
    BY <1>1, <1>3, <2>1
  <2> QED BY <2>1, <2>2, Zenon
<1>6. ASSUME NEW j \in 1 .. Len(t), c[1].m # "End",
             \E k \in 1 .. j + 1 : c[k].m = "End"
      PROVE  \E k \in 1 .. j : t[k].m = "End"
  <2>1. PICK k \in 1 .. j + 1 : c[k].m = "End"
    BY <1>6, Zenon
  <2>2. k - 1 \in 1 .. j /\ c[k] = t[k - 1]
    BY <1>1, <1>6, <2>1
  <2> QED BY <2>1, <2>2, Zenon
<1>4. \A j \in 1 .. Len(t) : t[j].m \in ToServer
  BY <1>1, Zenon DEF ToServerPacket
<1>5. \A kinds : Has(t, kinds) => Has(c, kinds)
  BY <1>1, Zenon DEF Has
<1>10. CASE st = "idle"
  <2>1. ASSUME c[1].m \in {"Cancel", "Ping"} PROVE Fits("idle", t)
    <3>1. ASSUME NEW j \in 1 .. Len(t), t[j].m \in {"Data", "End"}
          PROVE  \E k \in 1 .. j : t[k].m \in Starts
      <4>1. \E k \in 1 .. j + 1 : c[k].m \in Starts
        BY <1>1, <1>10, <3>1, Zenon DEF Fits
      <4>2. c[1].m \notin Starts
        BY <2>1, Zenon DEF Starts
      <4> QED BY <1>3, <4>1, <4>2, Zenon
    <3> QED BY <3>1, Zenon DEF Fits
  <2>2. ASSUME c[1].m = "Query" PROVE Fits("tables", t)
    <3>1. ~Has(t, Starts \cup {"Ping"})
      BY <1>1, <1>2, <2>2, Zenon DEF Has, Behind, Starts
    <3>2. ASSUME NEW j \in 1 .. Len(t), t[j].m = "Cancel"
          PROVE  \E k \in 1 .. j : t[k].m = "End"
      <4>1. \E k \in 1 .. j + 1 : c[k].m = "End"
        BY <1>1, <1>2, <2>2, <3>2, Zenon DEF Behind
      <4> QED BY <1>6, <2>2, <4>1, Zenon
    <3> QED BY <3>1, <3>2, Zenon DEF Fits
  <2>3. ASSUME c[1].m = "Insert" PROVE Fits("header", t)
    <3>1. \A j \in 1 .. Len(t) : t[j].m = "End" /\ j = 1
      BY <1>1, <1>2, <2>3 DEF Behind
    <3> QED BY <3>1, Zenon DEF Fits
  <2> QED BY <1>10, <2>1, <2>2, <2>3, Zenon DEF t
<1>11. CASE st = "tables"
  <2>1. ~Has(c, Starts \cup {"Ping"}) /\ ~Has(t, Starts \cup {"Ping"})
    BY <1>5, <1>11, Zenon DEF Fits
  <2>2. ASSUME c[1].m = "Data" PROVE Fits("tables", t)
    <3>1. ASSUME NEW j \in 1 .. Len(t), t[j].m = "Cancel"
          PROVE  \E k \in 1 .. j : t[k].m = "End"
      <4>1. \E k \in 1 .. j + 1 : c[k].m = "End"
        BY <1>1, <1>11, <3>1, Zenon DEF Fits
      <4> QED BY <1>6, <2>2, <4>1, Zenon
    <3> QED BY <2>1, <3>1, Zenon DEF Fits
  <2>3. ASSUME c[1].m = "End" PROVE Fits("run", t)
    <3>1. ASSUME NEW j \in 1 .. Len(t) PROVE t[j].m = "Cancel"
      <4>1. \A k \in 1 .. j + 1 : c[k].m \notin Starts
        BY <1>1, <2>1 DEF Has
      <4>2. t[j].m \notin {"Data", "End"}
        BY <1>1, <1>2, <2>3, <4>1, Zenon DEF Behind
      <4>3. t[j].m \notin Starts \cup {"Ping", "Torn"}
        BY <1>1, <1>5, <2>1, Zenon DEF Has, Ordered
      <4> QED BY <1>4, <4>2, <4>3, Zenon DEF ToServer, Starts
    <3> QED BY <3>1, Zenon DEF Fits, Has
  <2> QED BY <1>11, <2>2, <2>3, Zenon DEF t
<1>12. CASE st = "header"
  <2>1. Len(t) = 0
    BY <1>1, <1>12 DEF Fits
  <2> QED BY <1>12, <2>1, Zenon DEF t, Fits
<1>13. CASE st = "run"
  <2>1. ~Has(t, ToServer \ {"Cancel"})
    BY <1>5, <1>13, Zenon DEF Fits
  <2> QED BY <1>13, <2>1, Zenon DEF t, Fits
<1>14. CASE st = "insert"
  <2>1. ~Has(t, Starts \cup {"Ping"})
    BY <1>5, <1>14, Zenon DEF Fits
  <2>2. \A j \in 1 .. Len(t) : t[j].m = "End" => j = Len(t)
    BY <1>1, <1>14 DEF Fits
  <2>3. c[1].m = "End" => Len(t) = 0
    BY <1>1, <1>14 DEF Fits
  <2> QED BY <1>14, <2>1, <2>2, <2>3, Zenon DEF t, Fits
<1>15. CASE st = "skip"
  <2>1. ASSUME c[1].m \in {"Data", "Cancel"} PROVE Fits("skip", t)
    <3>1. ASSUME NEW j \in 1 .. Len(t), t[j].m \in Starts \cup {"Ping"}
          PROVE  \E k \in 1 .. j : t[k].m = "End"
      <4>1. \E k \in 1 .. j + 1 : c[k].m = "End"
        BY <1>1, <1>15, <3>1 DEF Fits
      <4> QED BY <1>6, <2>1, <4>1, Zenon
    <3> QED BY <3>1, Zenon DEF Fits
  <2>2. ASSUME c[1].m = "End" PROVE Fits("idle", t)
    <3>1. ASSUME NEW j \in 1 .. Len(t), t[j].m \in {"Data", "End"}
          PROVE  \E k \in 1 .. j : t[k].m \in Starts
      <4>1. \E k \in 1 .. j + 1 : c[k].m \in Starts
        BY <1>1, <1>2, <2>2, <3>1, Zenon DEF Behind
      <4>2. c[1].m \notin Starts
        BY <2>2, Zenon DEF Starts
      <4> QED BY <1>3, <4>1, <4>2, Zenon
    <3> QED BY <3>1, Zenon DEF Fits
  <2> QED BY <1>15, <2>1, <2>2, Zenon DEF t
<1> QED BY <1>10, <1>11, <1>12, <1>13, <1>14, <1>15, Zenon

\* Nothing that the server may have before it confuses it.
LEMMA NothingUnexpected ==
    ASSUME NEW c \in Seq(ToServerPacket), c # <<>>, Ordered(c),
           NEW st \in ServerStates, Fits(st, c)
    PROVE  c[1].m \notin Unexpected(st)
<1>1. Len(c) \in Nat \ {0} /\ 1 \in 1 .. Len(c) /\ c[1].m # "Torn"
  BY Taking DEF Ordered, Has
<1>2. \A k \in 1 .. 1 : k = 1
  OBVIOUS
<1>3. CASE st = "idle"
  BY <1>1, <1>2, <1>3, Zenon DEF Fits, Unexpected, Starts
<1>4. CASE st = "tables"
  BY <1>1, <1>2, <1>4, Zenon DEF Fits, Unexpected, Starts, Has
<1>5. CASE st = "header"
  BY <1>1, <1>5, Zenon DEF Fits, Unexpected
<1>6. CASE st = "insert"
  BY <1>1, <1>6, Zenon DEF Fits, Unexpected, Starts, Has
<1>7. CASE st = "skip"
  BY <1>1, <1>2, <1>7, Zenon DEF Fits, Unexpected, Starts
<1>8. CASE st \notin {"idle", "tables", "header", "insert", "skip"}
  BY <1>8, Zenon DEF Unexpected
<1> QED BY <1>3, <1>4, <1>5, <1>6, <1>7, <1>8, Zenon

\* The server answers and goes on: what it has before it fits the new state.
LEMMA AnsweringFits ==
    ASSUME NEW c \in Seq(ToServerPacket), NEW st, Fits(st, c)
    PROVE  /\ st \in {"tables", "header", "insert"} => Fits("skip", c)
           /\ st \in {"run", "cancelled", "sample", "finish", "greeting"}
                 => Fits("idle", c)
           /\ st = "sample" => Fits("insert", c)
           /\ Fits("closed", c)
<1>1. Len(c) \in Nat /\ \A i \in 1 .. Len(c) : c[i].m \in ToServer
  BY Kinds, Zenon
<1>2. CASE st \in {"tables", "header", "insert"}
  <2>1. \A j \in 1 .. Len(c) : c[j].m \notin Starts \cup {"Ping"}
    BY <1>2, Zenon DEF Fits, Has, Starts
  <2> QED BY <1>2, <2>1, Zenon DEF Fits
<1>3. CASE st \in {"run", "cancelled"}
  <2>1. \A j \in 1 .. Len(c) : c[j].m \notin {"Data", "End"}
    BY <1>1, <1>3, Zenon DEF Fits, Has, ToServer
  <2> QED BY <1>3, <2>1, Zenon DEF Fits
<1>4. CASE st \in {"sample", "finish"}
  <2>1. \A j \in 1 .. Len(c) : FALSE
    BY <1>4 DEF Fits
  <2> QED BY <1>4, <2>1, Zenon DEF Fits, Has
<1>5. CASE st = "greeting"
  BY <1>5, Zenon DEF Fits
<1>6. Fits("closed", c)
  BY Zenon DEF Fits
<1> QED BY <1>2, <1>3, <1>4, <1>5, <1>6, Zenon

\* Pings may follow whatever a finished request has left.
LEMMA PingsFit ==
    ASSUME NEW c \in Seq(ToServerPacket), NEW d \in Seq(ToServerPacket),
           Extends(d, c), \A i \in 1 .. Len(d) : i > Len(c) => d[i].m = "Ping",
           NEW st \in {"idle", "greeting", "skip", "closed"}, Ordered(c), Fits(st, c),
           ~Has(c, Starts), st = "skip" => Has(c, {"End"})
    PROVE  Ordered(d) /\ Fits(st, d) /\ ~Has(d, Starts)
<1>1. /\ Len(c) \in Nat /\ Len(d) \in Nat /\ Len(c) <= Len(d)
      /\ \A i \in 1 .. Len(c) : i \in 1 .. Len(d) /\ d[i] = c[i]
  BY DEF Extends
<1>2. ~Has(d, Starts)
  BY <1>1 DEF Has, Starts
<1>3. ~Has(d, {"Torn"})
  BY <1>1 DEF Ordered, Has
<1>4. ASSUME NEW i \in 1 .. Len(d), NEW j \in 1 .. Len(d), i < j
      PROVE  Behind(d, i, j)
  <2>1. CASE j > Len(c)
    BY <1>2, <2>1, Zenon DEF Behind, Has, Starts
  <2>2. CASE j \in 1 .. Len(c)
    <3>1. i \in 1 .. Len(c) /\ Behind(c, i, j)
      BY <1>1, <1>4, <2>2 DEF Ordered
    <3>2. \A k \in i .. j : d[k] = c[k]
      BY <1>1, <2>2
    <3> QED BY <1>1, <2>2, <3>1, <3>2, Zenon DEF Behind
  <2> QED BY <1>1, <2>1, <2>2
<1>5. Fits(st, d)
  <2>1. ASSUME st \in {"idle", "greeting"}, NEW j \in 1 .. Len(d),
               d[j].m \in {"Data", "End"}
        PROVE  FALSE
    <3>1. j \in 1 .. Len(c) /\ c[j].m \in {"Data", "End"}
      BY <1>1, <2>1
    <3>2. \E k \in 1 .. j : c[k].m \in Starts
      BY <2>1, <3>1, Zenon DEF Fits
    <3> QED BY <1>1, <3>1, <3>2 DEF Has
  <2>2. ASSUME st = "skip", NEW j \in 1 .. Len(d), d[j].m \in Starts \cup {"Ping"}
        PROVE  \E k \in 1 .. j : d[k].m = "End"
    <3>1. CASE j > Len(c)
      <4>1. PICK k \in 1 .. Len(c) : c[k].m = "End"
        BY <2>2, Zenon DEF Has
      <4>2. k \in 1 .. j /\ d[k] = c[k]
        BY <1>1, <3>1, <4>1
      <4> QED BY <4>1, <4>2, Zenon
    <3>2. CASE j \in 1 .. Len(c)
      <4>1. PICK k \in 1 .. j : c[k].m = "End"
        BY <1>1, <2>2, <3>2, Zenon DEF Fits
      <4>2. k \in 1 .. j /\ d[k] = c[k]
        BY <1>1, <3>2, <4>1
      <4> QED BY <4>1, <4>2, Zenon
    <3> QED BY <1>1, <3>1, <3>2
  <2> QED BY <2>1, <2>2, Zenon DEF Fits
<1> QED BY <1>2, <1>3, <1>4, <1>5, Zenon DEF Ordered

\* So may a request.
LEMMA RequestFits ==
    ASSUME NEW c \in Seq(ToServerPacket), NEW d \in Seq(ToServerPacket),
           Extends(d, c), Len(d) >= Len(c) + 2,
           d[Len(c) + 1].m \in Starts, d[Len(d)].m = "End",
           \A i \in 1 .. Len(d) : i > Len(c) + 1 /\ i < Len(d) => d[i].m = "Data",
           d[Len(c) + 1].m = "Insert" => Len(d) = Len(c) + 2,
           NEW st \in {"idle", "skip", "closed"}, Ordered(c), Fits(st, c),
           ~Has(c, Starts), st = "skip" => Has(c, {"End"})
    PROVE  Ordered(d) /\ Fits(st, d)
<1>1. /\ Len(c) \in Nat /\ Len(d) \in Nat /\ Len(c) <= Len(d)
      /\ Len(c) + 1 \in 1 .. Len(d)
      /\ \A i \in 1 .. Len(c) : i \in 1 .. Len(d) /\ d[i] = c[i]
  BY DEF Extends
<1>2. \A i \in 1 .. Len(d) : i > Len(c) + 1 => d[i].m \in {"Data", "End"}
  BY <1>1
<1>3. ~Has(d, {"Torn"})
  <2>1. \A i \in 1 .. Len(c) : c[i].m # "Torn"
    BY Zenon DEF Ordered, Has
  <2>2. \A i \in 1 .. Len(d) : i \in 1 .. Len(c) \/ i = Len(c) + 1 \/ i > Len(c) + 1
    BY <1>1
  <2> QED BY <1>1, <1>2, <2>1, <2>2, Zenon DEF Has, Starts
<1>4. ASSUME NEW i \in 1 .. Len(d), NEW j \in 1 .. Len(d), i < j
      PROVE  Behind(d, i, j)
  <2>1. CASE j \in 1 .. Len(c)
    <3>1. i \in 1 .. Len(c) /\ Behind(c, i, j)
      BY <1>1, <1>4, <2>1 DEF Ordered
    <3>2. \A k \in i .. j : d[k] = c[k]
      <4>1. ASSUME NEW k \in i .. j PROVE k \in 1 .. Len(c)
        BY <1>1, <2>1
      <4> QED BY <1>1, <4>1, Zenon
    <3> QED BY <1>1, <2>1, <3>1, <3>2, Zenon DEF Behind
  <2>2. CASE j >= Len(c) + 1 /\ i \in 1 .. Len(c)
    <3>1. d[i].m \notin Starts
      BY <1>1, <2>2, Zenon DEF Has
    <3>2. Len(c) + 1 \in i .. j
      BY <1>1, <2>2
    <3> QED BY <3>1, <3>2, Zenon DEF Behind, Starts
  <2>3. CASE i = Len(c) + 1
    <3>1. d[j].m \in {"Data", "End"}
      BY <1>1, <1>2, <1>4, <2>3, Zenon
    <3>2. d[i].m = "Insert" => d[j].m = "End" /\ j = i + 1
      BY <1>1, <1>4, <2>3
    <3> QED BY <2>3, <3>1, <3>2, Zenon DEF Behind, Starts
  <2>4. CASE i > Len(c) + 1
    <3>1. d[i].m = "Data"
      BY <1>1, <1>4, <2>4
    <3> QED BY <3>1, Zenon DEF Behind, Starts
  <2> QED BY <1>1, <2>1, <2>2, <2>3, <2>4
<1>5. Fits(st, d)
  <2>1. ASSUME st = "idle", NEW j \in 1 .. Len(d), d[j].m \in {"Data", "End"}
        PROVE  \E k \in 1 .. j : d[k].m \in Starts
    <3>1. CASE j \in 1 .. Len(c)
      <4>1. PICK k \in 1 .. j : c[k].m \in Starts
        BY <1>1, <2>1, <3>1, Zenon DEF Fits
      <4>2. k \in 1 .. j /\ d[k] = c[k]
        BY <1>1, <3>1, <4>1
      <4> QED BY <4>1, <4>2, Zenon
    <3>2. CASE j > Len(c)
      <4>1. Len(c) + 1 \in 1 .. j
        BY <1>1, <3>2
      <4> QED BY <4>1, Zenon
    <3> QED BY <1>1, <3>1, <3>2
  <2>2. ASSUME st = "skip", NEW j \in 1 .. Len(d), d[j].m \in Starts \cup {"Ping"}
        PROVE  \E k \in 1 .. j : d[k].m = "End"
    <3>1. CASE j > Len(c)
      <4>1. PICK k \in 1 .. Len(c) : c[k].m = "End"
        BY <2>2, Zenon DEF Has
      <4>2. k \in 1 .. j /\ d[k] = c[k]
        BY <1>1, <3>1, <4>1
      <4> QED BY <4>1, <4>2, Zenon
    <3>2. CASE j \in 1 .. Len(c)
      <4>1. PICK k \in 1 .. j : c[k].m = "End"
        BY <1>1, <2>2, <3>2, Zenon DEF Fits
      <4>2. k \in 1 .. j /\ d[k] = c[k]
        BY <1>1, <3>2, <4>1
      <4> QED BY <4>1, <4>2, Zenon
    <3> QED BY <1>1, <3>1, <3>2
  <2> QED BY <2>1, <2>2, Zenon DEF Fits
<1> QED BY <1>3, <1>4, <1>5, Zenon DEF Ordered

\* So may a Cancel, behind the whole query.
LEMMA CancelFits ==
    ASSUME NEW c \in Seq(ToServerPacket), NEW d \in Seq(ToServerPacket),
           Extends(d, c), Len(d) = Len(c) + 1, d[Len(d)].m = "Cancel",
           NEW st \in {"idle", "skip", "closed", "tables", "run", "cancelled"},
           Ordered(c), Fits(st, c), ~Has(c, {"Insert"}),
           st = "tables" => Has(c, {"End"}),
           \A i \in 1 .. Len(c) : c[i].m = "Query" =>
               \E k \in i .. Len(c) : c[k].m = "End"
    PROVE  Ordered(d) /\ Fits(st, d)
<1>1. /\ Len(c) \in Nat /\ Len(d) = Len(c) + 1
      /\ \A i \in 1 .. Len(c) : i \in 1 .. Len(d) /\ d[i] = c[i]
      /\ \A i \in 1 .. Len(d) : i \in 1 .. Len(c) \/ i = Len(c) + 1
  BY DEF Extends
<1>2. \A kinds : "Cancel" \notin kinds /\ ~Has(c, kinds) => ~Has(d, kinds)
  BY <1>1, Zenon DEF Has
<1>3. ~Has(d, {"Torn"})
  BY <1>2, Zenon DEF Ordered
<1>4. ASSUME NEW i \in 1 .. Len(d), NEW j \in 1 .. Len(d), i < j
      PROVE  Behind(d, i, j)
  <2>1. CASE j \in 1 .. Len(c)
    <3>1. i \in 1 .. Len(c) /\ Behind(c, i, j)
      BY <1>1, <1>4, <2>1 DEF Ordered
    <3>2. \A k \in i .. j : d[k] = c[k]
      BY <1>1, <2>1
    <3> QED BY <1>1, <2>1, <3>1, <3>2, Zenon DEF Behind
  <2>2. CASE j = Len(c) + 1
    <3>1. i \in 1 .. Len(c) /\ d[i] = c[i] /\ d[j].m = "Cancel"
      BY <1>1, <1>4, <2>2
    <3>2. d[i].m # "Insert"
      BY <3>1, Zenon DEF Has
    <3>3. d[i].m = "Query" => \E k \in i .. j : d[k].m = "End"
      <4>1. \A k \in i .. Len(c) : k \in i .. j /\ d[k] = c[k]
        BY <1>1, <2>2
      <4> QED BY <3>1, <4>1, Zenon
    <3> QED BY <3>1, <3>2, <3>3, Zenon DEF Behind, Starts
  <2> QED BY <1>1, <2>1, <2>2, Zenon
<1>5. Fits(st, d)
  <2>1. \A j \in 1 .. Len(c) : \A k \in 1 .. j : d[k] = c[k]
    BY <1>1
  <2>2. st = "idle" =>
            \A j \in 1 .. Len(d) : d[j].m \in {"Data", "End"} =>
                \E k \in 1 .. j : d[k].m \in Starts
    BY <1>1, <2>1 DEF Fits
  <2>3. ASSUME st = "tables", NEW j \in 1 .. Len(d), d[j].m = "Cancel"
        PROVE  \E k \in 1 .. j : d[k].m = "End"
    <3>1. CASE j = Len(c) + 1
      <4>1. PICK k \in 1 .. Len(c) : c[k].m = "End"
        BY <2>3, Zenon DEF Has
      <4>2. k \in 1 .. j /\ d[k] = c[k]
        BY <1>1, <3>1, <4>1, Zenon
      <4> QED BY <4>1, <4>2, Zenon
    <3>2. CASE j \in 1 .. Len(c)
      <4>1. PICK k \in 1 .. j : c[k].m = "End"
        BY <1>1, <2>3, <3>2, Zenon DEF Fits
      <4>2. k \in 1 .. j /\ d[k] = c[k]
        BY <1>1, <3>2, <4>1
      <4> QED BY <4>1, <4>2, Zenon
    <3> QED BY <1>1, <3>1, <3>2, Zenon
  <2>4. ASSUME st = "skip", NEW j \in 1 .. Len(d), d[j].m \in Starts \cup {"Ping"}
        PROVE  \E k \in 1 .. j : d[k].m = "End"
    <3>1. j \in 1 .. Len(c)
      BY <1>1, <2>4, Zenon DEF Starts
    <3>2. PICK k \in 1 .. j : c[k].m = "End"
      BY <1>1, <2>4, <3>1, Zenon DEF Fits
    <3> QED BY <1>1, <3>1, <3>2
  <2>5. "Cancel" \notin Starts \cup {"Ping"}
    BY Zenon DEF Starts
  <2> QED BY <1>2, <2>2, <2>3, <2>4, <2>5, Zenon DEF Fits
<1> QED BY <1>3, <1>4, <1>5, Zenon DEF Ordered

\* The blocks of an insert, with its marker at the end.
LEMMA BlocksFit ==
    ASSUME NEW d \in Seq(ToServerPacket), NEW st \in {"insert", "skip", "closed"},
           ~Has(d, Starts \cup {"Ping", "Torn"}),
           \A i \in 1 .. Len(d) : d[i].m = "End" => i = Len(d)
    PROVE  Ordered(d) /\ Fits(st, d)
<1>1. \A i \in 1 .. Len(d) : d[i].m \notin Starts \cup {"Ping", "Torn"}
  BY Zenon DEF Has
<1>2. Len(d) \in Nat
  OBVIOUS
<1>3. ASSUME NEW i \in 1 .. Len(d), NEW j \in 1 .. Len(d), i < j
      PROVE  Behind(d, i, j)
  <2>1. d[i].m # "End"
    BY <1>2, <1>3
  <2> QED BY <1>1, <2>1, Zenon DEF Behind, Starts
<1>4. ~Has(d, {"Torn"}) /\ ~Has(d, Starts \cup {"Ping"})
  BY <1>1, Zenon DEF Has
<1>5. Fits(st, d)
  BY <1>1, <1>4, Zenon DEF Fits
<1> QED BY <1>3, <1>4, <1>5, Zenon DEF Ordered

-----------------------------------------------------------------------------
(* What a step of the server does.                                         *)

\* In state st the server takes packet m and goes on as next.
Takes(st, m, next) ==
    \/ st = "idle" /\ m = "Query" /\ next = "tables"
    \/ st = "idle" /\ m = "Insert" /\ next = "header"
    \/ st = "idle" /\ m \in {"Cancel", "Ping"} /\ next = "idle"
    \/ st = "tables" /\ m = "Data" /\ next = "tables"
    \/ st = "tables" /\ m = "End" /\ next = "run"
    \/ st = "header" /\ m = "End" /\ next = "sample"
    \/ st = "run" /\ m = "Cancel" /\ next = "cancelled"
    \/ st = "insert" /\ m \in {"Data", "Cancel"} /\ next = "insert"
    \/ st = "insert" /\ m = "End" /\ next = "finish"
    \/ st = "skip" /\ m \in {"Data", "Cancel"} /\ next = "skip"
    \/ st = "skip" /\ m = "End" /\ next = "idle"

\* In state st the server sends packet m and goes on as next.
Says(st, m, next) ==
    \/ st \in {"tables", "header", "insert"} /\ m = "Exception" /\ next = "skip"
    \/ st \in {"run", "sample"} /\ m \in {"Info", "Bad"} /\ next = st
    \/ st = "run" /\ m = "Data" /\ next = "run"
    \/ st \in {"run", "cancelled", "sample", "finish"} /\ m = "Exception" /\ next = "idle"
    \/ st \in {"run", "cancelled", "finish"} /\ m = "EndOfStream" /\ next = "idle"
    \/ st = "sample" /\ m = "Data" /\ next = "insert"
    \/ st = "greeting" /\ m = "Hello" /\ next = "idle"

Client == <<options, clientVars, cut, abandoned, misdelivered, mixed>>

\* A step that takes a packet.
TakeStep(m, next) ==
    /\ ServerTakes(m, next)
    /\ \/ Takes(srv.st, m, next)
       \/ m \in Unexpected(srv.st) /\ next = "confused"
    /\ s2c' = IF m = "Ping" /\ srv.st = "idle" THEN Append(s2c, Packet("Pong", None)) ELSE s2c
    /\ taken' = IF srv.st = "idle" /\ next # "confused" THEN 0
                ELSE IF srv.st = "insert" /\ m = "Data" THEN taken + 1 ELSE taken
    /\ produced' \in Nat
    /\ stray' = IF srv.st \in {"run", "insert"} /\ m = "Cancel" /\ c2s[1].q # srv.q
                THEN stray \cup {c2s[1].q} ELSE stray

\* A step that sends one.
SayStep(m, next) ==
    /\ ServerSends(m, next)
    /\ Says(srv.st, m, next)
    /\ UNCHANGED <<c2s, taken, stray>>
    /\ produced' \in Nat

\* Every step of the server is one of these, or its end.
LEMMA ServerMoves ==
    ASSUME Types, ServerSteps \/ ServerDies
    PROVE  \/ \E m \in ToServer, next \in ServerStates : TakeStep(m, next)
           \/ \E m \in ToClient, next \in ServerStates : SayStep(m, next)
           \/ ServerDies
<1>0. produced \in Nat /\ c2s \in Seq(ToServerPacket)
  BY Zenon DEF Types
<1>1. CASE ServerIdle
  <2>1. ASSUME NEW m \in {"Query", "Insert", "Cancel", "Ping"}, NEW next,
               ServerTakes(m, next), srv.st = "idle", Takes("idle", m, next),
               s2c' = IF m = "Ping" THEN Append(s2c, Packet("Pong", None)) ELSE s2c
        PROVE  TakeStep(m, next) /\ m \in ToServer /\ next \in ServerStates
    BY <1>1, <2>1, Zenon DEF TakeStep, Takes, ServerIdle, ToServer, ServerStates, Serving
  <2> QED BY <1>1, <2>1, Zenon DEF ServerIdle, Takes
<1>2. CASE ServerReadsTables
  <2>1. ASSUME NEW m \in {"Data", "End"}, NEW next, ServerTakes(m, next),
               srv.st \in {"tables", "header"}, Takes(srv.st, m, next), s2c' = s2c
        PROVE  TakeStep(m, next) /\ m \in ToServer /\ next \in ServerStates
    BY <1>0, <1>2, <2>1, Zenon DEF TakeStep, Takes, ServerReadsTables, ToServer, ServerStates, Serving
  <2>2. ASSUME ServerSends("Exception", "skip"), srv.st \in {"tables", "header"}, c2s' = c2s
        PROVE  SayStep("Exception", "skip")
    BY <1>0, <1>2, <2>2, Zenon DEF SayStep, Says, ServerReadsTables
  <2> QED BY <1>2, <2>1, <2>2, Zenon DEF ServerReadsTables, Takes, ToClient, ServerStates
<1>3. CASE ServerAnswers
  <2>1. ASSUME NEW m, NEW next, ServerSends(m, next), Says(srv.st, m, next), srv.st # "greeting",
               produced' \in Nat
        PROVE  SayStep(m, next) /\ m \in ToClient /\ next \in ServerStates
    BY <1>0, <1>3, <2>1, Zenon DEF SayStep, Says, ServerAnswers, ToClient, ServerStates, Serving
  <2> QED BY <1>0, <1>3, <2>1 DEF ServerAnswers, Says
<1>4. CASE ServerIsCancelled
  <2> DEFINE next == IF srv.st = "run" THEN "cancelled" ELSE "insert"
  <2>1. c2s # <<>> /\ Head(c2s) = c2s[1]
    BY <1>0, <1>4, Taking, Zenon DEF ServerIsCancelled, ServerTakes
  <2>2. TakeStep("Cancel", next)
    BY <1>0, <1>4, <2>1, Zenon DEF ServerIsCancelled, TakeStep, Takes
  <2> QED BY <2>2, Zenon DEF ToServer, ServerStates, Serving
<1>5. CASE ServerInserts
  <2>1. ASSUME NEW m \in {"Data", "End", "Cancel"}, NEW next, ServerTakes(m, next),
               srv.st \in {"insert", "skip"}, Takes(srv.st, m, next),
               srv.st = "insert" => m # "Cancel",
               taken' = IF srv.st = "insert" /\ m = "Data" THEN taken + 1 ELSE taken,
               s2c' = s2c
        PROVE  TakeStep(m, next) /\ m \in ToServer /\ next \in ServerStates
    BY <1>0, <1>5, <2>1, Zenon DEF TakeStep, Takes, ServerInserts, ToServer, ServerStates, Serving
  <2>2. ASSUME NEW m, NEW next, ServerSends(m, next), Says(srv.st, m, next),
               UNCHANGED <<taken, c2s>>
        PROVE  SayStep(m, next) /\ m \in ToClient /\ next \in ServerStates
    BY <1>0, <1>5, <2>2, Zenon DEF SayStep, Says, ServerInserts, ToClient, ServerStates, Serving
  <2> QED BY <1>5, <2>1, <2>2, Zenon DEF ServerInserts, Takes, Says
<1>6. CASE ServerGreets
  BY <1>0, <1>6, Zenon DEF ServerGreets, SayStep, Says, ToClient, ServerStates
<1>7. CASE ServerConfused
  <2>1. PICK m \in Unexpected(srv.st) : ServerTakes(m, "confused")
    BY <1>7, Zenon DEF ServerConfused
  <2>2. srv.st \in {"idle", "tables", "header", "insert", "skip"}
        /\ m \in {"Query", "Insert", "Ping", "Data", "End", "Torn", "Cancel"}
        /\ (srv.st = "insert" => m \notin {"Data", "Cancel"})
        /\ (srv.st = "idle" => m # "Ping")
    BY <2>1, Zenon DEF Unexpected
  <2>3. TakeStep(m, "confused")
    BY <1>0, <1>7, <2>1, <2>2, Zenon DEF ServerConfused, TakeStep
  <2> QED BY <2>2, <2>3, Zenon DEF ToServer, ServerStates
<1> QED
  BY <1>1, <1>2, <1>3, <1>4, <1>5, <1>6, <1>7, Zenon DEF ServerSteps

-----------------------------------------------------------------------------
(* Types and tags.                                                         *)

\* A step that changes only what the server owns keeps the types.
LEMMA ServerTypes ==
    ASSUME Types, Control, Callbacks, UNCHANGED Client,
           c2s' \in Seq(ToServerPacket), s2c' \in Seq(ToClientPacket),
           srv' \in [st : ServerStates, q : Tag],
           produced' \in Nat, taken' \in Nat
    PROVE  Types' /\ Control' /\ Callbacks'
<1>1. UNCHANGED <<options, state, events, out, call, goal, req, sent, due, cut, pings, cancels,
                  mustReset, abandoned, mixed>>
  BY Zenon DEF Client, clientVars
<1>2. Range(c2s') \subseteq ToServerPacket /\ Range(s2c') \subseteq ToClientPacket
      /\ Range(out) \subseteq ToServerPacket
  BY DEF Range, Types
<1>3. TypeOK'
  BY <1>1, <1>2, Zenon DEF Types, TypeOK, ToServerPacket, ToClientPacket
<1>4. Types'
  BY <1>1, <1>3, Zenon DEF Types
<1>5. Control' /\ Callbacks'
  BY <1>1, Zenon DEF Control, Callbacks
<1> QED BY <1>4, <1>5, Zenon

\* A packet the server takes leaves the rest of the stream as it was.
LEMMA TakeCommon ==
    ASSUME Common, UNCHANGED Client, NEW m \in ToServer, NEW next \in ServerStates,
           TakeStep(m, next)
    PROVE  Common'
<1>1. UNCHANGED <<state, out, req, abandoned, misdelivered, mixed>>
  BY Zenon DEF Client, clientVars
<1>2. /\ c2s \in Seq(ToServerPacket) /\ s2c \in Seq(ToClientPacket)
      /\ srv \in [st : ServerStates, q : Tag] /\ taken \in Nat
  BY Zenon DEF Common, Types
<1>3. c2s # <<>> /\ c2s' = Tail(c2s) /\ c2s[1].m = m
      /\ srv'.st = next /\ srv'.q = IF m \in Starts THEN c2s[1].q ELSE srv.q
  <2>1. c2s # <<>> /\ Head(c2s).m = m /\ c2s' = Tail(c2s)
        /\ srv' = [st |-> next, q |-> IF m \in Starts THEN Head(c2s).q ELSE srv.q]
    BY Zenon DEF TakeStep, ServerTakes, Starts
  <2>2. Head(c2s) = c2s[1]
    BY <1>2, <2>1, Taking, Zenon
  <2> QED BY <2>1, <2>2, Zenon
<1>4. /\ c2s' \in Seq(ToServerPacket)
      /\ Len(c2s) \in Nat \ {0} /\ Len(c2s') = Len(c2s) - 1
      /\ \A i \in 1 .. Len(c2s') : c2s'[i] = c2s[i + 1] /\ i + 1 \in 1 .. Len(c2s)
      /\ 1 \in 1 .. Len(c2s)
  BY <1>2, <1>3, Taking
<1>5. c2s[1].q \in Tag /\ None \in Tag
  BY <1>2, <1>4, Kinds, Zenon DEF Tag
<1>6. s2c' \in Seq(ToClientPacket)
      /\ \A i \in 1 .. Len(s2c') : s2c'[i].m = "Pong" \/ (i \in 1 .. Len(s2c) /\ s2c'[i] = s2c[i])
  <2>1. Packet("Pong", None) \in ToClientPacket /\ Packet("Pong", None).m = "Pong"
    BY <1>5, Zenon DEF Packet, ToClientPacket, ToClient
  <2>2. CASE s2c' = s2c
    BY <1>2, <2>2, Zenon
  <2>3. CASE s2c' = Append(s2c, Packet("Pong", None))
    BY <1>2, <2>1, <2>3, Appending
  <2> QED BY <2>2, <2>3, Zenon DEF TakeStep
<1>7. srv' \in [st : ServerStates, q : Tag]
  BY <1>2, <1>5 DEF TakeStep, ServerTakes
<1>8. Types' /\ Control' /\ Callbacks'
  <2>1. produced' \in Nat /\ taken' \in Nat
    BY <1>2 DEF TakeStep
  <2> QED BY <1>4, <1>6, <1>7, <2>1, ServerTypes, Zenon DEF Common
<1>9. next \in Serving => srv.st \in Serving \/ m \in Starts
  BY Zenon DEF TakeStep, Takes, Serving, Starts
<1>10. Tags'
  <2>1. ASSUME state' # "Idle"
        PROVE  /\ \A i \in 1 .. Len(s2c') : s2c'[i].m # "Pong" => s2c'[i].q = req'
               /\ \A i \in 1 .. Len(c2s') : c2s'[i].m \in Starts => c2s'[i].q = req'
               /\ \A i \in 1 .. Len(out') : out'[i].m \in Starts => out'[i].q = req'
               /\ srv'.st \in Serving => srv'.q = req'
               /\ srv'.st # "greeting"
    <3>1. state # "Idle"
      BY <1>1, <2>1, Zenon
    <3>2. /\ \A i \in 1 .. Len(s2c) : s2c[i].m # "Pong" => s2c[i].q = req
          /\ \A i \in 1 .. Len(c2s) : c2s[i].m \in Starts => c2s[i].q = req
          /\ \A i \in 1 .. Len(out) : out[i].m \in Starts => out[i].q = req
          /\ srv.st \in Serving => srv.q = req
      BY <3>1, Zenon DEF Common, Tags
    <3>3. next # "greeting"
      BY Zenon DEF TakeStep, Takes
    <3>4. srv'.st \in Serving => srv'.q = req
      BY <1>3, <1>4, <1>9, <3>2, Zenon
    <3> QED BY <1>1, <1>3, <1>4, <1>6, <3>2, <3>3, <3>4
  <2>2. Cancels(c2s)'
    <3>1. Cancels(c2s)
      BY Zenon DEF Common, Tags
    <3>2. ASSUME NEW i \in 1 .. Len(c2s'), NEW j \in 1 .. Len(c2s'),
                 i < j, c2s'[i].m \in Starts, c2s'[j].m = "Cancel"
          PROVE  c2s'[j].q \in abandoned \cup {c2s'[i].q}
      <4>1. /\ c2s'[i] = c2s[i + 1] /\ i + 1 \in 1 .. Len(c2s)
            /\ c2s'[j] = c2s[j + 1] /\ j + 1 \in 1 .. Len(c2s) /\ i + 1 < j + 1
        BY <1>4, <3>2
      <4> QED BY <3>1, <3>2, <4>1 DEF Cancels
    <3> QED BY <1>1, <3>2, Zenon DEF Cancels
  <2>3. ASSUME srv'.st \in Serving, NEW i \in 1 .. Len(c2s'), c2s'[i].m = "Cancel"
        PROVE  c2s'[i].q \in abandoned \cup {srv'.q}
    <3>1. c2s'[i] = c2s[i + 1] /\ i + 1 \in 1 .. Len(c2s) /\ 1 < i + 1
      BY <1>4
    <3>2. CASE m \in Starts
      BY <1>3, <1>4, <2>3, <3>1, <3>2 DEF Common, Tags, Cancels
    <3>3. CASE m \notin Starts
      BY <1>3, <1>9, <2>3, <3>1, <3>3, Zenon DEF Common, Tags
    <3> QED BY <3>2, <3>3, Zenon
  <2>4. state' = "Inserting" => ~Has(out, {"Cancel"})'
    BY <1>1, Zenon DEF Common, Tags, Has
  <2> QED BY <1>1, <2>1, <2>2, <2>3, <2>4, Zenon DEF Tags
<1>11. stray' \subseteq abandoned
  <2>1. srv.st \in {"run", "insert"} /\ c2s[1].m = "Cancel" =>
            c2s[1].q \in abandoned \cup {srv.q}
    BY <1>4, Zenon DEF Common, Tags, Serving
  <2> QED BY <1>3, <2>1, Zenon DEF Common, TakeStep
<1> QED BY <1>1, <1>8, <1>10, <1>11, Zenon DEF Common

\* What the server sends belongs to the request it works on.
LEMMA SayCommon ==
    ASSUME Common, UNCHANGED Client, NEW m \in ToClient, NEW next \in ServerStates,
           SayStep(m, next)
    PROVE  Common'
<1>1. UNCHANGED <<state, out, req, c2s, taken, stray, abandoned, misdelivered, mixed>>
  BY Zenon DEF Client, clientVars, SayStep
<1>2. /\ c2s \in Seq(ToServerPacket) /\ s2c \in Seq(ToClientPacket)
      /\ srv \in [st : ServerStates, q : Tag] /\ taken \in Nat
  BY Zenon DEF Common, Types
<1>3. s2c' = Append(s2c, Packet(m, srv.q)) /\ srv' = [srv EXCEPT !.st = next]
  BY Zenon DEF SayStep, ServerSends
<1>4. srv' \in [st : ServerStates, q : Tag] /\ srv'.st = next /\ srv'.q = srv.q
  BY <1>2, <1>3, Zenon
<1>5. /\ s2c' \in Seq(ToClientPacket) /\ Len(s2c) \in Nat /\ Len(s2c') = Len(s2c) + 1
      /\ \A i \in 1 .. Len(s2c) : s2c'[i] = s2c[i]
      /\ s2c'[Len(s2c) + 1].q = srv.q
  <2>1. Packet(m, srv.q) \in ToClientPacket /\ Packet(m, srv.q).q = srv.q
    BY <1>2, Zenon DEF Packet, ToClientPacket
  <2> QED BY <1>2, <1>3, <2>1, Appending
<1>6. Types' /\ Control' /\ Callbacks'
  <2>1. produced' \in Nat
    BY Zenon DEF SayStep
  <2> QED BY <1>1, <1>2, <1>4, <1>5, <2>1, ServerTypes, Zenon DEF Common
<1>7. srv.st \in Serving \cup {"greeting"} /\ next # "greeting"
      /\ (next \in Serving => srv.st \in Serving)
  BY Zenon DEF SayStep, Says, Serving
<1>8. Tags'
  <2>1. ASSUME state' # "Idle", NEW i \in 1 .. Len(s2c'), s2c'[i].m # "Pong"
        PROVE  s2c'[i].q = req'
    <3>1. i \in 1 .. Len(s2c) \/ i = Len(s2c) + 1
      BY <1>5
    <3> QED BY <1>1, <1>5, <1>7, <2>1, <3>1, Zenon DEF Common, Tags
  <2>2. ASSUME state' # "Idle"
        PROVE  /\ \A i \in 1 .. Len(c2s') : c2s'[i].m \in Starts => c2s'[i].q = req'
               /\ \A i \in 1 .. Len(out') : out'[i].m \in Starts => out'[i].q = req'
               /\ srv'.st \in Serving => srv'.q = req'
               /\ srv'.st # "greeting"
    BY <1>1, <1>4, <1>7, <2>2, Zenon DEF Common, Tags
  <2>3. Cancels(c2s)'
    BY <1>1, Zenon DEF Common, Tags, Cancels
  <2>4. ASSUME srv'.st \in Serving, NEW i \in 1 .. Len(c2s'), c2s'[i].m = "Cancel"
        PROVE  c2s'[i].q \in abandoned \cup {srv'.q}
    BY <1>1, <1>4, <1>7, <2>4, Zenon DEF Common, Tags
  <2>5. state' = "Inserting" => ~Has(out, {"Cancel"})'
    BY <1>1, Zenon DEF Common, Tags, Has
  <2> QED BY <1>1, <2>1, <2>2, <2>3, <2>4, <2>5, Zenon DEF Tags
<1> QED BY <1>1, <1>6, <1>8, Zenon DEF Common

\* A server that is gone sends and takes nothing.
LEMMA DieCommon ==
    ASSUME Common, UNCHANGED Client, ServerDies
    PROVE  Common'
<1>1. UNCHANGED <<state, out, req, c2s, s2c, produced, taken, stray, abandoned,
                  misdelivered, mixed>>
  BY Zenon DEF Client, clientVars, ServerDies
<1>2. srv' \in [st : ServerStates, q : Tag] /\ srv'.st = "closed"
  BY Zenon DEF Common, Types, ServerDies, ServerStates
<1>3. Types' /\ Control' /\ Callbacks'
  <2>1. /\ c2s' \in Seq(ToServerPacket) /\ s2c' \in Seq(ToClientPacket)
        /\ produced' \in Nat /\ taken' \in Nat
    BY <1>1, Zenon DEF Common, Types
  <2> QED BY <1>2, <2>1, ServerTypes, Zenon DEF Common
<1>4. Tags'
  BY <1>1, <1>2, Zenon DEF Common, Tags, Cancels, Has, Serving
<1> QED BY <1>1, <1>3, <1>4, Zenon DEF Common

-----------------------------------------------------------------------------
(* The stream to the server.                                               *)

\* What the server reads, says or leaves keeps the packets on their way to it
\* in an order that makes sense to it, and it does not read one it has no use
\* for.
LEMMA ServerStream ==
    ASSUME Types, Ordered(c2s), Fits(srv.st, c2s), ServerSteps \/ ServerDies
    PROVE  Ordered(c2s') /\ Fits(srv'.st, c2s') /\ srv'.st # "confused"
<1>1. c2s \in Seq(ToServerPacket) /\ srv \in [st : ServerStates, q : Tag]
  BY Zenon DEF Types
<1>2. ASSUME NEW m \in ToServer, NEW next \in ServerStates, TakeStep(m, next)
      PROVE  Ordered(c2s') /\ Fits(srv'.st, c2s')
  <2>1. c2s # <<>> /\ c2s[1].m = m /\ c2s' = Tail(c2s) /\ srv'.st = next
    <3>1. c2s # <<>> /\ Head(c2s).m = m /\ c2s' = Tail(c2s) /\ srv'.st = next
      BY <1>2, Zenon DEF TakeStep, ServerTakes
    <3> QED BY <1>1, <3>1, Taking, Zenon
  <2>2. Takes(srv.st, m, next)
    BY <1>1, <1>2, <2>1, NothingUnexpected, Zenon DEF TakeStep
  <2>3. Fits(next, Tail(c2s))
    BY <1>1, <2>1, <2>2, TailFits, Zenon DEF Takes
  <2> QED BY <1>1, <2>1, <2>3, TailOrdered, Zenon
<1>3. ASSUME NEW m \in ToClient, NEW next \in ServerStates, SayStep(m, next)
      PROVE  Ordered(c2s') /\ Fits(srv'.st, c2s')
  <2>1. c2s' = c2s /\ srv'.st = next /\ Says(srv.st, m, next)
    BY <1>1, <1>3, Zenon DEF SayStep, ServerSends
  <2>2. Fits(next, c2s)
    BY <1>1, <2>1, AnsweringFits, Zenon DEF Says
  <2> QED BY <2>1, <2>2, Zenon
<1>4. CASE ServerDies
  <2>1. c2s' = c2s /\ srv'.st = "closed"
    BY <1>1, <1>4, Zenon DEF ServerDies
  <2> QED BY <1>1, <2>1, AnsweringFits, Zenon
<1>5. Ordered(c2s') /\ Fits(srv'.st, c2s')
  BY <1>2, <1>3, <1>4, ServerMoves, Zenon
<1> QED BY <1>5, Zenon DEF Fits

-----------------------------------------------------------------------------
(* The phases of the client.                                               *)

\* How a step of the server changes the streams, given that it is not
\* confused.
Moved ==
    \/ \E m \in ToServer, next \in ServerStates :
        /\ Takes(srv.st, m, next) /\ TakeStep(m, next)
        /\ c2s # <<>> /\ c2s[1].m = m /\ c2s' = Tail(c2s) /\ srv'.st = next
        /\ m = "Ping" => s2c' = Append(s2c, Packet("Pong", None))
        /\ m # "Ping" => s2c' = s2c
    \/ \E m \in ToClient, next \in ServerStates :
        /\ Says(srv.st, m, next) /\ SayStep(m, next)
        /\ s2c' = Append(s2c, Packet(m, srv.q)) /\ srv'.st = next
        /\ UNCHANGED <<c2s, taken>>
    \/ UNCHANGED <<c2s, s2c, taken>> /\ srv'.st = "closed"

\* Every step of the server is a Moved step.
LEMMA MovedStep ==
    ASSUME Types, Ordered(c2s), Fits(srv.st, c2s), ServerSteps \/ ServerDies
    PROVE  Moved
<1>1. c2s \in Seq(ToServerPacket) /\ srv \in [st : ServerStates, q : Tag]
  BY Zenon DEF Types
<1>2. ASSUME NEW m \in ToServer, NEW next \in ServerStates, TakeStep(m, next)
      PROVE  /\ Takes(srv.st, m, next)
             /\ c2s # <<>> /\ c2s[1].m = m /\ c2s' = Tail(c2s) /\ srv'.st = next
             /\ m = "Ping" => s2c' = Append(s2c, Packet("Pong", None))
             /\ m # "Ping" => s2c' = s2c
  <2>1. c2s # <<>> /\ Head(c2s).m = m /\ c2s' = Tail(c2s) /\ srv'.st = next
    BY <1>2, Zenon DEF TakeStep, ServerTakes
  <2>2. c2s[1].m = m
    BY <1>1, <2>1, Taking, Zenon
  <2>3. Takes(srv.st, m, next)
    BY <1>1, <1>2, <2>1, <2>2, NothingUnexpected, Zenon DEF TakeStep
  <2>4. m = "Ping" => srv.st = "idle"
    BY <2>3, Zenon DEF Takes
  <2> QED BY <1>2, <2>1, <2>2, <2>3, <2>4, Zenon DEF TakeStep
<1>3. ASSUME NEW m \in ToClient, NEW next \in ServerStates, SayStep(m, next)
      PROVE  /\ Says(srv.st, m, next) /\ srv'.st = next
             /\ s2c' = Append(s2c, Packet(m, srv.q)) /\ UNCHANGED <<c2s, taken>>
  BY <1>1, <1>3, Zenon DEF SayStep, ServerSends
<1>4. CASE ServerDies
  BY <1>1, <1>4, Zenon DEF ServerDies, Moved
<1> QED BY <1>2, <1>3, <1>4, ServerMoves, Zenon DEF Moved

\* While no request is on its way the server only reads what is left of the
\* last one, and answers pings.
LEMMA QuietServer ==
    ASSUME Types, Quiet, Moved, UNCHANGED Client, Ordered(c2s), Fits(srv.st, c2s)
    PROVE  Quiet'
<1>1. UNCHANGED <<call, out>>
  BY Zenon DEF Client, clientVars
<1>2. c2s \in Seq(ToServerPacket) /\ s2c \in Seq(ToClientPacket)
  BY Zenon DEF Types
<1>3. ~Has(out, ToServer \ {"Ping"})' /\ (call' \notin {"ping", "pingError"} => Len(out') = 0)
  BY <1>1, Zenon DEF Quiet, Has
<1>4. ASSUME NEW m \in ToServer, NEW next \in ServerStates,
             Takes(srv.st, m, next), TakeStep(m, next),
             c2s # <<>>, c2s[1].m = m, c2s' = Tail(c2s), srv'.st = next,
             m = "Ping" => s2c' = Append(s2c, Packet("Pong", None)),
             m # "Ping" => s2c' = s2c
      PROVE  Quiet'
  <2>1. ~Has(c2s', Starts) /\ m \notin Starts
    BY <1>2, <1>4, HasTail, Zenon DEF Quiet
  <2>2. next \in {"idle", "skip"} /\ (next = "skip" => srv.st = "skip" /\ m # "End")
    BY <1>4, <2>1, Zenon DEF Quiet, Takes, Starts
  <2>3. next = "skip" => Has(c2s', {"End"})
    BY <1>2, <1>4, <2>2, HasTail, Zenon DEF Quiet
  <2>4. \A i \in 1 .. Len(s2c') :
            s2c'[i].m = "Pong" \/ (call \in Pinging /\ i = 1 /\ s2c'[i] = Packet("Hello", None))
    <3>1. Packet("Pong", None) \in ToClientPacket /\ Packet("Pong", None).m = "Pong"
      BY Zenon DEF Packet, ToClientPacket, ToClient, Tag
    <3>2. CASE m = "Ping"
      <4>1. \A i \in 1 .. Len(s2c') : s2c'[i].m = "Pong" \/ (i \in 1 .. Len(s2c) /\ s2c'[i] = s2c[i])
        BY <1>2, <1>4, <3>1, <3>2, Appending
      <4> QED BY <4>1, Zenon DEF Quiet
    <3>3. CASE m # "Ping"
      BY <1>4, <3>3, Zenon DEF Quiet
    <3> QED BY <3>2, <3>3, Zenon
  <2> QED BY <1>1, <1>3, <1>4, <2>1, <2>2, <2>3, <2>4, Zenon DEF Quiet, Has
<1>5. ASSUME NEW m \in ToClient, NEW next \in ServerStates, Says(srv.st, m, next),
             s2c' = Append(s2c, Packet(m, srv.q)), srv'.st = next, UNCHANGED <<c2s, taken>>
      PROVE  Quiet'
  <2>1. srv.st = "greeting" /\ next = "idle" /\ m = "Hello" /\ call \in Pinging
    BY <1>5, Zenon DEF Quiet, Says
  <2>2. Len(s2c) = 0 /\ srv.q = None
    BY <2>1, Zenon DEF Quiet
  <2>3. Packet("Hello", None) \in ToClientPacket
    BY Zenon DEF Packet, ToClientPacket, ToClient, Tag
  <2>4. Len(s2c') = 1 /\ s2c'[1] = Packet("Hello", None)
    <3>1. s2c' = Append(s2c, Packet("Hello", None))
      BY <1>5, <2>1, <2>2, Zenon
    <3>2. Len(s2c') = Len(s2c) + 1 /\ s2c'[Len(s2c) + 1] = Packet("Hello", None)
      BY <1>2, <2>3, <3>1, Appending
    <3>3. Len(s2c) + 1 = 1
      BY <2>2
    <3> QED BY <3>2, <3>3, Zenon
  <2>5. \A i \in 1 .. Len(s2c') : i = 1 /\ s2c'[i] = Packet("Hello", None)
    BY <2>4
  <2> QED BY <1>1, <1>3, <1>5, <2>1, <2>5, Zenon DEF Quiet, Has
<1>6. CASE UNCHANGED <<c2s, s2c, taken>> /\ srv'.st = "closed"
  BY <1>1, <1>3, <1>6, Zenon DEF Quiet, Has
<1> QED BY <1>4, <1>5, <1>6, Zenon DEF Moved

\* The server ends a response once, when nothing but what belongs to this
\* request is before it.
LEMMA EndsServer ==
    ASSUME Types, Ends, Moved, Fits(srv.st, c2s)
    PROVE  Ends'
<1>1. c2s \in Seq(ToServerPacket) /\ s2c \in Seq(ToClientPacket) /\ srv.q \in Tag
  BY Zenon DEF Types
<1>2. ASSUME NEW m \in ToServer, NEW next \in ServerStates, Takes(srv.st, m, next),
             c2s # <<>>, c2s[1].m = m, c2s' = Tail(c2s), srv'.st = next,
             m = "Ping" => s2c' = Append(s2c, Packet("Pong", None)),
             m # "Ping" => s2c' = s2c
      PROVE  Ends'
  <2>1. CASE ~Has(s2c, EndsResponse)
    <3>1. Packet("Pong", None) \in ToClientPacket /\ Packet("Pong", None).m \notin EndsResponse
      BY Zenon DEF Packet, ToClientPacket, ToClient, Tag, EndsResponse
    <3>2. ~Has(s2c', EndsResponse)
      BY <1>1, <1>2, <2>1, <3>1, HasAppend, Zenon
    <3> QED BY <3>2, Zenon DEF Ends, Has
  <2>2. CASE Has(s2c, EndsResponse)
    <3>1. m \notin Starts \cup {"Ping"} /\ ~Has(c2s', Starts \cup {"Ping"})
      BY <1>1, <1>2, <2>2, HasTail, Zenon DEF Ends
    <3>2. s2c' = s2c /\ next \in {"idle", "skip", "closed"}
      BY <1>2, <2>2, <3>1, Zenon DEF Ends, Takes, Starts
    <3> QED BY <1>2, <2>2, <3>1, <3>2, Zenon DEF Ends, Has
  <2> QED BY <2>1, <2>2, Zenon
<1>3. ASSUME NEW m \in ToClient, NEW next \in ServerStates, Says(srv.st, m, next),
             s2c' = Append(s2c, Packet(m, srv.q)), srv'.st = next, UNCHANGED <<c2s, taken>>
      PROVE  Ends'
  <2>1. ~Has(s2c, EndsResponse)
    BY <1>3, Zenon DEF Ends, Says
  <2>2. Packet(m, srv.q) \in ToClientPacket /\ Packet(m, srv.q).m = m
    BY <1>1, Zenon DEF Packet, ToClientPacket
  <2>3. CASE m \notin EndsResponse
    <3>1. ~Has(s2c', EndsResponse)
      BY <1>1, <1>3, <2>1, <2>2, <2>3, HasAppend
    <3> QED BY <3>1, Zenon DEF Ends, Has
  <2>4. CASE m \in EndsResponse
    <3>1. \A i \in 1 .. Len(s2c') : s2c'[i].m \in EndsResponse => i = Len(s2c')
      <4>1. /\ Len(s2c) \in Nat /\ Len(s2c') = Len(s2c) + 1
            /\ \A i \in 1 .. Len(s2c) : s2c'[i] = s2c[i]
        <5>1. s2c' = Append(s2c, Packet(m, srv.q))
          BY <1>3, Zenon
        <5> QED BY <1>1, <2>2, <5>1, Appending
      <4>2. \A i \in 1 .. Len(s2c') : i \in 1 .. Len(s2c) \/ i = Len(s2c')
        BY <4>1
      <4> QED BY <2>1, <4>1, <4>2, Zenon DEF Has
    <3>2. next \in {"idle", "skip"}
      BY <1>3, <2>4, Zenon DEF Says, EndsResponse
    <3>3. ~Has(c2s, Starts \cup {"Ping"})
      <4>1. CASE srv.st \in {"tables", "insert"}
        BY <4>1, Zenon DEF Fits
      <4>2. CASE srv.st = "header"
        BY <4>2, Zenon DEF Fits, Has, Starts
      <4>3. CASE srv.st \in {"run", "cancelled"}
        BY <4>3, Zenon DEF Fits, Has, Starts, ToServer
      <4>4. CASE srv.st \in {"sample", "finish"}
        BY <4>4 DEF Fits, Has
      <4> QED BY <1>3, <2>4, <4>1, <4>2, <4>3, <4>4, Zenon DEF Says, EndsResponse
    <3> QED BY <1>3, <3>1, <3>2, <3>3, Zenon DEF Ends, Has
  <2> QED BY <2>3, <2>4, Zenon
<1>4. CASE UNCHANGED <<c2s, s2c, taken>> /\ srv'.st = "closed"
  BY <1>4, Zenon DEF Ends, Has
<1> QED BY <1>2, <1>3, <1>4, Zenon DEF Moved

\* While a query runs.
LEMMA QueryingServer ==
    ASSUME Types, Querying, Moved, UNCHANGED Client, Ordered(c2s), Fits(srv.st, c2s)
    PROVE  Querying'
<1>1. Ends' /\ Len(out') = 0
  BY EndsServer, Zenon DEF Querying, Client, clientVars
<1>2. c2s \in Seq(ToServerPacket)
  BY Zenon DEF Types
<1>3. ASSUME NEW m \in ToServer, NEW next \in ServerStates,
             Takes(srv.st, m, next), c2s # <<>>, c2s[1].m = m, c2s' = Tail(c2s), srv'.st = next
      PROVE  Querying'
  <2>1. ~Has(c2s', {"Insert"}) /\ m # "Insert"
    BY <1>2, <1>3, HasTail, Zenon DEF Querying
  <2>2. next \in {"idle", "skip", "tables", "run", "cancelled"}
    BY <1>3, <2>1, Zenon DEF Querying, Takes
  <2>3. /\ Len(c2s) \in Nat \ {0} /\ Len(c2s') = Len(c2s) - 1
        /\ \A i \in 1 .. Len(c2s') : c2s'[i] = c2s[i + 1] /\ i + 1 \in 1 .. Len(c2s)
        /\ \A i \in 2 .. Len(c2s) : c2s[i] = c2s'[i - 1] /\ i - 1 \in 1 .. Len(c2s')
        /\ 1 \in 1 .. Len(c2s)
    BY <1>2, <1>3, Taking
  <2>4. ASSUME NEW i \in 1 .. Len(c2s'), c2s'[i].m = "Query"
        PROVE  \E k \in i .. Len(c2s') : c2s'[k].m = "End"
    <3>1. PICK k \in i + 1 .. Len(c2s) : c2s[k].m = "End"
      BY <2>3, <2>4, Zenon DEF Querying
    <3>2. k - 1 \in i .. Len(c2s') /\ c2s[k] = c2s'[k - 1]
      BY <2>3, <3>1
    <3> QED BY <3>1, <3>2, Zenon
  <2>5. next \in {"skip", "tables"} => Has(c2s', {"End"})
    <3>1. CASE m = "Query"
      <4>1. PICK k \in 1 .. Len(c2s) : c2s[k].m = "End"
        BY <1>3, <2>3, <3>1, Zenon DEF Querying
      <4>2. k \in 2 .. Len(c2s)
        BY <1>3, <2>3, <3>1, <4>1
      <4> QED BY <2>3, <4>1, <4>2, Zenon DEF Has
    <3>2. CASE m # "Query"
      <4>1. next \in {"skip", "tables"} => m # "End" /\ srv.st = next
        BY <1>3, <3>2, Zenon DEF Takes
      <4> QED BY <1>2, <1>3, <4>1, HasTail, Zenon DEF Querying
    <3> QED BY <3>1, <3>2, Zenon
  <2> QED BY <1>1, <1>3, <2>1, <2>2, <2>4, <2>5, Zenon DEF Querying, Has
<1>4. ASSUME NEW m \in ToClient, NEW next \in ServerStates, Says(srv.st, m, next),
             srv'.st = next, UNCHANGED <<c2s, taken>>
      PROVE  Querying'
  <2>1. next \in {"run", "idle"} \/ (srv.st = "tables" /\ next = "skip")
    BY <1>4, Zenon DEF Querying, Says
  <2> QED BY <1>1, <1>4, <2>1, ZenonT(30) DEF Querying, Has
<1>5. CASE UNCHANGED <<c2s, s2c, taken>> /\ srv'.st = "closed"
  BY <1>1, <1>5, Zenon DEF Querying, Has
<1> QED BY <1>3, <1>4, <1>5, Zenon DEF Moved

\* While an insert waits for its sample block.
LEMMA OpeningServer ==
    ASSUME Types, Opening, Moved, UNCHANGED Client, Ordered(c2s), Fits(srv.st, c2s)
    PROVE  Opening'
<1>1. Ends' /\ due' = 0
  BY EndsServer, Zenon DEF Opening, Client, clientVars
<1>2. c2s \in Seq(ToServerPacket) /\ s2c \in Seq(ToClientPacket) /\ srv.q \in Tag
  BY Zenon DEF Types
<1>3. ASSUME NEW m \in ToServer, NEW next \in ServerStates,
             Takes(srv.st, m, next), TakeStep(m, next),
             c2s # <<>>, c2s[1].m = m, c2s' = Tail(c2s), srv'.st = next,
             m = "Ping" => s2c' = Append(s2c, Packet("Pong", None)),
             m # "Ping" => s2c' = s2c
      PROVE  Opening'
  <2>1. ~Has(c2s', {"Query"}) /\ m # "Query"
    BY <1>2, <1>3, HasTail, Zenon DEF Opening
  <2>2. Len(c2s) # 0
    BY <1>2, <1>3, Taking, Zenon
  <2>3. next \in {"idle", "skip", "header", "sample"}
    BY <1>3, <2>1, <2>2, Zenon DEF Opening, Takes
  <2>4. ~Has(s2c', {"Data"}) /\ ~Has(s2c', {"EndOfStream"})
    <3>1. Packet("Pong", None) \in ToClientPacket /\ Packet("Pong", None).m = "Pong"
      BY Zenon DEF Packet, ToClientPacket, ToClient, Tag
    <3>2. ~Has(s2c, {"Data"}) /\ ~Has(s2c, {"EndOfStream"})
      BY <2>2, Zenon DEF Opening
    <3>3. CASE m = "Ping"
      <4>1. s2c' = Append(s2c, Packet("Pong", None))
        BY <1>3, <3>3, Zenon
      <4> QED BY <1>2, <3>1, <3>2, <4>1, HasAppend, Zenon
    <3> QED BY <1>3, <3>2, <3>3, Zenon
  <2>5. next \in {"header", "sample"} => taken' = 0
    BY <1>3, Zenon DEF Takes, TakeStep, Opening
  <2> QED BY <1>1, <1>3, <2>1, <2>3, <2>4, <2>5, Zenon DEF Opening, Has
<1>4. ASSUME NEW m \in ToClient, NEW next \in ServerStates, Says(srv.st, m, next),
             s2c' = Append(s2c, Packet(m, srv.q)), srv'.st = next, UNCHANGED <<c2s, taken>>
      PROVE  Opening'
  <2>1. Packet(m, srv.q) \in ToClientPacket /\ Packet(m, srv.q).m = m
    BY <1>2, Zenon DEF Packet, ToClientPacket
  <2>2. /\ Has(s2c', {"Data"}) => Has(s2c, {"Data"}) \/ m = "Data"
        /\ Has(s2c', {"EndOfStream"}) => Has(s2c, {"EndOfStream"}) \/ m = "EndOfStream"
    BY <1>2, <1>4, <2>1, HasAppend, Zenon
  <2>3. m # "EndOfStream" /\ srv.st \in {"header", "sample", "insert"}
    BY <1>4, Zenon DEF Opening, Says
  <2>4. next \in {"sample", "insert", "skip", "idle"}
    BY <1>4, <2>3, Zenon DEF Says
  <2>5. m = "Data" => srv.st = "sample" /\ next = "insert" /\ Len(c2s) = 0
    BY <1>4, <2>3, Zenon DEF Says, Fits
  <2>6. next = "insert" => Len(c2s) = 0
    BY <1>4, <2>3, Zenon DEF Says, Fits
  <2>7. Has(s2c, {"Data"}) => next = "skip" /\ Len(c2s) = 0
    BY <1>4, <2>3, Zenon DEF Opening, Says
  <2> QED BY <1>1, <1>4, <2>2, <2>3, <2>4, <2>5, <2>6, <2>7, Zenon DEF Opening, Has
<1>5. CASE UNCHANGED <<c2s, s2c, taken>> /\ srv'.st = "closed"
  BY <1>1, <1>5, Zenon DEF Opening, Has
<1> QED BY <1>3, <1>4, <1>5, Zenon DEF Moved

\* While an insert sends its blocks, and until its end.
LEMMA InsertingServer ==
    ASSUME Types, Inserting, Moved, UNCHANGED Client, Ordered(c2s), Fits(srv.st, c2s)
    PROVE  Inserting'
<1>1. Ends' /\ UNCHANGED <<call, sent, due, cut>>
  BY EndsServer, Zenon DEF Inserting, Client, clientVars
<1>2. /\ c2s \in Seq(ToServerPacket) /\ s2c \in Seq(ToClientPacket) /\ srv.q \in Tag
      /\ taken \in Nat /\ due \in Nat
  BY Zenon DEF Types, TypeOK
<1>3. ASSUME NEW m \in ToServer, NEW next \in ServerStates,
             Takes(srv.st, m, next), TakeStep(m, next),
             c2s # <<>>, c2s[1].m = m, c2s' = Tail(c2s), srv'.st = next,
             m = "Ping" => s2c' = Append(s2c, Packet("Pong", None)),
             m # "Ping" => s2c' = s2c
      PROVE  Inserting'
  <2>1. ~Has(c2s', Starts \cup {"Ping"}) /\ m \notin Starts \cup {"Ping"}
    BY <1>2, <1>3, HasTail, ZenonT(30) DEF Inserting
  <2>2. s2c' = s2c /\ next \in {"idle", "skip", "insert", "finish"}
    BY <1>3, <2>1, Zenon DEF Inserting, Takes, Starts
  <2>3. /\ Len(c2s) \in Nat \ {0} /\ Len(c2s') = Len(c2s) - 1
        /\ \A i \in 1 .. Len(c2s') : c2s'[i] = c2s[i + 1] /\ i + 1 \in 1 .. Len(c2s)
        /\ \A i \in 2 .. Len(c2s) : c2s[i] = c2s'[i - 1] /\ i - 1 \in 1 .. Len(c2s')
        /\ 1 \in 1 .. Len(c2s)
    <3>1. /\ Len(c2s) \in Nat \ {0} /\ Len(c2s') = Len(c2s) - 1
          /\ \A i \in 1 .. Len(c2s) - 1 : c2s'[i] = c2s[i + 1]
          /\ \A i \in 2 .. Len(c2s) : c2s[i] = c2s'[i - 1]
      BY <1>2, <1>3, Taking, Zenon
    <3> QED BY <3>1, Shifts, Zenon
  <2>4. ~Has(s2c', {"EndOfStream"})
    BY <2>2, <2>3, Zenon DEF Inserting
  <2>5. ~Has(c2s, {"End"}) => ~Has(c2s', {"End"}) /\ m # "End"
    BY <1>2, <1>3, HasTail, Zenon
  <2>6. call = "idle" => next \in {"insert", "skip"} /\ ~Has(c2s', {"End"})
    BY <1>3, <2>5, Zenon DEF Inserting, Takes
  <2>7. call = "EndInsert" /\ next \in {"insert", "skip"} => Has(c2s', {"End"})
    <3>1. next \in {"insert", "skip"} => m # "End" /\ srv.st = next
      BY <1>3, Zenon DEF Takes
    <3> QED BY <1>2, <1>3, <3>1, HasTail, Zenon DEF Inserting
  <2>8. \A i \in 1 .. Len(c2s') : c2s'[i].m # "Cancel"
    <3>1. ASSUME NEW i \in 1 .. Len(c2s') PROVE c2s'[i].m # "Cancel"
      <4>1. c2s'[i] = c2s[i + 1] /\ i + 1 \in 1 .. Len(c2s)
        BY <2>3, Zenon
      <4>2. i + 1 # 1
        OBVIOUS
      <4> QED BY <4>1, <4>2, Zenon DEF Inserting
    <3> QED BY <3>1, Zenon
  <2>9. ASSUME next = "insert"
        PROVE  taken' + Len(c2s') = due + Lead(c2s') + Marker(c2s')
    <3>1. srv.st = "insert" /\ m \in {"Data", "Cancel"}
      BY <1>3, <2>9, Zenon DEF Takes
    <3>2. taken + Len(c2s) = due + Lead(c2s) + Marker(c2s)
      BY <3>1, Zenon DEF Inserting
    <3>4. Lead(c2s') = 0
      BY <2>3, <2>8 DEF Lead
    <3>5. Marker(c2s') = Marker(c2s) /\ Marker(c2s) \in 0 .. 1
      <4>1. CASE Len(c2s) = 1
        BY <1>3, <2>3, <3>1, <4>1 DEF Marker
      <4>2. CASE Len(c2s) > 1
        <5>1. c2s[Len(c2s)] = c2s'[Len(c2s')]
          BY <2>3, <4>2
        <5> QED BY <2>3, <4>2, <5>1 DEF Marker
      <4> QED BY <2>3, <4>1, <4>2
    <3>6. CASE m = "Data"
      <4>1. Lead(c2s) = 0 /\ taken' = taken + 1
        BY <1>3, <3>1, <3>6, Zenon DEF Lead, TakeStep
      <4> QED BY <1>2, <2>3, <3>2, <3>4, <3>5, <4>1
    <3>7. CASE m = "Cancel"
      <4>1. Lead(c2s) = 1
        <5>1. c2s[1].m = "Cancel"
          BY <1>3, <3>7, Zenon
        <5> QED BY <2>3, <5>1 DEF Lead
      <4>2. taken' = taken
        BY <1>3, <2>9, <3>1, <3>7, Zenon DEF TakeStep
      <4> QED BY <1>2, <2>3, <3>2, <3>4, <3>5, <4>1, <4>2
    <3> QED BY <3>1, <3>6, <3>7, Zenon
  <2>10. next = "finish" => taken' = due
    <3>1. ASSUME next = "finish" PROVE taken' = due
      <4>1. srv.st = "insert" /\ m = "End" /\ taken' = taken
        BY <1>3, <3>1, Zenon DEF Takes, TakeStep
      <4>2. Len(c2s) = 1
        BY <1>3, <2>3, <4>1, Zenon DEF Fits
      <4>3. Lead(c2s) = 0 /\ Marker(c2s) = 1
        <5>1. c2s[1].m = "End"
          BY <1>3, <4>1, Zenon
        <5> QED BY <4>2, <5>1 DEF Lead, Marker
      <4>4. taken + Len(c2s) = due + Lead(c2s) + Marker(c2s)
        BY <4>1, Zenon DEF Inserting
      <4> QED BY <1>2, <4>1, <4>2, <4>3, <4>4
    <3> QED BY <3>1, Zenon
  <2> QED BY <1>1, <1>3, <2>1, <2>2, <2>4, <2>6, <2>7, <2>8, <2>10, <2>9, Zenon
          DEF Inserting, Has, Lead, Marker
<1>4. ASSUME NEW m \in ToClient, NEW next \in ServerStates, Says(srv.st, m, next),
             s2c' = Append(s2c, Packet(m, srv.q)), srv'.st = next, UNCHANGED <<c2s, taken>>
      PROVE  Inserting'
  <2>1. Packet(m, srv.q) \in ToClientPacket /\ Packet(m, srv.q).m = m
    BY <1>2, Zenon DEF Packet, ToClientPacket
  <2>2. Has(s2c', {"EndOfStream"}) => Has(s2c, {"EndOfStream"}) \/ m = "EndOfStream"
    BY <1>2, <1>4, <2>1, HasAppend, Zenon
  <2>3. \/ srv.st = "insert" /\ m = "Exception" /\ next = "skip"
        \/ srv.st = "finish" /\ next = "idle" /\ call # "idle" /\ Len(c2s) = 0
    BY <1>4, Zenon DEF Inserting, Says, Fits
  <2> QED BY <1>1, <1>4, <2>2, <2>3, Zenon DEF Inserting, Has
<1>5. CASE UNCHANGED <<c2s, s2c, taken>> /\ srv'.st = "closed"
  BY <1>1, <1>5, Zenon DEF Inserting, Has
<1> QED BY <1>3, <1>4, <1>5, Zenon DEF Moved

-----------------------------------------------------------------------------
(* A connection on which a block has ended an insert.                      *)

\* What is written behind the packets does not help the server.
LEMMA DeadExtends ==
    ASSUME NEW c \in Seq(ToServerPacket), NEW d \in Seq(ToServerPacket), Extends(d, c),
           NEW st, Dead(st, c)
    PROVE  Dead(st, d)
<1>1. CASE st \in {"confused", "closed"}
  BY <1>1, Zenon DEF Dead
<1>2. CASE st \notin {"confused", "closed"}
  <2>1. PICK j \in 1 .. Len(c) :
            /\ c[j].m \in Blocks
            /\ \A k \in 1 .. j : c[k].m \in Blocks \cup {"Cancel"}
            /\ st \in {"skip", "insert"} => \E i \in 1 .. j - 1 : c[i].m = "End"
    BY <1>2, Zenon DEF Dead
  <2>2. j \in 1 .. Len(d) /\ \A k \in 1 .. j : d[k] = c[k]
    <3>1. \A k \in 1 .. j : k \in 1 .. Len(c)
      OBVIOUS
    <3>2. j \in 1 .. Len(d)
      BY DEF Extends
    <3> QED BY <3>1, <3>2, Zenon DEF Extends
  <2>3. j \in 1 .. j /\ \A i \in 1 .. j - 1 : i \in 1 .. j
    OBVIOUS
  <2>4. d[j].m \in Blocks /\ \A k \in 1 .. j : d[k].m \in Blocks \cup {"Cancel"}
    BY <2>1, <2>2, <2>3, Zenon
  <2>5. st \in {"skip", "insert"} => \E i \in 1 .. j - 1 : d[i].m = "End"
    BY <2>1, <2>2, <2>3, Zenon
  <2>6. st \in {"idle", "skip", "insert", "finish"}
    BY <1>2, Zenon DEF Dead
  <2> QED BY <2>2, <2>4, <2>5, <2>6, Zenon DEF Dead
<1> QED BY <1>1, <1>2, Zenon

\* Nor does it get around it by what it takes.
LEMMA DeadTake ==
    ASSUME NEW c \in Seq(ToServerPacket), c # <<>>, NEW st, NEW next, Dead(st, c),
           Takes(st, c[1].m, next)
    PROVE  Dead(next, Tail(c)) /\ c[1].m \in Blocks \cup {"Cancel"}
<1> DEFINE t == Tail(c)
<1>1. /\ Len(c) \in Nat \ {0} /\ Len(t) = Len(c) - 1
      /\ \A i \in 2 .. Len(c) : c[i] = t[i - 1]
  BY Taking, Zenon
<1> HIDE DEF t
<1>2. st \in {"idle", "skip", "insert"}
  BY Zenon DEF Dead, Takes
<1>3. PICK j \in 1 .. Len(c) :
          /\ c[j].m \in Blocks
          /\ \A k \in 1 .. j : c[k].m \in Blocks \cup {"Cancel"}
          /\ st \in {"skip", "insert"} => \E i \in 1 .. j - 1 : c[i].m = "End"
  BY <1>2, Zenon DEF Dead
<1>4. c[1].m \in Blocks \cup {"Cancel"}
  <2>1. 1 \in 1 .. j
    OBVIOUS
  <2> QED BY <1>3, <2>1, Zenon
<1>5. ASSUME j # 1
      PROVE  /\ j - 1 \in 1 .. Len(t) /\ t[j - 1].m \in Blocks
             /\ \A k \in 1 .. j - 1 : t[k].m \in Blocks \cup {"Cancel"}
  <2>1. /\ j - 1 \in 1 .. Len(t) /\ j \in 2 .. Len(c)
        /\ \A k \in 1 .. j - 1 : k + 1 \in 1 .. j /\ k + 1 \in 2 .. Len(c) /\ k + 1 - 1 = k
    BY <1>1, <1>5
  <2>2. t[j - 1].m \in Blocks
    BY <1>1, <1>3, <2>1, Zenon
  <2>3. ASSUME NEW k \in 1 .. j - 1 PROVE t[k].m \in Blocks \cup {"Cancel"}
    <3>1. k + 1 \in 1 .. j /\ k + 1 \in 2 .. Len(c) /\ k + 1 - 1 = k
      BY <2>1, Zenon
    <3>2. c[k + 1] = t[k]
      BY <1>1, <3>1
    <3> QED BY <1>3, <3>1, <3>2, Zenon
  <2>4. \A k \in 1 .. j - 1 : t[k].m \in Blocks \cup {"Cancel"}
    BY <2>3, Zenon
  <2> QED BY <2>1, <2>2, <2>4, Zenon
<1>6. CASE st = "idle"
  <2>1. c[1].m = "Cancel" /\ next = "idle"
    BY <1>4, <1>6, Zenon DEF Takes, Blocks
  <2>2. j # 1
    BY <1>3, <2>1, Zenon DEF Blocks
  <2> QED BY <1>4, <1>5, <2>1, <2>2, Zenon DEF Dead, t
<1>7. CASE st \in {"skip", "insert"}
  <2>1. PICK i \in 1 .. j - 1 : c[i].m = "End"
    BY <1>3, <1>7, Zenon
  <2>2. j # 1
    BY <1>1
  <2>3. CASE c[1].m = "End"
    <3>1. next \in {"idle", "finish"}
      BY <1>7, <2>3, Zenon DEF Takes
    <3> QED BY <1>4, <1>5, <2>2, <3>1, Zenon DEF Dead, t
  <2>4. CASE c[1].m # "End"
    <3>1. next = st
      <4>1. c[1].m \in {"Data", "Cancel"}
        BY <1>4, <2>4, Zenon DEF Blocks
      <4> QED BY <1>7, <4>1 DEF Takes
    <3>2. i # 1
      BY <2>1, <2>4, Zenon
    <3>3. i - 1 \in 1 .. (j - 1) - 1 /\ i \in 2 .. Len(c)
      BY <1>1, <3>2
    <3>4. t[i - 1].m = "End"
      BY <1>1, <2>1, <3>3, Zenon
    <3> QED BY <1>4, <1>5, <1>7, <2>2, <3>1, <3>3, <3>4, Zenon DEF Dead, t
  <2> QED BY <2>3, <2>4, Zenon
<1> QED BY <1>2, <1>6, <1>7, Zenon

\* What the server takes, and what it does to the streams when it is confused.
LEMMA TakesHead ==
    ASSUME Types, NEW m \in ToServer, NEW next \in ServerStates, TakeStep(m, next)
    PROVE  /\ c2s # <<>> /\ c2s[1].m = m /\ c2s' = Tail(c2s) /\ srv'.st = next
           /\ Takes(srv.st, m, next) \/ next = "confused"
           /\ next = "confused" =>
                 /\ s2c' = s2c /\ taken' = taken
                 /\ srv.st \in {"idle", "tables", "header", "insert", "skip"}
<1>1. c2s \in Seq(ToServerPacket)
  BY Zenon DEF Types
<1>2. c2s # <<>> /\ Head(c2s).m = m /\ c2s' = Tail(c2s) /\ srv'.st = next
  BY Zenon DEF TakeStep, ServerTakes
<1>3. c2s[1].m = m
  BY <1>1, <1>2, Taking, Zenon
<1>4. Takes(srv.st, m, next) => next # "confused"
  BY Zenon DEF Takes
<1>5. ASSUME next = "confused"
      PROVE  /\ s2c' = s2c /\ taken' = taken
             /\ srv.st \in {"idle", "tables", "header", "insert", "skip"}
  <2>1. m \in Unexpected(srv.st)
    BY <1>4, <1>5, Zenon DEF TakeStep
  <2>2. srv.st \in {"idle", "tables", "header", "insert", "skip"}
    BY <2>1, Zenon DEF Unexpected
  <2>3. srv.st = "idle" => m # "Ping"
    BY <2>1, Zenon DEF Unexpected
  <2>4. srv.st = "insert" => m # "Data"
    BY <2>1, Zenon DEF Unexpected
  <2> QED BY <1>5, <2>2, <2>3, <2>4, Zenon DEF TakeStep
<1> QED BY <1>2, <1>3, <1>5, Zenon DEF TakeStep

\* A server that is mute stays so.
LEMMA MuteServer ==
    ASSUME Types, Mute, UNCHANGED Client, ServerSteps \/ ServerDies
    PROVE  Mute'
<1>1. c2s \in Seq(ToServerPacket) /\ srv \in [st : ServerStates, q : Tag]
  BY Zenon DEF Types
<1>2. ASSUME NEW m \in ToServer, NEW next \in ServerStates, TakeStep(m, next) PROVE Mute'
  <2>1. /\ c2s # <<>> /\ c2s[1].m = m /\ c2s' = Tail(c2s) /\ srv'.st = next
        /\ Takes(srv.st, m, next) \/ next = "confused"
        /\ next = "confused" => s2c' = s2c
    BY <1>2, TakesHead, Zenon
  <2>2. CASE next = "confused"
    BY <2>1, <2>2, Zenon DEF Mute, Dead, Has
  <2>3. CASE Takes(srv.st, m, next)
    <3>1. Dead(next, c2s') /\ m \in Blocks \cup {"Cancel"}
      BY <1>1, <2>1, <2>3, DeadTake, Zenon DEF Mute
    <3>2. m # "Ping" /\ s2c' = s2c
      BY <1>2, <3>1, Zenon DEF TakeStep, Blocks
    <3>3. next \in {"idle", "skip"}
      BY <2>3, <3>1, Zenon DEF Mute, Takes, Blocks
    <3> QED BY <2>1, <3>1, <3>2, <3>3, Zenon DEF Mute, Has
  <2> QED BY <2>1, <2>2, <2>3, Zenon
<1>3. ASSUME NEW m \in ToClient, NEW next \in ServerStates, SayStep(m, next) PROVE FALSE
  BY <1>3, Zenon DEF SayStep, Says, Mute
<1>4. CASE ServerDies
  <2>1. srv'.st = "closed" /\ UNCHANGED s2c
    BY <1>1, <1>4, Zenon DEF ServerDies
  <2> QED BY <2>1, Zenon DEF Mute, Dead, Has
<1> QED BY <1>2, <1>3, <1>4, ServerMoves, Zenon

\* The server takes a packet of an insert that one of its blocks has ended.
LEMMA EndedTake ==
    ASSUME Types, Ended, UNCHANGED Client, NEW m \in ToServer, NEW next \in ServerStates,
           TakeStep(m, next)
    PROVE  Ended'
<1>1. c2s \in Seq(ToServerPacket) /\ taken \in Nat /\ due \in Nat
  BY Zenon DEF Types, TypeOK
<1>2. UNCHANGED <<call, due>>
  BY Zenon DEF Client, clientVars
<1>3. /\ c2s # <<>> /\ c2s[1].m = m /\ c2s' = Tail(c2s) /\ srv'.st = next
      /\ Takes(srv.st, m, next) \/ next = "confused"
      /\ next = "confused" => s2c' = s2c /\ taken' = taken
                              /\ srv.st \in {"idle", "tables", "header", "insert", "skip"}
  BY TakesHead, Zenon
<1>4. /\ Len(c2s) \in Nat \ {0} /\ Len(c2s') = Len(c2s) - 1
      /\ \A i \in 1 .. Len(c2s') : c2s'[i] = c2s[i + 1] /\ i + 1 \in 1 .. Len(c2s) /\ i + 1 # 1
      /\ \A i \in 2 .. Len(c2s) : c2s[i] = c2s'[i - 1] /\ i - 1 \in 1 .. Len(c2s')
      /\ 1 \in 1 .. Len(c2s)
  BY <1>1, <1>3, Taking
<1>5. \A i \in 1 .. Len(c2s') : c2s'[i].m \in Blocks \cup {"Cancel"} /\ c2s'[i].m # "Cancel"
  <2>1. ASSUME NEW i \in 1 .. Len(c2s')
        PROVE  c2s'[i].m \in Blocks \cup {"Cancel"} /\ c2s'[i].m # "Cancel"
    BY <1>4, Zenon DEF Ended
  <2> QED BY <2>1, Zenon
<1>6. m \in Blocks \cup {"Cancel"} /\ (m = "Cancel" => srv.st \in {"insert", "skip", "closed"})
  BY <1>3, <1>4, Zenon DEF Ended
<1>7. /\ Has(s2c, EndsResponse) =>
            /\ \A i \in 1 .. Len(s2c) : s2c[i].m \in EndsResponse => i = Len(s2c)
            /\ srv.st \in {"idle", "skip", "closed", "confused"}
      /\ Has(s2c, {"EndOfStream"}) => taken = due /\ Has(s2c, EndsResponse)
  BY Zenon DEF Ended, Has, EndsResponse
<1>8. CASE next = "confused"
  <2>1. s2c' = s2c /\ taken' = taken
    BY <1>3, <1>8, Zenon
  <2>2. Has(s2c', {"EndOfStream"}) => taken' = due'
    BY <1>2, <1>7, <2>1, Zenon DEF Has
  <2>3. Has(s2c', EndsResponse) =>
            \A i \in 1 .. Len(s2c') : s2c'[i].m \in EndsResponse => i = Len(s2c')
    BY <1>7, <2>1, Zenon DEF Has
  <2> QED BY <1>3, <1>5, <1>8, <2>2, <2>3, Zenon DEF Ended, Dead
<1>9. CASE Takes(srv.st, m, next)
  <2>1. /\ srv.st \in {"skip", "insert"} /\ m \in {"Data", "End", "Cancel"}
        /\ m = "End" => next = IF srv.st = "skip" THEN "idle" ELSE "finish"
        /\ m # "End" => next = srv.st
    <3>1. m \in {"Data", "End", "Cancel"}
      BY <1>6, Zenon DEF Blocks
    <3>2. srv.st \in {"skip", "insert"}
      BY <1>6, <1>9, <3>1, Zenon DEF Ended, Takes
    <3> QED BY <1>9, <3>1, <3>2, Zenon DEF Takes
  <2>2. s2c' = s2c /\ taken' = IF srv.st = "insert" /\ m = "Data" THEN taken + 1 ELSE taken
    BY <2>1, Zenon DEF TakeStep
  <2>3. next \in {"skip", "insert", "idle", "finish"}
    BY <2>1, Zenon
  <2>4. call = "idle" /\ next = "skip" => Has(c2s', {"End"})
    BY <1>1, <1>3, <2>1, HasTail, Zenon DEF Ended
  <2>5. call = "EndInsert" => Dead(next, c2s')
    BY <1>1, <1>3, <1>9, DeadTake, Zenon DEF Ended
  <2>6. Has(s2c', EndsResponse) =>
            /\ \A i \in 1 .. Len(s2c') : s2c'[i].m \in EndsResponse => i = Len(s2c')
            /\ next \in {"idle", "skip"}
    BY <1>7, <2>1, <2>2, Zenon DEF Has
  <2>7. Lead(c2s') = 0
    <3>1. Len(c2s') > 0 => 1 \in 1 .. Len(c2s')
      BY <1>4
    <3> QED BY <1>5, <3>1, Zenon DEF Lead
  <2>8. ASSUME srv.st = "insert"
        PROVE  \E i \in 1 .. Len(c2s) : EndsAt(c2s, i)
    BY <2>8, Zenon DEF Ended
  <2>9. ASSUME next = "insert"
        PROVE  \E i \in 1 .. Len(c2s') : EndsAt(c2s, i)'
    <3>1. srv.st = "insert" /\ m \in {"Data", "Cancel"}
      BY <2>1, <2>9, Zenon
    <3>2. PICK i \in 1 .. Len(c2s) : EndsAt(c2s, i)
      BY <2>8, <3>1, Zenon
    <3>3. /\ c2s[i].m = "End" /\ taken + i = due + 1 + Lead(c2s)
          /\ \A k \in 1 .. i - 1 : c2s[k].m = "Data" \/ (k = 1 /\ c2s[k].m = "Cancel")
      BY <3>2, Zenon DEF EndsAt
    <3>4. i # 1
      BY <1>3, <3>1, <3>3, Zenon
    <3>5. /\ i \in 2 .. Len(c2s) /\ i - 1 \in 1 .. Len(c2s')
          /\ \A k \in 1 .. (i - 1) - 1 : k \in 1 .. Len(c2s') /\ k + 1 \in 1 .. i - 1 /\ k + 1 # 1
      BY <1>4, <3>4
    <3>6. c2s'[i - 1].m = "End"
      BY <1>4, <3>3, <3>5, Zenon
    <3>7. \A k \in 1 .. (i - 1) - 1 : c2s'[k].m = "Data"
      <4>1. ASSUME NEW k \in 1 .. (i - 1) - 1 PROVE c2s'[k].m = "Data"
        <5>1. c2s'[k] = c2s[k + 1] /\ k + 1 \in 1 .. i - 1 /\ k + 1 # 1
          BY <1>4, <3>5, Zenon
        <5> QED BY <3>3, <5>1, Zenon
      <4> QED BY <4>1, Zenon
    <3>8. taken' + (i - 1) = due + 1 + 0
      <4>1. CASE m = "Data"
        <5>1. Lead(c2s) = 0 /\ taken' = taken + 1
          BY <1>3, <2>2, <3>1, <4>1, Zenon DEF Lead
        <5> QED BY <1>1, <3>3, <5>1
      <4>2. CASE m = "Cancel"
        <5>1. Lead(c2s) = 1
          <6>1. c2s[1].m = "Cancel" /\ Len(c2s) > 0
            BY <1>3, <1>4, <4>2
          <6> QED BY <6>1, Zenon DEF Lead
        <5>2. taken' = taken
          BY <2>2, <4>2, Zenon
        <5> QED BY <1>1, <3>3, <5>1, <5>2
      <4> QED BY <3>1, <4>1, <4>2, Zenon
    <3>9. taken' + (i - 1) = due' + 1 + Lead(c2s')
      BY <1>2, <2>7, <3>8, Zenon
    <3> QED BY <3>5, <3>6, <3>7, <3>9, Zenon DEF EndsAt, Lead
  <2>10. ASSUME next = "finish" PROVE taken' = due'
    <3>1. srv.st = "insert" /\ m = "End" /\ taken' = taken
      BY <2>1, <2>2, <2>10, Zenon
    <3>2. PICK i \in 1 .. Len(c2s) : EndsAt(c2s, i)
      BY <2>8, <3>1, Zenon
    <3>3. /\ taken + i = due + 1 + Lead(c2s)
          /\ \A k \in 1 .. i - 1 : c2s[k].m = "Data" \/ c2s[k].m = "Cancel"
      BY <3>2, Zenon DEF EndsAt
    <3>4. i = 1
      <4>1. i # 1 => 1 \in 1 .. i - 1
        OBVIOUS
      <4> QED BY <1>3, <3>1, <3>3, <4>1, Zenon
    <3>5. Lead(c2s) = 0
      BY <1>3, <3>1, Zenon DEF Lead
    <3> QED BY <1>1, <1>2, <3>1, <3>3, <3>4, <3>5
  <2>11. Has(s2c', {"EndOfStream"}) => taken' = due'
    BY <1>2, <1>7, <2>1, <2>2, Zenon DEF Has
  <2> QED BY <1>2, <1>3, <1>5, <2>3, <2>4, <2>5, <2>6, <2>9, <2>10, <2>11, Zenon DEF Ended
<1> QED BY <1>3, <1>8, <1>9, Zenon

\* A step of the server on such a connection.
LEMMA LostServer ==
    ASSUME Types, Lost, UNCHANGED Client, ServerSteps \/ ServerDies
    PROVE  Lost'
<1>1. UNCHANGED <<state, call, out, due>>
  BY Zenon DEF Client, clientVars
<1>2. /\ c2s \in Seq(ToServerPacket) /\ s2c \in Seq(ToClientPacket)
      /\ srv \in [st : ServerStates, q : Tag] /\ srv.q \in Tag
  BY Zenon DEF Types
<1>3. ~Has(c2s, Starts) => ~Has(c2s', Starts)
  <2>1. ASSUME NEW m \in ToServer, NEW next \in ServerStates, TakeStep(m, next)
        PROVE  ~Has(c2s, Starts) => ~Has(c2s', Starts)
    BY <1>2, <2>1, TakesHead, HasTail, Zenon
  <2>2. ASSUME NEW m \in ToClient, NEW next \in ServerStates, SayStep(m, next) PROVE c2s' = c2s
    BY <2>2, Zenon DEF SayStep
  <2>3. ServerDies => c2s' = c2s
    BY Zenon DEF ServerDies
  <2> QED BY <2>1, <2>2, <2>3, ServerMoves, Zenon DEF Has
<1>4. ASSUME Ended PROVE Ended'
  <2>1. ASSUME NEW m \in ToClient, NEW next \in ServerStates, SayStep(m, next) PROVE Ended'
    <3>1. /\ Says(srv.st, m, next) /\ srv'.st = next /\ UNCHANGED <<c2s, taken>>
          /\ s2c' = Append(s2c, Packet(m, srv.q))
      BY <1>2, <2>1, Zenon DEF SayStep, ServerSends
    <3>2. \/ srv.st = "insert" /\ m = "Exception" /\ next = "skip"
          \/ srv.st = "finish" /\ m \in EndsResponse /\ next = "idle"
      BY <1>4, <3>1, Zenon DEF Ended, Says, EndsResponse
    <3>3. ~Has(s2c, EndsResponse)
      BY <1>4, <3>2, Zenon DEF Ended
    <3>4. Packet(m, srv.q) \in ToClientPacket /\ Packet(m, srv.q).m = m
      BY <1>2, Zenon DEF Packet, ToClientPacket
    <3>5. \A i \in 1 .. Len(s2c') : s2c'[i].m \in EndsResponse => i = Len(s2c')
      <4>1. /\ Len(s2c) \in Nat /\ Len(s2c') = Len(s2c) + 1
            /\ \A i \in 1 .. Len(s2c) : s2c'[i] = s2c[i]
        BY <1>2, <3>1, <3>4, Appending
      <4>2. \A i \in 1 .. Len(s2c') : i \in 1 .. Len(s2c) \/ i = Len(s2c')
        BY <4>1
      <4> QED BY <3>3, <4>1, <4>2, Zenon DEF Has
    <3>6. Has(s2c', {"EndOfStream"}) => m = "EndOfStream"
      <4>1. Has(s2c', {"EndOfStream"}) => Has(s2c, {"EndOfStream"}) \/ m = "EndOfStream"
        BY <1>2, <3>1, <3>4, HasAppend, Zenon
      <4> QED BY <3>3, <4>1, Zenon DEF Has, EndsResponse
    <3>7. Has(s2c', {"EndOfStream"}) => taken' = due'
      BY <1>1, <1>4, <3>1, <3>2, <3>6, Zenon DEF Ended
    <3>8. \A i \in 1 .. Len(c2s') :
             /\ c2s'[i].m \in Blocks \cup {"Cancel"}
             /\ c2s'[i].m = "Cancel" => i = 1 /\ next = "skip"
      BY <1>4, <3>1, <3>2, Zenon DEF Ended
    <3>9. next = "skip" => Has(c2s', {"End"})
      BY <1>4, <3>1, <3>2, Zenon DEF Ended, EndsAt, Has
    <3>10. call' = "EndInsert" => Dead(next, c2s')
      <4>1. call' = "EndInsert" => Dead(srv.st, c2s)
        BY <1>1, <1>4, Zenon DEF Ended
      <4> QED BY <3>1, <3>2, <4>1, Zenon DEF Dead
    <3> QED BY <1>1, <3>1, <3>2, <3>5, <3>7, <3>8, <3>9, <3>10, Zenon DEF Ended
  <2>2. CASE ServerDies
    <3>1. srv'.st = "closed" /\ UNCHANGED <<c2s, s2c, taken>>
      BY <1>2, <2>2, Zenon DEF ServerDies
    <3> QED BY <1>1, <1>4, <3>1, Zenon DEF Ended, Dead, Has
  <2> QED BY <1>4, <2>1, <2>2, ServerMoves, EndedTake, Zenon
<1>5. IF state' = "Inserting" /\ call' \notin Inserts THEN Ended' ELSE Mute'
  BY <1>1, <1>4, MuteServer, Zenon DEF Lost
<1>6. /\ state' = "Idle" => /\ ~Has(c2s', Starts)
                            /\ ~Has(out', ToServer \ {"Ping"})
                            /\ call' \notin {"ping", "pingError"} => Len(out') = 0
      /\ state' # "Idle" => Len(out') = 0
  BY <1>1, <1>3, Zenon DEF Lost
<1> QED BY <1>5, <1>6, Zenon DEF Lost, Has

-----------------------------------------------------------------------------
(* All steps of the server.                                                *)

\* Every step of the server keeps the invariant.
LEMMA ServerStep ==
    ASSUME IInv, UNCHANGED Client, ServerSteps \/ ServerDies
    PROVE  IInv'
<1>1. UNCHANGED <<state, call, goal, out, mustReset, cut>>
  BY Zenon DEF Client, clientVars
<1>2. Common /\ Types
  BY Zenon DEF IInv, Common
<1>3. Common'
  BY <1>2, ServerMoves, TakeCommon, SayCommon, DieCommon, Zenon
<1>4. ~Broken' /\ ~cut' => Ordered(c2s') /\ Fits(srv'.st, c2s')
  BY <1>1, <1>2, ServerStream, Zenon DEF IInv, Broken
<1>5. ASSUME ~mustReset', ~cut' PROVE Phases'
  <2>1. ~mustReset /\ Ordered(c2s) /\ Fits(srv.st, c2s) /\ Phases
    BY <1>1, <1>5, Zenon DEF IInv, Broken
  <2>2. Moved
    BY <1>2, <2>1, MovedStep, Zenon
  <2>3. state' = "Idle" => Quiet'
    BY <1>1, <1>2, <2>1, <2>2, QuietServer, Zenon DEF Phases
  <2>4. state' = "Selecting" => Querying'
    BY <1>1, <1>2, <2>1, <2>2, QueryingServer, Zenon DEF Phases
  <2>5. call' \in Inserts => Opening'
    BY <1>1, <1>2, <2>1, <2>2, OpeningServer, Zenon DEF Phases
  <2>6. state' = "Inserting" /\ call' \notin Inserts => Inserting'
    BY <1>1, <1>2, <2>1, <2>2, InsertingServer, Zenon DEF Phases
  <2> QED BY <1>1, <2>1, <2>3, <2>4, <2>5, <2>6, Zenon DEF Phases
<1>6. ASSUME ~mustReset', cut' PROVE Lost'
  BY <1>1, <1>2, <1>6, LostServer, Zenon DEF IInv
<1> QED BY <1>3, <1>4, <1>5, <1>6, Zenon DEF IInv
=============================================================================
