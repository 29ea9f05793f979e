------------------------------ MODULE Session -------------------------------
(***************************************************************************)
(* The query protocol of Client::Impl (clickhouse/client.cpp): the calls   *)
(* BeginExecuteQuery, NextBlock, ExecuteQuery, SelectWithExternalData,     *)
(* Cancel, Insert, BeginInsert, SendInsertBlock, EndInsert, Ping,          *)
(* ResetConnection and the destructor, made by one application against one *)
(* server.                                                                 *)
(*                                                                         *)
(* A call blocks until the packets it waits for arrive, so the client's    *)
(* reads interleave with the server.  A packet is abstracted to its kind   *)
(* and to the request it belongs to.  The server is not part of the        *)
(* repository; it is modelled from how client.cpp uses it.                 *)
(*                                                                         *)
(* The application keeps the rule of README.md, "Retries": after an        *)
(* exception it calls ResetConnection before anything else.  Only a server *)
(* exception that ended a SELECT leaves the client usable as it is, as the *)
(* test InteractiveSelect_StateErrors (ut/client_ut.cpp) has it.           *)
(***************************************************************************)
EXTENDS Naturals, Sequences, Functions

CONSTANTS MaxRequests,        \* bound: queries and inserts the application makes
          MaxPackets,         \* bound: packets of one result before its end
          MaxBlocks,          \* bound: blocks passed to one insert
          MaxPings,           \* bound: pings RetryGuard sends for one call
          MaxCancels,         \* bound: Cancel packets for one query
          Options             \* the ClientOptions an application may choose

ASSUME SessionAssumption ==
    /\ {MaxRequests, MaxPackets, MaxBlocks, MaxPings, MaxCancels} \subseteq Nat
    /\ Options \subseteq [ping_before_query : BOOLEAN, rethrow_exceptions : BOOLEAN]

Request == 1 .. MaxRequests
None == 0

VARIABLES options,      \* options_
          state,        \* state_
          events,       \* events_: the request whose callbacks it points to, or None
          out,          \* packets still in output_ because a write failed
          call,         \* where the client is: "idle" between two calls
          goal,         \* the call in progress, or the last one
          req,          \* the last request that was started
          sent,         \* blocks the application passed to the insert
          due,          \* those it passed before one that is an end marker
          cut,          \* such a block was passed on this connection
          pings,        \* pings sent for the call in progress
          cancels,      \* Cancel packets sent for the query
          mustReset,    \* the last call threw and the application has to reset
          c2s, s2c,     \* packets on their way to the server, to the client
          srv,          \* what the server does, and for which request
          produced,     \* packets of the result it has sent
          taken,        \* blocks of the insert it has read
          abandoned,    \* requests whose callbacks were still installed when
                        \* the connection was reset
          misdelivered, \* requests whose callbacks saw a packet of another one
          stray,        \* requests whose Cancel reached another one
          mixed         \* a call consumed a packet that answers another request

clientVars == <<state, events, out, call, goal, req, sent, due, pings, cancels, mustReset>>
serverVars == <<srv, produced, taken, stray>>
vars == <<options, clientVars, serverVars, cut, c2s, s2c, abandoned, misdelivered, mixed>>

-----------------------------------------------------------------------------
Packet(m, q) == [m |-> m, q |-> q]

Inserts == {"Insert", "BeginInsert"}
Selects == {"BeginSelect", "Execute", "SelectWithExternalData"}

\* Mutant: a server exception does not end the loop.
EndsAtEosOnly == {"EndOfStream"}

\* The packets that end a response, in NextBlock and in ProcessPacket.
EndsResponse == {"Exception", "EndOfStream"}

\* Mutant: an external table without rows is sent, not skipped.
EmptyTableSent(g, q) ==
    <<Packet(IF g \in Inserts THEN "Insert" ELSE "Query", q)>>
    \o (IF g = "SelectWithExternalData" THEN <<Packet("End", q)>> ELSE <<>>)
    \o <<Packet("End", q)>>

\* SendQuery and FinalizeQuery for request q, with SendExternalData in between
\* for SelectWithExternalData: one table with rows, and one without that is
\* skipped.
StartPackets(g, q) ==
    <<Packet(IF g \in Inserts THEN "Insert" ELSE "Query", q)>>
    \o (IF g = "SelectWithExternalData" THEN <<Packet("Data", q)>> ELSE <<>>)
    \o <<Packet("End", q)>>

\* A block passed to an insert: SendData sends it as it is, and one that is
\* empty, a Block() without columns, is the end marker (client.cpp:458, 579).
Blocks == {"Data", "End"}

\* Mutant: EndInsert before SendData.
MarkerFirst(b, q) == <<Packet("End", q), Packet(b, q)>>

\* SendData(block) and the end marker of EndInsert, in Insert.
InsertPackets(b, q) == <<Packet(b, q), Packet("End", q)>>

\* The application passes block b to the insert.
Pass(b) ==
    /\ sent' = sent + 1
    /\ due' = IF b = "End" \/ cut THEN due ELSE due + 1
    /\ cut' = (cut \/ b = "End")

\* The packets are written and flushed, after what is still in the buffer.
Send(ms) == c2s' = c2s \o out \o ms /\ out' = <<>>

\* A write or a flush throws: a prefix has reached the socket; the buffer
\* keeps all it held, or the fragment that was written last.
SendFails(ms) ==
    /\ \E k \in 0 .. Len(out \o ms) - 1 : c2s' = c2s \o SubSeq(out \o ms, 1, k)
    /\ out' \in {out \o ms, <<Packet("Torn", None)>>}

\* Mutant: events_ is left pointing to the finished query.
EventsKept == state' = "Idle" /\ UNCHANGED events

ResetState == state' = "Idle" /\ events' = None

Return == call' = "idle" /\ UNCHANGED mustReset

\* The application may make a call: none is running and the object exists.
Ready == call = "idle" /\ goal # "~Client"

\* An exception leaves the call that obliges the application to reset.
Throw == call' = "idle" /\ mustReset' = TRUE

\* ~EnsureNull of BeginInsert
EnsureNull == events' = IF goal = "BeginInsert" THEN None ELSE events

\* Mutant: the input buffer of the old connection is kept.
InputKept(st) ==
    /\ c2s' = <<>> /\ UNCHANGED s2c /\ out' = <<>>
    /\ srv' = [st |-> st, q |-> None]
    /\ produced' = 0 /\ taken' = 0 /\ cut' = FALSE
    /\ UNCHANGED stray

\* InitializeStreams: new buffers and a new peer, in state st.
InitializeStreams(st) ==
    /\ c2s' = <<>> /\ s2c' = <<>> /\ out' = <<>>
    /\ srv' = [st |-> st, q |-> None]
    /\ produced' = 0 /\ taken' = 0 /\ cut' = FALSE
    /\ UNCHANGED stray

NoServerStep == UNCHANGED serverVars

\* ReceivePacket consumes the head of the stream and runs the callbacks of
\* events_ on it; Pong, Hello and what cannot be decoded reach no callback.
ReceivePacket(p) ==
    /\ s2c # <<>> /\ p = Head(s2c)
    /\ s2c' = Tail(s2c)
    /\ mixed' = (mixed \/ (p.m # "Pong" /\ p.q # (IF call = "pong" THEN None ELSE req)))
    /\ misdelivered' = IF events # None /\ p.q # events /\ p.m \notin {"Pong", "Hello", "Bad"}
                       THEN misdelivered \cup {events} ELSE misdelivered

NothingReceived == UNCHANGED <<s2c, mixed, misdelivered>>

\* ReceiveData: the OnDataCancelable callback may have a Cancel sent, on
\* behalf of the request whose callback it is.
OnDataCancelable ==
    \/ UNCHANGED <<c2s, out, cancels>>
    \/ /\ events # None /\ cancels < MaxCancels
       /\ cancels' = cancels + 1
       /\ Send(<<Packet("Cancel", events)>>)

-----------------------------------------------------------------------------
(* Starting a request.                                                     *)

\* A call is made on an idle client; with ping_before_query it pings first.
Begin(g) ==
    /\ Ready /\ state = "Idle" /\ ~mustReset
    /\ g # "Ping" => req < MaxRequests
    /\ goal' = g
    /\ events' = IF g = "BeginInsert" THEN req + 1 ELSE events
    /\ IF g = "Ping" \/ options.ping_before_query
       THEN call' = "ping" /\ pings' = 0
       ELSE call' = "start" /\ UNCHANGED pings
    /\ NoServerStep /\ NothingReceived
    /\ UNCHANGED <<state, out, req, sent, due, cut, cancels, mustReset, c2s, abandoned>>

PingSends ==
    /\ call = "ping" /\ pings < MaxPings
    /\ pings' = pings + 1
    /\ \/ Send(<<Packet("Ping", None)>>) /\ call' = "pong"
       \/ /\ out' = Append(out, Packet("Ping", None))
          /\ call' = "pingError"
          /\ UNCHANGED c2s
    /\ NoServerStep /\ NothingReceived
    /\ UNCHANGED <<state, events, goal, req, sent, due, cut, cancels, mustReset, abandoned>>

\* Pong, be it the late answer to an earlier ping, ends Ping; anything else
\* makes it throw.
PingReads ==
    /\ call = "pong"
    /\ \E p \in Range(s2c) :
        /\ ReceivePacket(p)
        /\ \/ /\ p.m = "Pong"
              /\ call' = IF goal = "Ping" THEN "idle" ELSE "start"
              /\ UNCHANGED <<events, mustReset>>
           \/ p.m # "Pong" /\ Throw /\ EnsureNull
    /\ NoServerStep
    /\ UNCHANGED <<state, out, goal, req, sent, due, cut, pings, cancels, c2s, abandoned>>

\* The answer does not come in time (system_error).
PingTimesOut ==
    /\ call = "pong"
    /\ call' = "pingError"
    /\ NoServerStep /\ NothingReceived
    /\ UNCHANGED <<state, events, out, goal, req, sent, due, cut, pings, cancels, mustReset, c2s, abandoned>>

\* RetryGuard reconnects and pings again.  The reconnect may fail before the
\* streams are replaced or in the handshake; RetryGuard swallows the error.
PingRetried ==
    /\ call = "pingError" /\ goal # "Ping" /\ pings < MaxPings
    /\ call' = "ping"
    /\ \/ /\ \E st \in {"idle", "greeting"} : InitializeStreams(st)
          /\ UNCHANGED <<mixed, misdelivered>>
       \/ NoServerStep /\ NothingReceived /\ UNCHANGED <<c2s, out, cut>>
    /\ UNCHANGED <<state, events, goal, req, sent, due, pings, cancels, mustReset, abandoned>>

\* RetryGuard gives up, or the call was Ping itself.
PingFails ==
    /\ call = "pingError"
    /\ Throw /\ EnsureNull
    /\ NoServerStep /\ NothingReceived
    /\ UNCHANGED <<state, out, goal, req, sent, due, cut, pings, cancels, c2s, abandoned>>

\* BeginExecuteQuery, and what SelectWithExternalData sends after it.
StartSelect ==
    /\ call = "start" /\ goal \in Selects
    /\ req' = req + 1
    /\ cancels' = 0
    /\ \/ /\ Send(StartPackets(goal, req + 1))
          /\ state' = "Selecting" /\ events' = req + 1
          /\ call' = IF goal = "BeginSelect" THEN "idle" ELSE "drain"
          /\ UNCHANGED mustReset
       \/ SendFails(StartPackets(goal, req + 1)) /\ ResetState /\ Throw
    /\ NoServerStep /\ NothingReceived
    /\ UNCHANGED <<goal, sent, due, cut, pings, abandoned>>

\* Insert and BeginInsert; state_ stays Inserting when they throw.
StartInsert ==
    /\ call = "start" /\ goal \in Inserts
    /\ req' = req + 1
    /\ cancels' = 0
    /\ sent' = 0 /\ due' = 0
    /\ state' = "Inserting"
    /\ \/ /\ Send(StartPackets(goal, req + 1))
          /\ call' = goal
          /\ UNCHANGED <<events, mustReset>>
       \/ SendFails(StartPackets(goal, req + 1)) /\ Throw /\ EnsureNull
    /\ NoServerStep /\ NothingReceived
    /\ UNCHANGED <<goal, cut, pings, abandoned>>

-----------------------------------------------------------------------------
(* Reading a result.                                                       *)

CallNextBlock ==
    /\ Ready /\ state = "Selecting" /\ ~mustReset
    /\ call' = "NextBlock"
    /\ NoServerStep /\ NothingReceived
    /\ UNCHANGED <<state, events, out, goal, req, sent, due, cut, pings, cancels, mustReset, c2s, abandoned>>

\* A block goes to the caller, unless the caller drains the response.
NextBlockReads ==
    /\ call \in {"NextBlock", "drain"}
    /\ \E p \in Range(s2c) :
        /\ ReceivePacket(p)
        /\ \/ /\ p.m \in {"Info", "Pong"}
              /\ UNCHANGED <<state, events, call, mustReset, c2s, out, cancels>>
           \/ /\ p.m = "Data"
              /\ OnDataCancelable
              /\ call' = IF call = "NextBlock" THEN "idle" ELSE call
              /\ UNCHANGED <<state, events, mustReset>>
           \/ /\ p.m \in EndsResponse
              /\ ResetState
              /\ Return
              /\ UNCHANGED <<c2s, out, cancels>>
    /\ NoServerStep
    /\ UNCHANGED <<goal, req, sent, due, cut, pings, abandoned>>

\* Anything but a server exception leaves NextBlock: the packet cannot be
\* decoded, a callback throws, SendCancel fails, recv times out or finds the
\* stream closed.
NextBlockThrows ==
    /\ call \in {"NextBlock", "drain"}
    /\ \/ /\ \E p \in Range(s2c) : ReceivePacket(p) /\ p.m # "Pong"
          /\ UNCHANGED <<c2s, out, cancels>>
       \/ /\ \E p \in Range(s2c) : ReceivePacket(p) /\ p.m = "Data"
          /\ cancels < MaxCancels
          /\ cancels' = cancels + 1
          /\ SendFails(<<Packet("Cancel", events)>>)
       \/ NothingReceived /\ UNCHANGED <<c2s, out, cancels>>
    /\ ResetState /\ Throw
    /\ NoServerStep
    /\ UNCHANGED <<goal, req, sent, due, cut, pings, abandoned>>

\* Mutant: Cancel does not wait for the end of the response.
CancelWithoutDrain ==
    /\ Ready /\ state = "Selecting" /\ ~mustReset /\ cancels < MaxCancels
    /\ cancels' = cancels + 1
    /\ Send(<<Packet("Cancel", req)>>) /\ ResetState /\ Return
    /\ NoServerStep /\ NothingReceived
    /\ UNCHANGED <<goal, req, sent, due, cut, pings, abandoned>>

\* Cancel: SendCancel, then NextBlock until the response ends.
CallCancel ==
    /\ Ready /\ state = "Selecting" /\ ~mustReset /\ cancels < MaxCancels
    /\ cancels' = cancels + 1
    /\ \/ Send(<<Packet("Cancel", req)>>) /\ call' = "drain" /\ UNCHANGED mustReset
       \/ SendFails(<<Packet("Cancel", req)>>) /\ Throw
    /\ NoServerStep /\ NothingReceived
    /\ UNCHANGED <<state, events, goal, req, sent, due, cut, pings, abandoned>>

-----------------------------------------------------------------------------
(* Inserting.                                                              *)

\* Insert and BeginInsert wait for the sample block.  Insert has then sent
\* its block and the end marker.
InsertReads ==
    /\ call \in Inserts
    /\ \E p \in Range(s2c) :
        /\ ReceivePacket(p)
        /\ \/ /\ p.m \in {"Info", "Pong"}
              /\ UNCHANGED <<events, call, mustReset, c2s, out, sent, due, cut, cancels>>
           \/ /\ p.m = "Data" /\ call = "BeginInsert"
              /\ Return /\ EnsureNull
              /\ UNCHANGED <<c2s, out, sent, due, cut, cancels>>
           \/ /\ p.m = "Data" /\ call = "Insert"
              /\ \E b \in Blocks :
                    /\ Pass(b)
                    /\ \/ /\ Send(InsertPackets(b, req))
                          /\ call' = "EndInsert"
                          /\ UNCHANGED <<mustReset, cancels>>
                       \/ /\ events # None /\ cancels < MaxCancels
                          /\ Send(<<Packet("Cancel", events)>> \o InsertPackets(b, req))
                          /\ cancels' = cancels + 1
                          /\ call' = "EndInsert"
                          /\ UNCHANGED mustReset
                       \/ SendFails(InsertPackets(b, req)) /\ Throw /\ UNCHANGED cancels
              /\ UNCHANGED events
           \/ /\ p.m \in EndsResponse
              /\ Throw /\ EnsureNull
              /\ UNCHANGED <<c2s, out, sent, due, cut, cancels>>
    /\ NoServerStep
    /\ UNCHANGED <<state, goal, req, pings, abandoned>>

SendInsertBlock ==
    /\ Ready /\ state = "Inserting" /\ ~mustReset /\ sent < MaxBlocks
    /\ \E b \in Blocks :
          /\ Pass(b)
          /\ \/ Send(<<Packet(b, req)>>) /\ Return
             \/ SendFails(<<Packet(b, req)>>) /\ Throw
    /\ NoServerStep /\ NothingReceived
    /\ UNCHANGED <<state, events, goal, req, pings, cancels, abandoned>>

\* EndInsert, called by the application, or by the destructor even when the
\* insert has thrown.
CallEndInsert(g) ==
    /\ Ready /\ state = "Inserting" /\ (mustReset => g = "~Client")
    /\ goal' = g
    /\ \/ Send(<<Packet("End", req)>>) /\ call' = "EndInsert" /\ UNCHANGED mustReset
       \/ SendFails(<<Packet("End", req)>>) /\ Throw
    /\ NoServerStep /\ NothingReceived
    /\ UNCHANGED <<state, events, req, sent, due, cut, pings, cancels, abandoned>>

EndInsertReads ==
    /\ call = "EndInsert"
    /\ \E p \in Range(s2c) :
        /\ ReceivePacket(p)
        /\ \/ /\ p.m = "Exception" /\ options.rethrow_exceptions
              /\ Throw
              /\ UNCHANGED state
           \/ /\ p.m \in EndsResponse /\ (p.m = "Exception" => ~options.rethrow_exceptions)
              /\ state' = "Idle"
              /\ Return
           \/ /\ p.m \notin EndsResponse \cup {"Bad"}
              /\ UNCHANGED <<state, call, mustReset>>
    /\ NoServerStep
    /\ UNCHANGED <<events, out, goal, req, sent, due, cut, pings, cancels, c2s, abandoned>>

InsertThrows ==
    /\ call \in Inserts \cup {"EndInsert"}
    /\ \/ \E p \in Range(s2c) : ReceivePacket(p) /\ p.m # "Pong"
       \/ NothingReceived
    /\ Throw /\ EnsureNull
    /\ NoServerStep
    /\ UNCHANGED <<state, out, goal, req, sent, due, cut, pings, cancels, c2s, abandoned>>

-----------------------------------------------------------------------------
(* ResetConnection.  It leaves events_ and query_ as they are.             *)

Reset(st) ==
    /\ Ready
    /\ InitializeStreams(st)
    /\ state' = "Idle"
    /\ abandoned' = abandoned \cup ({events} \ {None})
    /\ UNCHANGED <<events, call, goal, req, sent, due, pings, cancels, mixed, misdelivered>>

CallResetConnection == Reset("idle") /\ mustReset' = FALSE

\* ResetConnection throws: it cannot connect and changes nothing; or the
\* handshake fails, with no answer yet or with the server's Exception packet
\* (shown to the callbacks of events_ as well, though it answers no request).
ResetConnectionFails ==
    /\ mustReset' = TRUE
    /\ \/ \E st \in {"greeting", "closed"} : Reset(st)
       \/ /\ Ready
          /\ NoServerStep /\ NothingReceived
          /\ UNCHANGED <<state, events, out, call, goal, req, sent, due, cut, pings, cancels, c2s, abandoned>>

-----------------------------------------------------------------------------
(* The server.                                                             *)

\* It reads packet p and goes on as st.
ServerTakes(m, st) ==
    /\ c2s # <<>> /\ Head(c2s).m = m
    /\ c2s' = Tail(c2s)
    /\ srv' = [st |-> st, q |-> IF m \in {"Query", "Insert"} THEN Head(c2s).q ELSE srv.q]

ServerSends(m, st) ==
    /\ s2c' = Append(s2c, Packet(m, srv.q))
    /\ srv' = [srv EXCEPT !.st = st]

ServerIdle ==
    /\ srv.st = "idle"
    /\ \/ ServerTakes("Query", "tables") /\ UNCHANGED s2c
       \/ ServerTakes("Insert", "header") /\ UNCHANGED s2c
       \/ ServerTakes("Cancel", "idle") /\ UNCHANGED s2c
       \/ ServerTakes("Ping", "idle") /\ s2c' = Append(s2c, Packet("Pong", None))
    /\ produced' = 0 /\ taken' = 0
    /\ UNCHANGED stray

\* Up to the first end marker come the external tables of a SELECT.
ServerReadsTables ==
    /\ \/ srv.st = "tables" /\ ServerTakes("Data", "tables") /\ UNCHANGED s2c
       \/ srv.st = "tables" /\ ServerTakes("End", "run") /\ UNCHANGED s2c
       \/ srv.st = "header" /\ ServerTakes("End", "sample") /\ UNCHANGED s2c
       \/ srv.st \in {"tables", "header"} /\ ServerSends("Exception", "skip") /\ UNCHANGED c2s
    /\ UNCHANGED <<produced, taken, stray>>

\* A result, cut short by a Cancel, or the sample block of an insert.
ServerAnswers ==
    /\ \/ /\ srv.st \in {"run", "sample"} /\ produced < MaxPackets
          /\ produced' = produced + 1
          /\ \E m \in {"Info", "Bad"} \cup (IF srv.st = "run" THEN {"Data"} ELSE {}) :
                ServerSends(m, srv.st)
       \/ /\ srv.st \in {"run", "cancelled", "sample"}
          /\ ServerSends("Exception", "idle") /\ UNCHANGED produced
       \/ /\ srv.st \in {"run", "cancelled"}
          /\ ServerSends("EndOfStream", "idle") /\ UNCHANGED produced
       \/ /\ srv.st = "sample" /\ ServerSends("Data", "insert") /\ UNCHANGED produced
    /\ UNCHANGED <<c2s, taken, stray>>

ServerIsCancelled ==
    /\ srv.st \in {"run", "insert"}
    /\ ServerTakes("Cancel", IF srv.st = "run" THEN "cancelled" ELSE "insert")
    /\ stray' = IF Head(c2s).q = srv.q THEN stray ELSE stray \cup {Head(c2s).q}
    /\ UNCHANGED <<s2c, produced, taken>>

\* Blocks up to the end marker.  An insert that fails skips the rest.
ServerInserts ==
    /\ \/ srv.st = "insert" /\ ServerTakes("Data", "insert") /\ taken' = taken + 1 /\ UNCHANGED s2c
       \/ srv.st = "insert" /\ ServerTakes("End", "finish") /\ UNCHANGED <<taken, s2c>>
       \/ srv.st = "insert" /\ ServerSends("Exception", "skip") /\ UNCHANGED <<taken, c2s>>
       \/ srv.st = "finish" /\ ServerSends("Exception", "idle") /\ UNCHANGED <<taken, c2s>>
       \/ srv.st = "finish" /\ ServerSends("EndOfStream", "idle") /\ UNCHANGED <<taken, c2s>>
       \/ /\ srv.st = "skip"
          /\ ServerTakes("Data", "skip") \/ ServerTakes("Cancel", "skip")
          /\ UNCHANGED <<taken, s2c>>
       \/ srv.st = "skip" /\ ServerTakes("End", "idle") /\ UNCHANGED <<taken, s2c>>
    /\ UNCHANGED <<produced, stray>>

\* A Hello that comes after the client has stopped waiting for it.
ServerGreets ==
    /\ srv.st = "greeting"
    /\ ServerSends("Hello", "idle")
    /\ UNCHANGED <<c2s, produced, taken, stray>>

\* The packets the server has no use for in state st.
Unexpected(st) ==
    CASE st = "idle" -> {"Data", "End", "Torn"}
      [] st = "tables" -> {"Query", "Insert", "Ping", "Cancel", "Torn"}
      [] st = "header" -> {"Query", "Insert", "Ping", "Cancel", "Data", "Torn"}
      [] st \in {"insert", "skip"} -> {"Query", "Insert", "Ping", "Torn"}
      [] OTHER -> {}

\* It drops a connection on which the packets make no sense.
ServerConfused ==
    /\ \E m \in Unexpected(srv.st) : ServerTakes(m, "confused")
    /\ UNCHANGED <<s2c, produced, taken, stray>>

ServerDies ==
    /\ srv.st \notin {"closed", "confused"}
    /\ srv' = [srv EXCEPT !.st = "closed"]
    /\ UNCHANGED <<c2s, s2c, produced, taken, stray>>

-----------------------------------------------------------------------------
Init ==
    /\ options \in Options
    /\ state = "Idle" /\ events = None /\ out = <<>>
    /\ call = "idle" /\ goal = "Client"
    /\ req = 0 /\ sent = 0 /\ due = 0 /\ cut = FALSE /\ pings = 0 /\ cancels = 0
    /\ mustReset = FALSE
    /\ c2s = <<>> /\ s2c = <<>>
    /\ srv = [st |-> "idle", q |-> None]
    /\ produced = 0 /\ taken = 0
    /\ abandoned = {} /\ misdelivered = {} /\ stray = {} /\ mixed = FALSE

Calls ==
    /\ \/ \E g \in {"Ping"} \cup Selects \cup Inserts : Begin(g)
       \/ CallNextBlock \/ CallCancel
       \/ SendInsertBlock
       \/ \E g \in {"EndInsert", "~Client"} : CallEndInsert(g)
       \/ CallResetConnection \/ ResetConnectionFails
    /\ UNCHANGED options

ClientSteps ==
    /\ \/ PingSends \/ PingReads \/ PingRetried \/ PingFails
       \/ StartSelect \/ StartInsert
       \/ NextBlockReads \/ InsertReads \/ EndInsertReads
    /\ UNCHANGED options

ClientThrows ==
    /\ PingTimesOut \/ NextBlockThrows \/ InsertThrows
    /\ UNCHANGED options

ServerSteps ==
    /\ \/ ServerIdle \/ ServerReadsTables \/ ServerAnswers \/ ServerIsCancelled
       \/ ServerInserts \/ ServerGreets \/ ServerConfused
    /\ UNCHANGED <<options, clientVars, cut, abandoned, misdelivered, mixed>>

Next ==
    \/ Calls \/ ClientSteps \/ ClientThrows \/ ServerSteps
    \/ ServerDies /\ UNCHANGED <<options, clientVars, cut, abandoned, misdelivered, mixed>>

Spec == Init /\ [][Next]_vars

\* recv fails at once on a closed connection, decoding on a bad packet.
Doomed ==
    IF s2c = <<>> THEN srv.st \in {"closed", "confused"} ELSE Head(s2c).m = "Bad"

\* The client runs while it can and the server keeps working on what it was
\* sent.  No timeout is needed: by default recv waits for ever.
FairSpec ==
    /\ Spec
    /\ WF_vars(ClientSteps)
    /\ WF_vars(ClientThrows /\ Doomed)
    /\ WF_vars(ServerSteps)

-----------------------------------------------------------------------------
ToServer == {"Query", "Insert", "Data", "End", "Cancel", "Ping", "Torn"}
ToClient == {"Data", "Info", "Bad", "Exception", "EndOfStream", "Pong", "Hello"}
Tag == Request \cup {None}

\* Type invariant; NextBlock runs only while Selecting, and the insert loops
\* only while Inserting (client.cpp:383, 499, 543, 574).
TypeOK ==
    /\ state \in {"Idle", "Selecting", "Inserting"}
    /\ events \in Tag
    /\ Range(out) \cup Range(c2s) \subseteq [m : ToServer, q : Tag]
    /\ Range(s2c) \subseteq [m : ToClient, q : Tag]
    /\ call \in {"idle", "ping", "pong", "pingError", "start", "NextBlock", "drain",
                "EndInsert"} \cup Inserts
    /\ goal \in {"Client", "Ping", "EndInsert", "~Client"} \cup Selects \cup Inserts
    /\ req \in Tag /\ sent \in Nat /\ due \in Nat /\ mustReset \in BOOLEAN /\ cut \in BOOLEAN
    /\ call \in {"NextBlock", "drain"} => state = "Selecting"
    /\ call \in Inserts \cup {"EndInsert"} => state = "Inserting"

\* No call ever consumes a packet that answers another request.  Only Pong may
\* be left over: RetryGuard can ping twice on the same streams
\* (client.cpp:1265), and every reader skips a late Pong.
NoCrossTalk == ~mixed

\* Between two calls, an idle client that need not be reset has read the whole
\* response and flushed all it wrote; the server is ready for a request, or
\* will be as soon as it has skipped the tables of a failed query.  Only behind
\* an insert that one of its blocks ended, EndInsert's marker is still on its
\* way, or has made the server drop the connection (client.cpp:579).
\* At all times the state keeps its types.
IdleMeansDrained ==
    TypeOK /\ (Ready /\ state = "Idle" /\ ~mustReset =>
        /\ out = <<>>
        /\ \A p \in Range(s2c) : p.m = "Pong"
        /\ srv.st \in {"idle", "skip", "closed"} \/ (cut /\ srv.st = "confused")
        /\ \A p \in Range(c2s) :
              p.m \in {"Ping", "Cancel"} \/ srv.st \in {"skip", "closed"} \/ cut)

\* The server drops a connection because of what the client sent in two cases
\* only: the application passed an insert a block that is an end marker, which
\* Insert and SendInsertBlock do not skip as SendExternalData does
\* (client.cpp:457, 519, 570); or the destructor ended an insert that had
\* already thrown (client.cpp:353).
ServerUnderstands == srv.st = "confused" => cut \/ (goal = "~Client" /\ mustReset)

\* The callbacks of a query see packets of this query only, and a Cancel acts
\* on the query it was sent for, unless the connection was reset while they
\* were installed: ResetConnection leaves events_ alone (client.cpp:611).
OnlyAbandonedQueriesMisled == misdelivered \cup stray \subseteq abandoned

\* When the server confirms an insert it has read every block the application
\* passed, and no other, up to the first that is an end marker: the blocks
\* behind that one are lost although EndInsert succeeds (client.cpp:570).  An
\* insert that threw promises nothing: a failed flush keeps the buffer, and the
\* destructor's EndInsert flushes it again (output.cpp:82, client.cpp:354).
InsertComplete ==
    \A p \in Range(s2c) :
        p.m = "EndOfStream" /\ call = "EndInsert" /\ ~mustReset => taken = due

\* Every call returns or throws as long as the server answers or hangs up.
CallsReturn == call # "idle" ~> call = "idle"
=============================================================================
