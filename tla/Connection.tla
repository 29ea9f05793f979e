----------------------------- MODULE Connection -----------------------------
(***************************************************************************)
(* How Client::Impl chooses the endpoint it talks to: the round-robin      *)
(* iterator, ResetConnection, ResetConnectionEndpoint, CreateConnection    *)
(* and RetryGuard(Ping) of clickhouse/client.cpp.                          *)
(*                                                                         *)
(* A public call is a sequence of steps, one per attempt to connect or to  *)
(* ping.  What the network and the peer do in an attempt is an arbitrary   *)
(* outcome; the exception class the attempt ends with decides what the     *)
(* loops do next.  op, entry, tried and connects only record what          *)
(* happened; no guard of a connection step reads them (op, which also      *)
(* names the call in progress, excepted).                                  *)
(***************************************************************************)
EXTENDS Naturals

CONSTANTS Listed,       \* size of ClientOptions::endpoints as the caller set it
          HasHost,      \* ClientOptions::host is not empty
          SendRetries   \* ClientOptions::send_retries

\* modifyClientOptions puts host:port in front of the listed endpoints.
NumEndpoints == IF HasHost THEN Listed + 1 ELSE Listed

\* ValidateEndpoints refuses an empty list.
ASSUME ConnectionAssumption ==
    /\ Listed \in Nat
    /\ HasHost \in BOOLEAN
    /\ SendRetries \in Nat
    /\ NumEndpoints > 0

Endpoint == 0 .. NumEndpoints - 1
NoPeer == NumEndpoints

VARIABLES index,      \* RoundRobinEndpointsIterator::current_index
          current,    \* current_endpoint_
          socket,     \* whom socket_, input_ and output_ talk to, and whether
                      \* the handshake on them completed
          op,         \* the public call in progress, or the last one
          pc,         \* where that call is; "ready" when it has returned
          i,          \* the loop counter of the innermost retry loop
          round,      \* the loop counter of CreateConnection
          last,       \* last_endpoint
          result,     \* how the last call ended
          entry,      \* what the call found when it began
          tried,      \* the endpoints the call tried to connect to
          connects    \* how often it tried to connect

vars == <<index, current, socket, op, pc, i, round, last, result,
          entry, tried, connects>>

-----------------------------------------------------------------------------
\* How ResetConnection can end.  "refused" and "untrusted" are thrown by
\* socket_factory_->connect (std::system_error, OpenSSLError), before the
\* streams are replaced; "lost" and "rejected" by the handshake, after it
\* (std::system_error; ServerException or ProtocolError).
SystemErrors == {"refused", "lost"}
OtherErrors == {"untrusted", "rejected"}

\* Mutant: the index is not taken modulo the number of endpoints.
NoWrap(k) == k + 1

\* RoundRobinEndpointsIterator::Next
NextIndex(k) == (k + 1) % NumEndpoints

MaxAttempts == IF SendRetries = 0 THEN 1 ELSE SendRetries

\* Mutants: the loop stops one endpoint early, or one late.
LastTryEarly == i + 1 >= NumEndpoints
LastTryLate == i > NumEndpoints

\* ResetConnectionEndpoint has no endpoint left to try.
LastTry == i >= NumEndpoints

\* The connection attempts the loops of a call allow; the counter stops just
\* above.
AttemptBudget ==
    CASE op = "Client" -> NumEndpoints * MaxAttempts
      [] op = "ResetConnection" -> 1
      [] op = "ResetConnectionEndpoint" -> NumEndpoints
      [] op = "RetryGuard" ->
            IF SendRetries = 0 THEN 0 ELSE SendRetries - 1 + NumEndpoints * SendRetries

Handshaken(e) == [peer |-> e, hello |-> TRUE]

\* Mutant: an Exception in answer to the Hello ends the handshake as a Hello.
AnyAnswer(e, outcome) ==
    /\ socket' = IF outcome \in {"refused", "untrusted"}
                 THEN socket
                 ELSE [peer |-> e, hello |-> outcome \in {"ok", "rejected"}]
    /\ tried' = tried \cup {e}
    /\ connects' = IF connects <= AttemptBudget THEN connects + 1 ELSE connects

\* ResetConnection against endpoint e: connect, InitializeStreams, Handshake.
ResetConnection(e, outcome) ==
    /\ socket' = IF outcome \in {"refused", "untrusted"}
                 THEN socket
                 ELSE [peer |-> e, hello |-> outcome = "ok"]
    /\ tried' = tried \cup {e}
    /\ connects' = IF connects <= AttemptBudget THEN connects + 1 ELSE connects

NoAttempt == UNCHANGED <<socket, tried, connects>>

\* The call ends; a constructor that throws leaves no object behind.
Return(r) ==
    /\ result' = r
    /\ pc' = IF op = "Client" /\ r # "ok" THEN "gone" ELSE "ready"
    /\ UNCHANGED <<op, entry>>

Continue == UNCHANGED <<op, result, entry>>

\* A public call begins.
Call(name, first) ==
    /\ pc = "ready"
    /\ op' = name
    /\ pc' = first
    /\ i' = 1
    /\ last' = current
    /\ entry' = [endpoint |-> current,
                 link     |-> socket,
                 live     |-> socket = Handshaken(current),
                 synced   |-> index = current]
    /\ tried' = {}
    /\ connects' = 0
    /\ result' = "none"
    /\ UNCHANGED <<index, current, socket, round>>

-----------------------------------------------------------------------------
(* ResetConnection, called by the application.                             *)

CallResetConnection == Call("ResetConnection", "once")

ResetConnectionOnce ==
    /\ pc = "once"
    /\ \E o \in {"ok"} \cup SystemErrors \cup OtherErrors :
          /\ ResetConnection(current, o)
          /\ Return(IF o = "ok" THEN "ok"
                    ELSE IF o \in SystemErrors THEN "system_error" ELSE "other")
    /\ UNCHANGED <<index, current, i, round, last>>

-----------------------------------------------------------------------------
(* ResetConnectionEndpoint, called by the application or by                *)
(* CreateConnection, which the constructor calls.                          *)

CallResetConnectionEndpoint == Call("ResetConnectionEndpoint", "reset")

EndpointConnected ==
    /\ pc = "reset"
    /\ ResetConnection(current, "ok")
    /\ Return("ok")
    /\ UNCHANGED <<index, current, i, round, last>>

\* Mutant: the loop counter is not incremented.
TryNextUncounted ==
    /\ pc = "reset"
    /\ ~LastTry
    /\ \E o \in SystemErrors : ResetConnection(current, o)
    /\ index' = NextIndex(index)
    /\ current' = NextIndex(index)
    /\ Continue
    /\ UNCHANGED <<pc, i, round, last>>

\* catch (const std::system_error&), endpoints left to try
EndpointTryNext ==
    /\ pc = "reset"
    /\ ~LastTry
    /\ \E o \in SystemErrors : ResetConnection(current, o)
    /\ index' = NextIndex(index)
    /\ current' = NextIndex(index)
    /\ i' = i + 1
    /\ Continue
    /\ UNCHANGED <<pc, round, last>>

\* catch (const std::system_error&) after the last endpoint
EndpointsExhausted ==
    /\ pc = "reset"
    /\ LastTry
    /\ \E o \in SystemErrors : ResetConnection(current, o)
    /\ index' = NextIndex(index)
    /\ current' = last
    /\ IF op = "Client" /\ round < MaxAttempts
       THEN /\ round' = round + 1
            /\ i' = 1
            /\ Continue
            /\ UNCHANGED <<pc, last>>
       ELSE /\ Return("system_error")
            /\ UNCHANGED <<i, round, last>>

\* Mutant: current_endpoint_ stays where the loop had got to.
AbortedInPlace ==
    /\ pc = "reset"
    /\ \E o \in OtherErrors : ResetConnection(current, o)
    /\ Return("other")
    /\ UNCHANGED <<index, current, i, round, last>>

\* catch (...)
EndpointAborted ==
    /\ pc = "reset"
    /\ \E o \in OtherErrors : ResetConnection(current, o)
    /\ current' = last
    /\ Return("other")
    /\ UNCHANGED <<index, i, round, last>>

-----------------------------------------------------------------------------
(* RetryGuard([this]() { Ping(); }), as the query calls make it when       *)
(* ping_before_query is set.  Only a handshaken peer answers Pong.         *)

CallRetryGuard == Call("RetryGuard", "func")

PingOk ==
    /\ pc \in {"func", "failoverFunc"}
    /\ socket.hello
    /\ Return("ok")
    /\ NoAttempt
    /\ UNCHANGED <<index, current, i, round, last>>

\* system_error with send_retries left, or none to begin with
PingFailed ==
    /\ pc = "func"
    /\ \/ SendRetries = 0 /\ Return("system_error") /\ UNCHANGED <<i, last>>
       \/ /\ SendRetries # 0
          /\ i < SendRetries
          /\ pc' = "retry"
          /\ Continue
          /\ UNCHANGED <<i, last>>
       \/ /\ SendRetries # 0
          /\ i >= SendRetries
          /\ pc' = "failover"
          /\ i' = 1
          /\ last' = current
          /\ Continue
    /\ NoAttempt
    /\ UNCHANGED <<index, current, round>>

PingAborted ==
    /\ pc = "func"
    /\ Return("other")
    /\ NoAttempt
    /\ UNCHANGED <<index, current, i, round, last>>

\* Mutant: the retry goes to the next endpoint and does not record it.
RetryElsewhere ==
    /\ pc = "retry"
    /\ \E o \in {"ok"} \cup SystemErrors : ResetConnection(NextIndex(current), o)
    /\ pc' = "func"
    /\ i' = i + 1
    /\ Continue
    /\ UNCHANGED <<index, current, round, last>>

\* sleepFor, ResetConnection; a system_error of the latter is swallowed.
RetryReconnect ==
    /\ pc = "retry"
    /\ \/ /\ \E o \in {"ok"} \cup SystemErrors : ResetConnection(current, o)
          /\ pc' = "func"
          /\ i' = i + 1
          /\ Continue
       \/ /\ \E o \in OtherErrors : ResetConnection(current, o)
          /\ Return("other")
          /\ UNCHANGED i
    /\ UNCHANGED <<index, current, round, last>>

\* One failed turn of the failover loop, which had moved on to endpoint e.
FailoverSystemError(e) ==
    IF i >= NumEndpoints * SendRetries
    THEN current' = last /\ Return("system_error") /\ UNCHANGED i
    ELSE current' = e /\ pc' = "failover" /\ i' = i + 1 /\ Continue

\* current_endpoint_ = endpoints_iterator->Next(); ResetConnection();
FailoverReconnect ==
    /\ pc = "failover"
    /\ index' = NextIndex(index)
    /\ \/ /\ ResetConnection(NextIndex(index), "ok")
          /\ current' = NextIndex(index)
          /\ pc' = "failoverFunc"
          /\ Continue
          /\ UNCHANGED i
       \/ /\ \E o \in SystemErrors : ResetConnection(NextIndex(index), o)
          /\ FailoverSystemError(NextIndex(index))
       \/ /\ \E o \in OtherErrors : ResetConnection(NextIndex(index), o)
          /\ current' = last
          /\ Return("other")
          /\ UNCHANGED i
    /\ UNCHANGED <<round, last>>

\* func() throws in the failover loop.
FailoverPingFailed ==
    /\ pc = "failoverFunc"
    /\ \/ FailoverSystemError(current)
       \/ current' = last /\ Return("other") /\ UNCHANGED i
    /\ NoAttempt
    /\ UNCHANGED <<index, round, last>>

-----------------------------------------------------------------------------
\* The constructor has taken endpoint 0 from the iterator and is about to
\* call CreateConnection.
Init ==
    /\ index = NextIndex(NumEndpoints - 1)
    /\ current = index
    /\ socket = [peer |-> NoPeer, hello |-> FALSE]
    /\ op = "Client"
    /\ pc = "reset"
    /\ i = 1
    /\ round = 1
    /\ last = current
    /\ result = "none"
    /\ entry = [endpoint |-> current, link |-> socket, live |-> FALSE, synced |-> TRUE]
    /\ tried = {}
    /\ connects = 0

Calls == CallResetConnection \/ CallResetConnectionEndpoint \/ CallRetryGuard

Steps ==
    \/ ResetConnectionOnce
    \/ EndpointConnected \/ EndpointTryNext \/ EndpointsExhausted \/ EndpointAborted
    \/ PingOk \/ PingFailed \/ PingAborted \/ RetryReconnect
    \/ FailoverReconnect \/ FailoverPingFailed

Next == Calls \/ Steps

Spec == Init /\ [][Next]_vars

\* A call that has begun keeps running: connect, send and recv return.  For a
\* silent peer that takes a timeout, which the defaults of client.h:121-123 do
\* not set.
FairSpec == Spec /\ WF_vars(Steps)

-----------------------------------------------------------------------------
Results == {"none", "ok", "system_error", "other"}
Ops == {"Client", "ResetConnection", "ResetConnectionEndpoint", "RetryGuard"}
Locations == {"ready", "gone", "once", "reset", "func", "retry", "failover", "failoverFunc"}

Link == [peer : Endpoint \cup {NoPeer}, hello : BOOLEAN]

\* Type invariant of the endpoint machinery.
TypeOK ==
    /\ index \in Endpoint
    /\ current \in Endpoint
    /\ socket \in Link
    /\ op \in Ops
    /\ pc \in Locations
    /\ i \in Nat \ {0}
    /\ round \in Nat \ {0}
    /\ last \in Endpoint
    /\ result \in Results
    /\ entry \in [endpoint : Endpoint, link : Link, live : BOOLEAN, synced : BOOLEAN]
    /\ tried \subseteq Endpoint
    /\ connects \in Nat

\* A call that failed leaves current_endpoint_ where the call found it
\* (client.cpp:632, 636, 1287, 1291), whichever loop threw.
FailedCallRestoresEndpoint ==
    pc = "ready" /\ result # "ok" => current = entry.endpoint

\* When a call returns normally the streams belong to current_endpoint_ and
\* its handshake is complete, even when RetryGuard swallowed a failed
\* ResetConnection on the way (client.cpp:1265).  A RetryGuard that never had
\* to reconnect can only promise this if it held when it was called.
OkMeansConnected ==
    pc = "ready" /\ result = "ok" /\ (op = "RetryGuard" => entry.live)
        => socket = Handshaken(current)

\* The iterator stands at current_endpoint_ after a call that returned or
\* gave up with a system_error, if it did before the call: a failed round
\* visits all endpoints and so ends where it began (client.cpp:622-640,
\* 1275-1294).
IteratorFollowsEndpoint ==
    pc = "ready" /\ result \in {"ok", "system_error"} /\ entry.synced => index = current

\* "Try to connect to each endpoint before throwing exception"
\* (client.cpp:643-649): a call that gives up with a system_error has tried
\* every endpoint.  ResetConnectionEndpoint needs the iterator in step.
EveryEndpointTried ==
    /\ pc \in {"ready", "gone"}
    /\ result = "system_error"
    /\ \/ op = "Client"
       \/ op = "RetryGuard" /\ SendRetries > 0
       \/ op = "ResetConnectionEndpoint" /\ entry.synced
    => tried = Endpoint

\* What the endpoint machinery is for an application: EndpointService.  The
\* choice and the link become visible when the call returns.
Service == INSTANCE EndpointService WITH
    Endpoints  <- Endpoint,
    NoEndpoint <- NoPeer,
    chosen     <- IF pc = "ready" THEN current ELSE entry.endpoint,
    link       <- IF pc = "ready" THEN socket ELSE entry.link,
    request    <- CASE pc = "ready" -> IF result = "ok" THEN "served" ELSE "failed"
                    [] pc = "gone" -> "gone"
                    [] OTHER -> op

\* A call of several attempts looks like one step: it chooses an endpoint and
\* leaves a handshaken link to it, or it fails and reports the endpoint it
\* found; ResetConnection keeps the endpoint either way, and of the calls that
\* fail only RetryGuard may leave a new link that is handshaken
\* (client.cpp:611-640, 1244-1295).
ImplementsService == Service!Spec

\* No call connects more often than its loops allow (client.cpp:630, 653,
\* 1257, 1285).
AttemptsBounded == connects <= AttemptBudget

\* Every call returns or throws as long as each attempt to connect, to greet or
\* to ping does, however it ends.  A peer that connects and then says nothing
\* keeps the call waiting for ever unless the application sets
\* connection_recv_timeout: the defaults of 0 never expire (client.h:121-123).
CallsReturn == pc \notin {"ready", "gone"} ~> pc \in {"ready", "gone"}

\* client.h:349 of ResetConnectionEndpoint: "Try to reconnect to different
\* endpoints one by one only one time"; client.cpp:649: "Try to connect to
\* each endpoint before throwing exception."
ReconnectTriesEachEndpoint ==
    pc = "ready" /\ op = "ResetConnectionEndpoint" /\ result = "system_error"
        => tried = Endpoint
-----------------------------------------------------------------------------
(* What the calls maintain between their steps; the invariants above follow *)
(* from these.                                                             *)

Busy == pc \notin {"ready", "gone"}

\* Which calls can be where, and how far their loops have come.
LoopInv ==
    /\ pc = "once" => op = "ResetConnection"
    /\ pc = "reset" => op \in {"Client", "ResetConnectionEndpoint"} /\ i <= NumEndpoints
    /\ pc \in {"func", "retry", "failover", "failoverFunc"} => op = "RetryGuard"
    /\ pc = "func" => i <= MaxAttempts
    /\ pc = "retry" => i < SendRetries
    /\ pc \in {"failover", "failoverFunc"} => SendRetries > 0 /\ i <= NumEndpoints * SendRetries
    /\ round <= MaxAttempts
    /\ pc = "gone" => op = "Client" /\ result # "ok"
    /\ op = "Client" => entry.synced

\* The loops can find their way back, and have, where they failed.
EndpointInv ==
    /\ Busy => last = entry.endpoint
    /\ pc \in {"once", "func", "retry"} => current = entry.endpoint
    /\ pc = "ready" /\ result # "ok" => current = entry.endpoint
    /\ op = "ResetConnection" => current = entry.endpoint

\* Whom the streams belong to where a ping may succeed.
StreamInv ==
    /\ pc \in {"func", "retry"} /\ entry.live => socket.peer = current
    /\ pc = "failoverFunc" => socket = Handshaken(current)

\* What the call in progress has made of the link it found.
LinkInv ==
    /\ pc = "once" => socket = entry.link
    /\ pc = "reset" => socket = entry.link \/ (socket.peer \in Endpoint /\ ~socket.hello)
    /\ pc \in {"func", "retry"} => socket = entry.link \/ socket.peer = current
    /\ pc = "failover" => socket = entry.link \/ socket.peer \in Endpoint

\* How far the iterator is from where the loop began.
IteratorInv ==
    /\ pc \in {"once", "func", "retry"} /\ entry.synced => index = current
    /\ pc = "reset" /\ entry.synced =>
        /\ index = current
        /\ index = last + (i - 1) \/ index = last + (i - 1) - NumEndpoints
    /\ pc = "failover" /\ entry.synced =>
        \E k \in 0 .. i - 1 : last + i - 1 = index + k * NumEndpoints
    /\ pc = "failoverFunc" => index = current
    /\ pc = "failoverFunc" /\ entry.synced =>
        \E k \in 0 .. i : last + i = index + k * NumEndpoints

\* The steps the iterator takes from endpoint e to where it stands.
Back(e) == IF e <= index THEN index - e ELSE index - e + NumEndpoints

\* The endpoints the iterator came by have been tried.
TriedInv ==
    /\ pc = "reset" /\ entry.synced =>
        \A e \in Endpoint : Back(e) \in 1 .. i - 1 => e \in tried
    /\ pc = "failover" => \A e \in Endpoint : Back(e) < i - 1 => e \in tried
    /\ pc = "failoverFunc" => \A e \in Endpoint : Back(e) < i => e \in tried

\* How many attempts each loop has made.
CountInv ==
    /\ pc = "once" => connects = 0
    /\ pc = "reset" /\ op = "ResetConnectionEndpoint" => connects <= i - 1
    /\ pc = "reset" /\ op = "Client" => connects <= (round - 1) * NumEndpoints + i - 1
    /\ pc \in {"func", "retry"} => connects <= i - 1
    /\ pc = "failover" => connects <= SendRetries - 1 + i - 1
    /\ pc = "failoverFunc" => connects <= SendRetries - 1 + i

\* The inductive invariant.
Inv ==
    /\ TypeOK /\ LoopInv /\ EndpointInv /\ StreamInv /\ LinkInv /\ IteratorInv /\ TriedInv /\ CountInv
    /\ OkMeansConnected /\ IteratorFollowsEndpoint /\ EveryEndpointTried /\ AttemptsBounded
=============================================================================
