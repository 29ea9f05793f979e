-------------------------- MODULE ConnectionProofs --------------------------
(***************************************************************************)
(* Proofs about Connection for any number of endpoints and send retries.   *)
(* Connection!Inv is inductive: one lemma per conjunct, one step per       *)
(* action.  The safety properties and the refinement of EndpointService    *)
(* follow from it.                                                         *)
(***************************************************************************)
EXTENDS Connection, Integers, TLAPS

\* ValidateEndpoints and CreateConnection leave positive bounds.
LEMMA EndpointCount == NumEndpoints \in Nat /\ NumEndpoints > 0 /\ MaxAttempts \in Nat /\ MaxAttempts > 0
BY ConnectionAssumption DEF NumEndpoints, MaxAttempts

\* RoundRobinEndpointsIterator::Next moves on by one and wraps at the end.
LEMMA NextIndexValue ==
    ASSUME NEW k \in Endpoint
    PROVE  /\ NextIndex(k) = IF k = NumEndpoints - 1 THEN 0 ELSE k + 1
           /\ NextIndex(k) \in Endpoint
<1>1. NumEndpoints \in Nat /\ NumEndpoints > 0
  BY EndpointCount, Zenon
<1>2. k \in 0 .. NumEndpoints - 1
  BY Zenon DEF Endpoint
<1>3. CASE k = NumEndpoints - 1
  BY <1>1, <1>2, <1>3 DEF NextIndex, Endpoint
<1>4. CASE k # NumEndpoints - 1
  BY <1>1, <1>2, <1>4 DEF NextIndex, Endpoint
<1> QED
  BY <1>3, <1>4, Zenon

\* The parts of an attempt keep their types.
LEMMA ResetConnectionType ==
    ASSUME TypeOK, NEW e \in Endpoint, NEW o, ResetConnection(e, o)
    PROVE  /\ socket' \in Link
           /\ tried' \subseteq Endpoint
           /\ connects' \in Nat
<1>1. connects' \in Nat
  BY DEF TypeOK, ResetConnection
<1>2. socket' \in Link
  BY Zenon DEF TypeOK, Link, ResetConnection
<1> QED
  BY <1>1, <1>2, Zenon DEF TypeOK, ResetConnection

\* The constructor starts in a well-typed state.
LEMMA TypeInit == Init => TypeOK
<1>1. NumEndpoints - 1 \in Endpoint
  BY EndpointCount DEF Endpoint
<1>2. NextIndex(NumEndpoints - 1) \in Endpoint
  BY <1>1, NextIndexValue, Zenon
<1> QED
  BY <1>2 DEF Init, TypeOK, Link, Ops, Locations, Results

\* Every step keeps the types.
LEMMA TypeStep == TypeOK /\ [Next]_vars => TypeOK'
<1> SUFFICES ASSUME TypeOK, [Next]_vars PROVE TypeOK'
  BY Zenon
<1> USE DEF Ops, Locations, Results
<1>0. NextIndex(index) \in Endpoint /\ NextIndex(index)' = NextIndex(index')
  BY NextIndexValue, Zenon DEF TypeOK, NextIndex
<1>1. ASSUME NEW name \in Ops, NEW first \in Locations, Call(name, first) PROVE TypeOK'
  BY <1>1 DEF Call, TypeOK
<1>2. CASE ResetConnectionOnce
  BY <1>2, ResetConnectionType, Zenon DEF ResetConnectionOnce, Return, TypeOK
<1>3. CASE EndpointConnected
  BY <1>3, ResetConnectionType, Zenon DEF EndpointConnected, Return, TypeOK
<1>4. CASE EndpointTryNext
  BY <1>0, <1>4, ResetConnectionType DEF EndpointTryNext, Continue, TypeOK
<1>5. CASE EndpointsExhausted
  BY <1>0, <1>5, ResetConnectionType DEF EndpointsExhausted, Return, Continue, TypeOK
<1>6. CASE EndpointAborted
  BY <1>6, ResetConnectionType, Zenon DEF EndpointAborted, Return, TypeOK
<1>7. CASE PingOk
  BY <1>7, Zenon DEF PingOk, Return, NoAttempt, TypeOK
<1>8. CASE PingFailed
  BY <1>8 DEF PingFailed, Return, Continue, NoAttempt, TypeOK
<1>9. CASE PingAborted
  BY <1>9, Zenon DEF PingAborted, Return, NoAttempt, TypeOK
<1>10. CASE RetryReconnect
  BY <1>10, ResetConnectionType DEF RetryReconnect, Return, Continue, TypeOK
<1>11. CASE FailoverReconnect
  BY <1>0, <1>11, ResetConnectionType
     DEF FailoverReconnect, FailoverSystemError, Return, Continue, TypeOK
<1>12. CASE FailoverPingFailed
  BY <1>12 DEF FailoverPingFailed, FailoverSystemError, Return, Continue, NoAttempt, TypeOK
<1>13. CASE UNCHANGED vars
  BY <1>13 DEF vars, TypeOK
<1> QED
  BY <1>1, <1>2, <1>3, <1>4, <1>5, <1>6, <1>7, <1>8, <1>9, <1>10, <1>11, <1>12, <1>13, Zenon
     DEF Next, Calls, Steps, CallResetConnection, CallResetConnectionEndpoint, CallRetryGuard

\* What the start of a call does.
LEMMA CallFacts ==
    ASSUME Calls
    PROVE  /\ pc = "ready" /\ pc' \in {"once", "reset", "func"} /\ i' = 1
           /\ op' \in {"ResetConnection", "ResetConnectionEndpoint", "RetryGuard"}
           /\ index' = index /\ current' = current /\ last' = current /\ connects' = 0
           /\ socket' = socket
           /\ entry' = [endpoint |-> current, link |-> socket, live |-> socket = Handshaken(current),
                        synced |-> index = current]
<1>1. CASE CallResetConnection
  BY <1>1, Zenon DEF CallResetConnection, Call
<1>2. CASE CallResetConnectionEndpoint
  BY <1>2, Zenon DEF CallResetConnectionEndpoint, Call
<1>3. CASE CallRetryGuard
  BY <1>3, Zenon DEF CallRetryGuard, Call
<1> QED
  BY <1>1, <1>2, <1>3, Zenon DEF Calls

\* The endpoint machinery keeps its types, the indices in range included.
THEOREM TypeCorrect == Spec => []TypeOK
BY TypeInit, TypeStep, PTL DEF Spec

\* Every loop stays within its bound.
LEMMA LoopStep == Inv /\ [Next]_vars => LoopInv'
<1> SUFFICES ASSUME Inv, [Next]_vars PROVE LoopInv'
  BY Zenon
<1>0. TypeOK /\ TypeOK'
  BY TypeStep, Zenon DEF Inv
<1>1. CASE CallResetConnection \/ CallResetConnectionEndpoint \/ CallRetryGuard
  BY <1>0, <1>1, EndpointCount, ConnectionAssumption
     DEF CallResetConnection, CallResetConnectionEndpoint, CallRetryGuard, Call, TypeOK, Inv, LoopInv, MaxAttempts
<1>2. CASE ResetConnectionOnce
  BY <1>0, <1>2, EndpointCount, ConnectionAssumption, Zenon
     DEF ResetConnectionOnce, ResetConnection, Return, Continue, TypeOK, Inv, LoopInv, MaxAttempts
<1>3. CASE EndpointConnected
  BY <1>0, <1>3, EndpointCount, ConnectionAssumption, Zenon
     DEF EndpointConnected, ResetConnection, Return, TypeOK, Inv, LoopInv, MaxAttempts
<1>4. CASE EndpointTryNext
  BY <1>0, <1>4, EndpointCount, ConnectionAssumption
     DEF EndpointTryNext, ResetConnection, Continue, LastTry, TypeOK, Inv, LoopInv, MaxAttempts
<1>5. CASE EndpointsExhausted
  BY <1>0, <1>5, EndpointCount, ConnectionAssumption
     DEF EndpointsExhausted, ResetConnection, Return, Continue, LastTry, TypeOK, Inv, LoopInv, MaxAttempts
<1>6. CASE EndpointAborted
  BY <1>0, <1>6, EndpointCount, ConnectionAssumption, Zenon
     DEF EndpointAborted, ResetConnection, Return, TypeOK, Inv, LoopInv, MaxAttempts
<1>7. CASE PingOk
  BY <1>0, <1>7, EndpointCount, ConnectionAssumption, Zenon
     DEF PingOk, Return, NoAttempt, TypeOK, Inv, LoopInv, MaxAttempts
<1>8. CASE PingFailed
  BY <1>0, <1>8, EndpointCount, ConnectionAssumption
     DEF PingFailed, Return, Continue, NoAttempt, TypeOK, Inv, LoopInv, MaxAttempts
<1>9. CASE PingAborted
  BY <1>0, <1>9, EndpointCount, ConnectionAssumption, Zenon
     DEF PingAborted, Return, NoAttempt, TypeOK, Inv, LoopInv, MaxAttempts
<1>10. CASE RetryReconnect
  BY <1>0, <1>10, EndpointCount, ConnectionAssumption
     DEF RetryReconnect, ResetConnection, Return, Continue, TypeOK, Inv, LoopInv, MaxAttempts
<1>11. CASE FailoverReconnect
  BY <1>0, <1>11, EndpointCount, ConnectionAssumption
     DEF FailoverReconnect, FailoverSystemError, ResetConnection, Return, Continue, TypeOK, Inv, LoopInv, MaxAttempts
<1>12. CASE FailoverPingFailed
  BY <1>0, <1>12, EndpointCount, ConnectionAssumption
     DEF FailoverPingFailed, FailoverSystemError, Return, Continue, NoAttempt, TypeOK, Inv, LoopInv, MaxAttempts
<1>13. CASE UNCHANGED vars
  BY <1>13, Zenon DEF vars, Inv, LoopInv, MaxAttempts
<1> QED
  BY <1>1, <1>2, <1>3, <1>4, <1>5, <1>6, <1>7, <1>8, <1>9, <1>10, <1>11, <1>12, <1>13, Zenon
     DEF Next, Calls, Steps

\* A loop that fails puts current_endpoint_ back.
LEMMA EndpointStep == Inv /\ [Next]_vars => EndpointInv'
<1> SUFFICES ASSUME Inv, [Next]_vars PROVE EndpointInv'
  BY Zenon
<1>0. TypeOK /\ TypeOK'
  BY TypeStep, Zenon DEF Inv
<1>1. CASE CallResetConnection \/ CallResetConnectionEndpoint \/ CallRetryGuard
  BY <1>0, <1>1, EndpointCount
     DEF CallResetConnection, CallResetConnectionEndpoint, CallRetryGuard, Call, TypeOK, Inv, LoopInv, EndpointInv, Busy
<1>2. CASE ResetConnectionOnce
  BY <1>0, <1>2, EndpointCount, Zenon
     DEF ResetConnectionOnce, ResetConnection, Return, Continue, TypeOK, Inv, LoopInv, EndpointInv, Busy
<1>3. CASE EndpointConnected
  BY <1>0, <1>3, EndpointCount, Zenon
     DEF EndpointConnected, ResetConnection, Return, TypeOK, Inv, LoopInv, EndpointInv, Busy
<1>4. CASE EndpointTryNext
  BY <1>0, <1>4, EndpointCount, Zenon
     DEF EndpointTryNext, ResetConnection, Continue, LastTry, TypeOK, Inv, LoopInv, EndpointInv, Busy
<1>5. CASE EndpointsExhausted
  BY <1>0, <1>5, EndpointCount, Zenon
     DEF EndpointsExhausted, ResetConnection, Return, Continue, LastTry, TypeOK, Inv, LoopInv, EndpointInv, Busy
<1>6. CASE EndpointAborted
  BY <1>0, <1>6, EndpointCount, Zenon
     DEF EndpointAborted, ResetConnection, Return, TypeOK, Inv, LoopInv, EndpointInv, Busy
<1>7. CASE PingOk
  BY <1>0, <1>7, EndpointCount, Zenon
     DEF PingOk, Return, NoAttempt, TypeOK, Inv, LoopInv, EndpointInv, Busy
<1>8. CASE PingFailed
  BY <1>0, <1>8, EndpointCount, Zenon
     DEF PingFailed, Return, Continue, NoAttempt, TypeOK, Inv, LoopInv, EndpointInv, Busy
<1>9. CASE PingAborted
  BY <1>0, <1>9, EndpointCount, Zenon
     DEF PingAborted, Return, NoAttempt, TypeOK, Inv, LoopInv, EndpointInv, Busy
<1>10. CASE RetryReconnect
  BY <1>0, <1>10, EndpointCount, Zenon
     DEF RetryReconnect, ResetConnection, Return, Continue, TypeOK, Inv, LoopInv, EndpointInv, Busy
<1>11. CASE FailoverReconnect
  BY <1>0, <1>11, EndpointCount, Zenon
     DEF FailoverReconnect, FailoverSystemError, ResetConnection, Return, Continue, TypeOK, Inv, LoopInv, EndpointInv, Busy
<1>12. CASE FailoverPingFailed
  BY <1>0, <1>12, EndpointCount, Zenon
     DEF FailoverPingFailed, FailoverSystemError, Return, Continue, NoAttempt, TypeOK, Inv, LoopInv, EndpointInv, Busy
<1>13. CASE UNCHANGED vars
  BY <1>13, Zenon DEF vars, Inv, LoopInv, EndpointInv, Busy
<1> QED
  BY <1>1, <1>2, <1>3, <1>4, <1>5, <1>6, <1>7, <1>8, <1>9, <1>10, <1>11, <1>12, <1>13, Zenon
     DEF Next, Calls, Steps

\* Where a ping may succeed the streams belong to current_endpoint_.
LEMMA StreamStep == Inv /\ [Next]_vars => StreamInv'
<1> SUFFICES ASSUME Inv, [Next]_vars PROVE StreamInv'
  BY Zenon
<1>0. TypeOK /\ TypeOK'
  BY TypeStep, Zenon DEF Inv
<1>1. CASE CallResetConnection \/ CallResetConnectionEndpoint \/ CallRetryGuard
  BY <1>0, <1>1, EndpointCount
     DEF CallResetConnection, CallResetConnectionEndpoint, CallRetryGuard, Call, TypeOK, Inv, LoopInv, EndpointInv, StreamInv, Handshaken
<1>2. CASE ResetConnectionOnce
  BY <1>0, <1>2, EndpointCount, Zenon
     DEF ResetConnectionOnce, ResetConnection, Return, Continue, TypeOK, Inv, LoopInv, EndpointInv, StreamInv, Handshaken
<1>3. CASE EndpointConnected
  BY <1>0, <1>3, EndpointCount, Zenon
     DEF EndpointConnected, ResetConnection, Return, TypeOK, Inv, LoopInv, EndpointInv, StreamInv, Handshaken
<1>4. CASE EndpointTryNext
  BY <1>0, <1>4, EndpointCount, Zenon
     DEF EndpointTryNext, ResetConnection, Continue, LastTry, TypeOK, Inv, LoopInv, EndpointInv, StreamInv, Handshaken
<1>5. CASE EndpointsExhausted
  BY <1>0, <1>5, EndpointCount, Zenon
     DEF EndpointsExhausted, ResetConnection, Return, Continue, LastTry, TypeOK, Inv, LoopInv, EndpointInv, StreamInv, Handshaken
<1>6. CASE EndpointAborted
  BY <1>0, <1>6, EndpointCount, Zenon
     DEF EndpointAborted, ResetConnection, Return, TypeOK, Inv, LoopInv, EndpointInv, StreamInv, Handshaken
<1>7. CASE PingOk
  BY <1>0, <1>7, EndpointCount, Zenon
     DEF PingOk, Return, NoAttempt, TypeOK, Inv, LoopInv, EndpointInv, StreamInv, Handshaken
<1>8. CASE PingFailed
  BY <1>0, <1>8, EndpointCount, Zenon
     DEF PingFailed, Return, Continue, NoAttempt, TypeOK, Inv, LoopInv, EndpointInv, StreamInv, Handshaken
<1>9. CASE PingAborted
  BY <1>0, <1>9, EndpointCount, Zenon
     DEF PingAborted, Return, NoAttempt, TypeOK, Inv, LoopInv, EndpointInv, StreamInv, Handshaken
<1>10. CASE RetryReconnect
  BY <1>0, <1>10, EndpointCount, SMTT(30)
     DEF RetryReconnect, ResetConnection, Return, Continue, TypeOK, Inv, LoopInv, EndpointInv, StreamInv, Handshaken
<1>11. CASE FailoverReconnect
  BY <1>0, <1>11, EndpointCount, Zenon
     DEF FailoverReconnect, FailoverSystemError, ResetConnection, Return, Continue, TypeOK, Inv, LoopInv, EndpointInv, StreamInv, Handshaken
<1>12. CASE FailoverPingFailed
  BY <1>0, <1>12, EndpointCount, Zenon
     DEF FailoverPingFailed, FailoverSystemError, Return, Continue, NoAttempt, TypeOK, Inv, LoopInv, EndpointInv, StreamInv, Handshaken
<1>13. CASE UNCHANGED vars
  BY <1>13, Zenon DEF vars, Inv, LoopInv, EndpointInv, StreamInv, Handshaken
<1> QED
  BY <1>1, <1>2, <1>3, <1>4, <1>5, <1>6, <1>7, <1>8, <1>9, <1>10, <1>11, <1>12, <1>13, Zenon
     DEF Next, Calls, Steps

\* An attempt leaves the link alone or replaces it by one to its endpoint.
LEMMA Attempted ==
  ASSUME NEW e, NEW o, ResetConnection(e, o)
  PROVE  socket' = socket \/ (socket'.peer = e /\ (socket'.hello => o = "ok"))
  BY DEF ResetConnection

\* After a call has returned none is in progress.
LEMMA Returned ==
  ASSUME NEW r, Return(r)
  PROVE  pc' \in {"ready", "gone"}
  BY DEF Return

\* Between two calls LinkInv says nothing.
LEMMA NoLink == pc' \in {"ready", "gone"} => LinkInv'
  BY DEF LinkInv

\* What a call has made of the link it found.
LEMMA LinkStep == Inv /\ [Next]_vars => LinkInv'
<1> SUFFICES ASSUME Inv, [Next]_vars PROVE LinkInv'
  BY Zenon
<1>0. LinkInv /\ StreamInv
  BY Zenon DEF Inv
<1>t. current \in Endpoint /\ index' \in Endpoint
  BY TypeStep, Zenon DEF Inv, TypeOK
<1>1. CASE CallResetConnection \/ CallResetConnectionEndpoint \/ CallRetryGuard
  BY <1>1 DEF CallResetConnection, CallResetConnectionEndpoint, CallRetryGuard, Call, LinkInv
<1>2. CASE ResetConnectionOnce
  BY <1>2, Returned, NoLink, Zenon DEF ResetConnectionOnce
<1>3. CASE EndpointConnected
  BY <1>3, Returned, NoLink, Zenon DEF EndpointConnected
<1>4. CASE EndpointTryNext
  <2>1. socket' = socket \/ (socket'.peer = current /\ ~socket'.hello)
    BY <1>4, Attempted DEF EndpointTryNext, SystemErrors
  <2> QED
    BY <1>0, <1>t, <1>4, <2>1 DEF EndpointTryNext, Continue, LinkInv
<1>5. CASE EndpointsExhausted
  <2>1. socket' = socket \/ (socket'.peer = current /\ ~socket'.hello)
    BY <1>5, Attempted DEF EndpointsExhausted, SystemErrors
  <2>2. CASE pc' \in {"ready", "gone"}
    BY <2>2, NoLink, Zenon
  <2>3. CASE pc' = pc /\ entry' = entry
    BY <1>0, <1>t, <1>5, <2>1, <2>3 DEF EndpointsExhausted, LinkInv
  <2> QED
    BY <1>5, <2>2, <2>3, Returned, Zenon DEF EndpointsExhausted, Continue
<1>6. CASE EndpointAborted
  BY <1>6, Returned, NoLink, Zenon DEF EndpointAborted
<1>7. CASE PingOk
  BY <1>7, Returned, NoLink, Zenon DEF PingOk
<1>8. CASE PingFailed
  <2>1. CASE pc' \in {"ready", "gone"}
    BY <2>1, NoLink, Zenon
  <2>2. CASE pc' \in {"retry", "failover"} /\ entry' = entry
    BY <1>0, <1>t, <1>8, <2>2 DEF PingFailed, NoAttempt, LinkInv
  <2> QED
    BY <1>8, <2>1, <2>2, Returned, Zenon DEF PingFailed, Continue
<1>9. CASE PingAborted
  BY <1>9, Returned, NoLink, Zenon DEF PingAborted
<1>10. CASE RetryReconnect
  <2>1. socket' = socket \/ socket'.peer = current
    BY <1>10, Attempted, Zenon DEF RetryReconnect
  <2>2. CASE pc' \in {"ready", "gone"}
    BY <2>2, NoLink, Zenon
  <2>3. CASE pc' = "func" /\ entry' = entry
    BY <1>0, <1>10, <2>1, <2>3 DEF RetryReconnect, LinkInv
  <2> QED
    BY <1>10, <2>2, <2>3, Returned, Zenon DEF RetryReconnect, Continue
<1>11. CASE FailoverReconnect
  <2>1. socket' = socket \/ socket'.peer = index'
    BY <1>11, Attempted, Zenon DEF FailoverReconnect
  <2>2. CASE pc' \in {"ready", "gone", "failoverFunc"}
    BY <2>2 DEF LinkInv
  <2>3. CASE pc' = "failover" /\ entry' = entry
    BY <1>0, <1>t, <1>11, <2>1, <2>3 DEF FailoverReconnect, LinkInv
  <2> QED
    BY <1>11, <2>2, <2>3, Returned, Zenon DEF FailoverReconnect, FailoverSystemError, Continue
<1>12. CASE FailoverPingFailed
  <2>1. CASE pc' \in {"ready", "gone"}
    BY <2>1, NoLink, Zenon
  <2>2. CASE pc' = "failover"
    BY <1>0, <1>t, <1>12, <2>2 DEF FailoverPingFailed, NoAttempt, StreamInv, LinkInv, Handshaken
  <2> QED
    BY <1>12, <2>1, <2>2, Returned, Zenon DEF FailoverPingFailed, FailoverSystemError
<1>13. CASE UNCHANGED vars
  BY <1>0, <1>13, Zenon DEF vars, LinkInv
<1> QED
  BY <1>1, <1>2, <1>3, <1>4, <1>5, <1>6, <1>7, <1>8, <1>9, <1>10, <1>11, <1>12, <1>13, Zenon
     DEF Next, Calls, Steps

\* A call that returns normally leaves streams that belong to current_endpoint_.
LEMMA OkStep == Inv /\ [Next]_vars => OkMeansConnected'
<1> SUFFICES ASSUME Inv, [Next]_vars PROVE OkMeansConnected'
  BY Zenon
<1>0. TypeOK /\ TypeOK'
  BY TypeStep, Zenon DEF Inv
<1>1. CASE CallResetConnection \/ CallResetConnectionEndpoint \/ CallRetryGuard
  BY <1>0, <1>1, EndpointCount, Zenon
     DEF CallResetConnection, CallResetConnectionEndpoint, CallRetryGuard, Call, TypeOK, Inv, LoopInv, EndpointInv, StreamInv, OkMeansConnected, Handshaken
<1>2. CASE ResetConnectionOnce
  BY <1>0, <1>2, EndpointCount, Zenon
     DEF ResetConnectionOnce, ResetConnection, Return, Continue, TypeOK, Inv, LoopInv, EndpointInv, StreamInv, OkMeansConnected, Handshaken
<1>3. CASE EndpointConnected
  BY <1>0, <1>3, EndpointCount, Zenon
     DEF EndpointConnected, ResetConnection, Return, TypeOK, Inv, LoopInv, EndpointInv, StreamInv, OkMeansConnected, Handshaken
<1>4. CASE EndpointTryNext
  BY <1>0, <1>4, EndpointCount, Zenon
     DEF EndpointTryNext, ResetConnection, Continue, LastTry, TypeOK, Inv, LoopInv, EndpointInv, StreamInv, OkMeansConnected, Handshaken
<1>5. CASE EndpointsExhausted
  BY <1>0, <1>5, EndpointCount, Zenon
     DEF EndpointsExhausted, ResetConnection, Return, Continue, LastTry, TypeOK, Inv, LoopInv, EndpointInv, StreamInv, OkMeansConnected, Handshaken
<1>6. CASE EndpointAborted
  BY <1>0, <1>6, EndpointCount, Zenon
     DEF EndpointAborted, ResetConnection, Return, TypeOK, Inv, LoopInv, EndpointInv, StreamInv, OkMeansConnected, Handshaken
<1>7. CASE PingOk
  <2>1. pc \in {"func", "failoverFunc"} /\ socket.hello /\ UNCHANGED <<socket, current, entry, op>>
    BY <1>7, Zenon DEF PingOk, NoAttempt, Return
  <2>2. op = "RetryGuard" /\ socket \in [peer : Endpoint \cup {NoPeer}, hello : BOOLEAN]
    BY <1>0, <2>1 DEF TypeOK, Link, Inv, LoopInv
  <2>3. entry.live => socket.peer = current
    BY <2>1 DEF Inv, StreamInv, Handshaken
  <2>4. entry.live => socket = [peer |-> current, hello |-> TRUE]
    BY <2>1, <2>2, <2>3
  <2> QED
    BY <2>1, <2>2, <2>4, Zenon DEF OkMeansConnected, Handshaken
<1>8. CASE PingFailed
  BY <1>0, <1>8, EndpointCount, Zenon
     DEF PingFailed, Return, Continue, NoAttempt, TypeOK, Inv, LoopInv, EndpointInv, StreamInv, OkMeansConnected, Handshaken
<1>9. CASE PingAborted
  BY <1>0, <1>9, EndpointCount, Zenon
     DEF PingAborted, Return, NoAttempt, TypeOK, Inv, LoopInv, EndpointInv, StreamInv, OkMeansConnected, Handshaken
<1>10. CASE RetryReconnect
  BY <1>0, <1>10, EndpointCount, Zenon
     DEF RetryReconnect, ResetConnection, Return, Continue, TypeOK, Inv, LoopInv, EndpointInv, StreamInv, OkMeansConnected, Handshaken
<1>11. CASE FailoverReconnect
  BY <1>0, <1>11, EndpointCount, Zenon
     DEF FailoverReconnect, FailoverSystemError, ResetConnection, Return, Continue, TypeOK, Inv, LoopInv, EndpointInv, StreamInv, OkMeansConnected, Handshaken
<1>12. CASE FailoverPingFailed
  BY <1>0, <1>12, EndpointCount, Zenon
     DEF FailoverPingFailed, FailoverSystemError, Return, Continue, NoAttempt, TypeOK, Inv, LoopInv, EndpointInv, StreamInv, OkMeansConnected, Handshaken
<1>13. CASE UNCHANGED vars
  BY <1>13, Zenon DEF vars, Inv, LoopInv, EndpointInv, StreamInv, OkMeansConnected, Handshaken
<1> QED
  BY <1>1, <1>2, <1>3, <1>4, <1>5, <1>6, <1>7, <1>8, <1>9, <1>10, <1>11, <1>12, <1>13, Zenon
     DEF Next, Calls, Steps

\* One turn of the iterator takes every endpoint but the new one further back.
LEMMA BackNext ==
    ASSUME TypeOK, NEW e \in Endpoint
    PROVE  /\ Back(e) \in 0 .. NumEndpoints - 1
           /\ Back(e) = 0 <=> e = index
           /\ index' = index => Back(e)' = Back(e)
           /\ index' = NextIndex(index) =>
                 Back(e)' = IF e = NextIndex(index) THEN 0 ELSE Back(e) + 1
<1> NumEndpoints \in Nat /\ NumEndpoints > 0
  BY EndpointCount, Zenon
<1> index \in Endpoint /\ NextIndex(index) \in Endpoint
  BY NextIndexValue, Zenon DEF TypeOK
<1>1. Back(e) \in 0 .. NumEndpoints - 1 /\ (Back(e) = 0 <=> e = index)
  BY DEF Back, Endpoint
<1>2. index' = index => Back(e)' = Back(e)
  BY Zenon DEF Back
<1>3. ASSUME index' = NextIndex(index)
      PROVE  Back(e)' = IF e = NextIndex(index) THEN 0 ELSE Back(e) + 1
  BY <1>3, NextIndexValue DEF Back, Endpoint
<1> QED
  BY <1>1, <1>2, <1>3, Zenon

\* The iterator leaves no untried endpoint behind.
LEMMA TriedStep == Inv /\ [Next]_vars => TriedInv'
<1> SUFFICES ASSUME Inv, [Next]_vars PROVE TriedInv'
  BY Zenon
<1>0. TypeOK /\ TypeOK'
  BY TypeStep, Zenon DEF Inv
<1>1. CASE CallResetConnection \/ CallResetConnectionEndpoint \/ CallRetryGuard
  <2>1. pc' \in {"once", "reset", "func"} /\ i' = 1
    BY <1>1, Zenon DEF CallResetConnection, CallResetConnectionEndpoint, CallRetryGuard, Call
  <2> QED
    BY <2>1 DEF TriedInv
<1>2. CASE ResetConnectionOnce
  BY <1>0, <1>2, EndpointCount, Zenon
     DEF ResetConnectionOnce, ResetConnection, Return, Continue, TypeOK, Inv, LoopInv, IteratorInv, TriedInv, Back
<1>3. CASE EndpointConnected
  BY <1>0, <1>3, EndpointCount, Zenon
     DEF EndpointConnected, ResetConnection, Return, TypeOK, Inv, LoopInv, IteratorInv, TriedInv, Back
<1>4. CASE EndpointTryNext
  <2>1. \A e \in Endpoint :
          /\ Back(e) \in 0 .. NumEndpoints - 1
          /\ Back(e) = 0 <=> e = index
          /\ Back(e)' = IF e = NextIndex(index) THEN 0 ELSE Back(e) + 1
    BY <1>4, <1>0, BackNext, Zenon DEF EndpointTryNext
  <2> QED
    BY <1>4, <1>0, <2>1, EndpointCount, SMTT(30)
       DEF EndpointTryNext, LastTry, ResetConnection, Return, Continue, FailoverSystemError, TypeOK, Inv, LoopInv, IteratorInv, TriedInv
<1>5. CASE EndpointsExhausted
  <2>1. \A e \in Endpoint :
          /\ Back(e) \in 0 .. NumEndpoints - 1
          /\ Back(e) = 0 <=> e = index
          /\ Back(e)' = IF e = NextIndex(index) THEN 0 ELSE Back(e) + 1
    BY <1>5, <1>0, BackNext, Zenon DEF EndpointsExhausted
  <2> QED
    BY <1>5, <1>0, <2>1, EndpointCount, SMTT(30)
       DEF EndpointsExhausted, LastTry, ResetConnection, Return, Continue, FailoverSystemError, TypeOK, Inv, LoopInv, IteratorInv, TriedInv
<1>6. CASE EndpointAborted
  BY <1>0, <1>6, EndpointCount, Zenon
     DEF EndpointAborted, ResetConnection, Return, TypeOK, Inv, LoopInv, IteratorInv, TriedInv, Back
<1>7. CASE PingOk
  BY <1>0, <1>7, EndpointCount, Zenon
     DEF PingOk, Return, NoAttempt, TypeOK, Inv, LoopInv, IteratorInv, TriedInv, Back
<1>8. CASE PingFailed
  <2>1. \A e \in Endpoint : Back(e)' \in Nat
    BY <1>8, <1>0, BackNext DEF PingFailed
  <2>2. pc' \in {"ready", "gone", "retry", "failover"} /\ (pc' = "failover" => i' = 1)
    BY <1>8, Zenon DEF PingFailed, Return, Continue
  <2> QED
    BY <2>1, <2>2 DEF TriedInv
<1>9. CASE PingAborted
  BY <1>0, <1>9, EndpointCount, Zenon
     DEF PingAborted, Return, NoAttempt, TypeOK, Inv, LoopInv, IteratorInv, TriedInv, Back
<1>10. CASE RetryReconnect
  BY <1>0, <1>10, EndpointCount, Zenon
     DEF RetryReconnect, ResetConnection, Return, Continue, TypeOK, Inv, LoopInv, IteratorInv, TriedInv, Back
<1>11. CASE FailoverReconnect
  <2>1. \A e \in Endpoint :
          /\ Back(e) \in 0 .. NumEndpoints - 1
          /\ Back(e) = 0 <=> e = index
          /\ Back(e)' = IF e = NextIndex(index) THEN 0 ELSE Back(e) + 1
    BY <1>11, <1>0, BackNext, Zenon DEF FailoverReconnect
  <2> QED
    BY <1>11, <1>0, <2>1, EndpointCount, SMTT(30)
       DEF FailoverReconnect, LastTry, ResetConnection, Return, Continue, FailoverSystemError, TypeOK, Inv, LoopInv, IteratorInv, TriedInv
<1>12. CASE FailoverPingFailed
  <2>1. \A e \in Endpoint : Back(e) >= 0 /\ Back(e)' = Back(e)
    BY <1>12, <1>0, BackNext DEF FailoverPingFailed
  <2> QED
    BY <1>12, <1>0, <2>1 DEF FailoverPingFailed, Return, Continue, FailoverSystemError, NoAttempt, TypeOK, Inv, TriedInv
<1>13. CASE UNCHANGED vars
  BY <1>13, Zenon DEF vars, Inv, LoopInv, IteratorInv, TriedInv, Back
<1> QED
  BY <1>1, <1>2, <1>3, <1>4, <1>5, <1>6, <1>7, <1>8, <1>9, <1>10, <1>11, <1>12, <1>13, Zenon
     DEF Next, Calls, Steps

\* The failover loop is long enough to visit every endpoint.
LEMMA FailoverLength ==
    /\ NumEndpoints * SendRetries \in Nat
    /\ SendRetries > 0 => NumEndpoints * SendRetries >= NumEndpoints
    /\ SendRetries = 0 => NumEndpoints * SendRetries = 0
BY EndpointCount, ConnectionAssumption, SMTT(30)

\* A loop that gives up has come by every endpoint.
LEMMA EveryStep == Inv /\ [Next]_vars => EveryEndpointTried'
<1> SUFFICES ASSUME Inv, [Next]_vars PROVE EveryEndpointTried'
  BY Zenon
<1>0. TypeOK /\ TypeOK'
  BY TypeStep, Zenon DEF Inv
<1>1. CASE CallResetConnection \/ CallResetConnectionEndpoint \/ CallRetryGuard
  BY <1>0, <1>1, EndpointCount, Zenon
     DEF CallResetConnection, CallResetConnectionEndpoint, CallRetryGuard, Call, TypeOK, Inv, LoopInv, EveryEndpointTried
<1>2. CASE ResetConnectionOnce
  BY <1>0, <1>2, EndpointCount, Zenon
     DEF ResetConnectionOnce, ResetConnection, Return, Continue, TypeOK, Inv, LoopInv, EveryEndpointTried
<1>3. CASE EndpointConnected
  BY <1>0, <1>3, EndpointCount, Zenon
     DEF EndpointConnected, ResetConnection, Return, TypeOK, Inv, LoopInv, EveryEndpointTried
<1>4. CASE EndpointTryNext
  BY <1>0, <1>4, EndpointCount, Zenon
     DEF EndpointTryNext, ResetConnection, Continue, LastTry, TypeOK, Inv, LoopInv, EveryEndpointTried
<1>5. CASE EndpointsExhausted
  <2>1. \A e \in Endpoint :
          /\ Back(e) \in 0 .. NumEndpoints - 1
          /\ Back(e) = 0 <=> e = index
          /\ NextIndex(index) = index' => Back(e)' = IF e = NextIndex(index) THEN 0 ELSE Back(e) + 1
    BY <1>5, <1>0, BackNext, Zenon DEF EndpointsExhausted
  <2>2. entry.synced => tried' = Endpoint
    <3> SUFFICES ASSUME entry.synced PROVE \A e \in Endpoint : e \in tried'
      BY <1>0, Zenon DEF TypeOK
    <3>1. i = NumEndpoints /\ current = index /\ tried' = tried \cup {current}
      BY <1>5, <1>0, EndpointCount, SMTT(30)
         DEF EndpointsExhausted, ResetConnection, LastTry, TypeOK, Inv, LoopInv, IteratorInv
    <3>2. \A e \in Endpoint : Back(e) \in 1 .. i - 1 => e \in tried
      BY <1>5, Zenon DEF EndpointsExhausted, Inv, TriedInv
    <3> QED
      BY <2>1, <3>1, <3>2, EndpointCount
  <2>3. op' = op /\ entry' = entry /\ op \in {"Client", "ResetConnectionEndpoint"}
    BY <1>5, Zenon DEF EndpointsExhausted, Return, Continue, Inv, LoopInv
  <2>4. op = "Client" => entry.synced
    BY <1>5, Zenon DEF EndpointsExhausted, Inv, LoopInv
  <2> QED
    BY <2>2, <2>3, <2>4, Zenon DEF EveryEndpointTried
<1>6. CASE EndpointAborted
  BY <1>0, <1>6, EndpointCount, Zenon
     DEF EndpointAborted, ResetConnection, Return, TypeOK, Inv, LoopInv, EveryEndpointTried
<1>7. CASE PingOk
  BY <1>0, <1>7, EndpointCount, Zenon
     DEF PingOk, Return, NoAttempt, TypeOK, Inv, LoopInv, EveryEndpointTried
<1>8. CASE PingFailed
  BY <1>8, <1>0, ConnectionAssumption
     DEF PingFailed, Return, Continue, NoAttempt, Inv, LoopInv, EveryEndpointTried
<1>9. CASE PingAborted
  BY <1>0, <1>9, EndpointCount, Zenon
     DEF PingAborted, Return, NoAttempt, TypeOK, Inv, LoopInv, EveryEndpointTried
<1>10. CASE RetryReconnect
  BY <1>0, <1>10, EndpointCount, Zenon
     DEF RetryReconnect, ResetConnection, Return, Continue, TypeOK, Inv, LoopInv, EveryEndpointTried
<1>11. CASE FailoverReconnect
  <2>1. \A e \in Endpoint :
          /\ Back(e) \in 0 .. NumEndpoints - 1
          /\ Back(e) = 0 <=> e = index
          /\ NextIndex(index) = index' => Back(e)' = IF e = NextIndex(index) THEN 0 ELSE Back(e) + 1
    BY <1>11, <1>0, BackNext, Zenon DEF FailoverReconnect
  <2>2. CASE i >= NumEndpoints * SendRetries
    <3>1. i >= NumEndpoints /\ tried' = tried \cup {NextIndex(index)}
      BY <1>11, <2>2, <1>0, FailoverLength, EndpointCount, ConnectionAssumption, SMTT(30)
         DEF FailoverReconnect, ResetConnection, TypeOK, Inv, LoopInv
    <3>2. \A e \in Endpoint : Back(e) < i - 1 => e \in tried
      BY <1>11, Zenon DEF FailoverReconnect, Inv, TriedInv
    <3>3. \A e \in Endpoint : e = NextIndex(index) \/ Back(e) < NumEndpoints - 1
      BY <1>11, <1>0, NextIndexValue, EndpointCount DEF Back, Endpoint, TypeOK
    <3>4. tried' = Endpoint
      BY <1>0, <2>1, <3>1, <3>2, <3>3, EndpointCount DEF TypeOK
    <3> QED
      BY <3>4, Zenon DEF EveryEndpointTried
  <2>3. CASE ~(i >= NumEndpoints * SendRetries)
    BY <1>11, <2>3, Zenon DEF FailoverReconnect, FailoverSystemError, Return, Continue, Inv, LoopInv, EveryEndpointTried
  <2> QED
    BY <2>2, <2>3, Zenon
<1>12. CASE FailoverPingFailed
  <2>1. \A e \in Endpoint :
          /\ Back(e) \in 0 .. NumEndpoints - 1
          /\ Back(e) = 0 <=> e = index
          /\ NextIndex(index) = index' => Back(e)' = IF e = NextIndex(index) THEN 0 ELSE Back(e) + 1
    BY <1>12, <1>0, BackNext, Zenon DEF FailoverPingFailed
  <2>2. CASE i >= NumEndpoints * SendRetries
    <3>1. i >= NumEndpoints /\ tried' = tried
      BY <1>12, <2>2, <1>0, FailoverLength, EndpointCount, ConnectionAssumption
         DEF FailoverPingFailed, NoAttempt, TypeOK, Inv, LoopInv
    <3>2. \A e \in Endpoint : Back(e) < i => e \in tried
      BY <1>12, Zenon DEF FailoverPingFailed, Inv, TriedInv
    <3>3. \A e \in Endpoint : Back(e) < i
      BY <1>0, <2>1, <3>1, EndpointCount DEF TypeOK
    <3>4. tried' = Endpoint
      BY <1>0, <3>1, <3>2, <3>3, Zenon DEF TypeOK
    <3> QED
      BY <3>4, Zenon DEF EveryEndpointTried
  <2>3. CASE ~(i >= NumEndpoints * SendRetries)
    BY <1>12, <2>3, Zenon DEF FailoverPingFailed, FailoverSystemError, Return, Continue, Inv, LoopInv, EveryEndpointTried
  <2> QED
    BY <2>2, <2>3, Zenon
<1>13. CASE UNCHANGED vars
  BY <1>13, Zenon DEF vars, Inv, LoopInv, EveryEndpointTried
<1> QED
  BY <1>1, <1>2, <1>3, <1>4, <1>5, <1>6, <1>7, <1>8, <1>9, <1>10, <1>11, <1>12, <1>13, Zenon
     DEF Next, Calls, Steps

\* Each turn of a loop connects at most once.
LEMMA CountStep == Inv /\ [Next]_vars => CountInv'
<1> SUFFICES ASSUME Inv, [Next]_vars PROVE CountInv'
  BY Zenon
<1>0. TypeOK /\ TypeOK'
  BY TypeStep, Zenon DEF Inv
<1>1. CASE CallResetConnection \/ CallResetConnectionEndpoint \/ CallRetryGuard
  <2>1. /\ pc' \in {"once", "reset", "func"} /\ i' = 1 /\ connects' = 0
        /\ op' # "Client"
    BY <1>1, Zenon DEF CallResetConnection, CallResetConnectionEndpoint, CallRetryGuard, Call
  <2> QED
    BY <2>1 DEF CountInv
<1>2. CASE ResetConnectionOnce
  BY <1>0, <1>2, EndpointCount, Zenon
     DEF ResetConnectionOnce, ResetConnection, Return, Continue, TypeOK, Inv, LoopInv, CountInv
<1>3. CASE EndpointConnected
  BY <1>0, <1>3, EndpointCount, Zenon
     DEF EndpointConnected, ResetConnection, Return, TypeOK, Inv, LoopInv, CountInv
<1>4. CASE EndpointTryNext
  BY <1>0, <1>4, EndpointCount, SMTT(30)
     DEF EndpointTryNext, ResetConnection, Continue, LastTry, TypeOK, Inv, LoopInv, CountInv
<1>5. CASE EndpointsExhausted
  <2>1. i = NumEndpoints /\ connects' <= connects + 1 /\ op' = op /\ op \in {"Client", "ResetConnectionEndpoint"}
    BY <1>5, <1>0, EndpointCount, SMTT(30)
       DEF EndpointsExhausted, ResetConnection, Return, Continue, LastTry, TypeOK, Inv, LoopInv
  <2>2. CASE pc' = "reset"
    <3>1. op = "Client" /\ round' = round + 1 /\ i' = 1
      BY <1>5, <2>2, Zenon DEF EndpointsExhausted, Return, Continue
    <3>2. connects <= (round - 1) * NumEndpoints + NumEndpoints - 1
      BY <1>5, <2>1, <3>1, Zenon DEF EndpointsExhausted, Inv, CountInv
    <3>3. (round - 1) * NumEndpoints + NumEndpoints = round * NumEndpoints
      BY <1>0, EndpointCount, SMTT(30) DEF TypeOK
    <3>4. (round - 1) * NumEndpoints \in Int /\ round * NumEndpoints \in Int
      BY <1>0, EndpointCount DEF TypeOK
    <3>5. connects' <= round * NumEndpoints
      BY <1>0, <2>1, <3>2, <3>3, <3>4, EndpointCount DEF TypeOK
    <3>6. (round' - 1) * NumEndpoints + i' - 1 = round * NumEndpoints
      BY <1>0, <3>1, <3>4, EndpointCount DEF TypeOK
    <3> QED
      BY <2>1, <2>2, <3>1, <3>5, <3>6, Zenon DEF CountInv
  <2>3. CASE pc' # "reset"
    <3>1. pc' \in {"ready", "gone"}
      BY <1>5, <2>3, Zenon DEF EndpointsExhausted, Return, Continue
    <3> QED
      BY <3>1, Zenon DEF CountInv
  <2> QED
    BY <2>2, <2>3, Zenon
<1>6. CASE EndpointAborted
  BY <1>0, <1>6, EndpointCount, Zenon
     DEF EndpointAborted, ResetConnection, Return, TypeOK, Inv, LoopInv, CountInv
<1>7. CASE PingOk
  BY <1>0, <1>7, EndpointCount, Zenon
     DEF PingOk, Return, NoAttempt, TypeOK, Inv, LoopInv, CountInv
<1>8. CASE PingFailed
  <2>0. {i, i', connects, connects', SendRetries} \subseteq Nat
    BY <1>0, ConnectionAssumption, Zenon DEF TypeOK
  <2>1. connects' = connects /\ op = "RetryGuard" /\ connects <= i - 1 /\ i <= MaxAttempts
    BY <1>8, Zenon DEF PingFailed, NoAttempt, Inv, LoopInv, CountInv
  <2>2. /\ pc' \in {"ready", "retry", "failover"}
        /\ pc' = "retry" => i' = i
        /\ pc' = "failover" => i' = 1 /\ SendRetries # 0
    BY <1>8, <2>1, Zenon DEF PingFailed, Return, Continue
  <2>3. /\ pc' = "retry" => connects' <= i' - 1
        /\ pc' = "failover" => connects' <= SendRetries - 1 + i' - 1
    BY <2>0, <2>1, <2>2 DEF MaxAttempts
  <2> QED
    BY <2>2, <2>3, Zenon DEF CountInv
<1>9. CASE PingAborted
  BY <1>0, <1>9, EndpointCount, Zenon
     DEF PingAborted, Return, NoAttempt, TypeOK, Inv, LoopInv, CountInv
<1>10. CASE RetryReconnect
  <2>1. connects' <= connects + 1 /\ op = "RetryGuard" /\ connects <= i - 1
    <3>1. connects \in Nat /\ connects' \in {connects, connects + 1}
      BY <1>10, <1>0, Zenon DEF RetryReconnect, ResetConnection, TypeOK
    <3>2. op = "RetryGuard" /\ connects <= i - 1
      BY <1>10, Zenon DEF RetryReconnect, Inv, LoopInv, CountInv
    <3> QED
      BY <3>1, <3>2
  <2>2. pc' \in {"ready", "func"} /\ (pc' = "func" => i' = i + 1)
    BY <1>10, <2>1, Zenon DEF RetryReconnect, Return, Continue
  <2>3. pc' = "func" => connects' <= i' - 1
    BY <1>0, <2>1, <2>2 DEF TypeOK
  <2> QED
    BY <2>2, <2>3, Zenon DEF CountInv
<1>11. CASE FailoverReconnect
  <2>0. {i, i', connects, connects', SendRetries} \subseteq Nat
    BY <1>0, ConnectionAssumption, Zenon DEF TypeOK
  <2>1. connects' <= connects + 1 /\ op = "RetryGuard" /\ connects <= SendRetries - 1 + i - 1
    <3>1. connects \in Nat /\ connects' \in {connects, connects + 1}
      BY <1>11, <1>0, Zenon DEF FailoverReconnect, ResetConnection, TypeOK
    <3>2. op = "RetryGuard" /\ connects <= SendRetries - 1 + i - 1
      BY <1>11, Zenon DEF FailoverReconnect, Inv, LoopInv, CountInv
    <3> QED
      BY <3>1, <3>2
  <2>2. /\ pc' \in {"ready", "failover", "failoverFunc"}
        /\ pc' = "failover" => i' = i + 1
        /\ pc' = "failoverFunc" => i' = i
    BY <1>11, <2>1, Zenon DEF FailoverReconnect, FailoverSystemError, Return, Continue
  <2>3. /\ pc' = "failover" => connects' <= SendRetries - 1 + i' - 1
        /\ pc' = "failoverFunc" => connects' <= SendRetries - 1 + i'
    BY <2>0, <2>1, <2>2
  <2> QED
    BY <2>2, <2>3, Zenon DEF CountInv
<1>12. CASE FailoverPingFailed
  <2>0. {i, i', connects, connects', SendRetries} \subseteq Nat
    BY <1>0, ConnectionAssumption, Zenon DEF TypeOK
  <2>1. connects' = connects /\ op = "RetryGuard" /\ connects <= SendRetries - 1 + i
    BY <1>12, <1>0, Zenon DEF FailoverPingFailed, NoAttempt, TypeOK, Inv, LoopInv, CountInv
  <2>2. /\ pc' \in {"ready", "failover"}
        /\ pc' = "failover" => i' = i + 1
    BY <1>12, <2>1, Zenon DEF FailoverPingFailed, FailoverSystemError, Return, Continue
  <2>3. pc' = "failover" => connects' <= SendRetries - 1 + i' - 1
    BY <2>0, <2>1, <2>2
  <2> QED
    BY <2>2, <2>3, Zenon DEF CountInv
<1>13. CASE UNCHANGED vars
  BY <1>13, Zenon DEF vars, Inv, LoopInv, CountInv
<1> QED
  BY <1>1, <1>2, <1>3, <1>4, <1>5, <1>6, <1>7, <1>8, <1>9, <1>10, <1>11, <1>12, <1>13, Zenon
     DEF Next, Calls, Steps

\* Two positions of the iterator a whole number of rounds apart are the same.
LEMMA WholeRounds ==
    ASSUME NEW a \in Endpoint, NEW b \in Endpoint, NEW m \in Int, a - b = NumEndpoints * m
    PROVE  a = b
<1>1. NumEndpoints \in Nat /\ NumEndpoints > 0 /\ a \in 0 .. NumEndpoints - 1 /\ b \in 0 .. NumEndpoints - 1
  BY EndpointCount, Zenon DEF Endpoint
<1>2. CASE m >= 1
  <2>1. NumEndpoints * m >= NumEndpoints
    BY <1>1, <1>2, SMTT(30)
  <2> QED
    BY <1>1, <2>1
<1>3. CASE m <= -1
  <2>1. NumEndpoints * m <= -NumEndpoints
    BY <1>1, <1>3, SMTT(30)
  <2> QED
    BY <1>1, <2>1
<1>4. CASE m = 0
  BY <1>1, <1>4
<1> QED
  BY <1>2, <1>3, <1>4

\* The iterator takes one step, be it across the end of the list.
LEMMA RoundStep ==
    ASSUME NEW x \in Endpoint, NEW n \in Nat, NEW k \in 0 .. n, NEW s \in Nat,
           s = x + k * NumEndpoints
    PROVE  \E j \in 0 .. n + 1 : s + 1 = NextIndex(x) + j * NumEndpoints
<1>1. NumEndpoints \in Nat /\ NumEndpoints > 0 /\ x \in 0 .. NumEndpoints - 1 /\ k \in Nat
  BY EndpointCount DEF Endpoint
<1>2. k * NumEndpoints \in Nat
  BY <1>1
<1>3. CASE x = NumEndpoints - 1
  <2>1. (k + 1) * NumEndpoints = k * NumEndpoints + NumEndpoints
    BY <1>1, SMTT(30)
  <2>2. s + 1 = NextIndex(x) + (k + 1) * NumEndpoints
    BY <1>1, <1>2, <1>3, <2>1, NextIndexValue
  <2>3. k + 1 \in 0 .. n + 1
    OBVIOUS
  <2> QED
    BY <2>2, <2>3, Zenon
<1>4. CASE x # NumEndpoints - 1
  <2>1. s + 1 = NextIndex(x) + k * NumEndpoints
    BY <1>1, <1>2, <1>4, NextIndexValue
  <2>2. k \in 0 .. n + 1
    OBVIOUS
  <2> QED
    BY <2>1, <2>2, Zenon
<1> QED
  BY <1>3, <1>4, Zenon

\* The iterator advances with the loop counter.
LEMMA IteratorStep == Inv /\ [Next]_vars => IteratorInv'
<1> SUFFICES ASSUME Inv, [Next]_vars PROVE IteratorInv'
  BY Zenon
<1>0. TypeOK /\ TypeOK'
  BY TypeStep, Zenon DEF Inv
<1>1. CASE CallResetConnection \/ CallResetConnectionEndpoint \/ CallRetryGuard
  <2>1. /\ pc' \in {"once", "reset", "func"} /\ i' = 1
        /\ index' = index /\ current' = current /\ last' = current
        /\ entry'.synced = (index = current)
    BY <1>1, CallFacts DEF Calls
  <2>2. entry'.synced => index' = last' + (i' - 1)
    BY <1>0, <2>1 DEF TypeOK, Endpoint
  <2> QED
    BY <2>1, <2>2, Zenon DEF IteratorInv
<1>2. CASE ResetConnectionOnce
  BY <1>0, <1>2, EndpointCount, Zenon
     DEF ResetConnectionOnce, ResetConnection, Return, Continue, TypeOK, Inv, LoopInv, EndpointInv, IteratorInv
<1>3. CASE EndpointConnected
  BY <1>0, <1>3, EndpointCount, Zenon
     DEF EndpointConnected, ResetConnection, Return, TypeOK, Inv, LoopInv, EndpointInv, IteratorInv
<1>4. CASE EndpointTryNext
  <2>1. /\ index' = NextIndex(index) /\ current' = index' /\ i' = i + 1 /\ last' = last /\ entry' = entry
        /\ pc' = "reset" /\ i < NumEndpoints
    BY <1>4, <1>0, EndpointCount, SMTT(30) DEF EndpointTryNext, Continue, LastTry, TypeOK
  <2>2. entry.synced => index = last + (i - 1) \/ index = last + (i - 1) - NumEndpoints
    BY <1>4, Zenon DEF EndpointTryNext, Inv, IteratorInv
  <2>3. entry.synced => index' = last + i \/ index' = last + i - NumEndpoints
    BY <1>0, <2>1, <2>2, NextIndexValue, EndpointCount, SMTT(30) DEF TypeOK, Endpoint
  <2>4. i' - 1 = i
    BY <1>0, <2>1 DEF TypeOK
  <2> QED
    BY <2>1, <2>3, <2>4, Zenon DEF IteratorInv
<1>5. CASE EndpointsExhausted
  <2>1. CASE pc' = "reset"
    <3>1. i = NumEndpoints /\ i' = 1 /\ current' = last /\ last' = last /\ entry' = entry /\ index' = NextIndex(index)
      BY <1>5, <1>0, <2>1, EndpointCount, SMTT(30)
         DEF EndpointsExhausted, Return, Continue, LastTry, TypeOK, Inv, LoopInv
    <3>2. entry.synced => index = last + (i - 1) \/ index = last + (i - 1) - NumEndpoints
      BY <1>5, Zenon DEF EndpointsExhausted, Inv, IteratorInv
    <3>3. entry.synced => index' = last
      BY <1>0, <3>1, <3>2, NextIndexValue, EndpointCount, SMTT(30) DEF TypeOK, Endpoint
    <3>4. last = last' + (i' - 1)
      BY <1>0, <3>1 DEF TypeOK, Endpoint
    <3> QED
      BY <2>1, <3>1, <3>3, <3>4, Zenon DEF IteratorInv
  <2>2. CASE pc' # "reset"
    <3>1. pc' \in {"ready", "gone"}
      BY <1>5, <2>2, Zenon DEF EndpointsExhausted, Return, Continue
    <3> QED
      BY <3>1, Zenon DEF IteratorInv
  <2> QED
    BY <2>1, <2>2, Zenon
<1>6. CASE EndpointAborted
  BY <1>0, <1>6, EndpointCount, Zenon
     DEF EndpointAborted, ResetConnection, Return, TypeOK, Inv, LoopInv, EndpointInv, IteratorInv
<1>7. CASE PingOk
  BY <1>0, <1>7, EndpointCount, Zenon
     DEF PingOk, Return, NoAttempt, TypeOK, Inv, LoopInv, EndpointInv, IteratorInv
<1>8. CASE PingFailed
  <2>1. /\ pc' \in {"ready", "gone", "retry", "failover"}
        /\ index' = index /\ current' = current /\ entry' = entry
        /\ pc' = "failover" => i' = 1 /\ last' = current
        /\ entry.synced => index = current
    BY <1>8, Zenon DEF PingFailed, Return, Continue, Inv, IteratorInv
  <2>2. pc' = "failover" /\ entry.synced => \E k \in 0 .. i' - 1 : last' + i' - 1 = index' + k * NumEndpoints
    <3> SUFFICES ASSUME pc' = "failover", entry.synced
                 PROVE  0 \in 0 .. i' - 1 /\ last' + i' - 1 = index' + 0 * NumEndpoints
      BY Zenon
    <3> QED
      BY <1>0, <2>1, EndpointCount DEF TypeOK, Endpoint
  <2> QED
    BY <2>1, <2>2, Zenon DEF IteratorInv
<1>9. CASE PingAborted
  BY <1>0, <1>9, EndpointCount, Zenon
     DEF PingAborted, Return, NoAttempt, TypeOK, Inv, LoopInv, EndpointInv, IteratorInv
<1>10. CASE RetryReconnect
  BY <1>0, <1>10, EndpointCount, Zenon
     DEF RetryReconnect, ResetConnection, Return, Continue, TypeOK, Inv, LoopInv, EndpointInv, IteratorInv
<1>11. CASE FailoverReconnect
  <2>1. /\ pc' \in {"ready", "gone", "failover", "failoverFunc"}
        /\ index' = NextIndex(index) /\ last' = last /\ entry' = entry
        /\ pc' = "failover" => i' = i + 1
        /\ pc' = "failoverFunc" => i' = i /\ current' = index'
    BY <1>11, Zenon DEF FailoverReconnect, FailoverSystemError, Return, Continue
  <2>2. {last, i, i'} \subseteq Nat /\ i > 0 /\ index \in Endpoint
    BY <1>0 DEF TypeOK, Endpoint
  <2>3. ASSUME entry.synced
        PROVE  \E k \in 0 .. i : last + i = index' + k * NumEndpoints
    <3>1. PICK k \in 0 .. i - 1 : last + i - 1 = index + k * NumEndpoints
      BY <1>11, <2>3, Zenon DEF FailoverReconnect, Inv, IteratorInv
    <3>2. \E j \in 0 .. (i - 1) + 1 : (last + i - 1) + 1 = NextIndex(index) + j * NumEndpoints
      BY <2>2, <3>1, RoundStep
    <3> QED
      BY <2>1, <2>2, <3>2
  <2>4. pc' = "failover" => i' - 1 = i /\ last' + i' - 1 = last + i
    BY <2>1, <2>2
  <2> QED
    BY <2>1, <2>3, <2>4, Zenon DEF IteratorInv
<1>12. CASE FailoverPingFailed
  <2>1. /\ pc' \in {"ready", "gone", "failover"}
        /\ index' = index /\ last' = last /\ entry' = entry
        /\ pc' = "failover" => i' = i + 1
    BY <1>12, Zenon DEF FailoverPingFailed, FailoverSystemError, Return, Continue
  <2>2. entry.synced => \E k \in 0 .. i : last + i = index + k * NumEndpoints
    BY <1>12, Zenon DEF FailoverPingFailed, Inv, IteratorInv
  <2>3. pc' = "failover" => i' - 1 = i /\ last' + i' - 1 = last + i
    BY <1>0, <2>1 DEF TypeOK, Endpoint
  <2> QED
    BY <2>1, <2>2, <2>3, Zenon DEF IteratorInv
<1>13. CASE UNCHANGED vars
  BY <1>13, Zenon DEF vars, Inv, LoopInv, EndpointInv, IteratorInv
<1> QED
  BY <1>1, <1>2, <1>3, <1>4, <1>5, <1>6, <1>7, <1>8, <1>9, <1>10, <1>11, <1>12, <1>13, Zenon
     DEF Next, Calls, Steps

\* Where a loop ends the iterator is back at current_endpoint_.
LEMMA FollowStep == Inv /\ [Next]_vars => IteratorFollowsEndpoint'
<1> SUFFICES ASSUME Inv, [Next]_vars PROVE IteratorFollowsEndpoint'
  BY Zenon
<1>0. TypeOK /\ TypeOK'
  BY TypeStep, Zenon DEF Inv
<1>1. CASE CallResetConnection \/ CallResetConnectionEndpoint \/ CallRetryGuard
  BY <1>1, Zenon DEF CallResetConnection, CallResetConnectionEndpoint, CallRetryGuard, Call, IteratorFollowsEndpoint
<1>2. CASE ResetConnectionOnce
  BY <1>2, Zenon DEF ResetConnectionOnce, Return, Continue, Inv, IteratorInv, IteratorFollowsEndpoint
<1>3. CASE EndpointConnected
  BY <1>3, Zenon DEF EndpointConnected, Return, Inv, IteratorInv, IteratorFollowsEndpoint
<1>4. CASE EndpointTryNext
  BY <1>4, Zenon DEF EndpointTryNext, Return, Continue, Inv, IteratorInv, IteratorFollowsEndpoint
<1>5. CASE EndpointsExhausted
  <2>1. CASE pc' = "ready" /\ entry'.synced
    <3>1. i = NumEndpoints /\ current' = last /\ entry' = entry /\ index' = NextIndex(index)
      BY <1>5, <1>0, <2>1, EndpointCount, SMTT(30)
         DEF EndpointsExhausted, Return, Continue, LastTry, TypeOK, Inv, LoopInv
    <3>2. index = last + (i - 1) \/ index = last + (i - 1) - NumEndpoints
      BY <1>5, <2>1, <3>1, Zenon DEF EndpointsExhausted, Inv, IteratorInv
    <3>3. index' = current'
      BY <1>0, <3>1, <3>2, NextIndexValue, EndpointCount, SMTT(30) DEF TypeOK, Endpoint
    <3> QED
      BY <3>3, Zenon DEF IteratorFollowsEndpoint
  <2> QED
    BY <2>1, Zenon DEF IteratorFollowsEndpoint
<1>6. CASE EndpointAborted
  BY <1>6, Zenon DEF EndpointAborted, Return, Continue, Inv, IteratorInv, IteratorFollowsEndpoint
<1>7. CASE PingOk
  BY <1>7, Zenon DEF PingOk, Return, NoAttempt, Inv, IteratorInv, IteratorFollowsEndpoint
<1>8. CASE PingFailed
  BY <1>8, Zenon DEF PingFailed, Return, Continue, Inv, IteratorInv, IteratorFollowsEndpoint
<1>9. CASE PingAborted
  BY <1>9, Zenon DEF PingAborted, Return, Continue, Inv, IteratorInv, IteratorFollowsEndpoint
<1>10. CASE RetryReconnect
  BY <1>10, Zenon DEF RetryReconnect, Return, Continue, Inv, IteratorInv, IteratorFollowsEndpoint
<1>11. CASE FailoverReconnect
  <2>1. CASE pc' = "ready" /\ result' = "system_error" /\ entry'.synced
    <3>0. i \in Nat /\ i > 0 /\ last \in Endpoint /\ index' \in Endpoint /\ index \in Endpoint
      BY <1>0 DEF TypeOK
    <3>1. i = NumEndpoints * SendRetries /\ current' = last /\ entry' = entry /\ index' = NextIndex(index)
      BY <1>11, <2>1, <3>0, FailoverLength, SMTT(30)
         DEF FailoverReconnect, FailoverSystemError, Return, Continue, Inv, LoopInv
    <3>2. \E k \in 0 .. i : last + i = index' + k * NumEndpoints
      <4>1. PICK k \in 0 .. i - 1 : last + i - 1 = index + k * NumEndpoints
        BY <1>11, <2>1, <3>1, Zenon DEF FailoverReconnect, Inv, IteratorInv
      <4>2. \E j \in 0 .. (i - 1) + 1 : (last + i - 1) + 1 = NextIndex(index) + j * NumEndpoints
        BY <3>0, <4>1, RoundStep DEF Endpoint
      <4> QED
        BY <3>0, <3>1, <4>2 DEF Endpoint
    <3>3. PICK k \in 0 .. i : last + i = index' + k * NumEndpoints
      BY <3>2, Zenon
    <3>4. NumEndpoints * (SendRetries - k) = NumEndpoints * SendRetries - k * NumEndpoints
      BY <3>0, EndpointCount, ConnectionAssumption, SMTT(30)
    <3>5. NumEndpoints * SendRetries \in Int /\ k * NumEndpoints \in Int /\ SendRetries - k \in Int
      BY <3>0, EndpointCount, ConnectionAssumption
    <3>6. index' - last = NumEndpoints * (SendRetries - k)
      BY <3>0, <3>1, <3>3, <3>4, <3>5 DEF Endpoint
    <3>7. index' = last
      BY <3>0, <3>5, <3>6, WholeRounds, Zenon
    <3> QED
      BY <3>1, <3>7, Zenon DEF IteratorFollowsEndpoint
  <2>2. CASE pc' # "ready" \/ result' # "system_error"
    BY <1>11, <2>2, Zenon DEF FailoverReconnect, FailoverSystemError, Return, Continue, IteratorFollowsEndpoint
  <2> QED
    BY <2>1, <2>2, Zenon DEF IteratorFollowsEndpoint
<1>12. CASE FailoverPingFailed
  <2>1. CASE pc' = "ready" /\ result' = "system_error" /\ entry'.synced
    <3>0. i \in Nat /\ i > 0 /\ last \in Endpoint /\ index' \in Endpoint
      BY <1>0 DEF TypeOK
    <3>1. i = NumEndpoints * SendRetries /\ current' = last /\ entry' = entry /\ index' = index
      BY <1>12, <2>1, <3>0, FailoverLength
         DEF FailoverPingFailed, FailoverSystemError, Return, Continue, Inv, LoopInv
    <3>2. \E k \in 0 .. i : last + i = index' + k * NumEndpoints
      BY <1>12, <2>1, <3>1, Zenon DEF FailoverPingFailed, Inv, IteratorInv
    <3>3. PICK k \in 0 .. i : last + i = index' + k * NumEndpoints
      BY <3>2, Zenon
    <3>4. NumEndpoints * (SendRetries - k) = NumEndpoints * SendRetries - k * NumEndpoints
      BY <3>0, EndpointCount, ConnectionAssumption, SMTT(30)
    <3>5. NumEndpoints * SendRetries \in Int /\ k * NumEndpoints \in Int /\ SendRetries - k \in Int
      BY <3>0, EndpointCount, ConnectionAssumption
    <3>6. index' - last = NumEndpoints * (SendRetries - k)
      BY <3>0, <3>1, <3>3, <3>4, <3>5 DEF Endpoint
    <3>7. index' = last
      BY <3>0, <3>5, <3>6, WholeRounds, Zenon
    <3> QED
      BY <3>1, <3>7, Zenon DEF IteratorFollowsEndpoint
  <2>2. CASE pc' # "ready" \/ result' # "system_error"
    BY <1>12, <2>2, Zenon DEF FailoverPingFailed, FailoverSystemError, Return, Continue, IteratorFollowsEndpoint
  <2> QED
    BY <2>1, <2>2, Zenon DEF IteratorFollowsEndpoint
<1>13. CASE UNCHANGED vars
  BY <1>13, Zenon DEF vars, Inv, IteratorInv, IteratorFollowsEndpoint
<1> QED
  BY <1>1, <1>2, <1>3, <1>4, <1>5, <1>6, <1>7, <1>8, <1>9, <1>10, <1>11, <1>12, <1>13, Zenon
     DEF Next, Calls, Steps

\* The rounds of CreateConnection add up to its budget.
LEMMA RoundsBudget ==
    ASSUME TypeOK, round <= MaxAttempts
    PROVE  /\ (round - 1) * NumEndpoints + NumEndpoints <= NumEndpoints * MaxAttempts
           /\ (round - 1) * NumEndpoints \in Nat /\ NumEndpoints * MaxAttempts \in Nat
<1>1. round \in Nat /\ round >= 1
  BY DEF TypeOK
<1>2. PICK d \in Nat : MaxAttempts = round + d
  <2>1. MaxAttempts - round \in Nat /\ MaxAttempts = round + (MaxAttempts - round)
    BY <1>1, EndpointCount
  <2> QED
    BY <2>1, Zenon
<1>3. NumEndpoints * MaxAttempts = (round - 1) * NumEndpoints + NumEndpoints + NumEndpoints * d
  BY <1>1, <1>2, EndpointCount, SMTT(30)
<1>4. NumEndpoints * d \in Nat /\ (round - 1) * NumEndpoints \in Nat /\ NumEndpoints * MaxAttempts \in Nat
  BY <1>1, <1>2, EndpointCount, SMTT(30)
<1> QED
  BY <1>3, <1>4, EndpointCount

\* A loop that is about to connect has budget left.
LEMMA BudgetLeft ==
    ASSUME Inv, pc \in {"once", "reset", "retry", "failover"}
    PROVE  AttemptBudget \in Nat /\ connects \in Nat /\ connects + 1 <= AttemptBudget
<1>1. {connects, i, SendRetries, NumEndpoints} \subseteq Nat /\ i >= 1
  BY ConnectionAssumption, EndpointCount DEF Inv, TypeOK
<1>2. CASE pc = "once"
  BY <1>1, <1>2 DEF Inv, LoopInv, CountInv, AttemptBudget
<1>3. CASE pc = "reset" /\ op = "ResetConnectionEndpoint"
  BY <1>1, <1>3 DEF Inv, LoopInv, CountInv, AttemptBudget
<1>4. CASE pc = "reset" /\ op = "Client"
  <2>1. connects <= (round - 1) * NumEndpoints + i - 1 /\ i <= NumEndpoints
    BY <1>4, Zenon DEF Inv, LoopInv, CountInv
  <2>2. /\ (round - 1) * NumEndpoints + NumEndpoints <= NumEndpoints * MaxAttempts
        /\ (round - 1) * NumEndpoints \in Nat /\ NumEndpoints * MaxAttempts \in Nat
    BY RoundsBudget, Zenon DEF Inv, LoopInv
  <2>3. AttemptBudget = NumEndpoints * MaxAttempts
    BY <1>4, Zenon DEF AttemptBudget
  <2> QED
    BY <1>1, <2>1, <2>2, <2>3
<1>5. CASE pc \in {"retry", "failover"}
  <2>1. SendRetries > 0 /\ op = "RetryGuard"
    BY <1>1, <1>5 DEF Inv, LoopInv
  <2>2. AttemptBudget = SendRetries - 1 + NumEndpoints * SendRetries
    BY <1>1, <2>1 DEF AttemptBudget
  <2>3. CASE pc = "retry"
    BY <1>1, <2>1, <2>2, <2>3, FailoverLength, SMTT(30) DEF Inv, LoopInv, CountInv
  <2>4. CASE pc = "failover"
    BY <1>1, <2>1, <2>2, <2>4, FailoverLength, SMTT(30) DEF Inv, LoopInv, CountInv
  <2> QED
    BY <1>5, <2>3, <2>4, Zenon
<1> QED
  BY <1>2, <1>3, <1>4, <1>5, Zenon DEF Inv, LoopInv

\* No step exceeds the budget of its call.
LEMMA BudgetStep == Inv /\ [Next]_vars => AttemptsBounded'
<1> SUFFICES ASSUME Inv, [Next]_vars PROVE AttemptsBounded'
  BY Zenon
<1>1. CASE Calls
  <2>1. connects' = 0 /\ op' \in Ops
    BY <1>1, Zenon DEF Calls, CallResetConnection, CallResetConnectionEndpoint, CallRetryGuard, Call, Ops
  <2>2. /\ NumEndpoints * MaxAttempts \in Nat /\ NumEndpoints * SendRetries \in Nat
        /\ SendRetries \in Nat /\ NumEndpoints \in Nat
    BY EndpointCount, ConnectionAssumption, RoundsBudget, FailoverLength, Zenon DEF Inv, LoopInv
  <2>3. AttemptBudget' >= 0
    BY <2>1, <2>2 DEF AttemptBudget, Ops
  <2> QED
    BY <2>1, <2>3, Zenon DEF AttemptsBounded
<1>2. CASE ResetConnectionOnce \/ EndpointConnected \/ EndpointTryNext \/ EndpointsExhausted
           \/ EndpointAborted \/ RetryReconnect \/ FailoverReconnect
  <2>1. pc \in {"once", "reset", "retry", "failover"}
    BY <1>2, Zenon DEF ResetConnectionOnce, EndpointConnected, EndpointTryNext, EndpointsExhausted,
                EndpointAborted, RetryReconnect, FailoverReconnect
  <2>2. connects \in Nat => connects' \in {connects, connects + 1}
    BY <1>2, Zenon DEF ResetConnectionOnce, EndpointConnected, EndpointTryNext, EndpointsExhausted,
                EndpointAborted, RetryReconnect, FailoverReconnect, ResetConnection
  <2>3. op' = op
    BY <1>2, Zenon DEF ResetConnectionOnce, EndpointConnected, EndpointTryNext, EndpointsExhausted,
                EndpointAborted, RetryReconnect, FailoverReconnect, FailoverSystemError, Return, Continue
  <2>4. AttemptBudget' = AttemptBudget
    BY <2>3, Zenon DEF AttemptBudget
  <2> QED
    BY <2>1, <2>2, <2>4, BudgetLeft DEF AttemptsBounded
<1>3. CASE PingOk \/ PingFailed \/ PingAborted \/ FailoverPingFailed \/ UNCHANGED vars
  <2>1. connects' = connects /\ op' = op
    BY <1>3, Zenon DEF PingOk, PingFailed, PingAborted, FailoverPingFailed, FailoverSystemError,
                NoAttempt, Return, Continue, vars
  <2>2. AttemptBudget' = AttemptBudget
    BY <2>1, Zenon DEF AttemptBudget
  <2> QED
    BY <2>1, <2>2, Zenon DEF AttemptsBounded, Inv
<1> QED
  BY <1>1, <1>2, <1>3, Zenon DEF Next, Steps

\* The constructor establishes the invariant.
LEMMA InvInit == Init => Inv
<1> SUFFICES ASSUME Init PROVE Inv
  BY Zenon
<1>1. TypeOK
  BY TypeInit, Zenon
<1>2. /\ pc = "reset" /\ op = "Client" /\ i = 1 /\ round = 1 /\ connects = 0
      /\ index = current /\ last = current /\ entry.endpoint = current
      /\ result = "none"
    BY Zenon DEF Init
<1>3. LoopInv /\ EndpointInv /\ StreamInv /\ LinkInv
  <2>1. LinkInv
    BY <1>2, Zenon DEF Init, LinkInv
  <2> QED
    BY <1>2, <2>1, EndpointCount, SMTT(30) DEF Init, LoopInv, EndpointInv, StreamInv
<1>4. IteratorInv
  BY <1>1, <1>2 DEF IteratorInv, TypeOK, Endpoint
<1>5. TriedInv
  BY <1>2 DEF TriedInv
<1>6. CountInv
  <2>1. (round - 1) * NumEndpoints + i - 1 = 0
    BY <1>2, EndpointCount
  <2> QED
    BY <1>2, <2>1 DEF CountInv
<1>7. AttemptsBounded
  <2>1. AttemptBudget = NumEndpoints * MaxAttempts
    BY <1>2, Zenon DEF AttemptBudget
  <2>2. NumEndpoints * MaxAttempts \in Nat
    BY <1>1, <1>3, RoundsBudget, Zenon DEF LoopInv
  <2> QED
    BY <1>2, <2>1, <2>2 DEF AttemptsBounded
<1> QED
  BY <1>1, <1>2, <1>3, <1>4, <1>5, <1>6, <1>7, Zenon
     DEF Inv, OkMeansConnected, IteratorFollowsEndpoint, EveryEndpointTried

\* Every step keeps the invariant.
LEMMA InvStep == Inv /\ [Next]_vars => Inv'
BY TypeStep, LoopStep, EndpointStep, StreamStep, LinkStep, IteratorStep, TriedStep, CountStep,
   OkStep, FollowStep, EveryStep, BudgetStep, Zenon DEF Inv

\* The inductive invariant holds in every reachable state.
THEOREM Invariance == Spec => []Inv
BY InvInit, InvStep, PTL DEF Spec

\* A call that throws has not moved current_endpoint_ (client.cpp:632, 636,
\* 1287, 1291).
THEOREM FailureRestores == Spec => []FailedCallRestoresEndpoint
<1>1. Inv => FailedCallRestoresEndpoint
  BY Zenon DEF Inv, EndpointInv, FailedCallRestoresEndpoint
<1> QED
  BY <1>1, Invariance, PTL

\* A call that returns normally leaves handshaken streams to current_endpoint_,
\* for any number of endpoints and retries.
THEOREM SuccessConnects == Spec => []OkMeansConnected
<1>1. Inv => OkMeansConnected
  BY Zenon DEF Inv
<1> QED
  BY <1>1, Invariance, PTL

\* The round-robin iterator is in step with current_endpoint_ after a call that
\* returned or ran out of endpoints.
THEOREM IteratorInStep == Spec => []IteratorFollowsEndpoint
<1>1. Inv => IteratorFollowsEndpoint
  BY Zenon DEF Inv
<1> QED
  BY <1>1, Invariance, PTL

\* No call gives up with a system_error before it has tried every endpoint.
THEOREM TriesAll == Spec => []EveryEndpointTried
<1>1. Inv => EveryEndpointTried
  BY Zenon DEF Inv
<1> QED
  BY <1>1, Invariance, PTL

\* The connection attempts of a call stay within the product of its loops.
THEOREM AttemptsWithinBudget == Spec => []AttemptsBounded
<1>1. Inv => AttemptsBounded
  BY Zenon DEF Inv
<1> QED
  BY <1>1, Invariance, PTL

-----------------------------------------------------------------------------
(* Connection implements EndpointService: a call's steps are stutters until *)
(* the one in which it returns.                                            *)

\* The constructor is the first request of the service.
LEMMA ServiceInit == Init => Service!Init
<1> SUFFICES ASSUME Init PROVE Service!Init
  BY Zenon
<1>1. /\ current \in Endpoint /\ entry.endpoint = current /\ pc = "reset" /\ op = "Client"
      /\ entry.link = Service!Ungreeted(NoPeer)
  BY TypeInit, Zenon DEF TypeOK, Init, Service!Ungreeted
<1> QED
  BY <1>1, Zenon DEF Service!Init

\* A link is a peer and whether it was greeted.
LEMMA LinkFields ==
    ASSUME NEW l \in Link
    PROVE  /\ l = [peer |-> l.peer, hello |-> l.hello] /\ l.hello \in BOOLEAN
           /\ l.peer \in Endpoint => l \in [peer : Endpoint, hello : BOOLEAN]
BY Zenon DEF Link

\* What an attempt leaves of the link.
LEMMA AttemptLeaves ==
    ASSUME NEW e \in Endpoint, NEW o, ResetConnection(e, o)
    PROVE  /\ o = "ok" => socket' = Handshaken(e)
           /\ o # "ok" => socket' = socket \/ socket' = Service!Ungreeted(e)
BY Zenon DEF ResetConnection, Handshaken, Service!Ungreeted

\* The link behind a call that returns or throws.
LEMMA LinkLeft ==
    ASSUME Inv, Steps, TypeOK', pc' = "ready"
    PROVE  /\ result' = "ok" =>
                \/ socket' = Handshaken(current')
                \/ /\ op = "RetryGuard" /\ entry.link.hello
                   /\ socket' = entry.link /\ current' = entry.endpoint
           /\ result' # "ok" =>
                \/ socket' = entry.link
                \/ op = "ResetConnection" /\ socket' = Service!Ungreeted(entry.endpoint)
                \/ op = "ResetConnectionEndpoint" /\ \E e \in Endpoint : socket' = Service!Ungreeted(e)
                \/ op = "RetryGuard" /\ socket' \in [peer : Endpoint, hello : BOOLEAN]
<1> DEFINE Kept == socket' = entry.link
           Bare == \E e \in Endpoint : socket' = Service!Ungreeted(e)
           Some == socket' \in [peer : Endpoint, hello : BOOLEAN]
<1>0. TypeOK /\ LoopInv /\ EndpointInv /\ StreamInv /\ LinkInv
  BY Zenon DEF Inv
<1>1. /\ current \in Endpoint /\ NextIndex(index) \in Endpoint
      /\ socket \in Link /\ socket' \in Link /\ entry.link \in Link
  BY <1>0, NextIndexValue, Zenon DEF TypeOK
<1>2. Bare => Some
  <2>1. \A e \in Endpoint : Service!Ungreeted(e) \in [peer : Endpoint, hello : BOOLEAN]
    BY DEF Service!Ungreeted
  <2> QED
    BY <2>1, Zenon
<1>3. CASE ResetConnectionOnce
  <2>1. pc = "once" /\ current' = current
    BY <1>3, Zenon DEF ResetConnectionOnce
  <2>2. op = "ResetConnection" /\ current = entry.endpoint /\ socket = entry.link
    BY <1>0, <2>1, Zenon DEF LoopInv, EndpointInv, LinkInv
  <2>3. PICK o \in {"ok"} \cup SystemErrors \cup OtherErrors :
           /\ ResetConnection(current, o)
           /\ result' = (IF o = "ok" THEN "ok" ELSE IF o \in SystemErrors THEN "system_error" ELSE "other")
    BY <1>3, Zenon DEF ResetConnectionOnce, Return
  <2>4. /\ o = "ok" => socket' = Handshaken(current)
        /\ o # "ok" => socket' = socket \/ socket' = Service!Ungreeted(current)
    BY <1>1, <2>3, AttemptLeaves, Zenon
  <2>5. result' = "ok" => o = "ok"
    BY <2>3, Zenon
  <2>6. result' # "ok" => o # "ok"
    BY <2>3, Zenon
  <2> QED
    BY <2>1, <2>2, <2>4, <2>5, <2>6, Zenon
<1>4. CASE EndpointConnected
  <2>1. ResetConnection(current, "ok") /\ result' = "ok" /\ current' = current
    BY <1>4, Zenon DEF EndpointConnected, Return
  <2> QED
    BY <1>1, <2>1, AttemptLeaves, Zenon
<1>5. CASE EndpointTryNext
  BY <1>5, Zenon DEF EndpointTryNext, Continue
<1>6. CASE EndpointsExhausted \/ EndpointAborted
  <2>1. /\ pc = "reset" /\ result' # "ok"
        /\ \E o \in SystemErrors \cup OtherErrors : ResetConnection(current, o)
    BY <1>6, Zenon DEF EndpointsExhausted, EndpointAborted, Return, Continue
  <2>2. op # "Client"
    BY <1>6, Zenon DEF EndpointsExhausted, EndpointAborted, Return, Continue
  <2>3. op = "ResetConnectionEndpoint" /\ (socket = entry.link \/ (socket.peer \in Endpoint /\ ~socket.hello))
    BY <1>0, <2>1, <2>2, Zenon DEF LoopInv, LinkInv
  <2>4. socket = entry.link \/ (socket = Service!Ungreeted(socket.peer) /\ socket.peer \in Endpoint)
    BY <1>1, <2>3, LinkFields, Zenon DEF Service!Ungreeted
  <2>5. socket' = socket \/ socket' = Service!Ungreeted(current)
    BY <1>1, <2>1, AttemptLeaves, Zenon DEF SystemErrors, OtherErrors
  <2> QED
    BY <1>1, <2>1, <2>3, <2>4, <2>5, Zenon
<1>7. CASE PingOk
  <2>1. pc \in {"func", "failoverFunc"} /\ socket.hello /\ result' = "ok" /\ socket' = socket /\ current' = current
    BY <1>7, Zenon DEF PingOk, Return, NoAttempt
  <2>2. CASE pc = "failoverFunc"
    BY <1>0, <2>1, <2>2, Zenon DEF StreamInv
  <2>3. CASE pc = "func"
    <3>1. op = "RetryGuard" /\ current = entry.endpoint /\ (socket = entry.link \/ socket.peer = current)
      BY <1>0, <2>3, Zenon DEF LoopInv, EndpointInv, LinkInv
    <3>2. socket.peer = current => socket = Handshaken(current)
      BY <1>1, <2>1, LinkFields, Zenon DEF Handshaken
    <3> QED
      BY <2>1, <3>1, <3>2, Zenon
  <2> QED
    BY <2>1, <2>2, <2>3, Zenon
<1>8. CASE PingFailed \/ PingAborted
  <2>1. pc = "func" /\ result' # "ok" /\ socket' = socket
    BY <1>8, Zenon DEF PingFailed, PingAborted, Return, Continue, NoAttempt
  <2>2. op = "RetryGuard" /\ (socket = entry.link \/ socket.peer = current)
    BY <1>0, <2>1, Zenon DEF LoopInv, LinkInv
  <2>3. socket.peer = current => Some
    BY <1>1, <2>1, LinkFields, Zenon
  <2> QED
    BY <2>1, <2>2, <2>3, Zenon
<1>9. CASE RetryReconnect
  <2>1. pc = "retry" /\ result' # "ok" /\ \E o \in OtherErrors : ResetConnection(current, o)
    BY <1>9, Zenon DEF RetryReconnect, Return, Continue
  <2>2. op = "RetryGuard" /\ (socket = entry.link \/ socket.peer = current)
    BY <1>0, <2>1, Zenon DEF LoopInv, LinkInv
  <2>3. socket' = socket \/ socket' = Service!Ungreeted(current)
    BY <1>1, <2>1, AttemptLeaves, Zenon DEF OtherErrors
  <2>4. socket.peer = current => socket \in [peer : Endpoint, hello : BOOLEAN]
    BY <1>1, LinkFields, Zenon
  <2> QED
    BY <1>1, <1>2, <2>1, <2>2, <2>3, <2>4, Zenon
<1>10. CASE FailoverReconnect
  <2>1. /\ pc = "failover" /\ result' # "ok"
        /\ \E o \in SystemErrors \cup OtherErrors : ResetConnection(NextIndex(index), o)
    BY <1>10, Zenon DEF FailoverReconnect, FailoverSystemError, Return, Continue
  <2>2. op = "RetryGuard" /\ (socket = entry.link \/ socket.peer \in Endpoint)
    BY <1>0, <2>1, Zenon DEF LoopInv, LinkInv
  <2>3. socket' = socket \/ socket' = Service!Ungreeted(NextIndex(index))
    BY <1>1, <2>1, AttemptLeaves, Zenon DEF SystemErrors, OtherErrors
  <2>4. socket.peer \in Endpoint => socket \in [peer : Endpoint, hello : BOOLEAN]
    BY <1>1, LinkFields, Zenon
  <2> QED
    BY <1>1, <1>2, <2>1, <2>2, <2>3, <2>4, Zenon
<1>11. CASE FailoverPingFailed
  <2>1. pc = "failoverFunc" /\ result' # "ok" /\ socket' = socket
    BY <1>11, Zenon DEF FailoverPingFailed, FailoverSystemError, Return, Continue, NoAttempt
  <2>2. op = "RetryGuard" /\ socket = Handshaken(current)
    BY <1>0, <2>1, Zenon DEF LoopInv, StreamInv
  <2> QED
    BY <1>1, <2>1, <2>2, Zenon DEF Handshaken
<1> QED
  BY <1>3, <1>4, <1>5, <1>6, <1>7, <1>8, <1>9, <1>10, <1>11, Zenon DEF Steps

\* A step is a stutter of the service until the call returns.
LEMMA ServiceStep == Inv /\ [Next]_vars => [Service!Next]_(Service!serviceVars)
<1> SUFFICES ASSUME Inv, [Next]_vars PROVE [Service!Next]_(Service!serviceVars)
  BY Zenon
<1> DEFINE ch == IF pc = "ready" THEN current ELSE entry.endpoint
           ln == IF pc = "ready" THEN socket ELSE entry.link
           rq == CASE pc = "ready" -> IF result = "ok" THEN "served" ELSE "failed"
                   [] pc = "gone" -> "gone"
                   [] OTHER -> op
<1>0. /\ TypeOK /\ TypeOK' /\ EndpointInv /\ EndpointInv' /\ LoopInv
  BY InvStep, Zenon DEF Inv
<1>1. CASE Calls
  <2>0. /\ pc = "ready" /\ pc' \in {"once", "reset", "func"}
        /\ op' \in {"ResetConnection", "ResetConnectionEndpoint", "RetryGuard"}
        /\ entry'.endpoint = current /\ current' = current
        /\ entry'.link = socket /\ socket' = socket
    BY <1>1, CallFacts
  <2>1. rq \in {"served", "failed"} /\ ch' = ch /\ ln' = ln /\ rq' = op'
    BY <2>0, Zenon
  <2> QED
    BY <2>0, <2>1, Zenon DEF Service!Next, Service!Ask, Service!Requests
<1>2. CASE Steps
  <2>1. pc \notin {"ready", "gone"} /\ op' = op /\ entry' = entry
    BY <1>2, Zenon DEF Steps, ResetConnectionOnce, EndpointConnected, EndpointTryNext, EndpointsExhausted,
         EndpointAborted, PingOk, PingFailed, PingAborted, RetryReconnect, FailoverReconnect,
         FailoverPingFailed, FailoverSystemError, Return, Continue
  <2>2. pc' \in {"ready", "gone"} => pc' = (IF op = "Client" /\ result' # "ok" THEN "gone" ELSE "ready")
    BY <1>2, <2>1, Zenon DEF Steps, ResetConnectionOnce, EndpointConnected, EndpointTryNext, EndpointsExhausted,
         EndpointAborted, PingOk, PingFailed, PingAborted, RetryReconnect, FailoverReconnect,
         FailoverPingFailed, FailoverSystemError, Return, Continue
  <2>3. rq = op /\ ch = entry.endpoint /\ ln = entry.link /\ op \in Service!Requests
    BY <1>0, <2>1, Zenon DEF TypeOK, Ops, Service!Requests
  <2>4. CASE pc' \notin {"ready", "gone"}
    BY <2>1, <2>3, <2>4, Zenon DEF Service!serviceVars
  <2>5. CASE pc' = "gone"
    BY <2>1, <2>2, <2>3, <2>5, Zenon DEF Service!Next, Service!Vanish
  <2>6. CASE pc' = "ready" /\ result' = "ok"
    <3>1. ch' = current' /\ ln' = socket' /\ rq' = "served" /\ current' \in Endpoint
      BY <1>0, <2>6, Zenon DEF TypeOK
    <3>2. op = "ResetConnection" => current' = entry.endpoint
      BY <1>0, <2>1, Zenon DEF EndpointInv
    <3>3. \/ ch' \in Endpoint /\ ln' = Service!Greeted(ch')
          \/ rq = "RetryGuard" /\ ln.hello /\ ch' = ch /\ ln' = ln
      BY <1>0, <1>2, <2>3, <2>6, <3>1, LinkLeft, Zenon DEF Handshaken, Service!Greeted
    <3> QED
      BY <2>3, <3>1, <3>2, <3>3, Zenon DEF Service!Next, Service!Succeed
  <2>7. CASE pc' = "ready" /\ result' # "ok"
    <3>1. ch' = entry.endpoint /\ ln' = socket' /\ rq' = "failed" /\ op # "Client"
      BY <1>0, <2>1, <2>2, <2>7, Zenon DEF EndpointInv
    <3>2. ln' \in Service!Leftover
      <4>1. \/ socket' = entry.link
            \/ op = "ResetConnection" /\ socket' = Service!Ungreeted(entry.endpoint)
            \/ op = "ResetConnectionEndpoint" /\ \E e \in Endpoint : socket' = Service!Ungreeted(e)
            \/ op = "RetryGuard" /\ socket' \in [peer : Endpoint, hello : BOOLEAN]
        BY <1>0, <1>2, <2>7, LinkLeft, Zenon
      <4> QED
        BY <2>3, <3>1, <4>1, Zenon DEF Service!Leftover
    <3> QED
      BY <2>3, <3>1, <3>2, Zenon DEF Service!Next, Service!Fail
  <2> QED
    BY <2>4, <2>5, <2>6, <2>7, Zenon
<1>3. CASE UNCHANGED vars
  BY <1>3, Zenon DEF vars, Service!serviceVars
<1> QED
  BY <1>1, <1>2, <1>3, Zenon DEF Next

\* To the application a call is one step: it chooses an endpoint and leaves a
\* handshaken link to it, or fails and reports the endpoint it found.
THEOREM Refinement == Spec => ImplementsService
BY ServiceInit, ServiceStep, Invariance, PTL DEF Spec, ImplementsService, Service!Spec
=============================================================================
