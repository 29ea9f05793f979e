-------------------------- MODULE EndpointService ---------------------------
(***************************************************************************)
(* What Client offers an application that reconnects: an endpoint it       *)
(* reports with GetCurrentEndpoint and a link, the peer of its streams.    *)
(* A call that succeeds leaves a link that has said hello, to the endpoint *)
(* it reports unless it only pinged the link it found; a call that throws  *)
(* reports the same endpoint as before.  A failed ResetConnection or       *)
(* ResetConnectionEndpoint leaves the old link or one without a handshake; *)
(* a failed RetryGuard may leave any.  So the endpoint reported is not     *)
(* always "the last successfully connected endpoint" of client.h:340: a    *)
(* failover that connects and cannot ping reports the one before.          *)
(***************************************************************************)

CONSTANTS Endpoints, NoEndpoint

VARIABLES chosen,    \* the current endpoint, as the application sees it
          link,      \* whom the streams talk to, and whether they said hello
          request    \* the call in progress, or how the last one ended: it was
                     \* "served", it "failed", or it was a constructor that
                     \* threw and left the object "gone"

serviceVars == <<chosen, link, request>>

Requests == {"Client", "ResetConnection", "ResetConnectionEndpoint", "RetryGuard"}

Greeted(e) == [peer |-> e, hello |-> TRUE]
Ungreeted(e) == [peer |-> e, hello |-> FALSE]

Init ==
    /\ chosen \in Endpoints /\ link = Ungreeted(NoEndpoint)
    /\ request = "Client"

Ask ==
    /\ request \in {"served", "failed"}
    /\ request' \in Requests \ {"Client"}
    /\ UNCHANGED <<chosen, link>>

\* The call connected, or found that it need not.
Succeed ==
    /\ request \in Requests
    /\ \/ chosen' \in Endpoints /\ link' = Greeted(chosen')
       \/ request = "RetryGuard" /\ link.hello /\ UNCHANGED <<chosen, link>>
    /\ request = "ResetConnection" => chosen' = chosen
    /\ request' = "served"

\* The links a call that throws may leave.
Leftover ==
    {link} \cup
    CASE request = "ResetConnection" -> {Ungreeted(chosen)}
      [] request = "ResetConnectionEndpoint" -> {Ungreeted(e) : e \in Endpoints}
      [] request = "RetryGuard" -> [peer : Endpoints, hello : BOOLEAN]

Fail ==
    /\ request \in Requests \ {"Client"}
    /\ link' \in Leftover
    /\ request' = "failed"
    /\ UNCHANGED chosen

\* The constructor throws.
Vanish == request = "Client" /\ request' = "gone" /\ UNCHANGED <<chosen, link>>

Next == Ask \/ Succeed \/ Fail \/ Vanish

Spec == Init /\ [][Next]_serviceVars
=============================================================================
