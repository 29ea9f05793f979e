-------------------------- MODULE ConnectionAttempt --------------------------
(***************************************************************************)
(* What Client::Impl::ResetConnection promises its callers, the retry      *)
(* loops: an attempt that fails before the connection is made leaves the   *)
(* old connection as it was; one that fails later has replaced it by a     *)
(* connection without a handshake; and only a completed handshake counts   *)
(* as success.  Module Connection takes its attempts to be of this kind.   *)
(***************************************************************************)
CONSTANTS Servers, NoServer

VARIABLES link,   \* whom the streams talk to, and whether they said hello
          last    \* the class of the error of the last attempt, or "ok"

attemptVars == <<link, last>>

NoLink == [peer |-> NoServer, hello |-> FALSE]

Init == link = NoLink /\ last = "none"

\* SocketFactory::connect threw.
FailsToConnect ==
    /\ last' \in {"connect", "tls"}
    /\ link' = link

\* The handshake on the new streams threw.
FailsToGreet ==
    /\ last' \in {"lost", "rejected"}
    /\ \E s \in Servers : link' = [peer |-> s, hello |-> FALSE]

Succeeds ==
    /\ last' = "ok"
    /\ \E s \in Servers : link' = [peer |-> s, hello |-> TRUE]

\* Client::Impl is destroyed.
Closes == link' = NoLink /\ last' = last

Next == FailsToConnect \/ FailsToGreet \/ Succeeds \/ Closes

Spec == Init /\ [][Next]_attemptVars

=============================================================================
