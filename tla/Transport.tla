------------------------------ MODULE Transport ------------------------------
(***************************************************************************)
(* Client::Impl::ResetConnection in full: the socket of SocketFactory::    *)
(* connect (module Sockets), InitializeStreams, which exchanges streams    *)
(* and socket, and the handshake, which fills server_info_ field by field; *)
(* and SendQuery, which writes the layout that server_info_.revision asks  *)
(* for.  Which endpoint is tried when is the subject of module Connection, *)
(* the packets that follow a query that of module Session.                 *)
(***************************************************************************)
EXTENDS Sockets

CONSTANTS Revision,     \* server -> the protocol revision it speaks
          NoServer,
          MaxResets,    \* calls of ResetConnection in a behaviour
          MaxQueries    \* calls of SendQuery in a behaviour

ASSUME RevisionAssumption == Revision \in [Servers -> Nat]
ASSUME NoServerAssumption == NoServer \notin Servers
ASSUME BoundsAssumption == MaxResets \in Nat /\ MaxQueries \in Nat

VARIABLES socket_, input_, output_,   \* the handles the three are made of
          hello,        \* the handshake on these streams completed
          incoming,     \* what the server sent on them and was not read
          server_info,  \* field -> what was read into it
          next,         \* the fields ReceiveHello has yet to look for
          buffer,       \* the packets in output_'s buffer
          sent,         \* the packets that went to the server
          constructed,  \* the constructor returned
          before,       \* the connection and the result a call began with
          resets, queries

streamVars == <<socket_, input_, output_>>
protocolVars == <<hello, incoming, server_info, next, buffer, sent>>
callVars == <<constructed, before, resets, queries>>
vars == <<osVars, pc, result, connectVars, streamVars, protocolVars, callVars>>

-----------------------------------------------------------------------------
(* The fields of ServerInfo in the order of the Hello packet; "name"       *)
(* stands for the name and the two version numbers after it.               *)

Fields == <<"name", "revision", "timezone", "display_name", "version_patch">>

\* Mutant: a field is taken to come one revision later than it does.
ReadLate(f, revision) ==
    CASE f = "timezone" -> revision > 54058
      [] f = "display_name" -> revision > 54372
      [] f = "version_patch" -> revision > 54401
      [] OTHER -> TRUE

\* ReceiveHello looks for field f.
Reads(f, revision) ==
    CASE f = "timezone" -> revision >= 54058
      [] f = "display_name" -> revision >= 54372
      [] f = "version_patch" -> revision >= 54401
      [] OTHER -> TRUE

\* What server s writes: its own revision says how many fields it knows.
Knows(s) == CASE Revision[s] < 54058 -> 2
              [] Revision[s] \in 54058 .. 54371 -> 3
              [] Revision[s] \in 54372 .. 54400 -> 4
              [] OTHER -> 5

Field(s, i) == [field |-> Fields[i], of |-> s]

Hello(s) == [i \in 1 .. Knows(s) |-> Field(s, i)]

Unset == [field |-> "unset", of |-> NoServer]

\* server_info_.revision: a number only if it was read from the right place.
revision_ == IF server_info["revision"].field = "revision"
             THEN Revision[server_info["revision"].of] ELSE 0

Peer == IF socket_ \in DOMAIN fds THEN fds[socket_].addr ELSE NoServer

Link == [peer |-> Peer, hello |-> hello]

Init ==
    /\ SocketsInit
    /\ pc = "ready" /\ result = [class |-> "none", error |-> NoError]
    /\ socket_ = INVALID_SOCKET /\ input_ = INVALID_SOCKET
    /\ output_ = INVALID_SOCKET
    /\ hello = FALSE /\ incoming = <<>> /\ next = <<>>
    /\ server_info = [f \in Range(Fields) |-> Unset]
    /\ buffer = <<>> /\ sent = <<>>
    /\ constructed = FALSE /\ resets = 0 /\ queries = 0
    /\ before = [link |-> [peer |-> NoServer, hello |-> FALSE],
                 last |-> "none"]

-----------------------------------------------------------------------------
(* ResetConnection, called by the application or a retry loop.             *)

Begin ==
    /\ pc = "ready" /\ resets < MaxResets
    /\ pc' = "resolve"
    /\ resets' = resets + 1
    /\ before' = [link |-> Link, last |-> result.class]
    /\ met' = {}
    /\ UNCHANGED <<app, errno, result, secure, addrs, raii, last_err, socket,
                   protocolVars, constructed, queries>>

\* Mutant: the old connection is given up before the new one is made.
ResetConnectionClosesFirst ==
    /\ Begin
    /\ fds' = CloseSocket(fds, socket_)
    /\ socket_' = INVALID_SOCKET /\ input_' = INVALID_SOCKET
    /\ output_' = INVALID_SOCKET

ResetConnection == Begin /\ UNCHANGED <<fds, streamVars>>

(* The streams are made from the new socket and all three are exchanged;   *)
(* the parameter is left with the old socket.                              *)
InitializeStreams ==
    /\ pc = "install"
    /\ input_' = socket /\ output_' = socket
    /\ socket_' = socket /\ socket' = socket_
    /\ hello' = FALSE /\ incoming' = <<>> /\ buffer' = <<>> /\ sent' = <<>>
    /\ pc' = "dispose"
    /\ UNCHANGED <<osVars, result, secure, addrs, raii, last_err, met,
                   server_info, next, callVars>>

(* The end of the expression that called it: the old socket is destroyed.  *)
DisposeSocket ==
    /\ pc = "dispose"
    /\ fds' = CloseSocket(fds, socket)
    /\ socket' = INVALID_SOCKET
    /\ pc' = "hello"
    /\ UNCHANGED <<app, errno, result, secure, addrs, raii, last_err, met,
                   streamVars, protocolVars, callVars>>

HelloPacket == [kind |-> "Hello", revision |-> 0]

\* What a send or a receive throws when it fails.  Through an SSLSocket it
\* is an OpenSSLError whatever went wrong, which is no std::system_error.
TLSErrors == {[class |-> "rejected", error |-> "OpenSSLError"]}

SendErrors ==
    IF secure THEN TLSErrors ELSE {[class |-> "lost", error |-> "EPIPE"]}

ReceiveErrors ==
    IF secure THEN TLSErrors
    ELSE {[class |-> "lost", error |-> "EAGAIN"],
          [class |-> "rejected", error |-> "ProtocolError"]}

(* SendHello; the flush may fail and then keeps the packet.                *)
SendHello ==
    /\ pc = "hello"
    /\ sent' = Append(sent, HelloPacket)
    /\ \E reply \in {"Hello", "Exception", "other"} :
           incoming' = <<[field |-> reply, of |-> Peer]>>
                       \o (IF reply = "Hello" THEN Hello(Peer) ELSE <<>>)
    /\ pc' = "receive"
    /\ UNCHANGED <<osVars, result, connectVars, streamVars, hello,
                   server_info, next, buffer, callVars>>

SendHelloThrows ==
    /\ pc = "hello"
    /\ buffer' = Append(buffer, HelloPacket)
    /\ \E e \in SendErrors :
           Throws(e.class, e.error) /\ met' = met \cup {e.error}
    /\ UNCHANGED <<osVars, secure, addrs, raii, last_err, socket, streamVars,
                   hello, incoming, server_info, next, sent, callVars>>

(* ReceiveHello: the code of the packet.                                   *)
ReceiveHello ==
    /\ pc = "receive" /\ Head(incoming).field = "Hello"
    /\ incoming' = Tail(incoming)
    /\ next' = Fields
    /\ pc' = "fields"
    /\ UNCHANGED <<osVars, result, connectVars, streamVars, hello,
                   server_info, buffer, sent, callVars>>

(* An Exception packet is thrown; any other makes ResetConnection throw.   *)
ReceiveHelloRejects ==
    /\ pc = "receive" /\ Head(incoming).field # "Hello"
    /\ incoming' = Tail(incoming)
    /\ Throws("rejected", "ServerError") /\ met' = met \cup {"ServerError"}
    /\ UNCHANGED <<osVars, secure, addrs, raii, last_err, socket, streamVars,
                   hello, server_info, next, buffer, sent, callVars>>

(* The receive times out, or the server closed the connection.             *)
ReadThrows ==
    /\ pc = "receive" \/ (pc = "fields" /\ next # <<>>)
    /\ \E e \in ReceiveErrors :
           Throws(e.class, e.error) /\ met' = met \cup {e.error}
    /\ next' = <<>>
    /\ UNCHANGED <<osVars, secure, addrs, raii, last_err, socket, streamVars,
                   hello, incoming, server_info, buffer, sent, callVars>>

\* Mutant: the revision of the first server is kept.
ReceiveFieldOnce ==
    /\ pc = "fields" /\ next # <<>>
    /\ next' = Tail(next)
    /\ IF Reads(Head(next), revision_)
       THEN /\ incoming # <<>> /\ incoming' = Tail(incoming)
            /\ server_info' =
                   [server_info EXCEPT ![Head(next)] =
                        IF Head(next) = "revision" /\ @ # Unset THEN @
                        ELSE Head(incoming)]
       ELSE UNCHANGED <<incoming, server_info>>
    /\ UNCHANGED <<osVars, pc, result, connectVars, streamVars, hello,
                   buffer, sent, callVars>>

(* One field of server_info_, if this revision has it.                     *)
ReceiveField ==
    /\ pc = "fields" /\ next # <<>>
    /\ next' = Tail(next)
    /\ IF Reads(Head(next), revision_)
       THEN /\ incoming # <<>> /\ incoming' = Tail(incoming)
            /\ server_info' = [server_info EXCEPT ![Head(next)] =
                                   Head(incoming)]
       ELSE UNCHANGED <<incoming, server_info>>
    /\ UNCHANGED <<osVars, pc, result, connectVars, streamVars, hello,
                   buffer, sent, callVars>>

(* The rest of Handshake: the addendum is left in the buffer.              *)
HandshakeEnds ==
    /\ pc = "fields" /\ next = <<>>
    /\ buffer' = IF revision_ >= 54458
                 THEN Append(buffer, [kind     |-> "addendum",
                                      revision |-> revision_])
                 ELSE buffer
    /\ hello' = TRUE /\ constructed' = TRUE
    /\ pc' = "ready" /\ result' = Ok
    /\ UNCHANGED <<osVars, connectVars, streamVars, incoming, server_info,
                   next, sent, before, resets, queries>>

-----------------------------------------------------------------------------
(* SendQuery writes as it goes and throws in the middle of the packet when *)
(* the server is too old for the tracing context or the settings.          *)

Refuses(query) ==
    \/ query = "tracing" /\ revision_ \in 54032 .. 54441
    \/ query = "settings" /\ revision_ < 54429

SendQuery(query) ==
    /\ pc = "ready" /\ constructed /\ queries < MaxQueries
    /\ queries' = queries + 1
    /\ IF Refuses(query)
       THEN /\ buffer' = Append(buffer, [kind |-> "part",
                                         revision |-> revision_])
            /\ UNCHANGED sent
       ELSE LET packets == Append(buffer, [kind |-> "query",
                                           revision |-> revision_])
            IN  \/ sent' = sent \o packets /\ buffer' = <<>>
                \/ buffer' = packets /\ UNCHANGED sent   \* the flush throws
    /\ UNCHANGED <<osVars, pc, result, connectVars, streamVars, hello,
                   incoming, server_info, next, constructed, before, resets>>

(* ~Impl, also when the constructor throws.                                *)
Destroy ==
    /\ pc = "ready" /\ resets > 0
    /\ fds' = CloseSocket(fds, socket_)
    /\ socket_' = INVALID_SOCKET /\ input_' = INVALID_SOCKET
    /\ output_' = INVALID_SOCKET
    /\ hello' = FALSE
    /\ pc' = "gone"
    /\ UNCHANGED <<app, errno, result, connectVars, incoming, server_info,
                   next, buffer, sent, callVars>>

ClientSteps ==
    \/ ConnectSteps /\ UNCHANGED <<streamVars, protocolVars, callVars>>
    \/ InitializeStreams \/ DisposeSocket
    \/ SendHello \/ SendHelloThrows
    \/ ReceiveHello \/ ReceiveHelloRejects \/ ReadThrows
    \/ ReceiveField \/ HandshakeEnds

AppSteps == (AppOpens \/ AppCloses)
            /\ UNCHANGED <<streamVars, protocolVars, callVars>>

Next ==
    \/ ResetConnection \/ ClientSteps \/ Destroy \/ AppSteps
    \/ \E query \in {"plain", "settings", "tracing"} : SendQuery(query)

(* The thread inside a call runs on: poll has a timeout, and so have recv  *)
(* and send when the options set one; without, the peer has to answer or   *)
(* to close the connection.                                                *)
Spec == Init /\ [][Next]_vars /\ WF_vars(ClientSteps)

-----------------------------------------------------------------------------

TypeOK ==
    /\ raii # INVALID_SOCKET
           <=> pc \in {"configure", "connect", "poll", "unblock"}
    /\ socket # INVALID_SOCKET => pc \in {"tls", "install", "dispose"}
    /\ addrs \in Seq(Servers) /\ Len(addrs) <= MaxAddresses
    /\ \A f \in DOMAIN server_info :
           server_info[f].of \in Servers \cup {NoServer}
    /\ resets \in 0 .. MaxResets /\ queries \in 0 .. MaxQueries

(* Every descriptor the client opened is held by exactly one of the RAII   *)
(* wrapper, the socket being made or replaced, and socket_: none is leaked *)
(* on any error path, none is closed twice, and what the application opens *)
(* under a reused number stays open until the application closes it.       *)
(* The state keeps its types.                                              *)
HandlesOwnedOnce ==
    LET holders == <<raii, socket, socket_>>
        Open(who) == {h \in DOMAIN fds : fds[h].owner = who}
    IN  /\ TypeOK
        /\ Open("client") = Range(holders) \ {INVALID_SOCKET}
        /\ \A i, j \in DOMAIN holders :
               holders[i] = holders[j] => i = j \/ holders[i] = INVALID_SOCKET
        /\ Open("app") = {app} \ {INVALID_SOCKET}

(* The streams read and write socket_'s descriptor, never one that was     *)
(* closed or replaced, and that descriptor is connected, in blocking mode  *)
(* and has its timeouts, whatever attempt failed before or since.          *)
StreamsFollowSocket ==
    /\ input_ = socket_ /\ output_ = socket_
    /\ socket_ # INVALID_SOCKET =>
           /\ socket_ \in DOMAIN fds /\ fds[socket_].owner = "client"
           /\ fds[socket_].connected /\ fds[socket_].blocking
           /\ fds[socket_].timeouts

(* The exception of a failed ResetConnection carries an error this very    *)
(* call met, on some address: not EINPROGRESS, and not an errno left over  *)
(* from before.                                                            *)
ErrorOfThisCall ==
    pc = "ready" /\ result.class \notin {"none", "ok"} => result.error \in met

(* After a handshake nothing of the Hello packet is left in the stream,    *)
(* and every field the server knows was read from it, into its own place.  *)
(* A field it does not know may still be that of an earlier server.        *)
HelloUnderstood ==
    hello => /\ incoming = <<>>
             /\ \A x \in Range(Hello(Peer)) : server_info[x.field] = x

(* On a connection that completed its handshake, every packet is written   *)
(* in the layout of the revision its reader speaks, although server_info_  *)
(* outlives connections and failed handshakes write parts of it.           *)
ServerReadsItsLayout ==
    hello => \A i \in DOMAIN sent :
                 \/ sent[i].kind = "Hello"
                 \/ sent[i].revision = Revision[Peer]

(* ResetConnection returns or throws, however many addresses fail.         *)
ResetReturns == pc = "resolve" ~> pc = "ready"

(* ResetConnection is the attempt the retry loops rely on.                 *)
Attempt == INSTANCE ConnectionAttempt WITH
    link <- IF pc \in {"ready", "gone"} THEN Link ELSE before.link,
    last <- IF pc \in {"ready", "gone"} THEN result.class ELSE before.last

ImplementsAttempt == Attempt!Spec

=============================================================================
