------------------------------- MODULE Sockets -------------------------------
(***************************************************************************)
(* SocketFactory::connect: NetworkAddress, the loop of SocketConnect over  *)
(* the addresses of a host with its RAII handle, and the TLS handshake of  *)
(* SSLSocket (base/socket.cpp, base/sslsocket.cpp).                        *)
(*                                                                         *)
(* Handles are numbers of the process's descriptor table, and socket()     *)
(* takes the lowest free one, so that a handle that is closed twice, or    *)
(* used after it was closed, may be somebody else's by then.  Somebody     *)
(* else is a thread of the application that opens and closes one           *)
(* descriptor of its own.  A failing system call is a choice of the model. *)
(***************************************************************************)
EXTENDS Integers, Sequences, FiniteSets, Functions

CONSTANTS Servers,        \* the addresses a host name can resolve to
          MaxAddresses    \* how many of them at once

ASSUME MaxAddressesAssumption == MaxAddresses \in Nat \ {0}

VARIABLES fds,       \* the descriptor table: handle -> who opened it, the
                     \* address, and what was done to the socket since
          app,       \* the handle of the application's thread
          errno,     \* of the client's thread
          secure,    \* the factory is an SSLSocketFactory
          pc,        \* where the client's thread is
          result,    \* how its last call ended
          addrs,     \* the addresses SocketConnect has not tried yet
          raii,      \* SocketRAIIWrapper::socket
          last_err,  \* of SocketConnect
          socket,    \* handle_ of the Socket that connect is making, then
                     \* the parameter of InitializeStreams
          met        \* the errors the call met so far

osVars == <<fds, app, errno>>
connectVars == <<secure, addrs, raii, last_err, socket, met>>

INVALID_SOCKET == 0
NoError == "0"
Ok == [class |-> "ok", error |-> NoError]

\* What socket() may return: the lowest free handle.
NewHandles == {h \in 1 .. Cardinality(DOMAIN fds) + 1 :
                  h \notin DOMAIN fds /\ 1 .. h - 1 \subseteq DOMAIN fds}

OpenSocket(table, h, entry) ==
    [x \in DOMAIN table \cup {h} |-> IF x = h THEN entry ELSE table[x]]

CloseSocket(table, h) == Restrict(table, DOMAIN table \ {h})

\* The variables of a call of SocketConnect that returned or threw.
Leaves == addrs' = <<>> /\ last_err' = NoError /\ raii' = INVALID_SOCKET

Throws(class, e) ==
    /\ pc' = "ready"
    /\ result' = [class |-> class, error |-> e]

-----------------------------------------------------------------------------
(* The application's thread.                                               *)

AppOpens ==
    /\ app = INVALID_SOCKET
    /\ app' \in NewHandles
    /\ fds' = OpenSocket(fds, app', [owner |-> "app"])
    /\ UNCHANGED <<errno, pc, result, connectVars>>

AppCloses ==
    /\ app # INVALID_SOCKET
    /\ fds' = CloseSocket(fds, app)
    /\ app' = INVALID_SOCKET
    /\ UNCHANGED <<errno, pc, result, connectVars>>

-----------------------------------------------------------------------------
(* NetworkAddress: getaddrinfo fails, or has at least one address.         *)

ResolveThrows ==
    /\ pc = "resolve"
    /\ Throws("connect", "EAI") /\ met' = met \cup {"EAI"}
    /\ UNCHANGED <<osVars, secure, addrs, raii, last_err, socket>>

Resolves ==
    /\ pc = "resolve"
    /\ \E n \in 1 .. MaxAddresses : addrs' \in [1 .. n -> Servers]
    /\ last_err' = NoError
    /\ pc' = "address"
    /\ UNCHANGED <<osVars, result, secure, raii, socket, met>>

(* SocketConnect, the head of the loop: socket() for the next address.     *)
SocketFails ==
    /\ pc = "address" /\ addrs # <<>>
    /\ errno' = "EMFILE" /\ met' = met \cup {"EMFILE"}
    /\ addrs' = Tail(addrs)
    /\ UNCHANGED <<fds, app, pc, result, secure, raii, last_err, socket>>

SocketOpens ==
    /\ pc = "address" /\ addrs # <<>>
    /\ raii' \in NewHandles
    /\ fds' = OpenSocket(fds, raii',
                         [owner |-> "client", addr |-> Head(addrs),
                          blocking |-> TRUE, timeouts |-> FALSE,
                          connected |-> FALSE])
    /\ addrs' = Tail(addrs)
    /\ pc' = "configure"
    /\ UNCHANGED <<app, errno, result, secure, last_err, socket, met>>

(* ~SocketRAIIWrapper, when an exception leaves the loop.                  *)
LoopThrows(e) ==
    /\ fds' = CloseSocket(fds, raii)
    /\ Leaves
    /\ errno' = e /\ met' = met \cup {e}
    /\ Throws("connect", e)
    /\ UNCHANGED <<app, secure, socket>>

(* SetNonBlock(true) and SetTimeout.                                       *)
ConfigureThrows == pc = "configure" /\ LoopThrows("EINVAL")

Configures ==
    /\ pc = "configure"
    /\ fds' = [fds EXCEPT ![raii].blocking = FALSE, ![raii].timeouts = TRUE]
    /\ pc' = "connect"
    /\ UNCHANGED <<app, errno, result, connectVars>>

(* The end of a turn of the loop: the handle is closed.                    *)
NextAddress(e, code) ==
    /\ fds' = CloseSocket(fds, raii)
    /\ raii' = INVALID_SOCKET
    /\ last_err' = e
    /\ errno' = code
    /\ pc' = "address"
    /\ UNCHANGED <<app, result, secure, addrs, socket>>

(* connect() itself fails: the error stays in errno, not in last_err.      *)
ConnectFails ==
    /\ pc = "connect"
    /\ NextAddress(last_err, "ENETUNREACH")
    /\ met' = met \cup {"ENETUNREACH"}

ConnectInProgress ==
    /\ pc = "connect"
    /\ errno' = "EINPROGRESS"
    /\ pc' = "poll"
    /\ UNCHANGED <<fds, app, result, connectVars>>

Connects ==
    /\ pc = "connect"
    /\ fds' = [fds EXCEPT ![raii].connected = TRUE]
    /\ pc' = "unblock"
    /\ UNCHANGED <<app, errno, result, connectVars>>

PollThrows == pc = "poll" /\ LoopThrows("EINTR")

\* Mutants: a timeout leaves last_err as it was, or tries the same address
\* again.
PollTimesOutUnrecorded ==
    /\ pc = "poll"
    /\ NextAddress(last_err, errno)
    /\ met' = met \cup {"ETIMEDOUT"}

PollTimesOutRetries ==
    /\ pc = "poll"
    /\ pc' = "connect"
    /\ met' = met \cup {"ETIMEDOUT"}
    /\ UNCHANGED <<osVars, result, secure, addrs, raii, last_err, socket>>

PollTimesOut ==
    /\ pc = "poll"
    /\ NextAddress("ETIMEDOUT", errno)
    /\ met' = met \cup {"ETIMEDOUT"}

(* The socket is ready: SO_ERROR tells whether it is connected.            *)
PollFindsError ==
    /\ pc = "poll"
    /\ NextAddress("ECONNREFUSED", errno)
    /\ met' = met \cup {"ECONNREFUSED"}

PollFindsConnected ==
    /\ pc = "poll"
    /\ fds' = [fds EXCEPT ![raii].connected = TRUE]
    /\ pc' = "unblock"
    /\ UNCHANGED <<app, errno, result, connectVars>>

UnblockThrows == pc = "unblock" /\ LoopThrows("EINVAL")

\* Mutant: release() keeps the handle.
ReleaseKeeps == raii

\* What SocketRAIIWrapper holds after release().
Release == INVALID_SOCKET

\* Mutant: the socket is returned as it is, in non-blocking mode.
UnblockForgotten ==
    /\ pc = "unblock"
    /\ socket' = raii
    /\ Leaves
    /\ pc' = IF secure THEN "tls" ELSE "install"
    /\ UNCHANGED <<osVars, result, secure, met>>

(* SetNonBlock(false), release(), and the wrapper's destructor.            *)
Unblocks ==
    /\ pc = "unblock"
    /\ socket' = raii
    /\ fds' = CloseSocket([fds EXCEPT ![raii].blocking = TRUE], Release)
    /\ Leaves
    /\ pc' = IF secure THEN "tls" ELSE "install"
    /\ UNCHANGED <<app, errno, result, secure, met>>

(* No address is left.                                                     *)
SocketConnectThrows ==
    /\ pc = "address" /\ addrs = <<>>
    /\ Throws("connect", IF last_err # NoError THEN last_err ELSE errno)
    /\ Leaves
    /\ UNCHANGED <<osVars, secure, socket, met>>

(* SSLSocket's constructor; when it throws, the Socket part is destroyed.  *)
TlsThrows ==
    /\ pc = "tls"
    /\ fds' = CloseSocket(fds, socket)
    /\ socket' = INVALID_SOCKET
    /\ Throws("tls", "OpenSSLError") /\ met' = met \cup {"OpenSSLError"}
    /\ UNCHANGED <<app, errno, secure, addrs, raii, last_err>>

TlsConnects ==
    /\ pc = "tls"
    /\ pc' = "install"
    /\ UNCHANGED <<osVars, result, connectVars>>

SocketsInit ==
    /\ fds = <<>> /\ app = INVALID_SOCKET /\ errno = NoError
    /\ secure \in BOOLEAN
    /\ addrs = <<>> /\ raii = INVALID_SOCKET /\ last_err = NoError
    /\ socket = INVALID_SOCKET /\ met = {}

ConnectSteps ==
    \/ ResolveThrows \/ Resolves
    \/ SocketFails \/ SocketOpens \/ ConfigureThrows \/ Configures
    \/ ConnectFails \/ ConnectInProgress \/ Connects
    \/ PollThrows \/ PollTimesOut \/ PollFindsError \/ PollFindsConnected
    \/ UnblockThrows \/ Unblocks \/ SocketConnectThrows
    \/ TlsThrows \/ TlsConnects

=============================================================================
