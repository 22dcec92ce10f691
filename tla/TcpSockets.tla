------------------------------- MODULE TcpSockets -------------------------------
(***************************************************************************)
(* Opening and closing the TCP sockets of the RTSP connection:             *)
(* services/network (TcpSocket, TcpServer, TcpSession, TcpClient).         *)
(***************************************************************************)
EXTENDS Sockets

\* The step of TcpServer::Start, or of TcpSession::Start, that fails.
ServerFailures == {"none", "create", "bind", "listen", "listener"}
SessionFailures == {"none", "listener"}

ListenSocket(s, fail) == s.fd /\ fail # "listen"

\* TcpSocket::Bind only shuts the descriptor down when a step behind its creation fails.
TcpSocketBind(s, fail) == BindSocket(s, fail) /\ ListenSocket(s, fail)

TcpServerStart(fail) ==
    LET s == CreateSocket(fail)
    IN  IF TcpSocketBind(s, fail) THEN AddFdListener(s, fail) ELSE s

\* CreateTcpServer hands the server out even if it did not start.
CreateTcpServer(s) == s.heard

TcpServerStop(s) == CloseSocket(RemoveFdListener(s))

\* The kernel completes connections, whether or not somebody is told of them.
IsListening(s) == s.fd /\ s.known

\* TcpServer accepts, and WfdSourceSession::OnAccept starts the session.
AcceptSocket == CreateSocket("none")
SessionStart(s, fail) == AddFdListener(s, fail)
SessionShutdown(s) == CloseSocket(RemoveFdListener(s))

-----------------------------------------------------------------------------
(* The client connects without blocking and asks select() for the outcome.   *)

\* What select() returns for a connection: 1, only writable, or 2, readable as well, which is
\* taken for an error: the peer closed, or it has already written something.
Selected(writtenTo, closed) == IF writtenTo THEN {2} ELSE IF closed THEN {1, 2} ELSE {1}

CheckAsyncConnect(rc) == rc = 1

\* TcpSocket::Connect and TcpClient::Connect: a failed connection is closed.
TcpClientConnect(rc) ==
    IF CheckAsyncConnect(rc) THEN AddFdListener(CreateSocket("none"), "none")
    ELSE CloseSocket(CreateSocket("none"))
CreateTcpClient(s) == s.heard

Disconnect(s) == CloseSocket(RemoveFdListener(s))
=============================================================================
