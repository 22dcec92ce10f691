------------------------------- MODULE UdpSockets -------------------------------
(***************************************************************************)
(* What opening and closing a UDP socket leaves behind when one of its     *)
(* steps fails: services/network (SocketUtils, UdpSocket, UdpClient,       *)
(* UdpServer, UdpSession), on the descriptors of Sockets.                  *)
(***************************************************************************)
EXTENDS Sockets

\* The step that fails.
ConnectFailures == {"none", "create", "connect", "listener"}
BindFailures == {"none", "create", "bind", "listener"}
PeerFailures == {"none", "create", "bind", "connect"}

-----------------------------------------------------------------------------
(* UdpClient *)

\* UdpSocket::Connect leaves the descriptor open when the connect itself fails.
UdpClientConnect(fail) ==
    LET s == CreateSocket(fail)
    IN  IF ConnectSocket(s, fail) THEN AddFdListener(s, fail) ELSE s

\* CreateUdpClient returns what AddFdListener returned.
CreateUdpClient(s) == s.heard

\* Disconnect calls a listener that a failed Connect has not made.
NoListener(s) == ~s.known
Disconnect(s) == CloseSocket(RemoveFdListener(s))

-----------------------------------------------------------------------------
(* UdpServer and the session of its peer *)

\* UdpSocket::Bind
Bind(fail) == CreateSocket(fail)

UdpServerStart(fail) ==
    LET s == Bind(fail)
    IN  IF BindSocket(s, fail) THEN AddFdListener(s, fail) ELSE s

UdpServerStop(s) == CloseSocket(RemoveFdListener(s))

\* CreateUdpServer hands the server out also when it has not started.
CreateUdpServer(fail) == UdpServerStart(fail)

\* BindAndConnectClinetFd closes the descriptor when the connect fails and only shuts it down
\* when the bind fails: that one stays open for ever and is not followed any further.
BindAndConnectClientFd(s, fail) ==
    IF ~BindSocket(s, fail) \/ ~ConnectSocket(s, fail) THEN Closed ELSE s

\* The session of the peer, made with the first packet.
FindOrCreateSession(peer, fail) ==
    IF peer.fd THEN peer ELSE BindAndConnectClientFd(CreateSocket(fail), fail)

\* UdpSession::Shutdown; nobody starts the session, so that it has no listener.
SessionShutdown(s) == CloseSocket(s)
=============================================================================
