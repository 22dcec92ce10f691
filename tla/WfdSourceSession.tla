--------------------------- MODULE WfdSourceSession ---------------------------
(***************************************************************************)
(* The RTSP server of a Miracast source:                                   *)
(* services/source/impl/wfd/wfd_source/wfd_source_session.cpp.             *)
(*                                                                         *)
(* The server accepts one connection and leads the WFD exchange M1 .. M7,  *)
(* then sends a keep-alive request (M16) whenever its timer fires.  A      *)
(* response is accepted only if it carries the number of the LAST request; *)
(* what it answers is told by wfdState_.  Like the sink, the session is    *)
(* one record, and `up' says whether Send works.                           *)
(***************************************************************************)
EXTENDS Naturals, Sequences, RtspMessage, WfdParams, TcpSockets

CONSTANTS MaxKeepAlive,  \* bound on the firings of the keep-alive timer
          MaxCounts,     \* MAX_RTSP_TIMEOUT_COUNTS (3 in the code)
          MaxChunk       \* most messages that one read returns

VARIABLES source,    \* the session
          toSink,    \* messages on their way to the sink
          toSource,  \* messages on their way from the sink
          link       \* the TCP connection: "none", "up", "down", or "deaf" if nobody reads it

sessionID == "id"  \* eight random digits

NoChoice == [video |-> "VIDEO_1920X1080_30", codec |-> "DEFAULT", port |-> 0]

InitSource ==
    [server    |-> "none",     \* rtspServerPtr_: none, listening, failed or stopped
     socket    |-> Closed,     \* its socket
     peer      |-> Closed,     \* socket of the network session that is read from
     accepted  |-> FALSE,      \* a WfdSourceNetworkSession is registered
     closed    |-> FALSE,      \* its OnSessionClose was called
     choice    |-> NoChoice,   \* videoFormat_, wfdAudioCodec_ and sinkRtpPort_
     wfd       |-> "M0",       \* wfdState_
     cseq      |-> 0,          \* cseq_
     counts    |-> MaxCounts,  \* rtspTimeoutCounts_
     prosumer  |-> "INIT",     \* prosumerState_
     timers    |-> 0,          \* keep-alive timers registered
     timerId   |-> FALSE,      \* timerId_ names one of them
     last      |-> NoMessage,  \* lastMessage_
     fired     |-> 0,          \* firings of the keep-alive timer (bounded by MaxKeepAlive)
     creates   |-> 0,          \* NOTIFY_PROSUMER_CREATE sent to the agent
     media     |-> "none",     \* progress of the producer: none, created, reported
     told      |-> {},         \* what else the agent was notified of
     out       |-> <<>>]       \* messages sent by the current action

\* WfdSessionState, in the order of the enumeration.
WfdSessionStates == <<"M0", "M1", "M2", "M3", "M4", "M5", "M6", "M6_SENT", "M6_DONE",
                      "M7", "M7_WAIT", "M7_SENT", "M7_DONE", "M8">>
Played == {WfdSessionStates[i] : i \in 10..14}  \* wfdState_ >= M7

-----------------------------------------------------------------------------
(* Helpers of the session *)

NotifyAgent(s, what) == [s EXCEPT !.told = @ \cup {what}]
NotifyServiceError(s) == NotifyAgent(s, "ERROR")

\* TcpSession::Send reports a failure through OnSessionClose.
Send(s, m, up) == IF up THEN [s EXCEPT !.out = Append(@, m)] ELSE NotifyServiceError(s)
Serving(s) == s.server = "listening"

SetKeepAliveTimer(s) == [s EXCEPT !.timers = @ + 1, !.timerId = TRUE]
\* Variant with a fault: the timer is forgotten and not unregistered.
LeakyUnsetKeepAliveTimer(s) == [s EXCEPT !.timerId = FALSE]

UnsetKeepAliveTimer(s) == [s EXCEPT !.timers = IF s.timerId THEN @ - 1 ELSE @, !.timerId = FALSE]

\* M1, M3, M4 and M5: the state moves on only if the request went out.
SendRequest(s, m, state, up) ==
    LET t == Send([s EXCEPT !.cseq = m.cseq], m, up)
    IN  IF ~Serving(s) THEN s ELSE IF up THEN [t EXCEPT !.wfd = state] ELSE t

SendM1Request(s, up) == SendRequest(s, M1Request(s.cseq + 1), "M1", up)
SendM3Request(s, up) == SendRequest(s, M3Request(s.cseq + 1), "M3", up)
SendM4Request(s, up) == SendRequest(s, M4Request(s.cseq + 1, M4Params(s.choice)), "M4", up)
SendM5Request(s, up) == SendRequest(s, M5Request(s.cseq + 1), "M5", up)

SendM2Response(s, n, up) ==
    LET t == Send(s, M2Response(n), up)
    IN  IF ~Serving(s) THEN s ELSE IF up THEN [t EXCEPT !.wfd = "M2"] ELSE t

\* M6 and M7: the state moves on even if the response could not be sent.
SendM6Response(s, n, up) == IF Serving(s)
                            THEN [Send(s, M6Response(n, sessionID), up) EXCEPT !.wfd = "M7_WAIT"]
                            ELSE s
SendM7Response(s, n, up) == IF Serving(s)
                            THEN [Send(s, M7Response(n, sessionID), up) EXCEPT !.wfd = "M7"] ELSE s

SendCommonResponse(s, n, up) ==
    IF Serving(s) THEN Send(s, WithSession(Response(n), sessionID), up) ELSE s

SendM16Request(s, up) ==
    LET t == [s EXCEPT !.cseq = @ + 1, !.counts = @ - 1]
    IN  IF s.counts = 0 THEN NotifyServiceError(s)
        ELSE IF ~Serving(s) THEN s
        ELSE Send(t, M16Request(t.cseq, sessionID), up)

-----------------------------------------------------------------------------
(* Requests of the sink *)

HandleOptionRequest(s, m, up) ==
    LET t == SendM2Response(s, m.cseq, up)
    IN  IF Serving(s) /\ up THEN SendM3Request(t, up) ELSE t

HandleSetupRequest(s, m, up) == SendM6Response(s, m.cseq, up)

HandlePlayRequest(s, m, up) ==
    LET t == IF s.prosumer = "PAUSE" THEN [s EXCEPT !.prosumer = "RESUME"]
             ELSE [SetKeepAliveTimer(s) EXCEPT !.prosumer = "START"]
    IN  SendM7Response(NotifyAgent(t, "PLAYED"), m.cseq, up)

\* prosumerState_ is set to ERR_PROSUMER_PAUSE and at once to ERR_PROSUMER_START.
HandlePauseRequest(s, m, up) ==
    SendCommonResponse(NotifyAgent([s EXCEPT !.prosumer = "START"], "PAUSE"), m.cseq, up)

HandleTeardownRequest(s, m, up) ==
    LET t == [NotifyAgent(s, "DESTROY") EXCEPT !.prosumer = "STOP"]
    IN  SendCommonResponse(UnsetKeepAliveTimer(t), m.cseq, up)

HandleIDRRequest(s, m, up) ==
    IF m.session = sessionID /\ m.body = "idr" THEN SendCommonResponse(s, m.cseq, up) ELSE s

HandleRequest(s0, m, up) ==
    LET s == [s0 EXCEPT !.last = NoMessage]
    IN  CASE m.method = "OPTIONS"       -> HandleOptionRequest(s, m, up)
          [] m.method = "SETUP"         -> HandleSetupRequest(s, m, up)
          [] m.method = "PLAY"          -> HandlePlayRequest(s, m, up)
          [] m.method = "PAUSE"         -> HandlePauseRequest(s, m, up)
          [] m.method = "TEARDOWN"      -> HandleTeardownRequest(s, m, up)
          [] m.method = "SET_PARAMETER" -> HandleIDRRequest(s, m, up)
          [] OTHER                      -> s

-----------------------------------------------------------------------------
(* Responses of the sink: the current state says what is answered.  M1, M5  *)
(* and, after the exchange, M16 are answered with nothing more to do.       *)

HandleM3Response(s, m, up) == SendM4Request([s EXCEPT !.choice = Choose(m.params)], up)

HandleM4Response(s, up) ==
    LET t == SendM5Request(s, up)
    IN  IF Serving(s) /\ up THEN [t EXCEPT !.creates = @ + 1] ELSE t

HandleM7Response(s) == [s EXCEPT !.wfd = "M7"]

HandleM8Response(s) == NotifyAgent(s, "TEARDOWN")

HandleResponse(s0, m, up) ==
    LET s == [s0 EXCEPT !.last = NoMessage]
        t == IF s.wfd \in Played THEN [s EXCEPT !.counts = MaxCounts] ELSE s
    IN  IF m.cseq # s.cseq THEN s
        ELSE CASE t.wfd = "M3"      -> HandleM3Response(t, m, up)
               [] t.wfd = "M4"      -> HandleM4Response(t, up)
               [] t.wfd = "M7_WAIT" -> HandleM7Response(t)
               [] t.wfd = "M8"      -> HandleM8Response(t)
               [] OTHER             -> t

\* OnServerReadData.  Unlike the sink, the source also handles a request that is spliced
\* behind a response it has rejected.
ReadData(s, chunk, up) ==
    LET first  == ReadFirst(chunk, s.last)
        second == ReadSecond(chunk)
        t      == HandleResponse(s, first, up)
    IN  IF first = NoMessage THEN [s EXCEPT !.last = ReadKeeps(chunk)]
        ELSE IF first.req THEN HandleRequest(s, first, up)
        ELSE IF second = NoMessage THEN t ELSE HandleRequest(t, second, up)

-----------------------------------------------------------------------------
(* Actions *)

Up == link = "up"
Become(s) == /\ source' = [s EXCEPT !.out = <<>>]
             /\ toSink' = toSink \o s.out

\* UpdateOperation(SESSION_START): the port may be in use.
StartServer(fails) ==
    /\ source.server = "none"
    /\ \E fail \in fails :
          LET s == [source EXCEPT !.socket = TcpServerStart(fail)]
          IN  Become(IF CreateTcpServer(s.socket) THEN [s EXCEPT !.server = "listening"]
                     ELSE NotifyServiceError([s EXCEPT !.server = "failed"]))
    /\ UNCHANGED <<toSource, link>>

OnAccept(fails) ==
    /\ Serving(source) /\ link # "none" /\ ~source.accepted /\ source.wfd = "M0"
    /\ \E fail \in fails :
          LET s == [source EXCEPT !.accepted = TRUE, !.peer = SessionStart(AcceptSocket, fail)]
          IN  IF s.peer.heard
              THEN Become(SendM1Request(s, Up)) /\ UNCHANGED link
              ELSE /\ Become([s EXCEPT !.peer = SessionShutdown(@), !.closed = TRUE])
                   /\ link' = "down"
    /\ UNCHANGED toSource

OnServerReadData(n) ==
    /\ Serving(source) /\ source.peer.heard /\ link # "deaf"
    /\ Splittable(toSource, n)
    /\ Become(ReadData(source, SubSeq(toSource, 1, n), Up))
    /\ toSource' = SubSeq(toSource, n + 1, Len(toSource))
    /\ UNCHANGED link

\* The network session and its keep-alive timer live on when the connection is gone.
OnSessionClose ==
    /\ Serving(source) /\ source.accepted /\ link = "down" /\ toSource = <<>> /\ ~source.closed
    /\ Become(NotifyServiceError([source EXCEPT !.closed = TRUE]))
    /\ UNCHANGED <<toSource, link>>

OnSendKeepAlive ==
    /\ source.timers > 0 /\ source.fired < MaxKeepAlive
    /\ Become(SendM16Request([source EXCEPT !.fired = @ + 1], Up))
    /\ UNCHANGED <<toSource, link>>

\* UpdateMediaStatus(STATE_PROSUMER_CREATE_SUCCESS).
ProsumerCreated ==
    /\ source.creates > 0 /\ source.media = "none"
    /\ Become(NotifyAgent([source EXCEPT !.media = "created"], "MEDIA_INIT"))
    /\ UNCHANGED <<toSource, link>>

\* HandleEvent(EVENT_WFD_STATE_MEDIA_INIT), with or without an error.
ProsumerReports ==
    /\ source.media = "created"
    /\ \E what \in {"STARTED", "ERROR"} :
          Become(NotifyAgent([source EXCEPT !.media = "reported"], what))
    /\ UNCHANGED <<toSource, link>>

\* UpdateOperation(SESSION_STOP): TcpServer::Stop shuts all connections down.
StopSession ==
    /\ source.server \in {"listening", "failed"}
    /\ Become(NotifyAgent([source EXCEPT !.server = "stopped", !.timers = 0, !.timerId = FALSE,
                                         !.socket = TcpServerStop(@), !.peer = SessionShutdown(@)],
                          "STOPED"))
    /\ link' = IF link \in {"up", "deaf"} THEN "down" ELSE link
    /\ UNCHANGED toSource

SourceTypeOK ==
    /\ source.server \in {"none", "listening", "failed", "stopped"}
    /\ \E i \in 1..14 : source.wfd = WfdSessionStates[i]
    /\ source.counts \in 0..MaxCounts
    /\ source.timers \in Nat
    /\ source.prosumer \in {"INIT", "START", "PAUSE", "RESUME", "STOP"}
    /\ source.out = <<>>
=============================================================================
