---------------------------- MODULE WfdSinkSession ----------------------------
(***************************************************************************)
(* The RTSP client of a Miracast sink:                                     *)
(* services/sink/impl/wfd/wfd_sink/wfd_sink_session.cpp.                   *)
(*                                                                         *)
(* Three kinds of threads call into the session.  The network thread calls *)
(* OnClientReadData and OnClientClose, one call at a time; the two timer   *)
(* threads call the timeout callbacks; the event pool calls UpdateOperation*)
(* and HandleEvent.  A handler of the network thread is one action.  A     *)
(* request sent from the pool is two: it takes its number with ++cseq_,    *)
(* and later reads cseq_ again to register the response handler, because   *)
(* nothing protects cseq_ and responseHandlers_ against the other threads. *)
(*                                                                         *)
(* The session is one record so that the nested calls of a handler compose *)
(* as operators from a session to a session; `up' says whether Send works. *)
(***************************************************************************)
EXTENDS Naturals, Sequences, FiniteSets, RtspMessage, WfdParams, TcpSockets

CONSTANTS MaxRetry,  \* connection attempts after the first one (5 in the code)
          MaxIdr,    \* bound on IDR requests
          MaxChunk,  \* most messages that one read returns
          Videos,    \* formats that the scene may configure, VIDEO_NONE for what the decoder takes
          Audios,
          LastPort,  \* where the last search for a pair of ports ended
          TakenPorts \* UDP ports that others use

VARIABLES sink,      \* the session
          toSink,    \* messages on their way from the source
          toSource,  \* messages on their way to the source
          link       \* the TCP connection: "none", "up", "down", or "deaf" if nobody reads it

NoConfig == [video |-> "VIDEO_NONE", audio |-> "AUDIO_NONE", port |-> 0]
RtpPort == GetAvailableUdpPortPair(LastPort, TakenPorts)

InitSink ==
    [config       |-> NoConfig,   \* videoFormat_, audioFormat_ and localRtpPort_
     session      |-> "none",     \* rtspSession_
     track        |-> NoTrack,    \* videoTrack_ and audioTrack_
     client       |-> FALSE,      \* rtspClient_ is set
     socket       |-> Closed,     \* its socket
     connected    |-> FALSE,      \* connected_
     wfd          |-> "INIT",     \* wfdState_
     status       |-> "START",    \* status_ of BaseSession
     interrupting |-> FALSE,      \* interrupting_ of BaseSession
     firstCast    |-> TRUE,       \* isFirstCast
     firstCreate  |-> TRUE,       \* isFirstCreateProsumer_
     cseq         |-> 0,          \* cseq_
     handlers     |-> {},         \* responseHandlers_ as pairs <<CSeq, handler>>
     timer        |-> "null",     \* timeoutTimer_: null, off or what it waits for
     timeoutCall  |-> "negotiate",\* callback of timeoutTimer_
     keepAlive    |-> "null",     \* keepAliveTimer_: null, off or on
     last         |-> NoMessage,  \* lastMessage_
     starting     |-> "never",    \* progress of UpdateOperation(SESSION_START)
     tries        |-> 0,          \* failed connection attempts
     media        |-> "none",     \* progress of the consumer: none, created, reported
     sending      |-> <<"none", 0>>, \* request of a pool thread between its two steps
     idrs         |-> 0,          \* IDR requests made (bounded by MaxIdr)
     creates      |-> 0,          \* NOTIFY_PROSUMER_CREATE sent to the agent
     told         |-> {},         \* what else the agent was notified of
     out          |-> <<>>]       \* messages sent by the current action

WfdStates == {"INIT", "READY", "PLAYING", "STOPPING"}
Waits == {"M1", "M2", "M3", "M4", "M5", "M6", "M7", "IDR"}
HandlerKinds == {"M2", "M6", "M7", "M8", "IDR"}

-----------------------------------------------------------------------------
(* Helpers of the session *)

NotifyAgent(s, what) == [s EXCEPT !.told = @ \cup {what}]
NotifyServiceError(s) == NotifyAgent(s, "ERROR")
NotifySessionInterrupted(s) == NotifyAgent(s, "INTERRUPTED")

\* `if (interrupting_ && status_ == SESSION_INTERRUPT) NotifySessionInterrupted();'
CheckInterrupt(s) == IF s.interrupting /\ s.status = "INTERRUPT"
                     THEN NotifySessionInterrupted(s) ELSE s

\* `if (timeoutTimer_) ...': a timer that does not exist is neither started nor stopped.
StartTimer(s, what) == IF s.timer = "null" THEN s ELSE [s EXCEPT !.timer = what]
StopTimer(s) == StartTimer(s, "off")

\* OnClientClose: the peer closed, or Send failed and TcpClient::Disconnect was called.
ClientClosed(s) ==
    LET t == [s EXCEPT !.client = FALSE, !.socket = Disconnect(@)]
    IN  IF t.interrupting THEN CheckInterrupt(t)
        ELSE IF t.wfd # "STOPPING" THEN NotifyServiceError(t) ELSE t

Send(s, m, up) == IF up THEN [s EXCEPT !.out = Append(@, m)] ELSE ClientClosed(s)
SetHandler(s, n, kind) == [s EXCEPT !.handlers = {h \in @ : h[1] # n} \cup {<<n, kind>>}]
EraseHandler(s, n) == [s EXCEPT !.handlers = {h \in @ : h[1] # n}]
Handlers(s, n) == {h[2] : h \in {g \in s.handlers : g[1] = n}}

\* Variant with a fault: the timer is not started.
UntimedSendTimedRequest(s, m, kind, up) ==
    IF ~s.client THEN s ELSE Send(SetHandler([s EXCEPT !.cseq = m.cseq], m.cseq, kind), m, up)

\* Requests whose answer is awaited with the timer: M2, M6 and M7.
SendTimedRequest(s, m, kind, up) ==
    LET t == StartTimer(SetHandler([s EXCEPT !.cseq = m.cseq], m.cseq, kind), kind)
        u == Send(t, m, up)
    IN  IF ~s.client THEN s
        ELSE IF up THEN u ELSE NotifyServiceError(StopTimer(EraseHandler(u, m.cseq)))

SendM2Request(s, up) == SendTimedRequest(s, RtspRequestOptions(s.cseq + 1), "M2", up)
SendM6Request(s, up) == LET t == SendTimedRequest(s, RtspRequestSetup(s.cseq + 1), "M6", up)
                        IN  IF s.client /\ up THEN [t EXCEPT !.wfd = "READY"] ELSE t
SendM7Request(s, up) ==
    SendTimedRequest(s, WithSession(RtspRequestPlay(s.cseq + 1), s.session), "M7", up)

\* Variant with a fault: connected_ is not looked at.
UnconnectedMaySendM8(s) == s.wfd # "STOPPING" /\ s.client

MaySendM8(s) == s.wfd # "STOPPING" /\ s.client /\ s.connected

\* n is the number of the request; the handler goes to what cseq_ is by then.
FinishM8(s, n, up) ==
    LET t == Send(SetHandler(s, s.cseq, "M8"), WithSession(RtspRequestTeardown(n), s.session), up)
    IN  [(IF up THEN t ELSE EraseHandler(t, s.cseq)) EXCEPT !.wfd = "STOPPING"]

SendM8Request(s, up) == IF MaySendM8(s)
                        THEN FinishM8([s EXCEPT !.cseq = @ + 1], s.cseq + 1, up) ELSE s

FinishIdr(s, n, up) ==
    Send(StartTimer(SetHandler(s, s.cseq, "IDR"), "IDR"), IDRRequest(n, s.session), up)

SendCommonResponse(s, n, up) == IF s.client THEN Send(s, Response(n), up) ELSE s
ResponseSent(s, up) == s.client /\ up

-----------------------------------------------------------------------------
(* Requests of the source *)

HandleM1Request(s, m, up) ==
    LET t == [StopTimer(s) EXCEPT !.firstCast = TRUE, !.firstCreate = TRUE]
        u == IF t.client THEN [Send(t, Response(m.cseq), up) EXCEPT !.cseq = m.cseq] ELSE t
    IN  SendM2Request(u, up)

\* Variant with a fault: nothing watches for M4.
UntimedSendM3Response(s, m, up) ==
    IF s.client THEN Send(StopTimer(s), M3Response(m.cseq, M3Params(s.config)), up) ELSE StopTimer(s)

SendM3Response(s, m, up) ==
    LET t == Send(StartTimer(StopTimer(s), "M4"), M3Response(m.cseq, M3Params(s.config)), up)
    IN  IF ~s.client THEN StopTimer(s) ELSE IF up THEN t ELSE NotifyServiceError(StopTimer(t))

HandleM16Request(s, m, up) ==
    IF s.keepAlive = "null" THEN s
    ELSE [SendCommonResponse(s, m.cseq, up) EXCEPT !.keepAlive = "on"]

HandleM4Request(s0, m, up) ==
    LET s == [s0 EXCEPT !.track = Tracks(m.params, @)]
        t == IF s.firstCast THEN StartTimer(StopTimer(s), "M5") ELSE StopTimer(s)
        u == [SendCommonResponse(t, m.cseq, up) EXCEPT !.firstCast = FALSE]
        failed == SendCommonResponse(t, m.cseq, up)
    IN  IF ~ResponseSent(s, up) THEN NotifyServiceError(StopTimer(failed))
        ELSE IF u.firstCreate THEN [u EXCEPT !.firstCreate = FALSE, !.creates = @ + 1]
        ELSE u

HandleTriggerMethod(s, m, up) ==
    LET t == IF GetTriggerMethod(m) = "setup" THEN StopTimer(s) ELSE s
        u == SendCommonResponse(t, m.cseq, up)
    IN  IF ~ResponseSent(s, up) THEN NotifyServiceError(u)
        ELSE IF GetTriggerMethod(m) = "setup" THEN SendM6Request(u, up) ELSE SendM8Request(u, up)

HandleRequest(s0, m, up) ==
    LET s == [s0 EXCEPT !.last = NoMessage]
    IN  CASE m.method = "OPTIONS"                            -> HandleM1Request(s, m, up)
          [] m.method = "GET_PARAMETER" /\ m.body # "none"   -> SendM3Response(s, m, up)
          [] m.method = "GET_PARAMETER" /\ m.body = "none"   -> HandleM16Request(s, m, up)
          [] m.method = "SET_PARAMETER" /\ GetTriggerMethod(m) # "none"
                                                             -> HandleTriggerMethod(s, m, up)
          [] m.method = "SET_PARAMETER" /\ m.body = "params" -> HandleM4Request(s, m, up)
          [] OTHER                                           -> s

-----------------------------------------------------------------------------
(* Responses of the source, found by their CSeq *)

HandleM2Response(s) == StartTimer(StopTimer(s), "M3")

\* Variant with a fault: the session plays when it has asked for it.
HastyHandleM6Response(s, m, up) ==
    [SendM7Request(StopTimer([s EXCEPT !.session = m.session]), up) EXCEPT !.wfd = "PLAYING"]

HandleM6Response(s, m, up) == SendM7Request(StopTimer([s EXCEPT !.session = m.session]), up)

HandleM7Response(s) ==
    [NotifyAgent(StopTimer(s), "PLAYED") EXCEPT !.wfd = "PLAYING",
                                                !.timeoutCall = "network",
                                                !.keepAlive = "on"]

HandleM8Response(s) == NotifyAgent(s, "TEARDOWN")

HandleCommonResponse(s) == StopTimer(s)

HandleResponse(s, m, up) ==
    LET kind == CHOOSE k \in Handlers(s, m.cseq) : TRUE
        t == [s EXCEPT !.last = NoMessage]
        u == CASE kind = "M2"  -> HandleM2Response(t)
               [] kind = "M6"  -> HandleM6Response(t, m, up)
               [] kind = "M7"  -> HandleM7Response(t)
               [] kind = "M8"  -> HandleM8Response(t)
               [] kind = "IDR" -> HandleCommonResponse(t)
    IN  EraseHandler(u, m.cseq)

\* Variant with a fault: a request spliced behind a response is ignored.
SplicelessReadData(s, chunk, up) ==
    LET first == ReadFirst(chunk, s.last)
    IN  IF s.interrupting THEN CheckInterrupt(s)
        ELSE IF first = NoMessage THEN [s EXCEPT !.last = ReadKeeps(chunk)]
        ELSE IF first.req THEN HandleRequest(s, first, up)
        ELSE IF Handlers(s, first.cseq) = {} THEN s ELSE HandleResponse(s, first, up)

\* OnClientReadData.  A response nobody waits for ends the read: a request spliced behind
\* it is lost with it.
ReadData(s, chunk, up) ==
    LET first  == ReadFirst(chunk, s.last)
        second == ReadSecond(chunk)
        known  == Handlers(s, first.cseq) # {}
        t      == HandleResponse(s, first, up)
    IN  IF s.interrupting THEN CheckInterrupt(s)
        ELSE IF first = NoMessage THEN [s EXCEPT !.last = ReadKeeps(chunk)]
        ELSE IF first.req THEN HandleRequest(s, first, up)
        ELSE IF ~known THEN s
        ELSE IF second = NoMessage THEN t ELSE HandleRequest(t, second, up)

-----------------------------------------------------------------------------
(* Actions *)

Up == link \in {"up", "deaf"}
Become(s) == /\ sink' = [s EXCEPT !.out = <<>>]
             /\ toSource' = toSource \o s.out

OnClientReadData(n) ==
    /\ sink.client /\ sink.socket.heard
    /\ Splittable(toSink, n)
    /\ Become(ReadData(sink, SubSeq(toSink, 1, n), Up))
    /\ toSink' = SubSeq(toSink, n + 1, Len(toSink))
    /\ UNCHANGED link

\* The peer closed: the network thread has read what was sent before.
OnClientClose ==
    /\ sink.client /\ sink.socket.heard /\ link = "down" /\ toSink = <<>>
    /\ Become(ClientClosed(sink))
    /\ UNCHANGED <<toSink, link>>

\* Variant with a fault: a timeout is ignored while the session is interrupted.
SilentTimeoutCallback ==
    /\ sink.timer \in Waits
    /\ LET s == [sink EXCEPT !.timer = "off"]
       IN  Become(IF s.interrupting THEN s ELSE NotifyServiceError(s))
    /\ UNCHANGED <<toSink, link>>

TimeoutCallback ==
    /\ sink.timer \in Waits
    /\ LET s == [sink EXCEPT !.timer = "off"]
       IN  Become(IF s.timeoutCall = "negotiate" /\ s.interrupting
                  THEN CheckInterrupt(s) ELSE NotifyServiceError(s))
    /\ UNCHANGED <<toSink, link>>

KeepAliveCallback ==
    /\ sink.keepAlive = "on"
    /\ Become(NotifyServiceError([sink EXCEPT !.keepAlive = "off"]))
    /\ UNCHANGED <<toSink, link>>

\* HandleSessionInit, then UpdateOperation(SESSION_START): StartWfdSession blocks while it
\* connects.
StartSession ==
    /\ sink.starting = "never"
    /\ \E video \in Videos, audio \in Audios :
          Become([sink EXCEPT !.status = "START", !.starting = "connecting", !.client = TRUE,
                              !.config = [video |-> video, audio |-> audio, port |-> RtpPort]])
    /\ UNCHANGED <<toSink, link>>

AttemptFails(s0) ==
    LET s == [s0 EXCEPT !.tries = @ + 1, !.starting = "connecting"]
        over == [s EXCEPT !.starting = "no"]
    IN  IF s.interrupting THEN CheckInterrupt(over)
        ELSE IF s.tries > MaxRetry THEN NotifyServiceError(over) ELSE s

ConnectFails ==
    /\ sink.starting = "connecting"
    /\ Become(AttemptFails(sink))
    /\ UNCHANGED <<toSink, link>>

\* The connection is made, select() returned rc.
SelectReturns(rc) ==
    /\ sink.starting = "selecting"
    /\ LET s == [sink EXCEPT !.socket = TcpClientConnect(rc)]
       IN  IF CreateTcpClient(s.socket)
           THEN Become([s EXCEPT !.starting = "arming"]) /\ UNCHANGED <<toSink, link>>
           ELSE Become(AttemptFails(s)) /\ toSink' = <<>> /\ link' = "down"

\* The timer is set up when the connection is already open: the first messages of the
\* source may have been handled before.
ArmSession ==
    /\ sink.starting = "arming"
    /\ LET s == [sink EXCEPT !.starting = "no", !.timer = "M1", !.timeoutCall = "negotiate"]
           interrupted == s.interrupting /\ s.status = "INTERRUPT"
       IN  Become(CheckInterrupt([s EXCEPT !.connected = ~interrupted]))
    /\ UNCHANGED <<toSink, link>>

\* UpdateOperation(SESSION_INTERRUPT), by another thread than the one in StartWfdSession.
Interrupt ==
    /\ sink.status \notin {"STOP", "DESTROY"} /\ "INTERRUPTED" \notin sink.told
    /\ Become([CheckInterrupt([sink EXCEPT !.status = "INTERRUPT"]) EXCEPT !.interrupting = TRUE])
    /\ UNCHANGED <<toSink, link>>

\* UpdateOperation(SESSION_PAUSE or SESSION_RESUME).
PauseOrResume ==
    /\ sink.wfd = "PLAYING" /\ sink.status = "START"
    /\ \E status \in {"PAUSE", "RESUME"} :
          Become(LET s == [sink EXCEPT !.status = status]
                 IN  IF s.interrupting THEN s ELSE NotifyAgent(s, status))
    /\ UNCHANGED <<toSink, link>>

\* UpdateMediaStatus(STATE_PROSUMER_CREATE_SUCCESS): the agent is asked to set the consumer up.
ProsumerCreated ==
    /\ sink.creates > 0 /\ sink.media = "none"
    /\ LET s == [sink EXCEPT !.media = "created"]
           interrupted == s.interrupting /\ s.status = "INTERRUPT"
       IN  Become(IF interrupted THEN CheckInterrupt(s) ELSE NotifyAgent(s, "MEDIA_INIT"))
    /\ UNCHANGED <<toSink, link>>

\* HandleEvent(EVENT_AGENT_STATE_PROSUMER_INIT), with or without an error, and
\* HandleEvent(EVENT_AGENT_STATE_WRITE_WARNING).
ProsumerReports ==
    /\ "MEDIA_INIT" \in sink.told /\ sink.media = "created"
    /\ \E what \in {"STARTED", "ERROR"} :
          LET s == [sink EXCEPT !.media = "reported"]
          IN  Become(IF s.interrupting /\ s.status = "INTERRUPT"
                     THEN CheckInterrupt(s) ELSE NotifyAgent(s, what))
    /\ UNCHANGED <<toSink, link>>

\* Variant with a fault: the agent is not told when there is nothing to tear down.
SilentStopBegin ==
    /\ sink.status \notin {"STOP", "DESTROY"} /\ sink.starting = "no" /\ sink.sending[1] = "none"
    /\ LET s == [sink EXCEPT !.status = "STOP"]
       IN  Become(IF MaySendM8(s)
                  THEN [s EXCEPT !.cseq = @ + 1, !.sending = <<"STOP", s.cseq + 1>>]
                  ELSE [s EXCEPT !.connected = FALSE])
    /\ UNCHANGED <<toSink, link>>

\* UpdateOperation(SESSION_STOP), up to the number of M8.
StopBegin ==
    /\ sink.status \notin {"STOP", "DESTROY"} /\ sink.starting = "no" /\ sink.sending[1] = "none"
    /\ LET s == [sink EXCEPT !.status = "STOP"]
       IN  Become(IF MaySendM8(s)
                  THEN [s EXCEPT !.cseq = @ + 1, !.sending = <<"STOP", s.cseq + 1>>]
                  ELSE NotifyAgent([s EXCEPT !.connected = FALSE], "STOPED"))
    /\ UNCHANGED <<toSink, link>>

\* HandleEvent(EVENT_SESSION_TEARDOWN), up to the number of M8.
TeardownBegin ==
    /\ MaySendM8(sink) /\ sink.sending[1] = "none"
    /\ ~(sink.interrupting /\ sink.status = "INTERRUPT")
    /\ Become([sink EXCEPT !.cseq = @ + 1, !.sending = <<"TEARDOWN", sink.cseq + 1>>])
    /\ UNCHANGED <<toSink, link>>

\* The second step of a request of a pool thread.  The client object may be gone since the
\* first step: the call through the null pointer ends the process.  If the send fails, the
\* last reference to the client is dropped inside TcpClient::Disconnect, whose destructor
\* calls Disconnect again and waits for the mutex that this very thread holds.
PoolSend(finished) ==
    IF ~sink.client THEN [sink EXCEPT !.sending = <<"crash", 0>>]
    ELSE IF ~Up THEN [ClientClosed(sink) EXCEPT !.sending = <<"deadlock", 0>>]
    ELSE [finished EXCEPT !.sending = <<"none", 0>>]

M8Finish ==
    /\ sink.sending[1] \in {"STOP", "TEARDOWN"}
    /\ LET t == FinishM8(sink, sink.sending[2], Up)
       IN  Become(PoolSend(IF sink.sending[1] = "STOP"
                           THEN NotifyAgent([t EXCEPT !.connected = FALSE], "STOPED")
                           ELSE CheckInterrupt(t)))
    /\ UNCHANGED <<toSink, link>>

\* SendIDRRequest for EVENT_AGENT_KEYMODE_STOP, EVENT_WFD_REQUEST_IDR or a resumed consumer.
IdrBegin ==
    /\ sink.idrs < MaxIdr /\ sink.sending[1] = "none"
    /\ ~(sink.interrupting /\ sink.status = "INTERRUPT")
    /\ sink.wfd = "PLAYING" /\ sink.client
    /\ Become([sink EXCEPT !.idrs = @ + 1, !.cseq = @ + 1, !.sending = <<"IDR", sink.cseq + 1>>])
    /\ UNCHANGED <<toSink, link>>

IdrFinish ==
    /\ sink.sending[1] = "IDR"
    /\ Become(PoolSend(CheckInterrupt(FinishIdr(sink, sink.sending[2], Up))))
    /\ UNCHANGED <<toSink, link>>

\* UpdateOperation(SESSION_DESTROY); the agent then lets go of the session, whose destructor
\* closes the connection and ends the timers.
DestroySession ==
    /\ "STOPED" \in sink.told /\ sink.sending[1] = "none" /\ sink.status # "DESTROY"
    /\ Become(NotifyAgent([sink EXCEPT !.status = "DESTROY", !.client = FALSE, !.socket = Disconnect(@),
                                       !.connected = FALSE,
                                       !.timer = "null", !.keepAlive = "null"], "DESTROYED"))
    /\ link' = IF Up THEN "down" ELSE link
    /\ UNCHANGED toSink

SinkTypeOK ==
    /\ sink.wfd \in WfdStates
    /\ sink.timer \in Waits \cup {"null", "off"}
    /\ sink.keepAlive \in {"null", "off", "on"}
    /\ sink.handlers \subseteq (Nat \X HandlerKinds)
    /\ sink.starting \in {"never", "connecting", "selecting", "arming", "no"}
    /\ sink.cseq \in Nat
    /\ sink.sending[1] \in {"none", "STOP", "TEARDOWN", "IDR", "crash", "deadlock"}
    /\ sink.out = <<>>
    /\ link \in {"none", "up", "deaf", "down"}
=============================================================================
