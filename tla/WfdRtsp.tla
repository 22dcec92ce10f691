------------------------------- MODULE WfdRtsp -------------------------------
(***************************************************************************)
(* A sink session and a source session joined by one TCP connection: the   *)
(* WFD exchange M1 .. M8, keep-alive (M16) and IDR requests, with the      *)
(* splicing and the fragmentation that TCP allows, lost connections,       *)
(* timeouts and the calls of the two agents.                               *)
(*                                                                         *)
(* The timers of the sink are ideal here: one that is started and not      *)
(* stopped fires.  TimeoutTimer says what the real one does.               *)
(***************************************************************************)
EXTENDS Naturals, Sequences, FiniteSets, RtspMessage, WfdParams, TcpSockets

CONSTANTS MaxRetry, MaxIdr, MaxChunk, Videos, Audios, LastPort, TakenPorts,  \* see WfdSinkSession
          MaxKeepAlive, MaxCounts,     \* see WfdSourceSession
          MaxFragments,                \* bound on read boundaries inside a message
          MayLose,                     \* opening a connection may fail, and one may break
          MayExpire,                   \* the timers of the sink may run out
          MayReport,                   \* the consumer and the producer report their progress
          MayInterrupt,                \* the sink's agent may interrupt the start
          MayStop                      \* the agents may stop the sessions

ASSUME RtspAssumption == /\ {MaxRetry, MaxIdr, MaxKeepAlive, MaxCounts, MaxFragments} \subseteq Nat
                         /\ LastPort \in Nat /\ TakenPorts \subseteq Nat
                         /\ MaxChunk \in Nat \ {0}
                         /\ 0 \in DecoderSizes /\ DecoderSizes \subseteq R1Sizes /\ DecoderModes \subseteq 0..3
                         /\ {MayLose, MayExpire, MayReport, MayInterrupt, MayStop} \subseteq BOOLEAN

VARIABLES sink, source, toSink, toSource, link,
          fragments  \* messages cut so far

vars == <<sink, source, toSink, toSource, link, fragments>>

Sink == INSTANCE WfdSinkSession
Source == INSTANCE WfdSourceSession

Init == /\ sink = Sink!InitSink
        /\ source = Source!InitSource
        /\ toSink = <<>>
        /\ toSource = <<>>
        /\ link = "none"
        /\ fragments = 0

-----------------------------------------------------------------------------
(* The network *)

\* The kernel makes the connection.  The server takes one connection: OnAccept ignores a later
\* one once M1 has been sent, and then nobody reads it.  The sink tries again only after a
\* pause, in which the server has noticed that the earlier connection is closed.
Connect ==
    /\ sink.starting = "connecting" /\ IsListening(source.socket)
    /\ link = "none" \/ (link = "down" /\ source.closed)
    /\ sink' = [sink EXCEPT !.starting = "selecting"]
    /\ IF Source!Serving(source) /\ source.wfd = "M0"
       THEN link' = "up" /\ source' = [source EXCEPT !.accepted = FALSE, !.closed = FALSE]
       ELSE link' = "deaf" /\ UNCHANGED source
    /\ UNCHANGED <<toSink, toSource, fragments>>

\* The sink looks at the new connection before or after the source has written M1 to it.
SinkSelects ==
    /\ \E rc \in Selected(MayLose /\ toSink # <<>>, MayLose /\ link = "down") : Sink!SelectReturns(rc)
    /\ UNCHANGED <<source, fragments>>

\* A connection attempt finds no server, or gets no answer in time.
ConnectFails ==
    /\ link \in {"none", "down"} /\ (MayLose \/ ~IsListening(source.socket))
    /\ Sink!ConnectFails
    /\ UNCHANGED <<source, fragments>>

CutToSink ==
    /\ fragments < MaxFragments /\ CanFragment(toSink)
    /\ toSink' = Fragment(toSink)
    /\ fragments' = fragments + 1
    /\ UNCHANGED <<sink, source, toSource, link>>

CutToSource ==
    /\ fragments < MaxFragments /\ CanFragment(toSource)
    /\ toSource' = Fragment(toSource)
    /\ fragments' = fragments + 1
    /\ UNCHANGED <<sink, source, toSink, link>>

\* The connection breaks: what was on its way is lost.
LoseLink ==
    /\ MayLose /\ link \in {"up", "deaf"}
    /\ link' = "down" /\ toSink' = <<>> /\ toSource' = <<>>
    /\ UNCHANGED <<sink, source, fragments>>

-----------------------------------------------------------------------------
(* Steps of the two sides.  Nothing runs in the sink's process after a crash. *)

SinkAlive == sink.sending[1] # "crash"

SinkReads == SinkAlive /\ (\E n \in 1..MaxChunk : Sink!OnClientReadData(n)) /\ UNCHANGED <<source, fragments>>
SinkCloses == SinkAlive /\ Sink!OnClientClose /\ UNCHANGED <<source, fragments>>
SinkStarts == SinkAlive /\ Sink!StartSession /\ UNCHANGED <<source, fragments>>
SinkArms == SinkAlive /\ Sink!ArmSession /\ UNCHANGED <<source, fragments>>
SinkExpires == SinkAlive /\ MayExpire /\ Sink!TimeoutCallback /\ UNCHANGED <<source, fragments>>
SinkKeepAlive == SinkAlive /\ MayExpire /\ Sink!KeepAliveCallback /\ UNCHANGED <<source, fragments>>
SinkProsumer == SinkAlive /\ MayReport /\ (Sink!ProsumerCreated \/ Sink!ProsumerReports) /\ UNCHANGED <<source, fragments>>
SinkInterrupt == SinkAlive /\ MayInterrupt /\ Sink!Interrupt /\ UNCHANGED <<source, fragments>>
SinkPauses == SinkAlive /\ MayStop /\ Sink!PauseOrResume /\ UNCHANGED <<source, fragments>>
SinkStops == SinkAlive /\ MayStop /\ (Sink!StopBegin \/ Sink!TeardownBegin) /\ UNCHANGED <<source, fragments>>
SinkSends == SinkAlive /\ (Sink!M8Finish \/ Sink!IdrFinish) /\ UNCHANGED <<source, fragments>>
SinkIdr == SinkAlive /\ Sink!IdrBegin /\ UNCHANGED <<source, fragments>>
SinkDestroys == SinkAlive /\ Sink!DestroySession /\ UNCHANGED <<source, fragments>>

SourceStarts == Source!StartServer(IF MayLose THEN ServerFailures ELSE {"none", "bind"}) /\ UNCHANGED <<sink, fragments>>
SourceAccepts == Source!OnAccept(IF MayLose THEN SessionFailures ELSE {"none"}) /\ UNCHANGED <<sink, fragments>>
SourceReads == (\E n \in 1..MaxChunk : Source!OnServerReadData(n)) /\ UNCHANGED <<sink, fragments>>
SourceCloses == Source!OnSessionClose /\ UNCHANGED <<sink, fragments>>
SourceKeepAlive == Source!OnSendKeepAlive /\ UNCHANGED <<sink, fragments>>
SourceProsumer == MayReport /\ (Source!ProsumerCreated \/ Source!ProsumerReports) /\ UNCHANGED <<sink, fragments>>
SourceStops == MayStop /\ Source!StopSession /\ UNCHANGED <<sink, fragments>>

Threads == \/ Connect \/ SinkSelects \/ ConnectFails
           \/ SinkReads \/ SinkCloses \/ SinkStarts \/ SinkArms \/ SinkProsumer \/ SinkSends
           \/ SourceStarts \/ SourceAccepts \/ SourceReads \/ SourceCloses \/ SourceProsumer

Next == \/ Threads
        \/ CutToSink \/ CutToSource \/ LoseLink
        \/ SinkExpires \/ SinkKeepAlive \/ SinkInterrupt \/ SinkPauses \/ SinkStops \/ SinkIdr \/ SinkDestroys
        \/ SourceKeepAlive \/ SourceStops

\* The operating system runs the threads and delivers what was sent; a timer that is not
\* stopped runs out.
Spec == Init /\ [][Next]_vars
             /\ WF_vars(Connect) /\ WF_vars(SinkSelects) /\ WF_vars(ConnectFails)
             /\ WF_vars(SinkReads) /\ WF_vars(SinkCloses) /\ WF_vars(SinkStarts) /\ WF_vars(SinkArms)
             /\ WF_vars(SinkSends) /\ WF_vars(SinkExpires) /\ WF_vars(SinkKeepAlive)
             /\ WF_vars(SourceStarts) /\ WF_vars(SourceAccepts) /\ WF_vars(SourceReads) /\ WF_vars(SourceCloses)

-----------------------------------------------------------------------------
(* Properties *)

\* The states, timers and counters of both sessions; rtspTimeoutCounts_ does not go below 0.
TypeOK == Sink!SinkTypeOK /\ Source!SourceTypeOK /\ fragments \in 0..MaxFragments

Cast == INSTANCE CastSession
            WITH consumers <- sink.creates, producers <- source.creates,
                 sourcePlays <- "PLAYED" \in source.told,
                 sinkPlays <- sink.wfd = "PLAYING" \/ "PLAYED" \in sink.told,
                 stopped <- "STOPED" \in sink.told

\* The two sessions implement CastSession: M4 and its response are never acted upon twice,
\* whatever is spliced, the consumer and the producer exist before the source is told that it
\* plays, and the sink believes it plays, or tells its agent so, only after that.
ImplementsCast == Cast!Spec

\* What the name of a format says.
SizeOf == [VIDEO_1920X1080_60 |-> <<1920, 1080, 60>>, VIDEO_1920X1080_30 |-> <<1920, 1080, 30>>,
           VIDEO_1920X1080_25 |-> <<1920, 1080, 25>>, VIDEO_1280X720_60 |-> <<1280, 720, 60>>,
           VIDEO_1280X720_30 |-> <<1280, 720, 30>>, VIDEO_640X480_60 |-> <<640, 480, 60>>]

\* Once the source has its producer made, both sides mean the same stream, through all that
\* is encoded in M3 and M4 and decoded again: it goes to the port the sink listens on, the
\* sink decodes the size and the rates that the source believes to have chosen, and if the
\* sink was left to say what its decoder takes, the choice is one of these.
PlaysAsAgreed ==
    source.creates > 0 =>
        /\ source.choice.port = sink.config.port
        /\ sink.track = [video |-> SizeOf[source.choice.video], audio |-> <<48000, 2>>]
        /\ sink.config.video = "VIDEO_NONE" =>
              \E i \in OfferVideo("VIDEO_NONE").cea : CeaTable[i + 1] = sink.track.video

\* A request of the exchange that waits for its response has the timer running, unless the
\* timer already ran out and the agent was told, or the start was interrupted: an
\* unanswered request does not go unnoticed.
AwaitedIsTimed ==
    (\E h \in sink.handlers : h[2] \in {"M2", "M6", "M7"}) /\ sink.starting = "no"
        => \/ sink.timer # "off"
           \/ "ERROR" \in sink.told
           \/ sink.interrupting

\* With or without cut messages and broken connections, a sink that connected does not hang
\* in the exchange: it plays, or tells its agent of an error, or is stopped or interrupted.
SinkNeverHangs ==
    (sink.starting = "arming") ~>
        \/ sink.wfd = "PLAYING"
        \/ sink.told \cap {"ERROR", "INTERRUPTED", "STOPED"} # {}
        \/ sink.interrupting \/ sink.wfd = "STOPPING"
        \/ ~SinkAlive

\* An interrupted start is answered: the agent waits for it before it destroys the session.
InterruptAnswered ==
    (sink.interrupting /\ sink.status = "INTERRUPT" /\ sink.starting # "never") ~>
        \/ sink.told \cap {"INTERRUPTED", "ERROR"} # {}
        \/ sink.status # "INTERRUPT"

\* If nothing is cut or lost and no timer runs out, the exchange ends with both sides playing,
\* however the messages are spliced, unless an agent stops its session.
NegotiationCompletes ==
    (sink.starting = "arming") ~> \/ sink.wfd = "PLAYING"
                                  \/ sink.status = "STOP" \/ sink.sending[1] # "none"
                                  \/ "STOPED" \in sink.told \cup source.told

\* The pool thread that sends TEARDOWN or an IDR request gets stuck or brings the process
\* down only when the connection ended under it.
PoolSendSafe == sink.sending[1] \in {"crash", "deadlock"} => link = "down"

\* A stopped sink session tells its agent so, and the agent can go on to destroy it, unless
\* the connection ended under the thread that sends TEARDOWN.
StopCompletes == (sink.status = "STOP") ~> \/ "STOPED" \in sink.told
                                           \/ sink.sending[1] \in {"crash", "deadlock"}

\* A source that handled TEARDOWN and nothing since has no keep-alive timer left that would
\* report an error for the session that is gone, and it never registers two.  A stopped
\* source and a sink without a client hold no descriptor, whatever step of opening them failed.
EndLeavesNothing == /\ source.prosumer = "STOP" => source.timers = 0
                    /\ source.timers <= 1
                    /\ source.server = "stopped" => source.socket = Closed /\ source.peer = Closed
                    /\ ~sink.client => sink.socket = Closed
=============================================================================
