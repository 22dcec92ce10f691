-------------------------------- MODULE RtpSender --------------------------------
(***************************************************************************)
(* The sending half of a cast: WfdRtpProducer with its dispatch thread,    *)
(* the TS packer with its encoding thread (RtpEncoderTs, RtpMaker), the    *)
(* merger of video frames and the UDP client.                              *)
(*                                                                         *)
(* The channel's worker starts, stops and destroys the producer.  A video  *)
(* frame stands for its parameter sets and slices, which the merger packs  *)
(* together, and a packet for what the TS multiplexer makes of one frame.  *)
(* Packets have numbers, frames need none.                                 *)
(***************************************************************************)
EXTENDS Naturals, UdpSockets

CONSTANT MaxFrames  \* bound on the frames that are published

VARIABLES producer, \* [at, running, paused, dispatching, client, rtp, rtcp] of WfdRtpProducer
          feed,     \* the dispatch thread
          merger,   \* whether frameCache_ holds a video frame, which waits for the next one
          frames,   \* how many frames dataQueue_ of the encoder holds
          encoder,  \* [at, callback, exit]: the encoding thread
          sent,     \* packets made so far; the last one has this number
          published \* frames so far (bounded by MaxFrames)

senderVars == <<producer, feed, merger, frames, encoder, sent, published>>

InitSender ==
    /\ producer = [at |-> "new", running |-> FALSE, paused |-> FALSE, dispatching |-> FALSE,
                   client |-> "none", rtp |-> Closed, rtcp |-> Closed]
    /\ feed = "none"
    /\ merger = FALSE
    /\ frames = 0
    /\ encoder = [at |-> "none", callback |-> TRUE, exit |-> FALSE]
    /\ sent = 0
    /\ published = 0

-----------------------------------------------------------------------------
(* Operations of the channel *)

\* The packer and the UDP clients, not yet connected.
ProducerInit(p) == [p EXCEPT !.at = "init"]

\* EVENT_WFD_MEDIA_INIT of the source's session.
HandleMediaInit ==
    /\ producer.at = "new"
    /\ producer' = ProducerInit(producer)
    /\ UNCHANGED <<feed, merger, frames, encoder, sent, published>>

\* WfdRtpProducer::Connect: the RTCP client is connected after the other one.
Connect(p, fail, rtcpFail) ==
    LET rtp == UdpClientConnect(fail)
        rtcp == IF CreateUdpClient(rtp) THEN UdpClientConnect(rtcpFail) ELSE Closed
    IN  [p EXCEPT !.client = "set", !.rtp = rtp, !.rtcp = rtcp,
                  !.running = CreateUdpClient(rtp) /\ CreateUdpClient(rtcp)]

\* PROSUMER_START and StartDispatchThread, which the channel calls whether Connect succeeds
\* or not.
StartProducer(fail, rtcpFail) ==
    /\ producer.at = "init"
    /\ producer' = [Connect(producer, fail, rtcpFail) EXCEPT !.at = "started", !.paused = FALSE,
                                                             !.dispatching = TRUE]
    /\ feed' = "reading"
    /\ UNCHANGED <<merger, frames, encoder, sent, published>>

PauseProducer ==
    /\ producer.at = "started"
    /\ producer' = [producer EXCEPT !.paused = ~@]
    /\ UNCHANGED <<feed, merger, frames, encoder, sent, published>>

\* Stop: the clients are disconnected and dropped, then the dispatch thread is joined.  A
\* client that did not connect has no listener to remove, which may end the process.
StopProducer ==
    /\ producer.at = "started"
    /\ producer' = [producer EXCEPT !.at = "stopping", !.running = FALSE, !.dispatching = FALSE,
                                    !.client = "dropped", !.rtp = Disconnect(@), !.rtcp = Disconnect(@)]
    /\ \/ UNCHANGED encoder
       \/ /\ NoListener(producer.rtp) \/ (CreateUdpClient(producer.rtp) /\ NoListener(producer.rtcp))
          /\ encoder' = [encoder EXCEPT !.at = "crashed"]
    /\ UNCHANGED <<feed, merger, frames, sent, published>>
JoinFeed ==
    /\ producer.at = "stopping" /\ feed = "left"
    /\ producer' = [producer EXCEPT !.at = "stopped"]
    /\ UNCHANGED <<feed, merger, frames, encoder, sent, published>>

\* Release drops the client's wrapper first and the packer, whose thread uses it, after it.
ReleaseClient ==
    /\ producer.at = "stopped"
    /\ producer' = [producer EXCEPT !.at = "releasing", !.client = "gone"]
    /\ UNCHANGED <<feed, merger, frames, encoder, sent, published>>

\* RtpEncoderTs::Release takes cbLockMutex_, which WritePacket holds while it sends.
ReleasePacker ==
    /\ producer.at = "releasing" /\ encoder.at # "sending"
    /\ producer' = [producer EXCEPT !.at = "joining"]
    /\ encoder' = [encoder EXCEPT !.callback = FALSE, !.exit = TRUE]
    /\ UNCHANGED <<feed, merger, frames, sent, published>>
JoinEncoder ==
    /\ producer.at = "joining" /\ encoder.at \in {"none", "left"}
    /\ producer' = [producer EXCEPT !.at = "gone"]
    /\ frames' = 0
    /\ UNCHANGED <<feed, merger, encoder, sent, published>>

-----------------------------------------------------------------------------
(* The dispatch thread *)

\* FrameMerger::WillFlush: a video frame waits in the merger until the next one begins.
WillFlush(kind) == kind = "video" /\ merger

\* RtpEncoderTs::InputFrame; the thread is started by the first audio frame.
InputFrame(kind) ==
    /\ frames' = IF kind = "audio" \/ WillFlush(kind) THEN frames + 1 ELSE frames
    /\ merger' = (kind = "video" \/ merger)
    /\ encoder' = [encoder EXCEPT !.at = IF @ = "none" /\ kind = "audio" THEN "idle" ELSE @]

\* DispatchMediaData reads the next frame of the dispatcher; PublishOneFrame.
PublishOneFrame(kind) ==
    /\ feed = "reading" /\ producer.dispatching
    /\ published < MaxFrames /\ published' = published + 1
    /\ IF producer.running /\ ~producer.paused THEN InputFrame(kind)
       ELSE UNCHANGED <<merger, frames, encoder>>
    /\ UNCHANGED <<producer, feed, sent>>

\* RequestRead gives up when it is told to stop (module BufferDispatcher).
DispatchEnds ==
    /\ feed = "reading" /\ ~producer.dispatching
    /\ feed' = "left"
    /\ UNCHANGED <<producer, merger, frames, encoder, sent, published>>

-----------------------------------------------------------------------------
(* The encoding thread *)

ReadFrame ==
    /\ encoder.at = "idle" /\ ~encoder.exit /\ frames > 0
    /\ encoder' = [encoder EXCEPT !.at = "writing"]
    /\ frames' = frames - 1
    /\ UNCHANGED <<producer, feed, merger, sent, published>>

\* Frames that are still queued when exit_ is set are not read any more.
EncodingEnds ==
    /\ encoder.at = "idle" /\ encoder.exit
    /\ encoder' = [encoder EXCEPT !.at = "left"]
    /\ UNCHANGED <<producer, feed, merger, frames, sent, published>>

\* WritePacket: MakeRtp numbers the packet, SendDataBuffer looks for the client.  A client that
\* is dropped between the look and the use may or may not end the process; one whose wrapper
\* is gone does.
WritePacket ==
    /\ encoder.at = "writing"
    /\ \/ /\ encoder.callback /\ producer.client # "gone"
          /\ sent' = sent + 1
          /\ encoder' = [encoder EXCEPT !.at = IF producer.client = "set" THEN "sending" ELSE "idle"]
       \/ /\ encoder.callback /\ producer.client = "gone"
          /\ encoder' = [encoder EXCEPT !.at = "crashed"]
          /\ UNCHANGED sent
       \/ /\ ~encoder.callback
          /\ encoder' = [encoder EXCEPT !.at = "idle"]
          /\ UNCHANGED sent
    /\ UNCHANGED <<producer, feed, merger, frames, published>>

\* UdpClient::Send; `delivered' says whether the packet reaches the network.
SendPacket(delivered) ==
    /\ encoder.at = "sending"
    /\ \/ encoder' = [encoder EXCEPT !.at = "idle"]
       \/ /\ producer.client # "set"
          /\ encoder' = [encoder EXCEPT !.at = "crashed"]
    /\ delivered = (producer.client = "set")
    /\ UNCHANGED <<producer, feed, merger, frames, sent, published>>

-----------------------------------------------------------------------------
Producing == HandleMediaInit \/ (\E fail, rtcpFail \in ConnectFailures : StartProducer(fail, rtcpFail)) \/ PauseProducer
             \/ StopProducer \/ JoinFeed \/ ReleaseClient \/ ReleasePacker \/ JoinEncoder
             \/ (\E kind \in {"audio", "video"} : PublishOneFrame(kind)) \/ DispatchEnds

Encoding == ReadFrame \/ EncodingEnds \/ WritePacket

Crashed == encoder.at = "crashed"
=============================================================================
