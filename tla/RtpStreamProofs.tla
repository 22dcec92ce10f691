----------------------------- MODULE RtpStreamProofs -----------------------------
(***************************************************************************)
(* A cast's media, for any number of frames below half the numbers of the  *)
(* wire, any numbering and any bounds of the sorter's cache: the sockets,  *)
(* the threads of each side and the order in which the channel takes them  *)
(* down; and, whatever the network does, the order of the frames.          *)
(***************************************************************************)
EXTENDS RtpStream, FiniteSetTheorems, TLAPS

SocketType == [fd : BOOLEAN, known : BOOLEAN, heard : BOOLEAN]

ProducerType == [at : {"new", "init", "started", "stopping", "stopped", "releasing", "joining", "gone"},
                 running : BOOLEAN, paused : BOOLEAN, dispatching : BOOLEAN,
                 client : {"none", "set", "dropped", "gone"}, rtp : SocketType, rtcp : SocketType]
EncoderType == [at : {"none", "idle", "writing", "sending", "left", "crashed"}, callback : BOOLEAN, exit : BOOLEAN]

ConsumerType == [at : {"new", "init", "started", "stopping", "closed", "unhooked", "joining", "stopped"},
                 running : BOOLEAN, paused : BOOLEAN, server : SocketType, peer : SocketType]
\* What the decoding thread holds is a packet or NoPacket, which does not matter here.
DecoderType(hold) == [at : {"none", "read", "gap", "waiting", "demuxed", "giving", "left"}, hold : {hold},
                      onFrame : BOOLEAN, exit : BOOLEAN]

\* Who is listened to is known to the event handler manager, so that removing the listener
\* and closing the descriptor leaves nothing; Stop does both for both clients, and Release
\* takes the callback away while the encoding thread does not send.
SenderInv ==
    /\ producer \in ProducerType /\ encoder \in EncoderType
    /\ producer.rtp.heard => producer.rtp.known
    /\ producer.rtcp.heard => producer.rtcp.known
    /\ producer.at \in {"stopping", "stopped", "releasing", "joining", "gone"}
          => producer.rtp = Closed /\ producer.rtcp = Closed
    /\ producer.at \in {"joining", "gone"} => ~encoder.callback /\ encoder.at # "sending"

\* The server is listened to only between its start and its stop, and the server's thread
\* parses only then; onFrame_ is taken away while the decoding thread is not inside it.
ReceiverInv ==
    /\ consumer \in ConsumerType /\ decoder \in DecoderType(decoder.hold)
    /\ consumer.server.heard => consumer.server.known /\ consumer.at \in {"started", "stopping"}
    /\ ~consumer.peer.known /\ ~consumer.peer.heard
    /\ consumer.at \in {"new", "init"} => consumer.server = Closed
    /\ consumer.at \in {"closed", "unhooked", "joining", "stopped"}
          => consumer.server = Closed /\ consumer.peer = Closed
    /\ reader # NoPacket => consumer.server.heard
    /\ decoder.onFrame <=> consumer.at \notin {"unhooked", "joining", "stopped"}
    /\ ~decoder.onFrame => decoder.at # "giving"
    /\ NoLostWakeup

StreamInv == SenderInv /\ ReceiverInv

-----------------------------------------------------------------------------
(* Sockets                                                                 *)

\* A closed socket is a socket: what a send or a receive on an ended channel leaves.
LEMMA ClosedIsSocket == Closed \in SocketType
BY DEF Closed, SocketType

\* A socket that is neither open nor known nor listened to is Closed.
LEMMA NothingLeft ==
    ASSUME NEW s \in SocketType, ~s.fd, ~s.known, ~s.heard
    PROVE  s = Closed
<1>1. PICK fd, known, heard \in BOOLEAN : s = [fd |-> fd, known |-> known, heard |-> heard]
  BY DEF SocketType
<1>2. ~fd /\ ~known /\ ~heard
  BY <1>1
<1> QED
  BY <1>1, <1>2 DEF Closed

\* What a connection that may fail leaves open is known when it is listened to.
LEMMA ConnectEffect ==
    ASSUME NEW fail
    PROVE  /\ UdpClientConnect(fail) \in SocketType
           /\ UdpClientConnect(fail).heard => UdpClientConnect(fail).known
BY DEF UdpClientConnect, CreateSocket, ConnectSocket, AddFdListener, AddEventHandler, Closed, SocketType

\* Disconnecting a client, or stopping a server, leaves nothing of it.
LEMMA DisconnectEffect ==
    ASSUME NEW s \in SocketType, s.heard => s.known
    PROVE  Disconnect(s) = Closed /\ UdpServerStop(s) = Closed
<1> DEFINE stopped == CloseSocket(RemoveFdListener(s))
<1>1. stopped \in SocketType /\ ~stopped.fd /\ ~stopped.known /\ ~stopped.heard
  BY DEF CloseSocket, RemoveFdListener, DelEventHandler, SocketType
<1> HIDE DEF stopped
<1>2. stopped = Closed
  BY <1>1, NothingLeft
<1> QED
  BY <1>2 DEF Disconnect, UdpServerStop, stopped

\* A server that was started is listened to, and one that was not leaves nothing.
LEMMA StartEffect ==
    ASSUME NEW fail
    PROVE  /\ StartNetworkServer(fail) \in SocketType
           /\ StartNetworkServer(fail).heard => StartNetworkServer(fail).known
           /\ ~StartNetworkServer(fail).heard => StartNetworkServer(fail) = Closed
<1> DEFINE server == CreateUdpServer(fail)
<1>1. server \in SocketType /\ (server.heard => server.known)
  BY DEF CreateUdpServer, UdpServerStart, Bind, BindSocket, CreateSocket, AddFdListener, AddEventHandler,
         Closed, SocketType
<1>2. UdpServerStop(server) = Closed
  BY <1>1, DisconnectEffect
<1>3. Closed \in SocketType /\ ~Closed.heard
  BY DEF Closed, SocketType
<1> QED
  BY <1>1, <1>2, <1>3 DEF StartNetworkServer

\* The session of a peer has no listener, and shutting it down leaves nothing of it.
LEMMA PeerEffect ==
    ASSUME NEW s \in SocketType, ~s.known, ~s.heard, NEW fail
    PROVE  /\ FindOrCreateSession(s, fail) \in SocketType
           /\ ~FindOrCreateSession(s, fail).known /\ ~FindOrCreateSession(s, fail).heard
           /\ SessionShutdown(s) = Closed
<1>1. FindOrCreateSession(s, fail) \in SocketType
      /\ ~FindOrCreateSession(s, fail).known /\ ~FindOrCreateSession(s, fail).heard
  BY DEF FindOrCreateSession, BindAndConnectClientFd, BindSocket, ConnectSocket, CreateSocket, Closed, SocketType
<1>2. SessionShutdown(s) \in SocketType
      /\ ~SessionShutdown(s).fd /\ ~SessionShutdown(s).known /\ ~SessionShutdown(s).heard
  BY DEF SessionShutdown, CloseSocket, SocketType
<1>3. SessionShutdown(s) = Closed
  BY <1>2, NothingLeft
<1> QED
  BY <1>1, <1>3

-----------------------------------------------------------------------------
(* The sending half                                                        *)

\* The sender begins idle, with an empty group of packets and a pusher that does not run.
LEMMA InitSenderInv == InitSender => SenderInv
BY ClosedIsSocket DEF InitSender, SenderInv, ProducerType, EncoderType, Closed

\* A step of the worker, of the dispatch thread or of the encoding thread.
Sending == Producing \/ Encoding \/ \E ok \in BOOLEAN : SendPacket(ok)

\* Each step of the producer, whichever thread takes it, keeps the invariant of the sender.
LEMMA SenderStep ==
    ASSUME SenderInv, Sending
    PROVE  SenderInv'
<1>1. ASSUME HandleMediaInit
      PROVE  SenderInv'
  BY <1>1 DEF SenderInv, HandleMediaInit, ProducerInit, ProducerType, EncoderType
<1>2. ASSUME NEW fail, NEW rtcpFail, StartProducer(fail, rtcpFail)
      PROVE  SenderInv'
  <2> DEFINE rtp == UdpClientConnect(fail)
             rtcp == IF CreateUdpClient(rtp) THEN UdpClientConnect(rtcpFail) ELSE Closed
  <2>1. rtp \in SocketType /\ rtcp \in SocketType /\ (rtp.heard => rtp.known) /\ (rtcp.heard => rtcp.known)
    <3>1. Closed \in SocketType /\ ~Closed.heard
      BY DEF Closed, SocketType
    <3> QED
      BY <3>1, ConnectEffect
  <2> HIDE DEF rtp, rtcp
  <2>2. (CreateUdpClient(rtp) /\ CreateUdpClient(rtcp)) \in BOOLEAN
    BY <2>1 DEF CreateUdpClient, SocketType
  <2>3. producer' = [producer EXCEPT !.client = "set", !.rtp = rtp, !.rtcp = rtcp,
                                     !.running = CreateUdpClient(rtp) /\ CreateUdpClient(rtcp),
                                     !.at = "started", !.paused = FALSE, !.dispatching = TRUE]
    BY <1>2 DEF StartProducer, Connect, SenderInv, ProducerType, rtp, rtcp
  <2> QED
    BY <1>2, <2>1, <2>2, <2>3 DEF SenderInv, StartProducer, ProducerType, EncoderType
<1>3. ASSUME PauseProducer
      PROVE  SenderInv'
  BY <1>3 DEF SenderInv, PauseProducer, ProducerType, EncoderType
<1>4. ASSUME StopProducer
      PROVE  SenderInv'
  <2>1. Disconnect(producer.rtp) = Closed /\ Disconnect(producer.rtcp) = Closed
    BY DisconnectEffect DEF SenderInv, ProducerType
  <2>2. producer' = [producer EXCEPT !.at = "stopping", !.running = FALSE, !.dispatching = FALSE,
                                     !.client = "dropped", !.rtp = Closed, !.rtcp = Closed]
    BY <1>4, <2>1 DEF StopProducer, SenderInv, ProducerType
  <2>3. producer' \in ProducerType /\ producer'.at = "stopping" /\ producer'.rtp = Closed /\ producer'.rtcp = Closed
    BY <2>2, ClosedIsSocket DEF SenderInv, ProducerType
  <2>4. encoder' \in EncoderType
    BY <1>4 DEF StopProducer, SenderInv, EncoderType
  <2>5. ~Closed.heard
    BY DEF Closed
  <2> QED
    BY <2>3, <2>4, <2>5 DEF SenderInv
<1>5. ASSUME JoinFeed \/ ReleaseClient \/ ReleasePacker \/ JoinEncoder
      PROVE  SenderInv'
  <2>1. CASE JoinFeed
    BY <2>1 DEF SenderInv, JoinFeed, ProducerType, EncoderType
  <2>2. CASE ReleaseClient
    BY <2>2 DEF SenderInv, ReleaseClient, ProducerType, EncoderType
  <2>3. CASE ReleasePacker
    BY <2>3 DEF SenderInv, ReleasePacker, ProducerType, EncoderType
  <2>4. CASE JoinEncoder
    BY <2>4 DEF SenderInv, JoinEncoder, ProducerType, EncoderType
  <2> QED
    BY <1>5, <2>1, <2>2, <2>3, <2>4
<1>6. ASSUME NEW frameKind, PublishOneFrame(frameKind)
      PROVE  SenderInv'
  BY <1>6 DEF SenderInv, PublishOneFrame, InputFrame, EncoderType
<1>7. ASSUME DispatchEnds \/ ReadFrame \/ EncodingEnds \/ WritePacket
      PROVE  SenderInv'
  BY <1>7 DEF SenderInv, DispatchEnds, ReadFrame, EncodingEnds, WritePacket, EncoderType
<1>8. ASSUME NEW ok, SendPacket(ok)
      PROVE  SenderInv'
  BY <1>8 DEF SenderInv, SendPacket, EncoderType
<1> QED
  BY <1>1, <1>2, <1>3, <1>4, <1>5, <1>6, <1>7, <1>8 DEF Sending, Producing, Encoding

-----------------------------------------------------------------------------
(* The receiving half                                                      *)

\* The receiver begins with no unpacker and no event handler.
LEMMA InitReceiverInv == InitReceiver => ReceiverInv
BY ClosedIsSocket DEF InitReceiver, ReceiverInv, NoLostWakeup, ConsumerType, DecoderType, Closed, NoPacket

\* A packet of the network, or a step of a thread of the sink.
Receiving == (\E p, fail : OnServerReadable(p, fail)) \/ ParseRtp \/ Decoding \/ Consuming

\* Each step of the consumer, the network and the parser keeps the invariant of the receiver.
LEMMA ReceiverStep ==
    ASSUME ReceiverInv, Receiving
    PROVE  ReceiverInv'
<1>1. ASSUME NEW p, NEW fail, OnServerReadable(p, fail)
      PROVE  ReceiverInv'
  <2> DEFINE session == FindOrCreateSession(consumer.peer, fail)
  <2>1. session \in SocketType /\ ~session.known /\ ~session.heard
    BY PeerEffect DEF ReceiverInv, ConsumerType
  <2>2. /\ consumer' = [consumer EXCEPT !.peer = session]
        /\ consumer.server.heard
        /\ UNCHANGED <<packets, decoder>>
    BY <1>1 DEF OnServerReadable
  <2> HIDE DEF session
  <2>3. consumer' \in ConsumerType /\ consumer'.at = consumer.at /\ consumer'.server = consumer.server
        /\ consumer'.peer = session
    BY <2>1, <2>2 DEF ReceiverInv, ConsumerType
  <2> QED
    BY <2>1, <2>2, <2>3 DEF ReceiverInv, NoLostWakeup
<1>2. ASSUME ParseRtp
      PROVE  ReceiverInv'
  <2> DEFINE out == SortPacket(reader).out
  <2> HIDE DEF out
  <2>1. InputRtp(out) /\ UNCHANGED consumer /\ reader' = NoPacket
    BY <1>2 DEF ParseRtp, out
  <2>2. decoder' \in DecoderType(decoder'.hold) /\ decoder'.onFrame = decoder.onFrame
        /\ (decoder'.at = decoder.at \/ decoder'.at = "read")
    BY <2>1 DEF InputRtp, ReceiverInv, DecoderType
  <2>3. decoder'.at \in {"gap", "waiting"} => packets' = <<>>
    BY <2>1 DEF InputRtp, ReceiverInv, DecoderType, NoLostWakeup
  <2> QED
    BY <2>1, <2>2, <2>3 DEF ReceiverInv, NoLostWakeup
<1>3. ASSUME Decoding
      PROVE  ReceiverInv'
  BY <1>3 DEF Decoding, TestQueue, WaitQueue, ReadPacket, TakeFrame, OnRtpUnpackCallback,
              ReceiverInv, NoLostWakeup, DecoderType
<1>4. ASSUME NEW fail, StartConsumer(fail)
      PROVE  ReceiverInv'
  <2> DEFINE server == StartNetworkServer(fail)
  <2>1. /\ server \in SocketType
        /\ server.heard => server.known
        /\ ~server.heard => server = Closed
    BY StartEffect
  <2>2. consumer.at = "init" /\ consumer.server = Closed
    BY <1>4 DEF StartConsumer, ReceiverInv
  <2>3. /\ consumer' = [consumer EXCEPT !.server = server, !.running = server.heard,
                                        !.at = IF server.heard THEN "started" ELSE @]
        /\ UNCHANGED <<reader, packets, decoder>>
    BY <1>4 DEF StartConsumer
  <2> HIDE DEF server
  <2>4. server.heard \in BOOLEAN
    BY <2>1 DEF SocketType
  <2>5. /\ consumer' \in ConsumerType
        /\ consumer'.server = server /\ consumer'.peer = consumer.peer
        /\ consumer'.at = IF server.heard THEN "started" ELSE "init"
    BY <2>1, <2>2, <2>3, <2>4 DEF ReceiverInv, ConsumerType
  <2>6. reader' = NoPacket
    BY <2>2, <2>3 DEF ReceiverInv, Closed
  <2> QED
    BY <2>1, <2>2, <2>3, <2>5, <2>6 DEF ReceiverInv, NoLostWakeup
<1>5. ASSUME StopServer
      PROVE  ReceiverInv'
  <2>1. UdpServerStop(consumer.server) = Closed /\ SessionShutdown(consumer.peer) = Closed
    BY DisconnectEffect, PeerEffect DEF ReceiverInv, ConsumerType
  <2>2. consumer' = [consumer EXCEPT !.at = "closed", !.server = Closed, !.peer = Closed]
    BY <1>5, <2>1 DEF StopServer, ReceiverInv, ConsumerType
  <2>3. consumer' \in ConsumerType /\ consumer'.at = "closed" /\ consumer'.server = Closed /\ consumer'.peer = Closed
    BY <2>2, ClosedIsSocket DEF ReceiverInv, ConsumerType
  <2> QED
    BY <1>5, <2>3 DEF StopServer, ReceiverInv, NoLostWakeup, Closed
<1>6. ASSUME InitConsumer \/ PauseConsumer \/ StopConsumer
      PROVE  ReceiverInv'
  BY <1>6 DEF InitConsumer, PauseConsumer, StopConsumer, ReceiverInv, NoLostWakeup, ConsumerType, Closed
<1>7. ASSUME DropOnFrame \/ SetExit \/ JoinDecoder
      PROVE  ReceiverInv'
  BY <1>7 DEF DropOnFrame, SetExit, JoinDecoder, ReceiverInv, NoLostWakeup, ConsumerType, DecoderType, Closed
<1> QED
  BY <1>1, <1>2, <1>3, <1>4, <1>5, <1>6, <1>7 DEF Receiving, Consuming

-----------------------------------------------------------------------------
(* The whole cast                                                          *)

\* Both ends of the stream begin within their invariants.
LEMMA InitInv == Init => StreamInv
BY InitSenderInv, InitReceiverInv DEF Init, StreamInv

\* Neither half changes what the other one keeps.
LEMMA StreamStep == StreamInv /\ [Next]_vars => StreamInv'
<1> SUFFICES ASSUME StreamInv, [Next]_vars
             PROVE  StreamInv'
  OBVIOUS
<1>1. UNCHANGED senderVars => SenderInv'
  BY DEF StreamInv, SenderInv, senderVars
<1>2. UNCHANGED receiverVars => ReceiverInv'
  BY DEF StreamInv, ReceiverInv, NoLostWakeup, receiverVars
<1>3. CASE UNCHANGED vars
  BY <1>1, <1>2, <1>3 DEF vars, StreamInv
<1>4. CASE Produces \/ Encodes
  <2>1. Sending /\ UNCHANGED receiverVars
    BY <1>4 DEF Produces, Encodes, Sending
  <2> QED
    BY <1>2, <2>1, SenderStep DEF StreamInv
<1>5. CASE (Consuming /\ UNCHANGED <<senderVars, netVars>>) \/ Receives \/ Parses \/ Decodes
  <2>1. Receiving /\ UNCHANGED senderVars
    BY <1>5 DEF Receives, Parses, Decodes, Receiving
  <2> QED
    BY <1>1, <2>1, ReceiverStep DEF StreamInv
<1> QED
  BY <1>3, <1>4, <1>5 DEF Next

\* The invariants of both ends hold throughout: a step of one end does not change what the invariant of the other reads.
LEMMA StreamCorrect == Spec => []StreamInv
BY InitInv, StreamStep, PTL DEF Spec

\* RtpUnpackImpl::Release is only reached after UdpServer::Stop has waited for the thread that
\* parses, and Stop of either end closes and forgets its sockets whatever failed when they
\* were opened.
THEOREM ParserHasUnpacker == Spec => []ParsesAlive
<1>1. StreamInv => ParsesAlive
  BY DEF StreamInv, SenderInv, ReceiverInv, ConsumerType, DecoderType, ParsesAlive, UnpackerAlive
<1> QED
  BY <1>1, StreamCorrect, PTL

\* InputRtp and the predicate of ReadPacket exclude each other by queueMutex_.
THEOREM WakeupNeverLost == Spec => []NoLostWakeup
<1>1. StreamInv => NoLostWakeup
  BY DEF StreamInv, ReceiverInv
<1> QED
  BY <1>1, StreamCorrect, PTL

\* onFrame_ is dropped under frameLock and the callback of the packer under cbLockMutex_, so
\* that nothing follows the return of the call that drops it.
THEOREM QuietAfterRelease == Spec => StoppedIsQuiet
<1>1. ASSUME StreamInv, [Next]_vars, consumer.at \in {"unhooked", "joining", "stopped"}
      PROVE  given' = given
  <2>1. decoder.at # "giving"
    BY <1>1 DEF StreamInv, ReceiverInv
  <2>2. ASSUME Decoding \/ Consuming
        PROVE  given' = given
    BY <2>1, <2>2 DEF Decoding, TestQueue, WaitQueue, ReadPacket, TakeFrame, OnRtpUnpackCallback,
          Consuming, InitConsumer, StartConsumer, PauseConsumer, StopConsumer, StopServer, DropOnFrame,
          SetExit, JoinDecoder
  <2> QED
    BY <1>1, <2>2 DEF Next, vars, receiverVars, Produces, Encodes, Receives, OnServerReadable, Parses,
          ParseRtp, Decodes
<1>2. ASSUME StreamInv, Next, producer.at \in {"joining", "gone"}
      PROVE  sent' = sent /\ encoder'.at # "sending"
  <2>1. ~encoder.callback /\ encoder.at # "sending" /\ encoder \in EncoderType
    BY <1>2 DEF StreamInv, SenderInv
  <2>2. ASSUME Producing
        PROVE  sent' = sent /\ encoder'.at # "sending"
    BY <1>2, <2>1, <2>2 DEF Producing, HandleMediaInit, StartProducer, PauseProducer, StopProducer, JoinFeed,
          ReleaseClient, ReleasePacker, JoinEncoder, PublishOneFrame, InputFrame, DispatchEnds, EncoderType
  <2>3. ASSUME Encoding \/ \E ok \in BOOLEAN : SendPacket(ok)
        PROVE  sent' = sent /\ encoder'.at # "sending"
    BY <2>1, <2>3 DEF Encoding, ReadFrame, EncodingEnds, WritePacket, SendPacket, EncoderType
  <2> QED
    BY <1>2, <2>1, <2>2, <2>3 DEF Next, senderVars, Produces, Encodes, Receives, Parses, Decodes
<1>3. StreamInv /\ [Next]_vars
      => [/\ consumer.at \in {"unhooked", "joining", "stopped"} => given' = given
          /\ producer.at \in {"joining", "gone"} => sent' = sent /\ encoder'.at # "sending"]_vars
  BY <1>1, <1>2
<1> QED
  BY <1>3, StreamCorrect, PTL DEF Spec, StoppedIsQuiet

-----------------------------------------------------------------------------
(* Numbers of the wire                                                     *)

\* Half of the numbers is a number, and two halves are fewer than all of them.
LEMMA HalfOfNumbers == Half \in Nat /\ 2 * Half < Modulus
BY SorterAssumption, Z3 DEF Half

\* A sum of two numbers of the wire wraps once.
LEMMA WrapsOnce ==
    ASSUME NEW x \in Nat, x < 2 * Modulus
    PROVE  x % Modulus = IF x < Modulus THEN x ELSE x - Modulus
<1>1. CASE x < Modulus
  BY <1>1, SorterAssumption
<1>2. CASE x >= Modulus
  BY <1>2, SorterAssumption
<1> QED
  BY <1>1, <1>2, SorterAssumption

\* The number of a packet, which has wrapped at most once.
LEMMA WireForm ==
    ASSUME NEW p \in 1..(2 * Half)
    PROVE  /\ WireSeq(p) = IF FirstSeq + p - 1 < Modulus THEN FirstSeq + p - 1 ELSE FirstSeq + p - 1 - Modulus
           /\ WireSeq(p) \in 0..(Modulus - 1)
<1> DEFINE x == FirstSeq + p - 1
<1>1. x \in Nat /\ x < 2 * Modulus
  BY HalfOfNumbers, SorterAssumption
<1>2. WireSeq(p) = x % Modulus
  BY DEF WireSeq
<1>3. x % Modulus = IF x < Modulus THEN x ELSE x - Modulus
  <2> HIDE DEF x
  <2> QED
    BY <1>1, WrapsOnce
<1> QED
  BY <1>1, <1>2, <1>3, SorterAssumption

\* Counting on from the number of a packet gives the numbers of its successors.
LEMMA WireNext ==
    ASSUME NEW p \in 1..(2 * Half), NEW k \in Nat, p + k <= 2 * Half
    PROVE  (WireSeq(p) + k) % Modulus = WireSeq(p + k)
<1>1. p + k \in 1..(2 * Half)
  BY HalfOfNumbers
<1> DEFINE x == WireSeq(p) + k
<1>2. x \in Nat /\ x < 2 * Modulus
  BY WireForm, HalfOfNumbers, SorterAssumption
<1>3. x % Modulus = IF x < Modulus THEN x ELSE x - Modulus
  <2> HIDE DEF x
  <2> QED
    BY <1>2, WrapsOnce
<1> QED
  BY <1>1, <1>3, WireForm, HalfOfNumbers, SorterAssumption

\* Two packets of a cast do not have the same number.
LEMMA WireApart ==
    ASSUME NEW p \in 1..(2 * Half), NEW q \in 1..(2 * Half), WireSeq(p) = WireSeq(q)
    PROVE  p = q
BY WireForm, HalfOfNumbers, SorterAssumption

\* IsSeqValid tells a packet that is still to come from one that is late, wherever the numbers wrap.
LEMMA ValidIsNewer ==
    ASSUME NEW p \in 1..(Half - 1), NEW n \in 1..Half
    PROVE  IsSeqValid(WireSeq(p), WireSeq(n)) <=> p >= n
<1>1. p \in 1..(2 * Half) /\ n \in 1..(2 * Half)
  BY HalfOfNumbers
<1> QED
  BY <1>1, WireForm, HalfOfNumbers, SorterAssumption DEF IsSeqValid

-----------------------------------------------------------------------------
(* The least and the greatest of a set of numbers                          *)

\* A set of naturals has a least member: the order is well founded.
LEMMA HasLeast ==
    ASSUME NEW S \in SUBSET Nat, S # {}
    PROVE  \E x \in S : \A y \in S : x <= y
<1> DEFINE R == OpToRel(<, Nat)
<1>1. IsWellFoundedOn(R, Nat)
  BY NatLessThanWellFounded
<1>2. \A y, x \in Nat : <<y, x>> \in R <=> y < x
  BY DEF OpToRel
<1> HIDE DEF R
<1>3. PICK x \in S : \A y \in S : ~(<<y, x>> \in R)
  BY <1>1, WFMin
<1>4. ASSUME NEW y \in S
      PROVE  x <= y
  <2>1. x \in Nat /\ y \in Nat
    OBVIOUS
  <2>2. ~(y < x)
    BY <2>1, <1>2, <1>3
  <2> QED
    BY <2>1, <2>2
<1> QED
  BY <1>4

\* Min is the least member.
LEMMA MinIsLeast ==
    ASSUME NEW S \in SUBSET Nat, S # {}
    PROVE  Min(S) \in S /\ \A y \in S : Min(S) <= y
BY HasLeast DEF Min

\* Max is the greatest member of a bounded set.
LEMMA MaxIsGreatest ==
    ASSUME NEW n \in Nat, NEW S \in SUBSET (0..n), S # {}
    PROVE  Max(S) \in S /\ \A y \in S : Max(S) >= y
<1> DEFINE T == {n - y : y \in S}
<1>0. \A y \in S : n - y \in Nat
  OBVIOUS
<1>1. T \in SUBSET Nat /\ T # {}
  BY <1>0
<1>2. PICK t \in T : \A u \in T : t <= u
  BY <1>1, HasLeast
<1>3. PICK x \in S : t = n - x
  OBVIOUS
<1>4. \A y \in S : x >= y
  <2> SUFFICES ASSUME NEW y \in S
               PROVE  x >= y
    OBVIOUS
  <2>1. n - y \in T
    OBVIOUS
  <2>2. t <= n - y
    BY <2>1, <1>2
  <2> QED
    BY <2>2, <1>3
<1> QED
  BY <1>4 DEF Max

-----------------------------------------------------------------------------
(* The sorter                                                              *)

\* The map holds packets lo to hi, each under its own number.
Fits(cache, lo, hi) == /\ cache = [s \in DOMAIN cache |-> cache[s]]
                       /\ \A s \in DOMAIN cache : cache[s] \in lo..hi /\ s = WireSeq(cache[s])

\* A map of packets of one cast has no more entries than there are packets.
LEMMA FitsIsFinite ==
    ASSUME NEW hi \in 0..(Half - 1), NEW lo \in 1..Half, NEW cache, Fits(cache, lo, hi)
    PROVE  /\ IsFiniteSet(DOMAIN cache) /\ Cardinality(DOMAIN cache) \in 0..hi
           /\ \A s \in DOMAIN cache : s \in 0..(Modulus - 1) /\ cache[s] \in 1..(2 * Half)
<1>1. \A s \in DOMAIN cache : cache[s] \in 1..hi /\ cache[s] \in 1..(2 * Half) /\ s = WireSeq(cache[s])
  BY HalfOfNumbers DEF Fits
<1>2. \A s \in DOMAIN cache : s \in 0..(Modulus - 1)
  BY <1>1, WireForm
<1>3. cache \in Injection(DOMAIN cache, 1..hi)
  <2>1. cache \in [DOMAIN cache -> 1..hi]
    BY <1>1 DEF Fits
  <2>2. \A a, b \in DOMAIN cache : cache[a] = cache[b] => a = b
    BY <1>1
  <2> QED
    BY <2>1, <2>2 DEF Injection, IsInjective
<1>4. IsFiniteSet(1..hi) /\ Cardinality(1..hi) = hi
  BY FS_Interval, HalfOfNumbers
<1>5. IsFiniteSet(DOMAIN cache) /\ Cardinality(DOMAIN cache) <= Cardinality(1..hi)
  BY <1>3, <1>4, FS_Injection
<1>6. Cardinality(DOMAIN cache) \in Nat
  BY <1>5, FS_CardinalityType
<1> QED
  BY <1>1, <1>2, <1>4, <1>5, <1>6, HalfOfNumbers

\* Where the sorter goes on is the first packet of the map, although its number may not be the least.
LEMMA PopsFirst ==
    ASSUME NEW hi \in 0..(Half - 1), NEW lo \in 1..Half, NEW cache, Fits(cache, lo, hi), NEW max \in Nat
    PROVE  LET from == PopFrom(WireSeq(lo), cache, max)
           IN  \/ from = -1 /\ WireSeq(lo) \notin DOMAIN cache /\ Cardinality(DOMAIN cache) <= max
               \/ from \in DOMAIN cache /\ \A s \in DOMAIN cache : cache[from] <= cache[s]
<1> DEFINE next == WireSeq(lo)
           from == PopFrom(next, cache, max)
           later == {s \in DOMAIN cache : s >= next}
<1>1. lo \in 1..(2 * Half) /\ next \in 0..(Modulus - 1)
  BY HalfOfNumbers, WireForm
<1>2. \A s \in DOMAIN cache : s \in 0..(Modulus - 1) /\ cache[s] \in 1..(2 * Half) /\ cache[s] >= lo /\ s = WireSeq(cache[s])
  BY FitsIsFinite, HalfOfNumbers DEF Fits
<1>3. \A s \in DOMAIN cache :
          /\ next = IF FirstSeq + lo - 1 < Modulus THEN FirstSeq + lo - 1 ELSE FirstSeq + lo - 1 - Modulus
          /\ s = IF FirstSeq + cache[s] - 1 < Modulus THEN FirstSeq + cache[s] - 1 ELSE FirstSeq + cache[s] - 1 - Modulus
  BY <1>1, <1>2, WireForm
<1>4. CASE next \in DOMAIN cache
  <2>1. cache[next] = lo
    BY <1>1, <1>2, <1>4, WireApart
  <2>2. from = next
    BY <1>4 DEF PopFrom
  <2> QED
    BY <1>2, <1>4, <2>1, <2>2
<1>5. CASE next \notin DOMAIN cache /\ Cardinality(DOMAIN cache) <= max
  BY <1>5 DEF PopFrom
<1>6. CASE next \notin DOMAIN cache /\ ~(Cardinality(DOMAIN cache) <= max)
  <2>1. DOMAIN cache # {}
    BY <1>6, FS_EmptySet
  <2>2. from = Min(IF later # {} THEN later ELSE DOMAIN cache)
    BY <1>6 DEF PopFrom
  <2>3. later \in SUBSET Nat /\ DOMAIN cache \in SUBSET Nat
    BY <1>2
  <2> HIDE DEF next, from
  <2>4. CASE later # {}
    <3>1. from \in later /\ \A s \in later : from <= s
      BY <2>2, <2>3, <2>4, MinIsLeast
    <3>2. ASSUME NEW s \in DOMAIN cache
          PROVE  cache[from] <= cache[s]
      <4>1. s >= next => from <= s
        BY <3>1
      <4>2. from \in DOMAIN cache /\ from >= next
        BY <3>1
      <4> HIDE DEF later
      <4> QED
        BY <4>1, <4>2, <1>1, <1>2, <1>3, SorterAssumption, HalfOfNumbers
    <3> QED
      BY <3>1, <3>2 DEF from, next
  <2>5. CASE later = {}
    <3>1. from \in DOMAIN cache /\ \A s \in DOMAIN cache : from <= s
      BY <2>1, <2>2, <2>3, <2>5, MinIsLeast
    <3>2. ASSUME NEW s \in DOMAIN cache
          PROVE  cache[from] <= cache[s]
      <4>1. s < next /\ from < next /\ from <= s
        BY <3>1, <2>5, <1>1, <1>2
      <4> HIDE DEF later
      <4> QED
        BY <4>1, <3>1, <1>1, <1>2, <1>3, SorterAssumption, HalfOfNumbers
    <3> QED
      BY <3>1, <3>2 DEF from, next
  <2> QED
    BY <2>4, <2>5
<1> QED
  BY <1>4, <1>5, <1>6

\* The run from a packet of the map has at least this packet, and all of it is in the map.
LEMMA RunIsCached ==
    ASSUME NEW hi \in 0..(Half - 1), NEW lo \in 1..Half, NEW cache, Fits(cache, lo, hi), NEW from \in DOMAIN cache
    PROVE  LET n == RunLength(from, cache)
           IN  n \in 1..hi /\ \A k \in 0..(n - 1) : (from + k) % Modulus \in DOMAIN cache
<1> DEFINE size == Cardinality(DOMAIN cache)
           runs == {n \in 0..size : \A k \in 0..(n - 1) : (from + k) % Modulus \in DOMAIN cache}
<1>1. size \in 0..hi /\ IsFiniteSet(DOMAIN cache) /\ from \in 0..(Modulus - 1)
  BY FitsIsFinite
<1>2. size # 0
  BY <1>1, FS_EmptySet
<1>3. 1 \in runs
  <2>1. from < Modulus /\ from \in Nat /\ from < 2 * Modulus
    BY <1>1, SorterAssumption
  <2>2. from % Modulus = from
    BY <2>1, WrapsOnce
  <2>3. \A k \in 0..(1 - 1) : from + k = from
    BY <2>1
  <2> QED
    BY <1>1, <1>2, <2>2, <2>3
<1>4. Max(runs) \in runs /\ Max(runs) >= 1
  <2>1. runs \in SUBSET (0..size) /\ runs # {} /\ size \in Nat
    BY <1>1, <1>3
  <2> HIDE DEF runs
  <2> QED
    BY <2>1, <1>3, MaxIsGreatest
<1> DEFINE n == RunLength(from, cache)
<1>5. n = Max(runs)
  BY DEF RunLength
<1> HIDE DEF n
<1>6. n \in 0..size /\ \A k \in 0..(n - 1) : (from + k) % Modulus \in DOMAIN cache
  BY <1>4, <1>5
<1>7. n \in 1..hi
  <2> HIDE DEF runs
  <2> QED
    BY <1>1, <1>4, <1>5, <1>6
<1> QED
  BY <1>6, <1>7 DEF n

\* TryPopPacket waits; or it puts out successive packets, the first ones of the map, and what
\* stays comes after them, as the number that it waits for does.
Popped(after, srt, cache, lo, hi) ==
    \/ /\ after.sorter = [srt EXCEPT !.cache = cache] /\ after.out = <<>>
       /\ WireSeq(lo) \notin DOMAIN cache /\ Cardinality(DOMAIN cache) <= srt.max
    \/ \E first \in lo..hi : \E n \in 1..hi : \E rest :
          /\ first + n - 1 <= hi /\ Fits(rest, first + n, hi)
          /\ \A s \in DOMAIN cache : \/ s \in DOMAIN rest /\ rest[s] = cache[s]
                                     \/ cache[s] \in first..(first + n - 1)
          /\ Cardinality(DOMAIN rest) < Cardinality(DOMAIN cache)
          /\ after.sorter = [srt EXCEPT !.cache = rest, !.next = WireSeq(first + n), !.max = SetSortSize(rest)]
          /\ after.out = [k \in 1..n |-> first + k - 1]

\* It does one or the other, whatever is in the map.
LEMMA PopEffect ==
    ASSUME NEW hi \in 0..(Half - 1), NEW lo \in 1..Half, NEW cache, Fits(cache, lo, hi),
           NEW srt, srt.next = WireSeq(lo), srt.max \in Nat
    PROVE  Popped(TryPopPacket(srt, cache), srt, cache, lo, hi)
<1> DEFINE after == TryPopPacket(srt, cache)
           from == PopFrom(WireSeq(lo), cache, srt.max)
           n == RunLength(from, cache)
           popped == {(from + k) % Modulus : k \in 0..(n - 1)}
           rest == [s \in DOMAIN cache \ popped |-> cache[s]]
           first == cache[from]
<1>1. \/ from = -1 /\ WireSeq(lo) \notin DOMAIN cache /\ Cardinality(DOMAIN cache) <= srt.max
      \/ from \in DOMAIN cache /\ \A s \in DOMAIN cache : cache[from] <= cache[s]
  BY PopsFirst
<1>2. CASE from = -1
  <2>1. from \notin DOMAIN cache
    BY <1>2, FitsIsFinite
  <2>2. after = [sorter |-> [srt EXCEPT !.cache = cache], out |-> <<>>]
    BY <1>2 DEF TryPopPacket
  <2> HIDE DEF after
  <2>3. after.sorter = [srt EXCEPT !.cache = cache] /\ after.out = <<>>
    BY <2>2
  <2> QED
    BY <1>1, <2>1, <2>3 DEF after, Popped
<1>3. CASE from # -1
  <2>1. from \in DOMAIN cache /\ \A s \in DOMAIN cache : first <= cache[s]
    BY <1>1, <1>3
  <2>2. /\ \A s \in DOMAIN cache : cache[s] \in lo..hi /\ cache[s] \in 1..(2 * Half) /\ s = WireSeq(cache[s])
        /\ first \in lo..hi /\ first \in 1..(2 * Half) /\ from = WireSeq(first)
    BY <2>1, HalfOfNumbers DEF Fits
  <2>3. n \in 1..hi /\ \A k \in 0..(n - 1) : (from + k) % Modulus \in DOMAIN cache
    BY <2>1, RunIsCached
  <2>4. after = [sorter |-> [srt EXCEPT !.cache = rest, !.next = (from + n) % Modulus, !.max = SetSortSize(rest)],
                 out |-> [k \in 1..n |-> cache[(from + k - 1) % Modulus]]]
    BY <1>3 DEF TryPopPacket
  <2> HIDE DEF from, n, first, after
  \* The numbers of the run, and the packets they belong to.
  <2>5. \A k \in 0..n : first + k \in 1..(2 * Half) /\ (from + k) % Modulus = WireSeq(first + k)
    <3> SUFFICES ASSUME NEW k \in 0..n
                 PROVE  first + k \in 1..(2 * Half) /\ (from + k) % Modulus = WireSeq(first + k)
      OBVIOUS
    <3>1. first + k \in 1..(2 * Half) /\ first + k <= 2 * Half /\ k \in Nat
      BY <2>2, <2>3, HalfOfNumbers
    <3>2. (WireSeq(first) + k) % Modulus = WireSeq(first + k)
      BY <2>2, <3>1, WireNext
    <3> QED
      BY <2>2, <3>1, <3>2
  <2>6. \A k \in 0..(n - 1) : WireSeq(first + k) \in DOMAIN cache /\ cache[WireSeq(first + k)] = first + k
    <3> SUFFICES ASSUME NEW k \in 0..(n - 1)
                 PROVE  WireSeq(first + k) \in DOMAIN cache /\ cache[WireSeq(first + k)] = first + k
      OBVIOUS
    <3>0. k \in 0..n
      BY <2>3, HalfOfNumbers
    <3>1. WireSeq(first + k) \in DOMAIN cache /\ first + k \in 1..(2 * Half)
      BY <3>0, <2>3, <2>5
    <3> DEFINE v == cache[WireSeq(first + k)]
    <3>2. v \in 1..(2 * Half) /\ WireSeq(v) = WireSeq(first + k)
      BY <2>2, <3>1
    <3> HIDE DEF v
    <3>3. v = first + k
      BY <3>1, <3>2, WireApart
    <3> QED
      BY <3>1, <3>3 DEF v
  <2>7. first + n - 1 <= hi
    <3>1. n - 1 \in 0..(n - 1) /\ first + (n - 1) = first + n - 1
      BY <2>2, <2>3, HalfOfNumbers
    <3>2. first + (n - 1) \in lo..hi
      BY <3>1, <2>6, <2>2
    <3> QED
      BY <3>1, <3>2
  <2>8. popped = {WireSeq(first + k) : k \in 0..(n - 1)}
    <3>1. \A k \in 0..(n - 1) : k \in 0..n
      BY <2>3, HalfOfNumbers
    <3> QED
      BY <2>5, <3>1
  <2> HIDE DEF popped
  <2>9. \A s \in DOMAIN cache : s \in popped <=> cache[s] \in first..(first + n - 1)
    <3> SUFFICES ASSUME NEW s \in DOMAIN cache
                 PROVE  s \in popped <=> cache[s] \in first..(first + n - 1)
      OBVIOUS
    <3>1. ASSUME s \in popped
          PROVE  cache[s] \in first..(first + n - 1)
      <4>1. PICK k \in 0..(n - 1) : s = WireSeq(first + k)
        BY <3>1, <2>8
      <4>2. cache[s] = first + k
        BY <4>1, <2>6
      <4> QED
        BY <4>2, <2>2, <2>3, HalfOfNumbers
    <3>2. ASSUME cache[s] \in first..(first + n - 1)
          PROVE  s \in popped
      <4>1. cache[s] - first \in 0..(n - 1) /\ first + (cache[s] - first) = cache[s]
        BY <3>2, <2>2, <2>3, HalfOfNumbers
      <4>2. s = WireSeq(first + (cache[s] - first))
        BY <4>1, <2>2
      <4> QED
        BY <4>1, <4>2, <2>8
    <3> QED
      BY <3>1, <3>2
  <2>10. Fits(rest, first + n, hi)
    <3>1. DOMAIN rest = DOMAIN cache \ popped /\ \A s \in DOMAIN rest : rest[s] = cache[s]
      OBVIOUS
    <3>2. \A s \in DOMAIN rest : cache[s] \in (first + n)..hi /\ s = WireSeq(cache[s])
      BY <3>1, <2>1, <2>2, <2>3, <2>9, HalfOfNumbers
    <3> QED
      BY <3>1, <3>2 DEF Fits
  <2>11. \A s \in DOMAIN cache : (s \in DOMAIN rest /\ rest[s] = cache[s]) \/ cache[s] \in first..(first + n - 1)
    BY <2>9
  <2>12. Cardinality(DOMAIN rest) < Cardinality(DOMAIN cache)
    <3>0. first \in first..(first + n - 1)
      BY <2>2, <2>3, HalfOfNumbers
    <3>1. IsFiniteSet(DOMAIN cache) /\ from \in popped
      BY <3>0, FitsIsFinite, <2>1, <2>9 DEF first
    <3>2. /\ IsFiniteSet(DOMAIN cache \ {from})
          /\ Cardinality(DOMAIN cache \ {from}) = Cardinality(DOMAIN cache) - 1
      BY <3>1, <2>1, FS_RemoveElement
    <3>3. DOMAIN rest \in SUBSET (DOMAIN cache \ {from})
      BY <3>1
    <3>4. IsFiniteSet(DOMAIN rest) /\ Cardinality(DOMAIN rest) <= Cardinality(DOMAIN cache \ {from})
      BY <3>2, <3>3, FS_Subset
    <3>5. Cardinality(DOMAIN rest) \in Nat /\ Cardinality(DOMAIN cache) \in Nat
      BY <3>1, <3>4, FS_CardinalityType
    <3> QED
      BY <3>2, <3>4, <3>5
  <2>13. (from + n) % Modulus = WireSeq(first + n)
    <3>1. n \in 0..n
      BY <2>3, HalfOfNumbers
    <3> QED
      BY <3>1, <2>5
  <2>14. after.out = [k \in 1..n |-> first + k - 1]
    <3>1. ASSUME NEW k \in 1..n
          PROVE  cache[(from + k - 1) % Modulus] = first + k - 1
      <4>1. k - 1 \in 0..(n - 1) /\ k - 1 \in 0..n /\ from + (k - 1) = from + k - 1 /\ first + (k - 1) = first + k - 1
        BY <2>1, <2>2, <2>3, HalfOfNumbers, FitsIsFinite
      <4>2. (from + (k - 1)) % Modulus = WireSeq(first + (k - 1))
        BY <4>1, <2>5
      <4>3. cache[WireSeq(first + (k - 1))] = first + (k - 1)
        BY <4>1, <2>6
      <4> QED
        BY <4>1, <4>2, <4>3
    <3> QED
      BY <2>4, <3>1
  <2>15. after.sorter = [srt EXCEPT !.cache = rest, !.next = WireSeq(first + n), !.max = SetSortSize(rest)]
    BY <2>4, <2>13
  <2> HIDE DEF rest
  <2>16. \E rest_1 : /\ first + n - 1 <= hi /\ Fits(rest_1, first + n, hi)
                     /\ \A s \in DOMAIN cache : \/ s \in DOMAIN rest_1 /\ rest_1[s] = cache[s]
                                                \/ cache[s] \in first..(first + n - 1)
                     /\ Cardinality(DOMAIN rest_1) < Cardinality(DOMAIN cache)
                     /\ after.sorter = [srt EXCEPT !.cache = rest_1, !.next = WireSeq(first + n), !.max = SetSortSize(rest_1)]
                     /\ after.out = [k \in 1..n |-> first + k - 1]
    BY <2>7, <2>10, <2>11, <2>12, <2>14, <2>15
  <2> QED
    BY <2>2, <2>3, <2>16 DEF after, Popped
<1> QED
  BY <1>2, <1>3

\* The sorter when `last' is the newest packet it put out and `top' the newest of the source: it
\* waits for the next one and holds only later ones, no more than it may.
SorterOK(srt, last, top) ==
    /\ srt = [known |-> srt.known, next |-> srt.next, cache |-> srt.cache, max |-> srt.max]
    /\ srt.known \in BOOLEAN /\ srt.max \in KMin..KMax
    /\ Fits(srt.cache, last + 1, top)
    /\ IF srt.known THEN srt.next = WireSeq(last + 1) ELSE last = 0 /\ DOMAIN srt.cache = {}
    /\ Cardinality(DOMAIN srt.cache) <= srt.max

\* What a sorter that held `cache' makes of a packet p: it puts out later packets in their
\* order, and neither p nor what it held is lost unless p was late.
Sorted(after, cache, p, last, top) ==
    LET latest == IF after.out = <<>> THEN last ELSE after.out[Len(after.out)]
        kept == Cached(after.sorter) \cup ToSet(after.out)
    IN  /\ after.out \in Seq((last + 1)..latest) /\ latest \in last..top
        /\ \A i, j \in 1..Len(after.out) : i < j => after.out[i] < after.out[j]
        /\ SorterOK(after.sorter, latest, top)
        /\ p <= last \/ p \in kept
        /\ {cache[s] : s \in DOMAIN cache} \subseteq kept

\* A packet that is not late is cached and, with what follows it, put out when it is its turn.
LEMMA PutEffect ==
    ASSUME NEW top \in 0..(Half - 1), NEW last \in 0..top, NEW lo \in (last + 1)..top, NEW p \in lo..top,
           lo = last + 1 \/ p = lo,
           NEW max \in KMin..KMax, NEW old, Fits(old, lo, top), Cardinality(DOMAIN old) <= max
    PROVE  Sorted(TryPopPacket([known |-> TRUE, next |-> WireSeq(lo), cache |-> old, max |-> max], Emplace(old, p)),
                  old, p, last, top)
<1> DEFINE srt == [known |-> TRUE, next |-> WireSeq(lo), cache |-> old, max |-> max]
           cache == Emplace(old, p)
           after == TryPopPacket(srt, cache)
<1>1. lo \in 1..Half /\ p \in 1..(2 * Half) /\ KMin \in Nat /\ KMax \in Nat /\ max \in Nat
  BY HalfOfNumbers, SorterAssumption
<1>2. /\ DOMAIN cache = DOMAIN old \cup {WireSeq(p)} /\ cache[WireSeq(p)] = p
      /\ \A s \in DOMAIN old : cache[s] = old[s]
  <2>1. DOMAIN cache = DOMAIN old \cup {WireSeq(p)}
        /\ \A s \in DOMAIN cache : cache[s] = IF s \in DOMAIN old THEN old[s] ELSE p
    BY DEF Emplace
  <2>2. WireSeq(p) \in DOMAIN old => old[WireSeq(p)] = p
    <3>1. ASSUME WireSeq(p) \in DOMAIN old
          PROVE  old[WireSeq(p)] \in 1..(2 * Half) /\ WireSeq(old[WireSeq(p)]) = WireSeq(p)
      BY <1>1, <3>1, FitsIsFinite DEF Fits
    <3> QED
      BY <1>1, <3>1, WireApart
  <2> QED
    BY <2>1, <2>2
<1>3. Fits(cache, lo, top)
  <2>1. cache = [s \in DOMAIN cache |-> cache[s]]
    BY <1>2 DEF Emplace
  <2> QED
    BY <1>2, <2>1 DEF Fits
<1>4. Cardinality(DOMAIN cache) \in Nat /\ Cardinality(DOMAIN cache) <= max + 1
  <2>1. IsFiniteSet(DOMAIN old) /\ Cardinality(DOMAIN old) \in Nat
    BY <1>1, FitsIsFinite
  <2>2. Cardinality(DOMAIN old \cup {WireSeq(p)}) =
            IF WireSeq(p) \in DOMAIN old THEN Cardinality(DOMAIN old) ELSE Cardinality(DOMAIN old) + 1
    BY <2>1, FS_AddElement
  <2> QED
    BY <1>1, <1>2, <2>1, <2>2
<1> HIDE DEF cache
<1>5. Popped(after, srt, cache, lo, top)
  <2>1. srt.next = WireSeq(lo) /\ srt.max \in Nat
    BY <1>1
  <2> HIDE DEF srt
  <2> QED
    BY <1>1, <1>3, <2>1, PopEffect
<1> HIDE DEF after
<1>6. p \in {cache[s] : s \in DOMAIN cache} /\ {old[s] : s \in DOMAIN old} \subseteq {cache[s] : s \in DOMAIN cache}
  BY <1>2
<1>7. ASSUME after.sorter = [srt EXCEPT !.cache = cache], after.out = <<>>,
             WireSeq(lo) \notin DOMAIN cache, Cardinality(DOMAIN cache) <= srt.max
      PROVE  Sorted(after, old, p, last, top)
  <2>1. lo = last + 1
    BY <1>2, <1>7
  <2>2. after.sorter = [known |-> TRUE, next |-> WireSeq(lo), cache |-> cache, max |-> max]
    BY <1>7
  <2>3. SorterOK(after.sorter, last, top)
    BY <1>3, <1>7, <2>1, <2>2 DEF SorterOK
  <2>4. Cached(after.sorter) = {cache[s] : s \in DOMAIN cache}
    BY <2>2 DEF Cached
  <2>5. after.out \in Seq((last + 1)..last) /\ Len(after.out) = 0 /\ last \in last..top
    BY <1>7
  <2> QED
    <3> DEFINE kept == Cached(after.sorter) \cup ToSet(after.out)
    <3>1. p \in kept /\ {old[s] : s \in DOMAIN old} \subseteq kept
      BY <1>6, <2>4
    <3>2. \A i, j \in 1..Len(after.out) : i < j => after.out[i] < after.out[j]
      BY <2>5
    <3> QED
      BY <1>7, <2>3, <2>5, <3>1, <3>2 DEF Sorted
<1>8. ASSUME NEW first \in lo..top, NEW n \in 1..top, NEW rest,
             first + n - 1 <= top, Fits(rest, first + n, top),
             \A s \in DOMAIN cache : \/ s \in DOMAIN rest /\ rest[s] = cache[s]
                                     \/ cache[s] \in first..(first + n - 1),
             Cardinality(DOMAIN rest) < Cardinality(DOMAIN cache),
             after.sorter = [srt EXCEPT !.cache = rest, !.next = WireSeq(first + n), !.max = SetSortSize(rest)],
             after.out = [k \in 1..n |-> first + k - 1]
      PROVE  Sorted(after, old, p, last, top)
  <2> DEFINE latest == first + n - 1
  <2>1. /\ after.out \in Seq((last + 1)..latest) /\ Len(after.out) = n /\ after.out # <<>>
        /\ after.out[Len(after.out)] = latest /\ latest \in last..top
        /\ \A i, j \in 1..Len(after.out) : i < j => after.out[i] < after.out[j]
    <3>1. \A k \in 1..n : first + k - 1 \in (last + 1)..latest
      BY <1>1, HalfOfNumbers
    <3>2. DOMAIN after.out = 1..n /\ \A k \in 1..n : after.out[k] = first + k - 1
      BY <1>8
    <3>3. n \in Nat /\ n >= 1 /\ n \in 1..n /\ latest \in last..top /\ first + n - 1 = latest
      BY <1>1, <1>8, HalfOfNumbers
    <3>4. after.out \in Seq((last + 1)..latest) /\ Len(after.out) = n
      <4>1. after.out \in [1..n -> (last + 1)..latest]
        BY <1>8, <3>1
      <4> HIDE DEF latest
      <4> QED
        BY <3>3, <4>1
    <3>5. \A i, j \in 1..n : i < j => after.out[i] < after.out[j]
      BY <3>2, HalfOfNumbers
    <3> QED
      BY <3>2, <3>3, <3>4, <3>5
  <2>2. after.sorter = [known |-> TRUE, next |-> WireSeq(first + n), cache |-> rest, max |-> SetSortSize(rest)]
    BY <1>8
  <2>3. SorterOK(after.sorter, latest, top)
    <3>1. latest + 1 = first + n /\ first + n \in 1..Half
      BY <1>1, <1>8, HalfOfNumbers
    <3>2. Cardinality(DOMAIN rest) \in Nat /\ Cardinality(DOMAIN rest) <= KMax
      <4>1. Cardinality(DOMAIN rest) \in Nat
        BY <1>8, <3>1, FitsIsFinite
      <4> QED
        BY <1>1, <1>4, <1>8, <4>1
    <3>3. SetSortSize(rest) \in KMin..KMax /\ Cardinality(DOMAIN rest) <= SetSortSize(rest)
      BY <1>1, <3>2, SorterAssumption DEF SetSortSize
    <3> QED
      BY <1>8, <2>2, <3>1, <3>3 DEF SorterOK
  <2>4. {cache[s] : s \in DOMAIN cache} \subseteq Cached(after.sorter) \cup ToSet(after.out)
    <3> SUFFICES ASSUME NEW s \in DOMAIN cache
                 PROVE  cache[s] \in Cached(after.sorter) \cup ToSet(after.out)
      OBVIOUS
    <3>1. CASE s \in DOMAIN rest /\ rest[s] = cache[s]
      BY <2>2, <3>1 DEF Cached
    <3>2. CASE cache[s] \in first..latest
      <4>1. cache[s] - first + 1 \in 1..n /\ first + (cache[s] - first + 1) - 1 = cache[s]
        BY <1>1, <3>2, HalfOfNumbers
      <4>2. after.out[cache[s] - first + 1] = cache[s] /\ cache[s] - first + 1 \in DOMAIN after.out
        BY <1>8, <4>1
      <4> QED
        BY <4>2 DEF ToSet
    <3> QED
      BY <1>8, <3>1, <3>2
  <2> QED
    BY <1>6, <2>1, <2>3, <2>4 DEF Sorted
<1> QED
  BY <1>5, <1>7, <1>8 DEF after, cache, Popped

\* The two fields that are set when the number of a packet is seen first, whatever they held.
LEMMA SetEffect ==
    ASSUME NEW srt, srt = [known |-> srt.known, next |-> srt.next, cache |-> srt.cache, max |-> srt.max],
           NEW known, NEW next
    PROVE  [srt EXCEPT !.known = known, !.next = next]
               = [known |-> known, next |-> next, cache |-> srt.cache, max |-> srt.max]
<1> DEFINE seen == [srt EXCEPT !.known = known]
<1>1. seen = [known |-> known, next |-> srt.next, cache |-> srt.cache, max |-> srt.max]
  OBVIOUS
<1>2. seen.cache = srt.cache /\ seen.max = srt.max /\ seen.known = known /\ seen.next = srt.next
  BY <1>1
<1>3. [srt EXCEPT !.known = known, !.next = next] = [seen EXCEPT !.next = next]
  OBVIOUS
<1> HIDE DEF seen
<1>4. seen = [known |-> seen.known, next |-> seen.next, cache |-> seen.cache, max |-> seen.max]
  BY <1>1, <1>2
<1>5. [seen EXCEPT !.next = next] = [known |-> known, next |-> next, cache |-> srt.cache, max |-> srt.max]
  BY <1>1, <1>2, <1>4
<1> QED
  BY <1>3, <1>5

\* The first packet: the sorter waits for its number.
LEMMA FirstEffect ==
    ASSUME NEW srt, srt = [known |-> srt.known, next |-> srt.next, cache |-> srt.cache, max |-> srt.max], NEW next
    PROVE  [srt EXCEPT !.known = TRUE, !.next = next]
               = [known |-> TRUE, next |-> next, cache |-> srt.cache, max |-> srt.max]
<1>1. \A known : [srt EXCEPT !.known = known, !.next = next]
                     = [known |-> known, next |-> next, cache |-> srt.cache, max |-> srt.max]
  BY SetEffect
<1> QED
  BY <1>1, Zenon

\* SortPacket, whichever packet comes: the first one, a late one or one that is still to come.
LEMMA SortEffect ==
    ASSUME NEW top \in 0..(Half - 1), NEW last \in 0..top, SorterOK(sorter, last, top), NEW p \in 1..top
    PROVE  Sorted(SortPacket(p), sorter.cache, p, last, top)
<1>1. /\ sorter = [known |-> sorter.known, next |-> sorter.next, cache |-> sorter.cache, max |-> sorter.max]
      /\ sorter.known \in BOOLEAN /\ sorter.max \in KMin..KMax /\ Fits(sorter.cache, last + 1, top)
      /\ Cardinality(DOMAIN sorter.cache) <= sorter.max
  BY DEF SorterOK
<1>2. p \in 1..(Half - 1) /\ p \in 1..(2 * Half) /\ last + 1 \in 1..Half /\ last \in Nat
  BY HalfOfNumbers
<1>3. CASE ~sorter.known
  <2> DEFINE srt == [sorter EXCEPT !.known = TRUE, !.next = WireSeq(p)]
  <2>1. last = 0 /\ DOMAIN sorter.cache = {}
    BY <1>3 DEF SorterOK
  <2>2. srt = [known |-> TRUE, next |-> WireSeq(p), cache |-> sorter.cache, max |-> sorter.max]
    BY <1>1, FirstEffect
  <2>3. IsSeqValid(WireSeq(p), WireSeq(p))
    BY <1>2, WireForm, HalfOfNumbers DEF IsSeqValid
  <2>4. SortPacket(p) = TryPopPacket(srt, Emplace(srt.cache, p))
    <3>1. srt.next = WireSeq(p)
      BY <2>2
    <3> QED
      BY <1>3, <2>3, <3>1 DEF SortPacket
  <2>5. Fits(sorter.cache, p, top)
    BY <1>1, <2>1 DEF Fits
  <2>6. p \in (last + 1)..top /\ p \in p..top
    BY <1>2, <2>1
  <2> HIDE DEF srt
  <2>7. srt.cache = sorter.cache
    BY <2>2
  <2> QED
    BY <1>1, <2>2, <2>4, <2>5, <2>6, <2>7, PutEffect
<1>4. CASE sorter.known /\ p <= last
  <2>1. ~IsSeqValid(WireSeq(p), sorter.next)
    <3>1. sorter.next = WireSeq(last + 1) /\ ~(p >= last + 1)
      BY <1>2, <1>4 DEF SorterOK
    <3> QED
      BY <1>2, <3>1, ValidIsNewer
  <2> DEFINE after == SortPacket(p)
  <2>2. after = [sorter |-> sorter, out |-> <<>>]
    BY <1>4, <2>1 DEF SortPacket
  <2> HIDE DEF after
  <2>3. after.sorter = sorter /\ after.out = <<>> /\ Len(after.out) = 0 /\ after.out \in Seq((last + 1)..last)
        /\ last \in last..top
    BY <2>2
  <2> QED
    BY <1>4, <2>3 DEF Sorted, Cached, after
<1>5. CASE sorter.known /\ p > last
  <2>1. IsSeqValid(WireSeq(p), sorter.next) /\ sorter.next = WireSeq(last + 1)
    <3>1. sorter.next = WireSeq(last + 1) /\ p >= last + 1
      BY <1>2, <1>5 DEF SorterOK
    <3> QED
      BY <1>2, <3>1, ValidIsNewer
  <2>2. SortPacket(p) = TryPopPacket(sorter, Emplace(sorter.cache, p))
    BY <1>5, <2>1 DEF SortPacket
  <2>3. p \in (last + 1)..top /\ last + 1 \in (last + 1)..top
    BY <1>2, <1>5
  <2>4. sorter = [known |-> TRUE, next |-> WireSeq(last + 1), cache |-> sorter.cache, max |-> sorter.max]
    BY <1>1, <1>5, <2>1
  <2>5. Sorted(TryPopPacket(sorter, Emplace(sorter.cache, p)), sorter.cache, p, last, top)
    BY <1>1, <2>3, <2>4, PutEffect
  <2> QED
    BY <2>2, <2>5
<1> QED
  BY <1>1, <1>2, <1>3, <1>4, <1>5

-----------------------------------------------------------------------------
(* The order of the frames                                                 *)

\* A frame is in one place on its way to the network, and what is sent has a number.
CountInv ==
    /\ frames \in Nat /\ sent \in Nat /\ published \in 0..MaxFrames
    /\ frames + sent + (IF encoder.at = "writing" THEN 1 ELSE 0) <= published
    /\ encoder.at = "sending" => sent >= 1

\* The packets of a sequence come in order, after packet `before'.
Climbs(seq, before) == /\ \A i, j \in 1..Len(seq) : i < j => seq[i] < seq[j]
                       /\ \A i \in 1..Len(seq) : before < seq[i]

\* What was given comes before what the decoding thread holds, this before its queue, and the
\* queue before what the sorter still has.
OrderInv ==
    /\ net \subseteq 1..sent /\ reader \in 0..sent /\ newest \in 0..sent
    /\ SorterOK(sorter, newest, sent)
    /\ packets \in Seq(1..newest) /\ given \in 0..newest /\ decoder.hold \in 0..newest
    /\ Climbs(packets, given) /\ Climbs(packets, decoder.hold)
    /\ decoder.hold # NoPacket => given < decoder.hold
    /\ decoder.exit <=> consumer.at \in {"joining", "stopped"}

\* Every packet that the sender makes was a frame that the dispatcher published.
LEMMA CountStep ==
    ASSUME SenderInv, CountInv, Sending
    PROVE  CountInv' /\ sent' \in {sent, sent + 1} /\ sent' <= MaxFrames
<1>0. MaxFrames \in Nat /\ encoder \in EncoderType
  BY StreamAssumption DEF SenderInv
<1>1. CASE HandleMediaInit \/ PauseProducer \/ JoinFeed \/ ReleaseClient \/ JoinEncoder \/ DispatchEnds
  BY <1>0, <1>1 DEF CountInv, HandleMediaInit, PauseProducer, JoinFeed, ReleaseClient, JoinEncoder, DispatchEnds
<1>2. CASE (\E fail, rtcpFail \in ConnectFailures : StartProducer(fail, rtcpFail)) \/ StopProducer \/ ReleasePacker
  <2>1. UNCHANGED <<frames, sent, published>>
    BY <1>2 DEF StartProducer, StopProducer, ReleasePacker
  <2>2. encoder'.at \in {"writing", "sending"} => encoder'.at = encoder.at
    BY <1>0, <1>2 DEF StartProducer, StopProducer, ReleasePacker, EncoderType
  <2> QED
    BY <1>0, <2>1, <2>2 DEF CountInv
<1>3. CASE \E kind \in {"audio", "video"} : PublishOneFrame(kind)
  BY <1>0, <1>3 DEF CountInv, PublishOneFrame, InputFrame, EncoderType
<1>4. CASE ReadFrame \/ EncodingEnds \/ WritePacket \/ \E ok \in BOOLEAN : SendPacket(ok)
  BY <1>0, <1>4 DEF CountInv, ReadFrame, EncodingEnds, WritePacket, SendPacket, EncoderType
<1> QED
  BY <1>1, <1>2, <1>3, <1>4 DEF Sending, Producing, Encoding

\* A sorter that is in order stays so when the source makes one more packet.
LEMMA OrderGrows ==
    ASSUME NEW last \in Nat, NEW top \in Nat, NEW more \in Nat, top <= more, SorterOK(sorter, last, top)
    PROVE  SorterOK(sorter, last, more)
BY DEF SorterOK, Fits

\* The queue and what is put out form one climbing sequence.
LEMMA ClimbsOn ==
    ASSUME NEW last \in Nat, NEW latest \in Nat, last <= latest,
           NEW seq \in Seq(1..last), NEW out \in Seq((last + 1)..latest), NEW before \in 0..last,
           Climbs(seq, before), \A i, j \in 1..Len(out) : i < j => out[i] < out[j]
    PROVE  seq \o out \in Seq(1..latest) /\ Climbs(seq \o out, before)
<1> DEFINE both == seq \o out
<1>1. Len(both) = Len(seq) + Len(out) /\ Len(seq) \in Nat /\ Len(out) \in Nat
  OBVIOUS
<1>2. \A i \in 1..Len(both) : \/ i \in 1..Len(seq) /\ both[i] = seq[i]
                              \/ i - Len(seq) \in 1..Len(out) /\ both[i] = out[i - Len(seq)]
  OBVIOUS
<1>3. /\ \A i \in 1..Len(seq) : seq[i] \in 1..last /\ before < seq[i]
      /\ \A i \in 1..Len(out) : out[i] \in (last + 1)..latest
  BY DEF Climbs
<1>4. both \in Seq(1..latest)
  <2>1. seq \in Seq(1..latest) /\ out \in Seq(1..latest)
    OBVIOUS
  <2> QED
    BY <2>1
<1> HIDE DEF both
<1>5. ASSUME NEW i \in 1..Len(both), NEW j \in 1..Len(both), i < j
      PROVE  both[i] < both[j]
  <2>1. CASE j \in 1..Len(seq) /\ both[j] = seq[j]
    <3>1. i \in 1..Len(seq) /\ both[i] = seq[i]
      BY <1>1, <1>2, <1>5, <2>1
    <3> QED
      BY <1>5, <2>1, <3>1 DEF Climbs
  <2>2. CASE j - Len(seq) \in 1..Len(out) /\ both[j] = out[j - Len(seq)]
    <3>1. CASE i \in 1..Len(seq) /\ both[i] = seq[i]
      <4>1. both[i] \in 1..last
        BY <1>3, <3>1
      <4>2. both[j] \in (last + 1)..latest
        BY <1>3, <2>2
      <4> QED
        BY <4>1, <4>2
    <3>2. CASE i - Len(seq) \in 1..Len(out) /\ both[i] = out[i - Len(seq)]
      <4>1. i - Len(seq) < j - Len(seq)
        BY <1>1, <1>5
      <4> QED
        BY <2>2, <3>2, <4>1
    <3> QED
      BY <1>2, <3>1, <3>2
  <2> QED
    BY <1>2, <2>1, <2>2
<1>6. \A i \in 1..Len(both) : before < both[i]
  <2> SUFFICES ASSUME NEW i \in 1..Len(both)
               PROVE  before < both[i]
    OBVIOUS
  <2>1. CASE i \in 1..Len(seq) /\ both[i] = seq[i]
    BY <1>3, <2>1
  <2>2. CASE i - Len(seq) \in 1..Len(out) /\ both[i] = out[i - Len(seq)]
    <3>1. both[i] \in (last + 1)..latest
      BY <1>3, <2>2
    <3> QED
      BY <3>1
  <2> QED
    BY <1>2, <2>1, <2>2
<1> QED
  BY <1>4, <1>5, <1>6 DEF Climbs, both

\* ParseRtp, which is the only step that changes the order of anything.
LEMMA ParseKeepsOrder ==
    ASSUME ReceiverInv, CountInv, OrderInv, ParseRtp, UNCHANGED <<senderVars, netVars>>
    PROVE  /\ OrderInv'
           /\ reader \in Cached(sorter') \cup ToSet(packets') \/ reader <= newest
           /\ Cached(sorter) \subseteq Cached(sorter') \cup ToSet(packets')
<1> DEFINE after == SortPacket(reader)
           latest == IF after.out = <<>> THEN newest ELSE after.out[Len(after.out)]
<1>1. sent \in 0..(Half - 1) /\ newest \in 0..sent /\ reader \in 1..sent /\ SorterOK(sorter, newest, sent)
  BY StreamAssumption, HalfOfNumbers DEF CountInv, OrderInv, ParseRtp, NoPacket
<1>2. Sorted(after, sorter.cache, reader, newest, sent)
  BY <1>1, SortEffect
<1>3. ~decoder.exit
  BY DEF ReceiverInv, ParseRtp, OrderInv, ConsumerType, Closed
<1>4. /\ reader' = NoPacket /\ sorter' = after.sorter /\ newest' = latest /\ packets' = packets \o after.out
      /\ UNCHANGED <<consumer, given, sent, net>>
  BY <1>3 DEF ParseRtp, InputRtp, senderVars, netVars
<1>5. decoder'.hold = decoder.hold /\ decoder'.exit = decoder.exit
  BY DEF ParseRtp, InputRtp, ReceiverInv, DecoderType
<1> HIDE DEF after
<1>6. /\ after.out \in Seq((newest + 1)..latest) /\ latest \in newest..sent
      /\ \A i, j \in 1..Len(after.out) : i < j => after.out[i] < after.out[j]
      /\ SorterOK(after.sorter, latest, sent)
      /\ reader <= newest \/ reader \in Cached(after.sorter) \cup ToSet(after.out)
      /\ {sorter.cache[s] : s \in DOMAIN sorter.cache} \subseteq Cached(after.sorter) \cup ToSet(after.out)
  BY <1>2, Zenon DEF Sorted
<1> HIDE DEF latest
<1>7. ToSet(after.out) \subseteq ToSet(packets')
  <2>1. packets \in Seq(1..newest)
    BY DEF OrderInv
  <2>2. \A i \in 1..Len(after.out) : /\ Len(packets) + i \in DOMAIN (packets \o after.out)
                                     /\ (packets \o after.out)[Len(packets) + i] = after.out[i]
    BY <2>1, <1>6
  <2>3. DOMAIN after.out = 1..Len(after.out)
    BY <1>6
  <2> QED
    BY <1>4, <2>2, <2>3 DEF ToSet
<1>8. /\ packets' \in Seq(1..latest) /\ Climbs(packets', given) /\ Climbs(packets', decoder.hold)
  <2>1. /\ newest \in Nat /\ latest \in Nat /\ newest <= latest /\ packets \in Seq(1..newest)
        /\ given \in 0..newest /\ decoder.hold \in 0..newest
        /\ Climbs(packets, given) /\ Climbs(packets, decoder.hold)
    BY <1>1, <1>6 DEF OrderInv
  <2> QED
    BY <1>4, <1>6, <2>1, ClimbsOn
<1>9. OrderInv'
  <2>1. /\ net' \subseteq 1..sent' /\ reader' \in 0..sent' /\ newest' \in 0..sent' /\ SorterOK(sorter', newest', sent')
    BY <1>1, <1>4, <1>6 DEF OrderInv, NoPacket
  <2>2. given' \in 0..newest' /\ decoder'.hold \in 0..newest' /\ (decoder'.hold # NoPacket => given' < decoder'.hold)
    BY <1>1, <1>4, <1>5, <1>6 DEF OrderInv
  <2>3. decoder'.exit <=> consumer'.at \in {"joining", "stopped"}
    BY <1>4, <1>5 DEF OrderInv
  <2>4. packets' \in Seq(1..newest') /\ Climbs(packets', given') /\ Climbs(packets', decoder'.hold)
    BY <1>4, <1>5, <1>8
  <2> QED
    BY <2>1, <2>2, <2>3, <2>4 DEF OrderInv, SorterOK, Fits, Climbs
<1> QED
  BY <1>4, <1>6, <1>7, <1>9 DEF Cached

\* The other steps of the sink take from one end of the queue what they give on, or drop all.
LEMMA ReceiverKeepsOrder ==
    ASSUME ReceiverInv, CountInv, OrderInv, Decoding \/ Consuming, UNCHANGED <<senderVars, netVars>>
    PROVE  /\ OrderInv'
           /\ consumer'.at = "stopped" \/ UNCHANGED sorter
<1>0. /\ UNCHANGED <<sent, net>> /\ sent \in Nat
      /\ consumer \in ConsumerType /\ decoder \in DecoderType(decoder.hold)
  BY DEF senderVars, netVars, CountInv, ReceiverInv
<1>1. CASE TestQueue \/ WaitQueue \/ TakeFrame
  <2>1. /\ UNCHANGED <<consumer, reader, sorter, newest, packets, given>>
        /\ decoder'.hold = decoder.hold /\ decoder'.exit = decoder.exit
    BY <1>0, <1>1 DEF TestQueue, WaitQueue, TakeFrame, DecoderType
  <2> QED
    BY <1>0, <2>1 DEF OrderInv, SorterOK, Fits, Climbs
<1>2. CASE ReadPacket
  <2>1. /\ UNCHANGED <<consumer, reader, sorter, newest, given>>
        /\ decoder'.hold = Head(packets) /\ decoder'.exit = decoder.exit
        /\ packets # <<>> /\ packets' = Tail(packets)
    BY <1>0, <1>2 DEF ReadPacket, DecoderType
  <2>2. packets \in Seq(1..newest) /\ newest \in Nat
    BY DEF OrderInv, CountInv
  <2>3. /\ packets' \in Seq(1..newest) /\ Len(packets) \in Nat /\ Len(packets) >= 1 /\ Len(packets') = Len(packets) - 1
        /\ \A i \in 1..Len(packets') : packets'[i] = packets[i + 1]
        /\ decoder'.hold = packets[1] /\ packets[1] \in 1..newest
    BY <2>1, <2>2
  <2>4. Climbs(packets', given) /\ Climbs(packets', decoder'.hold) /\ given < decoder'.hold
    <3>1. /\ \A i, j \in 1..Len(packets) : i < j => packets[i] < packets[j]
          /\ \A i \in 1..Len(packets) : given < packets[i]
      BY DEF OrderInv, Climbs
    <3>2. \A i \in 1..Len(packets') : i + 1 \in 1..Len(packets) /\ 1 \in 1..Len(packets) /\ 1 < i + 1
      BY <2>3
    <3>3. \A i \in 1..Len(packets') : given < packets'[i] /\ decoder'.hold < packets'[i]
      BY <2>3, <3>1, <3>2
    <3>4. \A i, j \in 1..Len(packets') : i < j => packets'[i] < packets'[j]
      <4> SUFFICES ASSUME NEW i \in 1..Len(packets'), NEW j \in 1..Len(packets'), i < j
                   PROVE  packets'[i] < packets'[j]
        OBVIOUS
      <4>1. i + 1 < j + 1 /\ packets'[i] = packets[i + 1] /\ packets'[j] = packets[j + 1]
        BY <2>3
      <4> QED
        BY <3>1, <3>2, <4>1
    <3>5. given < decoder'.hold
      BY <2>3, <3>1
    <3> QED
      BY <3>3, <3>4, <3>5 DEF Climbs
  <2> QED
    BY <1>0, <2>1, <2>2, <2>3, <2>4 DEF OrderInv, SorterOK, Fits, Climbs
<1>3. CASE OnRtpUnpackCallback
  <2>1. /\ UNCHANGED <<consumer, reader, sorter, newest, packets>>
        /\ decoder'.hold = NoPacket /\ decoder'.exit = decoder.exit
        /\ given' \in {given, decoder.hold}
    BY <1>0, <1>3 DEF OnRtpUnpackCallback, DecoderType
  <2>2. packets \in Seq(1..newest) /\ newest \in Nat /\ Climbs(packets, given')
    BY <2>1 DEF OrderInv, CountInv
  <2>3. Climbs(packets', decoder'.hold)
    <3>1. \A i \in 1..Len(packets) : packets[i] \in 1..newest
      BY <2>2
    <3> QED
      BY <2>1, <2>2, <3>1 DEF Climbs, NoPacket
  <2> QED
    BY <1>0, <2>1, <2>2, <2>3 DEF OrderInv, SorterOK, Fits, Climbs, NoPacket
<1>4. CASE InitConsumer \/ (\E fail \in BindFailures : StartConsumer(fail)) \/ PauseConsumer \/ StopConsumer
           \/ StopServer \/ DropOnFrame
  <2>1. /\ UNCHANGED <<reader, sorter, newest, packets, given>>
        /\ decoder'.hold = decoder.hold /\ decoder'.exit = decoder.exit
    BY <1>0, <1>4 DEF InitConsumer, StartConsumer, PauseConsumer, StopConsumer, StopServer, DropOnFrame, DecoderType
  <2>2. consumer.at \notin {"joining", "stopped"} /\ consumer'.at \notin {"joining", "stopped"}
    BY <1>0, <1>4 DEF InitConsumer, StartConsumer, PauseConsumer, StopConsumer, StopServer, DropOnFrame, ConsumerType
  <2> QED
    BY <1>0, <2>1, <2>2 DEF OrderInv, SorterOK, Fits, Climbs
<1>5. CASE SetExit
  <2>1. /\ UNCHANGED <<reader, sorter, newest, packets, given>>
        /\ decoder'.hold = decoder.hold /\ decoder'.exit = TRUE /\ consumer'.at = "joining"
    BY <1>0, <1>5 DEF SetExit, DecoderType, ConsumerType
  <2> QED
    BY <1>0, <2>1 DEF OrderInv, SorterOK, Fits, Climbs
<1>6. CASE JoinDecoder
  <2>1. /\ UNCHANGED <<reader, newest, given, decoder>> /\ packets' = <<>>
        /\ sorter' = [sorter EXCEPT !.cache = Empty] /\ consumer.at = "joining" /\ consumer'.at = "stopped"
    BY <1>0, <1>6 DEF JoinDecoder, ConsumerType
  <2>2. /\ sorter'.known = sorter.known /\ sorter'.next = sorter.next /\ sorter'.cache = Empty
        /\ sorter'.max = sorter.max
        /\ sorter' = [known |-> sorter'.known, next |-> sorter'.next, cache |-> sorter'.cache, max |-> sorter'.max]
    <3>1. sorter = [known |-> sorter.known, next |-> sorter.next, cache |-> sorter.cache, max |-> sorter.max]
      BY DEF OrderInv, SorterOK
    <3> QED
      BY <2>1, <3>1
  <2>3. DOMAIN Empty = {} /\ Empty = [s \in DOMAIN Empty |-> Empty[s]] /\ Cardinality(DOMAIN Empty) = 0
    BY FS_EmptySet DEF Empty
  <2>4. SorterOK(sorter', newest, sent)
    BY <2>2, <2>3, SorterAssumption DEF OrderInv, SorterOK, Fits
  <2>5. packets' \in Seq(1..newest) /\ Climbs(packets', given) /\ Climbs(packets', decoder.hold)
    BY <2>1 DEF Climbs
  <2> QED
    BY <1>0, <2>1, <2>4, <2>5 DEF OrderInv, SorterOK, Fits, Climbs
<1> QED
  <2>1. UNCHANGED sorter \/ consumer'.at = "stopped"
    BY <1>0 DEF Decoding, TestQueue, WaitQueue, ReadPacket, TakeFrame, OnRtpUnpackCallback, Consuming, InitConsumer,
                StartConsumer, PauseConsumer, StopConsumer, StopServer, DropOnFrame, SetExit, JoinDecoder, ConsumerType
  <2> QED
    BY <1>1, <1>2, <1>3, <1>4, <1>5, <1>6, <2>1 DEF Decoding, Consuming

\* A step of the source or of the network leaves the order alone.
LEMMA SourceKeepsOrder ==
    ASSUME SenderInv, ReceiverInv, CountInv, OrderInv, Produces \/ Encodes \/ Receives
    PROVE  OrderInv' /\ UNCHANGED <<sorter, newest, packets>>
<1>1. CASE Produces \/ Encodes
  <2>1. UNCHANGED receiverVars /\ sent' \in Nat /\ sent \in Nat /\ sent <= sent'
    <3>1. Sending /\ UNCHANGED receiverVars
      BY <1>1 DEF Produces, Encodes, Sending
    <3>2. sent' \in {sent, sent + 1} /\ sent \in Nat
      BY <3>1, CountStep DEF CountInv
    <3> QED
      BY <3>1, <3>2
  <2>2. net' \subseteq 1..sent'
    <3>1. CASE UNCHANGED net
      BY <2>1, <3>1 DEF OrderInv
    <3>2. CASE \E ok \in BOOLEAN : SendPacket(ok) /\ net' = IF ok THEN net \cup {sent} ELSE net
      <4>1. sent \in 1..sent'
        BY <2>1, <3>2 DEF SendPacket, CountInv
      <4>2. net \subseteq 1..sent'
        BY <2>1 DEF OrderInv
      <4> QED
        BY <3>2, <4>1, <4>2
    <3> QED
      BY <1>1, <3>1, <3>2 DEF Produces, Encodes, netVars
  <2>3. SorterOK(sorter, newest, sent')
    BY <2>1, OrderGrows DEF OrderInv
  <2> QED
    BY <2>1, <2>2, <2>3 DEF receiverVars, OrderInv, SorterOK, Fits, Climbs
<1>2. CASE Receives
  <2>1. PICK p \in net : \E fail \in PeerFailures : OnServerReadable(p, fail)
    BY <1>2 DEF Receives
  <2>2. /\ UNCHANGED <<sorter, newest, packets, decoder, given, sent>> /\ net' \subseteq net
        /\ reader' \in {p, NoPacket} /\ consumer'.at = consumer.at
    BY <1>2, <2>1 DEF Receives, OnServerReadable, senderVars, ReceiverInv, ConsumerType
  <2>3. p \in 1..sent /\ sent \in Nat
    BY DEF OrderInv, CountInv
  <2> QED
    BY <2>2, <2>3 DEF OrderInv, SorterOK, Fits, Climbs, NoPacket
<1> QED
  BY <1>1, <1>2

\* The source begins with no frame and the sink with an empty queue.
LEMMA InitOrder == Init => CountInv /\ OrderInv
<1> SUFFICES ASSUME Init
             PROVE  CountInv /\ OrderInv
  OBVIOUS
<1>1. CountInv
  BY StreamAssumption DEF Init, InitSender, CountInv
<1>2. DOMAIN Empty = {} /\ Empty = [s \in DOMAIN Empty |-> Empty[s]] /\ Cardinality(DOMAIN Empty) = 0
  BY FS_EmptySet DEF Empty
<1>3. SorterOK(sorter, 0, 0)
  <2>1. sorter = [known |-> FALSE, next |-> 0, cache |-> Empty, max |-> KMin]
    BY DEF Init, InitReceiver
  <2> QED
    BY <1>2, <2>1, SorterAssumption DEF SorterOK, Fits
<1>4. sent = 0 /\ net = {} /\ reader = 0 /\ newest = 0 /\ packets = <<>> /\ given = 0
      /\ decoder.hold = 0 /\ decoder.exit = FALSE /\ consumer.at = "new"
  BY DEF Init, InitSender, InitReceiver, NoPacket
<1>5. OrderInv
  <2>1. packets \in Seq(1..newest) /\ Climbs(packets, given) /\ Climbs(packets, decoder.hold)
    BY <1>4 DEF Climbs
  <2> QED
    BY <1>3, <1>4, <2>1 DEF OrderInv, NoPacket
<1> QED
  BY <1>1, <1>5

\* Every step of the cast keeps the order and the count.
LEMMA OrderStep == StreamInv /\ CountInv /\ OrderInv /\ [Next]_vars => CountInv' /\ OrderInv'
<1> SUFFICES ASSUME StreamInv, CountInv, OrderInv, [Next]_vars
             PROVE  CountInv' /\ OrderInv'
  OBVIOUS
<1>1. UNCHANGED senderVars => CountInv'
  BY DEF CountInv, senderVars
<1>2. CASE UNCHANGED vars
  <2>1. UNCHANGED <<senderVars, receiverVars, netVars>>
    BY <1>2 DEF vars
  <2> QED
    BY <1>1, <2>1 DEF senderVars, receiverVars, netVars, OrderInv, SorterOK, Fits, Climbs
<1>3. CASE Produces \/ Encodes
  <2>1. Sending
    BY <1>3 DEF Produces, Encodes, Sending
  <2> QED
    BY <1>3, <2>1, CountStep, SourceKeepsOrder DEF StreamInv
<1>4. CASE Receives
  BY <1>1, <1>4, SourceKeepsOrder DEF StreamInv, Receives
<1>5. CASE Parses
  BY <1>1, <1>5, ParseKeepsOrder DEF StreamInv, Parses
<1>6. CASE (Consuming /\ UNCHANGED <<senderVars, netVars>>) \/ Decodes
  BY <1>1, <1>6, ReceiverKeepsOrder DEF StreamInv, Decodes
<1> QED
  BY <1>2, <1>3, <1>4, <1>5, <1>6 DEF Next

\* The order holds throughout a cast.
LEMMA OrderCorrect == Spec => [](StreamInv /\ CountInv /\ OrderInv)
<1>1. Init => StreamInv /\ CountInv /\ OrderInv
  BY InitInv, InitOrder
<1>2. StreamInv /\ CountInv /\ OrderInv /\ [Next]_vars => (StreamInv /\ CountInv /\ OrderInv)'
  BY StreamStep, OrderStep
<1> QED
  BY <1>1, <1>2, PTL DEF Spec

\* Whatever the network loses, repeats and reorders, and wherever the 16 bits wrap: RtpPacketSortor
\* and the decoder's queue give the frames in the order of the source and each at most once.
THEOREM FramesInOrder == Spec => []SortedOnce
<1>1. ASSUME CountInv, OrderInv
      PROVE  SortedOnce
  <2> DEFINE behind == <<given, decoder.hold>> \o packets
  <2>1. /\ packets \in Seq(1..newest) /\ newest \in Nat /\ given \in Nat /\ decoder.hold \in Nat
        /\ Climbs(packets, given) /\ Climbs(packets, decoder.hold)
        /\ decoder.hold # NoPacket => given < decoder.hold
    BY <1>1 DEF OrderInv, CountInv
  <2>2. /\ Len(packets) \in Nat /\ DOMAIN behind = 1..(Len(packets) + 2)
        /\ behind[1] = given /\ behind[2] = decoder.hold
        /\ \A i \in 3..(Len(packets) + 2) : behind[i] = packets[i - 2]
    BY <2>1
  <2> HIDE DEF behind
  <2>3. ASSUME NEW i \in DOMAIN behind, NEW j \in DOMAIN behind, i < j, behind[j] # NoPacket
        PROVE  behind[i] < behind[j]
    <3>1. CASE j = 2
      BY <2>1, <2>2, <2>3, <3>1
    <3>2. CASE j # 2
      <4>1. j \in 3..(Len(packets) + 2) /\ j - 2 \in 1..Len(packets)
        BY <2>2, <2>3, <3>2
      <4>2. i = 1 \/ i = 2 \/ (i - 2 \in 1..Len(packets) /\ i - 2 < j - 2 /\ i \in 3..(Len(packets) + 2))
        BY <2>2, <2>3, <4>1
      <4> QED
        BY <2>1, <2>2, <4>1, <4>2 DEF Climbs
    <3> QED
      BY <3>1, <3>2
  <2>4. \A s \in DOMAIN sorter.cache : sorter.cache[s] > newest
    <3>1. newest \in Nat /\ sent \in Nat /\ \A s \in DOMAIN sorter.cache : sorter.cache[s] \in (newest + 1)..sent
      BY <1>1 DEF OrderInv, CountInv, SorterOK, Fits
    <3> QED
      BY <3>1
  <2> QED
    BY <2>3, <2>4 DEF SortedOnce, behind
<1> QED
  BY <1>1, OrderCorrect, PTL

\* SortPacket drops a packet only when a later one was put out, TryPopPacket gives up a gap when
\* the cache is over full, and what it holds leaves it for the decoder or when Release drops it.
THEOREM OnlyLateIsDropped == Spec => OnlyLateDropped
<1> DEFINE Kept == Cached(sorter') \cup ToSet(packets')
<1>1. ASSUME StreamInv, CountInv, OrderInv, Next
      PROVE  /\ consumer.at = consumer'.at /\ reader # NoPacket /\ reader' = NoPacket
                   => reader \in Kept \/ reader <= newest
             /\ Cached(sorter) \subseteq Kept \/ consumer'.at = "stopped"
  <2>1. CASE Produces \/ Encodes \/ Receives
    <3>1. UNCHANGED <<sorter, newest, packets>>
      BY <1>1, <2>1, SourceKeepsOrder DEF StreamInv
    <3>2. reader # NoPacket => reader' # NoPacket
      BY <2>1 DEF Produces, Encodes, Receives, OnServerReadable, receiverVars
    <3> QED
      BY <3>1, <3>2 DEF Cached
  <2>2. CASE Parses
    BY <1>1, <2>2, ParseKeepsOrder DEF StreamInv, Parses
  <2>3. CASE (Consuming /\ UNCHANGED <<senderVars, netVars>>) \/ Decodes
    <3>1. consumer'.at = "stopped" \/ UNCHANGED sorter
      BY <1>1, <2>3, ReceiverKeepsOrder DEF StreamInv, Decodes
    <3>2. UNCHANGED reader
      BY <2>3 DEF Decodes, Decoding, TestQueue, WaitQueue, ReadPacket, TakeFrame, OnRtpUnpackCallback, Consuming,
                  InitConsumer, StartConsumer, PauseConsumer, StopConsumer, StopServer, DropOnFrame, SetExit, JoinDecoder
    <3> QED
      BY <3>1, <3>2 DEF Cached
  <2> QED
    BY <1>1, <2>1, <2>2, <2>3 DEF Next
<1>2. CountInv /\ OrderInv => Cardinality(DOMAIN sorter.cache) <= KMax
  <2> SUFFICES ASSUME CountInv, OrderInv
               PROVE  Cardinality(DOMAIN sorter.cache) <= KMax
    OBVIOUS
  <2>1. sent \in 0..(Half - 1) /\ newest + 1 \in 1..Half /\ Fits(sorter.cache, newest + 1, sent)
    <3>1. sent \in 0..(Half - 1) /\ newest \in 0..sent
      BY StreamAssumption, HalfOfNumbers DEF CountInv, OrderInv
    <3>2. Fits(sorter.cache, newest + 1, sent)
      BY DEF OrderInv, SorterOK
    <3> QED
      BY <3>1, <3>2, HalfOfNumbers
  <2>2. Cardinality(DOMAIN sorter.cache) \in 0..sent
    BY <2>1, FitsIsFinite
  <2>3. sorter.max \in KMin..KMax /\ Cardinality(DOMAIN sorter.cache) <= sorter.max
    BY DEF OrderInv, SorterOK
  <2> QED
    BY <2>1, <2>2, <2>3, SorterAssumption
<1>3. StreamInv /\ CountInv /\ OrderInv /\ (Cardinality(DOMAIN sorter.cache) <= KMax)' /\ [Next]_vars
      => [/\ consumer.at = consumer'.at /\ reader # NoPacket /\ reader' = NoPacket
                => reader \in Cached(sorter') \cup ToSet(packets') \/ reader <= newest
          /\ Cached(sorter) \subseteq Cached(sorter') \cup ToSet(packets') \/ consumer'.at = "stopped"
          /\ Cardinality(DOMAIN sorter'.cache) <= KMax]_vars
  BY <1>1
<1> QED
  BY <1>2, <1>3, OrderCorrect, PTL DEF Spec, OnlyLateDropped
===================================================================================
