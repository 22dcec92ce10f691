------------------------------- MODULE RtpReceiver -------------------------------
(***************************************************************************)
(* The receiving half of a cast: the UDP server's thread, RtpUnpackImpl    *)
(* with its sorter (RtpPacketSortor), RtpDecoderTs with its decoding       *)
(* thread, and WfdRtpConsumer, which is started and stopped by the         *)
(* channel's worker.                                                       *)
(*                                                                         *)
(* A packet is its number; on the wire it has WireSeq of it, a number of     *)
(* few bits.  The sorter knows only that.                                  *)
(***************************************************************************)
EXTENDS Integers, Sequences, FiniteSets, FiniteSetsExt, UdpSockets

CONSTANTS Modulus,   \* 2^16 in the code
          FirstSeq, \* sequence number of the first packet
          KMin,     \* kMin_, the least number of packets that are cached
          KMax      \* kMax_

ASSUME SorterAssumption == /\ Modulus \in Nat \ {0, 1} /\ FirstSeq \in 0..(Modulus - 1)
                           /\ KMin \in Nat /\ KMax \in Nat /\ KMin <= KMax

VARIABLES consumer,    \* [at, running, paused, server, peer] of WfdRtpConsumer
          reader,      \* the packet that the server's thread is parsing, or NoPacket
          sorter,      \* [known, next, cache, max] of RtpPacketSortor
          newest,      \* the last packet that the sorter put out
          packets,     \* dataQueue_ of the decoder
          decoder,     \* [at, hold, onFrame, exit]: the decoding thread
          given        \* the last packet whose frames reached the buffer dispatcher

receiverVars == <<consumer, reader, sorter, newest, packets, decoder, given>>
NoPacket == 0

\* std::map from sequence numbers to packets.
Empty == [s \in {} |-> NoPacket]

InitReceiver ==
    /\ consumer = [at |-> "new", running |-> FALSE, paused |-> FALSE,
                   server |-> Closed, peer |-> Closed]
    /\ reader = NoPacket
    /\ sorter = [known |-> FALSE, next |-> 0, cache |-> Empty, max |-> KMin]
    /\ newest = NoPacket
    /\ packets = <<>>
    /\ decoder = [at |-> "none", hold |-> NoPacket, onFrame |-> TRUE, exit |-> FALSE]
    /\ given = NoPacket

-----------------------------------------------------------------------------
(* RtpPacketSortor *)

\* RtpMaker::MakeRtp counts up a uint16_t.
WireSeq(p) == (FirstSeq + p - 1) % Modulus
Half == (Modulus - 1) \div 2

\* Variants with a fault: any number is taken; the wrap is not seen.
GreedyIsSeqValid(seq, next) == TRUE
PlainIsSeqValid(seq, next) == seq >= next

IsSeqValid(seq, next) == IF seq < next THEN next - seq >= Half ELSE seq - next <= Half

Emplace(cache, p) == [s \in DOMAIN cache \cup {WireSeq(p)} |-> IF s \in DOMAIN cache THEN cache[s] ELSE p]

\* The sequence numbers from `next' on that are all cached.
RunLength(next, cache) ==
    Max({n \in 0..Cardinality(DOMAIN cache) : \A k \in 0..(n - 1) : (next + k) % Modulus \in DOMAIN cache})

\* Where TryPopPacket begins: at the packet that is waited for or, when the cache is over
\* full, at the first one after it.  -1: it waits.
PopFrom(next, cache, max) ==
    LET later == {s \in DOMAIN cache : s >= next}
    IN  IF next \in DOMAIN cache THEN next
        ELSE IF Cardinality(DOMAIN cache) <= max THEN -1
        ELSE Min(IF later # {} THEN later ELSE DOMAIN cache)

SetSortSize(cache) == IF KMin + Cardinality(DOMAIN cache) > KMax THEN KMax ELSE KMin + Cardinality(DOMAIN cache)

\* The sorter after packet p, and the packets it puts out.  The first packet sets the SSRC,
\* which does not change within a cast.
TryPopPacket(srt, cache) ==
    LET from == PopFrom(srt.next, cache, srt.max)
        n == IF from = -1 THEN 0 ELSE RunLength(from, cache)
        popped == {(from + k) % Modulus : k \in 0..(n - 1)}
        rest == [s \in DOMAIN cache \ popped |-> cache[s]]
    IN  IF from = -1 THEN [sorter |-> [srt EXCEPT !.cache = cache], out |-> <<>>]
        ELSE [sorter |-> [srt EXCEPT !.cache = rest, !.next = (from + n) % Modulus, !.max = SetSortSize(rest)],
              out |-> [k \in 1..n |-> cache[(from + k - 1) % Modulus]]]

SortPacket(p) ==
    LET srt == IF sorter.known THEN sorter ELSE [sorter EXCEPT !.known = TRUE, !.next = WireSeq(p)]
    IN  IF IsSeqValid(WireSeq(p), srt.next) THEN TryPopPacket(srt, Emplace(srt.cache, p))
        ELSE [sorter |-> srt, out |-> <<>>]

-----------------------------------------------------------------------------
(* The thread of the UDP server *)

UnpackerAlive == consumer.at \in {"init", "started", "stopping", "closed"}

\* OnServerReadable holds mutex_ of the server for as long as it reads and parses;
\* OnServerReadData looks for the unpacker and isRunning_.
OnServerReadable(p, fail) ==
    LET session == FindOrCreateSession(consumer.peer, fail)
    IN  /\ consumer.server.heard /\ reader = NoPacket
        /\ consumer' = [consumer EXCEPT !.peer = session]
        /\ reader' = IF session.fd /\ consumer.running /\ UnpackerAlive THEN p ELSE NoPacket
        /\ UNCHANGED <<sorter, newest, packets, decoder, given>>

\* Variant with a fault: the decoding thread is not notified.
SilentInputRtp(out) ==
    /\ decoder.at # "gap" \/ out = <<>>
    /\ packets' = IF decoder.exit THEN packets ELSE packets \o out
    /\ decoder' = IF decoder.at = "none" /\ out # <<>> THEN [decoder EXCEPT !.at = "read"] ELSE decoder

\* RtpDecoderTs::InputRtp for the packets that were put out.  It takes queueMutex_, which the
\* decoding thread holds from the test of its predicate until it waits.
InputRtp(out) ==
    /\ decoder.at # "gap" \/ out = <<>>
    /\ packets' = IF decoder.exit THEN packets ELSE packets \o out
    /\ decoder' = IF out # <<>> /\ ~decoder.exit /\ decoder.at \in {"none", "waiting"}
                  THEN [decoder EXCEPT !.at = "read"] ELSE decoder

ParseRtp ==
    /\ reader # NoPacket
    /\ reader' = NoPacket
    /\ sorter' = SortPacket(reader).sorter
    /\ LET out == SortPacket(reader).out
       IN  /\ newest' = IF out = <<>> THEN newest ELSE out[Len(out)]
           /\ InputRtp(out)
    /\ UNCHANGED <<consumer, given>>

-----------------------------------------------------------------------------
(* The decoding thread *)

\* ReadPacket with an empty queue: the predicate is false, then the thread waits.
TestQueue ==
    /\ decoder.at = "read" /\ packets = <<>>
    /\ decoder' = [decoder EXCEPT !.at = IF decoder.exit THEN "left" ELSE "gap"]
    /\ UNCHANGED <<consumer, reader, sorter, newest, packets, given>>
WaitQueue ==
    /\ decoder.at = "gap"
    /\ decoder' = [decoder EXCEPT !.at = "waiting"]
    /\ UNCHANGED <<consumer, reader, sorter, newest, packets, given>>
ReadPacket ==
    /\ decoder.at = "read" /\ packets # <<>>
    /\ decoder' = [decoder EXCEPT !.at = "demuxed", !.hold = Head(packets)]
    /\ packets' = Tail(packets)
    /\ UNCHANGED <<consumer, reader, sorter, newest, given>>

\* A frame of the packet: onFrame_ is tested and called under frameLock.
TakeFrame ==
    /\ decoder.at = "demuxed"
    /\ decoder' = [decoder EXCEPT !.at = IF decoder.exit THEN "left" ELSE IF decoder.onFrame THEN "giving" ELSE "read"]
    /\ UNCHANGED <<consumer, reader, sorter, newest, packets, given>>

\* OnRtpUnpackCallback: what is paused is dropped.
OnRtpUnpackCallback ==
    /\ decoder.at = "giving"
    /\ given' = IF consumer.paused THEN given ELSE decoder.hold
    /\ decoder' = [decoder EXCEPT !.at = "read", !.hold = NoPacket]
    /\ UNCHANGED <<consumer, reader, sorter, newest, packets>>

-----------------------------------------------------------------------------
(* Operations of the channel *)

InitConsumer ==
    /\ consumer.at = "new"
    /\ consumer' = [consumer EXCEPT !.at = "init"]
    /\ UNCHANGED <<reader, sorter, newest, packets, decoder, given>>

\* A server that did not start is destroyed, and so stopped.
StartNetworkServer(fail) ==
    LET server == CreateUdpServer(fail) IN IF server.heard THEN server ELSE UdpServerStop(server)

StartConsumer(fail) ==
    LET server == StartNetworkServer(fail)
    IN  /\ consumer.at = "init"
        /\ consumer' = [consumer EXCEPT !.server = server, !.running = server.heard,
                                        !.at = IF server.heard THEN "started" ELSE @]
        /\ UNCHANGED <<reader, sorter, newest, packets, decoder, given>>

PauseConsumer ==
    /\ consumer.at = "started"
    /\ consumer' = [consumer EXCEPT !.paused = ~@]
    /\ UNCHANGED <<reader, sorter, newest, packets, decoder, given>>

\* Stop; a consumer that was never started goes the same way.
StopConsumer ==
    /\ consumer.at \in {"init", "started"}
    /\ consumer' = [consumer EXCEPT !.at = "stopping", !.running = FALSE]
    /\ UNCHANGED <<reader, sorter, newest, packets, decoder, given>>

\* Variant with a fault: the server is closed while its thread still reads.
HastyStopServer ==
    /\ consumer.at = "stopping"
    /\ consumer' = [consumer EXCEPT !.at = "closed", !.server = UdpServerStop(@), !.peer = SessionShutdown(@)]
    /\ UNCHANGED <<reader, sorter, newest, packets, decoder, given>>

\* UdpServer::Stop takes mutex_ exclusively.
StopServer ==
    /\ consumer.at = "stopping" /\ reader = NoPacket
    /\ consumer' = [consumer EXCEPT !.at = "closed", !.server = UdpServerStop(@), !.peer = SessionShutdown(@)]
    /\ UNCHANGED <<reader, sorter, newest, packets, decoder, given>>

\* Variant with a fault: onFrame_ is kept, so that the last frame is given after all.
KeepOnFrame ==
    /\ consumer.at = "closed"
    /\ consumer' = [consumer EXCEPT !.at = "unhooked"]
    /\ UNCHANGED <<reader, sorter, newest, packets, decoder, given>>

\* RtpUnpackImpl::Release destroys the decoder: onFrame_ goes under frameLock ...
DropOnFrame ==
    /\ consumer.at = "closed" /\ decoder.at # "giving"
    /\ consumer' = [consumer EXCEPT !.at = "unhooked"]
    /\ decoder' = [decoder EXCEPT !.onFrame = FALSE]
    /\ UNCHANGED <<reader, sorter, newest, packets, given>>

\* ... exit_ is set and notified without queueMutex_, so that a thread in the gap misses it ...
SetExit ==
    /\ consumer.at = "unhooked"
    /\ consumer' = [consumer EXCEPT !.at = "joining"]
    /\ decoder' = [decoder EXCEPT !.exit = TRUE, !.at = IF @ = "waiting" THEN "read" ELSE @]
    /\ UNCHANGED <<reader, sorter, newest, packets, given>>

\* ... and the thread is joined; the sorter is dropped with what it still holds.
JoinDecoder ==
    /\ consumer.at = "joining" /\ decoder.at \in {"none", "left"}
    /\ consumer' = [consumer EXCEPT !.at = "stopped"]
    /\ packets' = <<>>
    /\ sorter' = [sorter EXCEPT !.cache = Empty]
    /\ UNCHANGED <<reader, newest, decoder, given>>

-----------------------------------------------------------------------------
Decoding == TestQueue \/ WaitQueue \/ ReadPacket \/ TakeFrame \/ OnRtpUnpackCallback

Consuming == InitConsumer \/ (\E fail \in BindFailures : StartConsumer(fail)) \/ PauseConsumer
             \/ StopConsumer \/ StopServer
             \/ DropOnFrame \/ SetExit \/ JoinDecoder
=============================================================================
