-------------------------------- MODULE RtpStream --------------------------------
(***************************************************************************)
(* A cast's media: RtpSender, RtpReceiver and a network that loses,        *)
(* repeats and reorders packets, within bounds that keep the numbers of    *)
(* the wire unambiguous.                                                   *)
(***************************************************************************)
EXTENDS RtpSender, RtpReceiver, SequencesExt

CONSTANT MaxRepeated \* bound on the packets that come twice

\* Within MaxFrames packets a number of the wire is not used again.
ASSUME StreamAssumption == MaxFrames \in Nat /\ MaxFrames < Half /\ MaxRepeated \in Nat

VARIABLES net,      \* packets that were sent and may come
          repeated  \* packets repeated so far (bounded by MaxRepeated)

netVars == <<net, repeated>>
vars == <<senderVars, receiverVars, netVars>>

Init == InitSender /\ InitReceiver /\ net = {} /\ repeated = 0

Encodes == /\ \/ Encoding /\ UNCHANGED net
              \/ \E ok \in BOOLEAN : SendPacket(ok) /\ net' = IF ok THEN net \cup {sent} ELSE net
           /\ UNCHANGED <<receiverVars, repeated>>

\* Any packet may come next, and one that never does is lost.
Receives == \E p \in net :
    /\ \E fail \in PeerFailures : OnServerReadable(p, fail)
    /\ \/ net' = net \ {p} /\ UNCHANGED repeated
       \/ repeated < MaxRepeated /\ repeated' = repeated + 1 /\ UNCHANGED net
    /\ UNCHANGED senderVars

\* What is sent before the server of the sink is open is lost like other packets: the source
\* begins after it.
Produces == Producing /\ consumer.at \notin {"new", "init"} /\ UNCHANGED <<receiverVars, netVars>>
Parses == ParseRtp /\ UNCHANGED <<senderVars, netVars>>
Decodes == Decoding /\ UNCHANGED <<senderVars, netVars>>
Next == /\ ~Crashed
        /\ \/ Produces
           \/ Consuming /\ UNCHANGED <<senderVars, netVars>>
           \/ Encodes \/ Receives \/ Parses \/ Decodes

Spec == Init /\ [][Next]_vars

-----------------------------------------------------------------------------
(* Properties *)

\* What the sink still has to show is in the order of the source and without repetition,
\* from the frame it gave last to the newest packet, although the numbers of the wire wrap.
SortedOnce ==
    LET behind == <<given, decoder.hold>> \o packets
    IN  /\ \A i, j \in DOMAIN behind : i < j /\ behind[j] # NoPacket => behind[i] < behind[j]
        /\ \A s \in DOMAIN sorter.cache : sorter.cache[s] > newest

Cached(srt) == {srt.cache[s] : s \in DOMAIN srt.cache}

\* A packet that arrives is cached or put out unless a later one was put out already; one that
\* is cached stays until it is put out or the consumer is stopped.  A gap is given up, not
\* waited for: the cache is never over full.
OnlyLateDropped ==
    [][/\ consumer.at = consumer'.at /\ reader # NoPacket /\ reader' = NoPacket
          => reader \in Cached(sorter') \cup ToSet(packets') \/ reader <= newest
       /\ Cached(sorter) \subseteq Cached(sorter') \cup ToSet(packets') \/ consumer'.at = "stopped"
       /\ Cardinality(DOMAIN sorter'.cache) <= KMax]_vars

\* The thread of the server never parses with an unpacker that Stop has begun to release, and
\* whatever failed on the way, a socket of a stopped end is neither open nor listened to.
ParsesAlive ==
    /\ reader # NoPacket => UnpackerAlive /\ decoder.onFrame /\ consumer.server.heard
    /\ consumer.at \in {"closed", "unhooked", "joining", "stopped"} => {consumer.server, consumer.peer} = {Closed}
    /\ producer.at \in {"stopping", "stopped", "releasing", "joining", "gone"} => {producer.rtp, producer.rtcp} = {Closed}

\* A stopped consumer gives no frame to the dispatcher, and a released producer makes no packet.
StoppedIsQuiet ==
    [][/\ consumer.at \in {"unhooked", "joining", "stopped"} => given' = given
       /\ producer.at \in {"joining", "gone"} => sent' = sent /\ encoder'.at # "sending"]_vars

\* The decoding thread does not sleep while there are packets to decode: a notification of
\* the server's thread never falls between its test of the queue and its wait.
NoLostWakeup == decoder.at \in {"gap", "waiting"} => packets = <<>>
=============================================================================
