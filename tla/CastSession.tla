----------------------------- MODULE CastSession -----------------------------
(***************************************************************************)
(* What the two agents of a cast see of their sessions: a consumer is      *)
(* created on the sink, a producer on the source, the source is told that  *)
(* it plays and then the sink is.  Nothing happens twice.  A stop may come *)
(* at any time and is told once; it does not take back what was told.      *)
(* WfdRtsp implements it.                                                  *)
(***************************************************************************)
EXTENDS Naturals

VARIABLES consumers,    \* requests for a consumer that the sink's agent got
          producers,    \* requests for a producer that the source's agent got
          sourcePlays,  \* the source's agent was told RTSP_PLAYED
          sinkPlays,    \* the sink plays
          stopped       \* the sink's agent was told that the session is stopped

vars == <<consumers, producers, sourcePlays, sinkPlays, stopped>>

Init == consumers = 0 /\ producers = 0 /\ ~sourcePlays /\ ~sinkPlays /\ ~stopped

CreateConsumer ==
    /\ consumers = 0 /\ consumers' = 1
    /\ UNCHANGED <<producers, sourcePlays, sinkPlays, stopped>>

\* The source asks for a producer once the sink has accepted the parameters.
CreateProducer ==
    /\ consumers = 1 /\ producers = 0 /\ producers' = 1
    /\ UNCHANGED <<consumers, sourcePlays, sinkPlays, stopped>>

\* Media may flow once both ends exist.
SourcePlays ==
    /\ consumers = 1 /\ producers = 1 /\ ~sourcePlays /\ sourcePlays'
    /\ UNCHANGED <<consumers, producers, sinkPlays, stopped>>

SinkPlays ==
    /\ sourcePlays /\ ~sinkPlays /\ sinkPlays'
    /\ UNCHANGED <<consumers, producers, sourcePlays, stopped>>

Stop ==
    /\ ~stopped /\ stopped'
    /\ UNCHANGED <<consumers, producers, sourcePlays, sinkPlays>>

Next == CreateConsumer \/ CreateProducer \/ SourcePlays \/ SinkPlays \/ Stop

Spec == Init /\ [][Next]_vars
=============================================================================
