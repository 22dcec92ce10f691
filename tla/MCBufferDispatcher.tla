-------------------------- MODULE MCBufferDispatcher --------------------------
(* Small instances of BufferDispatcher: a receiver is named for what it reads. *)
EXTENDS BufferDispatcher

\* "video" and "audio" are the play controllers, "av" is the producer that reads both.
NamedKinds == [r \in Receivers |-> r]
==============================================================================
