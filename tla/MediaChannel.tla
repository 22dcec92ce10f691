------------------------------ MODULE MediaChannel ------------------------------
(***************************************************************************)
(* A media channel from its creation to its end (media_channel.cpp,        *)
(* channel_manager.cpp) with what it owns: on the sink a consumer and the  *)
(* play controller (module MediaPlay), on the source the screen capture    *)
(* (module ScreenCapture) and the producers of the casts.                  *)
(*                                                                         *)
(* The SINK agent sends one request at a time and waits for the answer     *)
(* (module Agent), except that a DESTROY interrupts what is under way;     *)
(* producers belong to SRC agents of their own.  A handler that neither    *)
(* waits nor gives up a lock is one action.                                *)
(***************************************************************************)
EXTENDS MediaPlay, ScreenCapture

CONSTANTS Producers,
          MaxRequests, \* bound on the requests to append, remove and play
          MaxExtras,   \* bound on requests that the agent does not hold back, and on codecs that die
          MaxPlayed,   \* how often the source session reports PLAYED
          Late         \* STOP may come while an interrupted request is under way

ASSUME ChannelAssumption == /\ {MaxRequests, MaxExtras, MaxPlayed} \subseteq Nat
                            /\ Late \in BOOLEAN

VARIABLES role,  \* "sink" or "source"
          chan,  \* the channel: phase of its consumer, registered in mediaChannels_ or not
          prods, \* producers_
          asked  \* requests so far (bounded)

vars == <<role, chan, prods, asked, job, player, video, lock, session, capture, screens, encoder, mic, sets>>

Init == /\ role \in {"sink", "source"}
        /\ chan = [phase |-> "new", running |-> FALSE, registered |-> TRUE]
        /\ prods = [p \in Producers |-> "none"]
        /\ asked = [requests |-> 0, extras |-> 0, played |-> 0]
        /\ job = [w \in Workers |-> NoJob]
        /\ InitPlay
        /\ InitCaptureState

Serial == {"APPEND", "REMOVE", "PLAY", "STOP", "DESTROY"}
UnderWay == {w \in Workers : job[w].op \in Serial}
Phase(p) == chan' = [chan EXCEPT !.phase = p]

\* The agent passes a step on to the channel when the capture's session agrees; the sink's
\* session is that of module WfdSinkSession.
SessionIs(answer) == role = "source" => session = answer

\* The agent takes the session through start, stop and destruction.
SessionStep ==
    /\ role = "source"
    /\ \/ /\ \/ session = "new" /\ UpdateOperation("START")
             \/ session = "STARTED" /\ chan.phase = "started" /\ UpdateOperation("STOP")
             \/ session = "STOPED" /\ chan.phase = "stopped" /\ UpdateOperation("DESTROY")
          /\ UNCHANGED DeviceVars
       \/ chan.phase = "created" /\ (UpdateMediaStatus \/ HandleProsumerInit \/ HandleProsumerInitState)
    /\ UNCHANGED <<role, chan, prods, asked, job, playVars>>

-----------------------------------------------------------------------------
(* The consumer                                                              *)

\* The channel becomes the listener of the consumer and of the dispatcher.
CreateConsumer == Phase("created")

HandleCreateConsumer ==
    /\ chan.phase = "new" /\ SessionIs("P_CREATE")
    /\ CreateConsumer
    /\ UNCHANGED <<role, prods, asked, job, playVars, captureVars>>

\* START_SUCCESS initialises the play controller; one that has nothing to play, or no decoder
\* for it, is dropped.  A capture has no tracks yet.
InitPlayController(good) ==
    player' = [player EXCEPT !.made = good, !.ready = good]

HandleStartConsumer ==
    /\ chan.phase = "created" /\ SessionIs("STARTED")
    /\ \/ /\ chan' = [chan EXCEPT !.phase = "started", !.running = (role = "sink")]
          /\ \E good \in BOOLEAN : /\ good => role = "sink" /\ Tracks # {}
                                   /\ InitPlayController(good)
       \/ role = "sink" /\ Phase("started") /\ UNCHANGED player
    /\ UNCHANGED <<role, prods, asked, job, video, lock, captureVars>>

\* HandlePauseConsumer, HandleResumeConsumer of a capture.
HandlePauseConsumer ==
    /\ chan.phase = "started" /\ role = "source"
    /\ capture' = [capture EXCEPT !.paused = ~@]
    /\ UNCHANGED <<role, chan, prods, asked, job, playVars, session, screens, encoder, mic, sets>>

\* HandleStopConsumer: the player first, then the consumer.
HandleStopConsumer(w) ==
    /\ Idle(w) /\ chan.phase = "started" /\ SessionIs("STOPED")
    /\ UnderWay = {} \/ Late
    /\ Phase("stopping")
    /\ job' = [job EXCEPT ![w] = NewJob("STOP", "none", "stop")]
    /\ UNCHANGED <<role, prods, asked, playVars, captureVars>>
StopConsumer(w) ==
    /\ At(w, "stopped")
    /\ IF role = "source" THEN Goto(w, "end") /\ UNCHANGED chan
       ELSE Finish(w) /\ chan' = [chan EXCEPT !.phase = "stopped", !.running = FALSE]
    /\ UNCHANGED <<role, prods, asked, playVars, captureVars>>

\* HandleDestroyConsumer.  One that runs is refused with an error, which the agent answers
\* with the destruction of the channel.
HandleDestroyConsumer(w) ==
    /\ Idle(w) /\ chan.phase = "stopped" /\ SessionIs("DESTROYED")
    /\ IF role = "source" /\ ~capture.running
       THEN Phase("destroying") /\ job' = [job EXCEPT ![w] = NewJob("DESTROY", "none", "end")]
       ELSE Phase("destroyed") /\ UNCHANGED job
    /\ UNCHANGED <<role, prods, asked, playVars, captureVars>>

\* StopCapture has returned to its caller.
CaptureStopped(w) ==
    /\ At(w, "ended")
    /\ Phase(CASE job[w].op = "STOP" -> "stopped" [] job[w].op = "DESTROY" -> "destroyed"
               [] job[w].op = "DELETE" -> "gone")
    /\ Finish(w)
    /\ UNCHANGED <<role, prods, asked, playVars, captureVars>>

-----------------------------------------------------------------------------
(* Requests for the player and for the capture                               *)

FirstStep(op) == CASE op = "APPEND" -> "append" [] op = "REMOVE" -> "remove" [] op = "PLAY" -> "start"

\* HandleAppendSurface, HandleRemoveSurface.
HandleRequest(w, op, s) ==
    /\ Idle(w) /\ role = "sink" /\ chan.phase = "started" /\ UnderWay = {}
    /\ asked.requests < MaxRequests
    /\ asked' = [asked EXCEPT !.requests = @ + 1]
    /\ job' = [job EXCEPT ![w] = NewJob(op, s, FirstStep(op))]
    /\ UNCHANGED <<role, chan, prods, playVars, captureVars>>

HandleStartPlay(w) == HandleRequest(w, "PLAY", "none")

\* HandleSetSceneType, HandleSetKeyRedirect, HandleSetVolume.
HandleExtra(w, step) ==
    /\ Idle(w) /\ role = "sink" /\ chan.phase \in {"started", "stopping", "stopped"}
    /\ asked.extras < MaxExtras
    /\ asked' = [asked EXCEPT !.extras = @ + 1]
    /\ job' = [job EXCEPT ![w] = NewJob("EXTRA", "none", step)]
    /\ UNCHANGED <<role, chan, prods, playVars, captureVars>>

\* The default case of HandleEvent passes PLAYED on to the consumer.
HandlePlayed(w) ==
    /\ Idle(w) /\ role = "source" /\ chan.registered /\ chan.phase # "new"
    /\ asked.played < MaxPlayed
    /\ asked' = [asked EXCEPT !.played = @ + 1]
    /\ job' = [job EXCEPT ![w] = NewJob("PLAYED", "none", "played")]
    /\ UNCHANGED <<role, chan, prods, playVars, captureVars>>

-----------------------------------------------------------------------------
(* Producers, each under the lock of the channel                             *)

Produce(p, from, to) ==
    /\ role = "source" /\ chan.registered /\ prods[p] \in from
    /\ prods' = [prods EXCEPT ![p] = to]
    /\ UNCHANGED <<role, chan, asked, job, playVars, captureVars>>

CreateProducer(p) == Produce(p, {"none"}, "idle")
HandleCreateProducer(p) == chan.phase \notin {"new", "created"} /\ CreateProducer(p)
HandleStartProducer(p) == Produce(p, {"idle"}, "running")
HandleStopProducer(p) == Produce(p, {"idle", "running"}, "stopped")
\* The lock is free again when the producer is released, and taken once more to erase it.
HandleDestroyProducer(p) == Produce(p, {"stopped"}, "leaving")
OnProducerDestroyed(p) == Produce(p, {"leaving"}, "gone")

\* The agent is told of a decoder that died.
OnMediaControllerNotify(s) ==
    /\ OnError(s)
    /\ asked.extras < MaxExtras
    /\ asked' = [asked EXCEPT !.extras = @ + 1]
    /\ UNCHANGED <<role, chan, prods, captureVars>>

-----------------------------------------------------------------------------
(* The end of the channel                                                    *)

\* HandleMediaChannelDestroy, once the context has no SRC agent left that shares it.
HandleMediaChannelDestroy ==
    /\ chan.phase = "destroyed" /\ chan.registered
    /\ \A p \in Producers : prods[p] \in {"none", "gone"}
    /\ chan' = [chan EXCEPT !.registered = FALSE]
    /\ UNCHANGED <<role, prods, asked, job, playVars, captureVars>>

\* Variant with a fault: the destructor of the consumer leaves the capture alone.
CarelessDestructor(w) ==
    /\ ~chan.registered /\ chan.phase = "destroyed" /\ AllIdle
    /\ Phase("gone")
    /\ UNCHANGED <<role, prods, asked, job, playVars, captureVars>>

\* The last handler has let go of the channel: the destructors of the consumer and of the
\* play controller.  A thread that still runs ends the process (std::terminate).
Destructor(w) ==
    /\ ~chan.registered /\ chan.phase = "destroyed" /\ AllIdle
    /\ CASE role = "source" -> /\ job' = [job EXCEPT ![w] = NewJob("DELETE", "none", "end")]
                               /\ UNCHANGED <<chan, playVars>>
         [] role = "sink" /\ (\E s \in Surfaces : video[s].thread # "off") ->
                               Phase("terminated") /\ UNCHANGED <<job, playVars>>
         [] OTHER           -> Phase("gone") /\ ReleasePlayers /\ UNCHANGED job
    /\ UNCHANGED <<role, prods, asked, captureVars>>

-----------------------------------------------------------------------------
ChannelUnchanged == UNCHANGED <<role, chan, prods, asked>>

Worker(w) == \/ PlayStep(w) /\ ChannelUnchanged /\ UNCHANGED captureVars
             \/ CaptureStep(w) /\ ChannelUnchanged /\ UNCHANGED playVars
             \/ StopConsumer(w) \/ CaptureStopped(w)
PlayThreadStep(s) == PlayThread(s) /\ ChannelUnchanged /\ UNCHANGED captureVars
AudioCaptureStep == AudioCapture /\ ChannelUnchanged /\ UNCHANGED playVars

Environment ==
    \/ \E s \in Surfaces : OnMediaControllerNotify(s)
    \/ PlayEnvironment /\ ChannelUnchanged /\ UNCHANGED captureVars
    \/ \E units \in SUBSET {"sps", "pps", "slice"} : OnOutputBufferAvailable(units) /\ ChannelUnchanged /\ UNCHANGED playVars

Agents ==
    \/ SessionStep \/ HandleCreateConsumer \/ HandleStartConsumer \/ HandlePauseConsumer
    \/ \E w \in Workers : HandleStopConsumer(w) \/ HandleDestroyConsumer(w) \/ HandlePlayed(w) \/ Destructor(w)
    \/ \E w \in Workers, s \in Surfaces :
          \E op \in {"APPEND", "REMOVE"} : HandleRequest(w, op, s)
    \/ \E w \in Workers : \/ HandleStartPlay(w)
                          \/ \E step \in {"key", "volume"} : HandleExtra(w, step)
    \/ \E p \in Producers : \/ HandleCreateProducer(p) \/ HandleStartProducer(p) \/ HandleStopProducer(p)
                            \/ HandleDestroyProducer(p) \/ OnProducerDestroyed(p)
    \/ HandleMediaChannelDestroy

Next == \/ Agents \/ Environment \/ AudioCaptureStep
        \/ \E w \in Workers : Worker(w)
        \/ \E s \in Surfaces : PlayThreadStep(s)

\* Workers and threads go on; a blocking read of the audio capturer returns.
Spec == /\ Init /\ [][Next]_vars
        /\ \A w \in Workers : WF_vars(Worker(w))
        /\ \A s \in Surfaces : WF_vars(PlayThreadStep(s))
        /\ WF_vars(AudioCaptureStep)

-----------------------------------------------------------------------------
TypeOK == /\ chan.phase \in {"new", "created", "started", "stopping", "stopped", "destroying",
                             "destroyed", "gone", "terminated"}
          /\ lock \in Workers \cup {Nobody} /\ capture.holder \in Workers \cup {Nobody}
          /\ screens \in Nat
          /\ \A s \in Surfaces : video[s].inputs \in -1..MaxInputs

\* Whatever appends, removes, starts and stops surfaces at the same time: a play thread runs,
\* and a receiver is attached to the dispatcher, only for a controller that videoPlayerMap_
\* holds, so that somebody can still stop it.
NoOrphanPlayer ==
    \A s \in Surfaces : video[s].thread # "off" \/ video[s].attached \/ video[s].running => video[s].listed

\* PLAYED may come before, between and after STOP and DESTROY of the capture; when the channel
\* is gone its virtual screen is destroyed, its encoder does not run and its thread is joined.
CaptureEnds == role = "source" /\ chan.phase = "gone" => /\ screens = 0 /\ encoder # "started"
                                                         /\ mic.thread = "off"

\* Every handler returns: nobody waits for ever for playVideoMutex_, for the capture's lock,
\* or for a thread that is joined with one of them held.
HandlersReturn == \A w \in Workers : job[w].op # "none" ~> job[w].op = "none"
=============================================================================
