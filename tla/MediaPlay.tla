-------------------------------- MODULE MediaPlay --------------------------------
(***************************************************************************)
(* Playing on the sink: MediaController with one VideoPlayController and   *)
(* one VideoSinkDecoder per surface, and the thread that each of them      *)
(* runs between the buffer dispatcher and the codec.                       *)
(*                                                                         *)
(* `lock' is playVideoMutex_.  RequestRead is abstracted to its flag (see  *)
(* module BufferDispatcher), the codec to the input buffers it lends.       *)
(*                                                                         *)
(* AudioSink::Prepare calls SetParameters with audioRenderMutex_ held, and *)
(* SetParameters locks it again: where a renderer can be created, a start   *)
(* of audio never returns, so nothing beyond it is modelled.                *)
(***************************************************************************)
EXTENDS ChannelJobs

CONSTANTS Surfaces,
          MaxInputs,  \* input buffers of a codec
          Tracks,     \* the tracks that the sessions agreed on: "audio", "video"
          Renderer    \* AudioRenderer::Create gives a renderer

ASSUME PlayAssumption == /\ MaxInputs \in Nat \ {0}
                         /\ Tracks \subseteq {"audio", "video"}
                         /\ Renderer \in BOOLEAN

VARIABLES player,  \* playController_: made, ready (Init was called), playing (isPlaying_)
          video,   \* the VideoPlayController of each surface
          lock     \* who holds playVideoMutex_

playVars == <<player, video, lock>>

\* listed: in videoPlayerMap_; running: isVideoRunning_; flag:
\* nonBlockVideo_ of the receiver; died: the media service has died; inputs: the size of
\* inQueue_, -1 after a pop too many.
NoVideo == [listed |-> FALSE, running |-> FALSE, attached |-> FALSE, thread |-> "off", flag |-> FALSE,
            codec |-> "none", died |-> FALSE, inputs |-> 0]

InitPlay == /\ player = [made |-> TRUE, ready |-> FALSE, playing |-> FALSE]
            /\ video = [s \in Surfaces |-> NoVideo]
            /\ lock = Nobody

Listed == {s \in Surfaces : video[s].listed}
HasAudio == player.ready /\ "audio" \in Tracks
AudioHeld == \E w \in Workers : At(w, "hung")   \* playAudioMutex_ and audioPlayerMutex_

-----------------------------------------------------------------------------
(* VideoPlayController and VideoSinkDecoder                                  *)

\* Init: a codec that was created and configured.
DecoderInit(v) == [v EXCEPT !.codec = "init"]
\* SetSurface of the decoder is refused while it runs.
DecoderSetSurface(v) == IF v.codec = "started" THEN v ELSE [v EXCEPT !.codec = "set"]
\* SetSurface is refused while the player runs, or before Init.
SetSurface(v) == IF v.running \/ v.codec = "none" THEN v ELSE DecoderSetSurface(v)

\* Start: nothing is asked of a decoder that counts as running; a codec whose service has died
\* does not start.
DecoderCanStart(v) == v.codec = "started" \/ (v.codec = "set" /\ ~v.died)
DecoderStarted(v) == [v EXCEPT !.codec = "started"]
\* StopDecoder fails when the service has died: the decoder goes on counting as running, and
\* inQueue_ is not emptied.
DecoderStopped(v) == IF v.died THEN v ELSE [v EXCEPT !.codec = "set", !.inputs = 0]
ThreadStarted(v) == [v EXCEPT !.thread = IF @ = "off" THEN "loop" ELSE @]

\* Start, when the decoder starts: the receiver is attached, the thread is created.
Started(v) ==
    IF v.running THEN v
    ELSE ThreadStarted([DecoderStarted(v) EXCEPT !.running = TRUE, !.attached = TRUE])

\* Variant with a fault: the thread is not told.
SilentStopped(v) ==
    IF ~v.running THEN [v EXCEPT !.attached = FALSE]
    ELSE [DecoderStopped(v) EXCEPT !.attached = FALSE, !.running = FALSE]

\* Stop up to the join: the receiver is detached, the decoder stopped and its queue emptied,
\* then the thread is told (NotifyReadStop).
Stopped(v) ==
    IF ~v.running THEN [v EXCEPT !.attached = FALSE]
    ELSE [DecoderStopped(v) EXCEPT !.attached = FALSE, !.running = FALSE, !.flag = TRUE]

\* StopVideoThread can return.
Joinable(v) == v.thread \in {"off", "left"}
Joined(v) == [v EXCEPT !.thread = "off"]

-----------------------------------------------------------------------------
(* MediaController                                                           *)

\* Start: nothing to do before Init or without surfaces.
StartMedia(w) ==
    /\ At(w, "start")
    /\ IF ~player.made \/ (~HasAudio /\ Listed = {}) THEN Finish(w) ELSE Goto(w, "startAudio")
    /\ UNCHANGED playVars

\* AudioPlayController::Start, AudioPlayer::Start, AudioSink::Prepare: it fails, or hangs.
StartAudio(w) ==
    /\ At(w, "startAudio") /\ ~AudioHeld
    /\ Goto(w, IF HasAudio /\ Renderer THEN "hung" ELSE "startVideo")
    /\ UNCHANGED playVars

\* The size of the map is read without the lock.
StartVideo(w) ==
    /\ At(w, "startVideo")
    /\ \/ Listed = {} /\ UNCHANGED playVars
       \/ /\ Listed # {} /\ lock = Nobody
          /\ \E good \in SUBSET {s \in Listed : DecoderCanStart(video[s])} :
                /\ video' = [s \in Surfaces |-> IF s \in good THEN Started(video[s]) ELSE video[s]]
                /\ player' = [player EXCEPT !.playing = @ \/ \E s \in Listed : s \in good \/ video[s].running]
          /\ UNCHANGED lock
    /\ Finish(w)

\* The surface is in use, no video was agreed on, the codec refuses, or it is there; it is
\* started at once while the others play.
AppendSurface(w, s) ==
    /\ At(w, "append") /\ job[w].arg = s /\ lock = Nobody
    /\ \/ UNCHANGED <<player, video>>
       \/ /\ player.made /\ player.ready /\ "video" \in Tracks /\ ~video[s].listed
          /\ \E starts \in BOOLEAN :
                LET new == SetSurface(DecoderInit([NoVideo EXCEPT !.listed = TRUE]))
                IN  video' = [video EXCEPT ![s] = IF player.playing /\ starts THEN Started(new) ELSE new]
          /\ UNCHANGED player
    /\ UNCHANGED lock
    /\ Finish(w)

\* Variant with a fault: the controller is erased while its thread runs.
HastyRemoveSurface(w, s) ==
    /\ At(w, "remove") /\ job[w].arg = s /\ lock = Nobody
    /\ video' = [video EXCEPT ![s] = [Stopped(@) EXCEPT !.listed = FALSE]]
    /\ UNCHANGED <<player, lock>>
    /\ Finish(w)

\* RemoveSurface waits for the thread with the lock held.
RemoveSurface(w, s) ==
    /\ At(w, "remove") /\ job[w].arg = s /\ lock = Nobody
    /\ IF player.made /\ video[s].listed
       THEN /\ video' = [video EXCEPT ![s] = Stopped(@)]
            /\ lock' = w
            /\ Goto(w, "removing")
       ELSE UNCHANGED <<video, lock>> /\ Finish(w)
    /\ UNCHANGED player
Removed(w, s) ==
    /\ At(w, "removing") /\ job[w].arg = s /\ Joinable(video[s])
    /\ video' = [video EXCEPT ![s] = NoVideo]
    /\ lock' = Nobody
    /\ Finish(w)
    /\ UNCHANGED player

\* Stop: audio first, then every surface under the lock, and isPlaying_ when it is released.
StopAudio(w) ==
    /\ At(w, "stop") /\ ~AudioHeld
    /\ Goto(w, IF player.made THEN "stopVideo" ELSE "stopped")
    /\ UNCHANGED playVars
StopVideo(w) ==
    /\ At(w, "stopVideo") /\ lock = Nobody
    /\ lock' = w
    /\ job' = [job EXCEPT ![w].at = "stopping", ![w].left = IF player.playing THEN Listed ELSE {}]
    /\ UNCHANGED <<player, video>>
StopOne(w, s) ==
    /\ At(w, "stopping") /\ s \in job[w].left /\ video[s].attached
    /\ video' = [video EXCEPT ![s] = Stopped(@)]
    /\ UNCHANGED <<player, lock, job>>
JoinOne(w, s) ==
    /\ At(w, "stopping") /\ s \in job[w].left /\ ~video[s].attached /\ Joinable(video[s])
    /\ video' = [video EXCEPT ![s] = Joined(@)]
    /\ job' = [job EXCEPT ![w].left = @ \ {s}]
    /\ UNCHANGED <<player, lock>>
StopUnlocks(w) ==
    /\ At(w, "stopping") /\ job[w].left = {}
    /\ lock' = Nobody
    /\ Goto(w, "unplay")
    /\ UNCHANGED <<player, video>>
Unplay(w) ==
    /\ At(w, "unplay")
    /\ player' = [player EXCEPT !.playing = FALSE]
    /\ Goto(w, "stopped")
    /\ UNCHANGED <<video, lock>>

\* SetKeyMode, SetKeyRedirect: the mode of what is read next, set under the lock.
SetKeyMode(w) ==
    /\ At(w, "key") /\ lock = Nobody
    /\ Finish(w)
    /\ UNCHANGED playVars

\* SetVolume waits for the mutexes of the audio controller.
SetVolume(w) ==
    /\ At(w, "volume") /\ ~AudioHeld
    /\ Finish(w)
    /\ UNCHANGED playVars

-----------------------------------------------------------------------------
(* VideoPlayThread and the codec                                             *)

\* while (isVideoRunning_).
Loop(s) ==
    /\ video[s].thread = "loop"
    /\ video' = [video EXCEPT ![s].thread = IF video[s].running THEN "reading" ELSE "left"]
    /\ UNCHANGED <<player, lock, job>>

\* RequestRead returns once its flag is set, with or without a frame.
ReadFrame(s) ==
    /\ video[s].thread = "reading" /\ video[s].flag
    /\ \E step \in {"loop", "waiting"} :
          video' = [video EXCEPT ![s].flag = FALSE, ![s].thread = step]
    /\ UNCHANGED <<player, lock, job>>

\* ProcessVideoData waits for an input buffer, in turns that end when the play is stopped.
TakeInput(s) ==
    /\ video[s].thread = "waiting"
    /\ video[s].running => video[s].inputs # 0
    /\ video' = [video EXCEPT ![s].thread = IF video[s].running THEN "queueing" ELSE "loop"]
    /\ UNCHANGED <<player, lock, job>>

\* DecodeVideoData looks at the front of the queue and pops it in two locked sections: Stop
\* may have emptied the queue in between.  A codec whose service has died takes nothing.
QueueInput(s) ==
    /\ video[s].thread = "queueing"
    /\ \/ video' = [video EXCEPT ![s].thread = "loop"]
       \/ /\ ~video[s].died
          /\ video' = [video EXCEPT ![s].thread = "loop", ![s].inputs = IF @ >= 0 THEN @ - 1 ELSE @]
    /\ UNCHANGED <<player, lock, job>>

\* The dispatcher has a frame for the receiver.
NotifyFrame(s) ==
    /\ video[s].attached /\ ~video[s].flag
    /\ video' = [video EXCEPT ![s].flag = TRUE]
    /\ UNCHANGED <<player, lock, job>>

OnInputBufferAvailable(s) ==
    /\ video[s].codec = "started" /\ ~video[s].died /\ video[s].inputs \in 0..(MaxInputs - 1)
    /\ video' = [video EXCEPT ![s].inputs = @ + 1]
    /\ UNCHANGED <<player, lock, job>>

\* AVCS_ERR_SERVICE_DIED; the decoder is only reported, not stopped.
OnError(s) ==
    /\ video[s].codec # "none" /\ ~video[s].died
    /\ video' = [video EXCEPT ![s].died = TRUE]
    /\ UNCHANGED <<player, lock, job>>

\* ~VideoPlayController.
Released(v) == [v EXCEPT !.codec = "none", !.listed = FALSE]
\* ~MediaController, with the controllers that it still has.
ReleasePlayers ==
    /\ video' = [s \in Surfaces |-> Released(video[s])]
    /\ player' = [player EXCEPT !.made = FALSE]
    /\ UNCHANGED lock

PlayStep(w) ==
    \/ StartMedia(w) \/ StartAudio(w) \/ StartVideo(w)
    \/ \E s \in Surfaces : AppendSurface(w, s) \/ RemoveSurface(w, s) \/ Removed(w, s)
                           \/ StopOne(w, s) \/ JoinOne(w, s)
    \/ StopAudio(w) \/ StopVideo(w) \/ StopUnlocks(w) \/ Unplay(w)
    \/ SetKeyMode(w) \/ SetVolume(w)
PlayThread(s) == Loop(s) \/ ReadFrame(s) \/ TakeInput(s) \/ QueueInput(s)
PlayEnvironment == \E s \in Surfaces : NotifyFrame(s) \/ OnInputBufferAvailable(s)
=============================================================================
