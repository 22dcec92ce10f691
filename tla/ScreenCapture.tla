------------------------------ MODULE ScreenCapture ------------------------------
(***************************************************************************)
(* Capturing on the source: ScreenCaptureSession, ScreenCaptureConsumer    *)
(* with the video encoder, the virtual screen (VideoSourceScreen) and the  *)
(* audio capturer with its thread.                                         *)
(*                                                                         *)
(* The session of the cast says that RTSP plays (EVENT_WFD_NOTIFY_RTSP_    *)
(* PLAYED) on a worker of its own; capture starts there, in two locked      *)
(* sections, while another worker may stop or destroy the consumer.        *)
(* The scene asks for video; the screen manager destroys what it is asked  *)
(* to destroy.                                                             *)
(***************************************************************************)
EXTENDS ChannelJobs

VARIABLES session,  \* what the ScreenCaptureSession last asked of or told its agent
          capture,  \* the consumer: isInit_, isRunning_, paused_, and who holds mutex_
          screens,  \* virtual screens that exist
          encoder,  \* the video encoder: "none", "ready", "started", "stopped"
          mic,      \* the audio capturer: isAudioCapturing_ and its thread
          sets      \* which of the parameter sets "sps" and "pps" the dispatcher has

captureVars == <<session, capture, screens, encoder, mic, sets>>

InitCaptureState ==
    /\ session = "new"
    /\ capture = [init |-> FALSE, running |-> FALSE, paused |-> FALSE, screen |-> FALSE, holder |-> Nobody]
    /\ screens = 0
    /\ encoder = "none"
    /\ mic = [on |-> FALSE, thread |-> "off"]
    /\ sets = {}

DeviceVars == <<capture, screens, encoder, mic, sets>>

-----------------------------------------------------------------------------
(* The session, which agrees with the agent on every step of the consumer    *)

\* SESSION_START asks for a consumer; a pause is passed on as it comes.
UpdateOperation(op) ==
    session' = CASE op = "START" -> "P_CREATE" [] op = "STOP" -> "STOPED" [] op = "DESTROY" -> "DESTROYED"

\* STATE_PROSUMER_CREATE_SUCCESS: NotifyProsumerInit.
UpdateMediaStatus ==
    /\ session = "P_CREATE" /\ session' = "INIT"
    /\ UNCHANGED DeviceVars

\* EVENT_SCREEN_CAPTURE_INIT at the consumer, which always answers ERR_OK.
HandleProsumerInit ==
    /\ session = "INIT" /\ session' = "INITED"
    /\ UNCHANGED DeviceVars

\* EVENT_AGENT_STATE_PROSUMER_INIT at the session.
HandleProsumerInitState ==
    /\ session = "INITED" /\ session' = "STARTED"
    /\ UNCHANGED DeviceVars

-----------------------------------------------------------------------------
Free == capture.holder = Nobody

-----------------------------------------------------------------------------
(* EVENT_WFD_NOTIFY_RTSP_PLAYED                                              *)

\* HandleProsumerPlay asks isInit_ without the lock.
HandleProsumerPlay(w) ==
    /\ At(w, "played")
    /\ IF capture.init THEN Finish(w) ELSE Goto(w, "init")
    /\ UNCHANGED captureVars

\* InitEncoder; an encoder of an earlier attempt is replaced.
InitEncoder == encoder' \in {"none", "ready"}
\* InitScreenSource: the screen manager creates a virtual screen.
InitScreenSource ==
    /\ capture' = [capture EXCEPT !.init = TRUE, !.screen = TRUE]
    /\ screens' = screens + 1

\* InitCapture.  The audio encoder or capturer, the video encoder or the virtual screen may
\* fail; the latter two are reported to the agent.  The screen comes last.
InitCapture(w) ==
    /\ At(w, "init") /\ Free
    /\ \/ UNCHANGED encoder /\ UNCHANGED <<capture, screens>> /\ Finish(w)
       \/ InitEncoder /\ UNCHANGED <<capture, screens>> /\ Finish(w)
       \/ InitEncoder /\ encoder' = "ready" /\ InitScreenSource /\ Goto(w, "begin")
    /\ UNCHANGED <<session, mic, sets>>

\* StartEncoder; its result is not looked at.
StartEncoder == encoder' \in {"started", encoder}
\* StartAudioCapture.  Audio that does not start is only logged.
StartAudioCapture == mic' \in {mic, [on |-> TRUE, thread |-> "reading"]}

StartCapture(w) ==
    /\ At(w, "begin") /\ Free
    /\ IF capture.running \/ ~capture.init THEN UNCHANGED <<capture, encoder, mic>>
       ELSE /\ capture' = [capture EXCEPT !.running = TRUE]
            /\ StartEncoder
            /\ StartAudioCapture
    /\ Finish(w)
    /\ UNCHANGED <<session, screens, sets>>

-----------------------------------------------------------------------------
(* StopCapture, from PROSUMER_STOP, PROSUMER_DESTROY (Release) and the destructor *)

StopCapture(w) ==
    /\ At(w, "end") /\ Free
    /\ IF ~capture.running \/ ~capture.init
       THEN Goto(w, "ended") /\ UNCHANGED <<capture, mic>>
       ELSE /\ capture' = [capture EXCEPT !.running = FALSE, !.holder = w]
            /\ mic' = [mic EXCEPT !.on = FALSE]
            /\ Goto(w, "ending")
    /\ UNCHANGED <<session, screens, encoder, sets>>

StopEncoder == encoder' = "stopped"
\* StopScreenSourceCapture destroys the virtual screen.
StopScreenSourceCapture ==
    /\ screens' = IF capture.screen THEN screens - 1 ELSE screens
    /\ capture' = [capture EXCEPT !.holder = Nobody, !.screen = FALSE]

\* The audio thread is joined with the lock held; then StopEncoder, StopScreenSourceCapture.
StopAudioVideo(w) ==
    /\ At(w, "ending") /\ mic.thread \in {"off", "left"}
    /\ mic' = [mic EXCEPT !.thread = "off"]
    /\ StopEncoder
    /\ StopScreenSourceCapture
    /\ Goto(w, "ended")
    /\ UNCHANGED <<session, sets>>

\* AudioCaptureThreadWorker: a read, a frame for the encoder and the dispatcher, or the end.
AudioCapture ==
    /\ mic.thread = "reading" /\ ~mic.on
    /\ mic' = [mic EXCEPT !.thread = "left"]
    /\ UNCHANGED <<session, capture, screens, encoder, sets, job>>

\* The first of each parameter set is kept, the rest goes to the dispatcher's ring.
OnFrame(units) ==
    sets' = IF capture.paused THEN sets ELSE sets \cup (units \cap {"sps", "pps"})

\* The encoder puts out NAL units; SplitH264 takes them apart.
OnOutputBufferAvailable(units) ==
    /\ encoder = "started"
    /\ OnFrame(units)
    /\ UNCHANGED <<session, capture, screens, encoder, mic, job>>

CaptureStep(w) == \/ HandleProsumerPlay(w) \/ InitCapture(w) \/ StartCapture(w)
                  \/ StopCapture(w) \/ StopAudioVideo(w)
=============================================================================
