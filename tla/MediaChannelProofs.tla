--------------------------- MODULE MediaChannelProofs ---------------------------
(***************************************************************************)
(* A media channel for any number of surfaces, workers and requests: the   *)
(* play threads of the sink are stopped and joined before their controllers *)
(* go, and the capture of the source ends with its channel.                *)
(***************************************************************************)
EXTENDS MediaChannel, TLAPS

VideoFields == {"listed", "running", "attached", "thread", "flag", "codec", "died", "inputs"}
JobFields == {"op", "arg", "at", "left"}
CaptureFields == {"init", "running", "paused", "screen", "holder"}

\* How far a handler of each kind can be.
PlaySteps == {"append", "remove", "removing", "start", "startAudio", "startVideo", "hung", "key", "volume"}
EndSteps == {"end", "ending", "ended"}
StopSteps == {"stop", "stopVideo", "stopping", "unplay", "stopped"} \cup EndSteps
JobOK(j) ==
    /\ j = [f \in JobFields |-> j[f]]
    /\ j.op \in {"none", "APPEND", "REMOVE", "PLAY", "EXTRA", "PLAYED", "STOP", "DESTROY", "DELETE"}
    /\ j.op = "none" => j.at = "none"
    /\ j.op \in {"APPEND", "REMOVE", "PLAY", "EXTRA"} => j.at \in PlaySteps
    /\ j.op = "PLAYED" => j.at \in {"played", "init", "begin"}
    /\ j.op = "STOP" => j.at \in StopSteps
    /\ j.op \in {"DESTROY", "DELETE"} => j.at \in EndSteps

JobsOK == job = [w \in Workers |-> job[w]] /\ \A w \in Workers : JobOK(job[w])

-----------------------------------------------------------------------------
\* playVideoMutex_ is held exactly while a surface is removed or the player is stopped.
LockOK == /\ lock \in Workers \cup {Nobody}
          /\ \A w \in Workers : lock = w <=> job[w].at \in {"removing", "stopping"}

\* A controller runs with its receiver attached and its thread created, and it is in the map.
Sane(v) ==
    /\ v = [f \in VideoFields |-> v[f]]
    /\ {v.listed, v.running, v.attached} \subseteq BOOLEAN
    /\ v.attached = v.running
    /\ v.running => v.thread # "off"
    /\ v.thread # "off" => v.listed
\* The controller of a surface that is being removed was stopped and is not started again.
RemovingOK == \A w \in Workers, s \in Surfaces :
                 At(w, "removing") /\ job[w].arg = s => ~video[s].running
VideosOK == /\ video = [s \in Surfaces |-> video[s]]
            /\ \A s \in Surfaces : Sane(video[s])

PlayInv == role \in {"sink", "source"} /\ JobsOK /\ LockOK /\ VideosOK /\ RemovingOK

-----------------------------------------------------------------------------
Ending == \E w \in Workers : At(w, "ending")

\* The capture has one screen from InitCapture until StopAudioVideo; in between it runs, or
\* one worker is about to start it, or one is about to end it with the lock held.
ScreenOK ==
    /\ capture = [f \in CaptureFields |-> capture[f]]
    /\ {capture.init, capture.running, capture.screen} \subseteq BOOLEAN
    /\ screens = IF capture.screen THEN 1 ELSE 0
    /\ capture.screen => capture.init
    /\ capture.running => capture.screen
    /\ capture.screen => capture.running \/ Ending \/ \E w \in Workers : At(w, "begin")
    /\ \A w \in Workers : At(w, "init") => ~capture.init
    /\ \A w \in Workers : At(w, "begin") => capture.screen /\ ~capture.running /\ ~Ending
    /\ \A w \in Workers : At(w, "ending") => capture.screen /\ ~capture.running /\ capture.holder = w

\* The encoder and the thread of the microphone run for a capture that runs or is being ended.
DevicesOK ==
    /\ mic = [f \in {"on", "thread"} |-> mic[f]]
    /\ encoder = "started" => capture.running \/ Ending
    /\ mic.thread # "off" => capture.running \/ Ending

\* The destructor is alone with the channel, and nothing is left to do for one that is gone.
DeleteOK ==
    /\ chan = [f \in {"phase", "running", "registered"} |-> chan[f]]
    /\ \A w \in Workers : job[w].op = "DELETE" =>
          /\ chan.phase = "destroyed" /\ ~chan.registered
          /\ \A v \in Workers \ {w} : job[v].op = "none"
          /\ At(w, "ended") => ~capture.running
    /\ role = "source" /\ chan.phase = "gone" => ~chan.registered /\ AllIdle /\ ~capture.running

CaptureInv == role \in {"sink", "source"} /\ JobsOK /\ ScreenOK /\ DevicesOK /\ DeleteOK

\* The session of a cast says PLAYED again only when the last PLAYED was handled.
PlayedOneByOne == \A w, v \in Workers : job[w].op = "PLAYED" /\ job[v].op = "PLAYED" => w = v

-----------------------------------------------------------------------------
(* What handlers do to the jobs                                              *)

\* The other workers go on with what they do.
Turn(w) == \A v \in Workers : v # w => job'[v] = job[v]

\* A worker gets a job of its own.
LEMMA PutJob ==
    ASSUME JobsOK, NEW w \in Workers, NEW j, JobOK(j), job' = [job EXCEPT ![w] = j]
    PROVE  JobsOK' /\ job'[w] = j /\ Turn(w)
BY DEF JobsOK, Turn, JobOK

\* A job that begins is one of its kind.
LEMMA BeginJob ==
    ASSUME JobsOK, NEW w \in Workers, NEW op, NEW arg, NEW at,
           \/ op \in {"APPEND", "REMOVE", "PLAY", "EXTRA"} /\ at \in PlaySteps
           \/ op = "PLAYED" /\ at = "played"
           \/ op = "STOP" /\ at = "stop"
           \/ op \in {"DESTROY", "DELETE"} /\ at = "end",
           job' = [job EXCEPT ![w] = NewJob(op, arg, at)]
    PROVE  JobsOK' /\ job'[w].op = op /\ job'[w].arg = arg /\ job'[w].at = at /\ Turn(w)
<1> DEFINE j == NewJob(op, arg, at)
<1>1. JobOK(j)
  BY DEF JobOK, NewJob, JobFields, PlaySteps, EndSteps, StopSteps
<1>2. j.op = op /\ j.arg = arg /\ j.at = at /\ job' = [job EXCEPT ![w] = j]
  BY DEF NewJob
<1> HIDE DEF j
<1> QED
  BY <1>1, <1>2, PutJob

\* A handler that returns leaves its worker idle.
LEMMA FinishJob ==
    ASSUME JobsOK, NEW w \in Workers, Finish(w)
    PROVE  JobsOK' /\ job'[w].op = "none" /\ job'[w].at = "none" /\ Turn(w)
<1> DEFINE j == NoJob
<1>1. JobOK(j)
  BY DEF JobOK, NoJob, JobFields
<1>2. j.op = "none" /\ j.at = "none" /\ job' = [job EXCEPT ![w] = j]
  BY DEF NoJob, Finish
<1> HIDE DEF j
<1> QED
  BY <1>1, <1>2, PutJob

\* What a handler may do after what.
Follows(next, at) == \/ at \in PlaySteps /\ next \in PlaySteps
                     \/ at = "played" /\ next = "init"
                     \/ at = "init" /\ next = "begin"
                     \/ at \in StopSteps \ EndSteps /\ next \in StopSteps
                     \/ at \in EndSteps /\ next \in EndSteps

\* A handler that goes on stays one of its kind, whatever it has left to do.
LEMMA LaterJob ==
    ASSUME NEW j, JobOK(j), NEW next, Follows(next, j.at), NEW left
    PROVE  /\ JobOK([j EXCEPT !.at = next])
           /\ JobOK([j EXCEPT !.left = left])
           /\ JobOK([j EXCEPT !.at = next, !.left = left])
<1>1. CASE j.at \in PlaySteps /\ next \in PlaySteps
  BY <1>1 DEF JobOK, JobFields, PlaySteps, EndSteps, StopSteps
<1>2. CASE \/ j.at = "played" /\ next = "init"
           \/ j.at = "init" /\ next = "begin"
  BY <1>2 DEF JobOK, JobFields, PlaySteps, EndSteps, StopSteps
<1>3. CASE j.at \in StopSteps \ EndSteps /\ next \in StopSteps
  BY <1>3 DEF JobOK, JobFields, PlaySteps, EndSteps, StopSteps
<1>4. CASE j.at \in EndSteps /\ next \in EndSteps
  BY <1>4 DEF JobOK, JobFields, PlaySteps, EndSteps, StopSteps
<1> QED
  BY <1>1, <1>2, <1>3, <1>4 DEF Follows

\* Goto moves one worker.
LEMMA GotoJob ==
    ASSUME JobsOK, NEW w \in Workers, NEW next, Follows(next, job[w].at), Goto(w, next)
    PROVE  /\ JobsOK' /\ Turn(w)
           /\ job'[w].op = job[w].op /\ job'[w].arg = job[w].arg /\ job'[w].at = next
<1> DEFINE j == [job[w] EXCEPT !.at = next]
<1>1. JobOK(job[w])
  BY DEF JobsOK
<1>2. JobOK(j)
  BY <1>1, LaterJob
<1>3. job' = [job EXCEPT ![w] = j]
  BY DEF Goto
<1>4. j.op = job[w].op /\ j.arg = job[w].arg /\ j.at = next
  BY <1>1 DEF JobOK, JobFields
<1> HIDE DEF j
<1> QED
  BY <1>2, <1>3, <1>4, PutJob

\* StopVideo and StopOne also change what is left to stop.
LEMMA LeftJob ==
    ASSUME JobsOK, NEW w \in Workers, NEW next, Follows(next, job[w].at), NEW left,
           \/ job' = [job EXCEPT ![w].at = next, ![w].left = left]
           \/ job' = [job EXCEPT ![w].left = left] /\ next = job[w].at
    PROVE  /\ JobsOK' /\ Turn(w)
           /\ job'[w].op = job[w].op /\ job'[w].arg = job[w].arg /\ job'[w].at = next
<1>1. JobOK(job[w])
  BY DEF JobsOK
<1>2. CASE job' = [job EXCEPT ![w].at = next, ![w].left = left]
  <2> DEFINE j == [job[w] EXCEPT !.at = next, !.left = left]
  <2>1. JobOK(j)
    BY <1>1, LaterJob
  <2>2. job' = [job EXCEPT ![w] = j]
    BY <1>2 DEF JobsOK
  <2>3. j.op = job[w].op /\ j.arg = job[w].arg /\ j.at = next
    BY <1>1 DEF JobOK, JobFields
  <2> HIDE DEF j
  <2> QED
    BY <2>1, <2>2, <2>3, PutJob
<1>3. CASE job' = [job EXCEPT ![w].left = left] /\ next = job[w].at
  <2> DEFINE j == [job[w] EXCEPT !.left = left]
  <2>1. JobOK(j)
    BY <1>1, <1>3, LaterJob
  <2>2. job' = [job EXCEPT ![w] = j]
    BY <1>3 DEF JobsOK
  <2>3. j.op = job[w].op /\ j.arg = job[w].arg /\ j.at = next
    BY <1>1, <1>3 DEF JobOK, JobFields
  <2> HIDE DEF j
  <2> QED
    BY <2>1, <2>2, <2>3, PutJob
<1> QED
  BY <1>2, <1>3

\* Where a handler of the play controller can be, and which steps follow each other.
LEMMA PlayFollows ==
    /\ \A a, b \in PlaySteps : Follows(b, a)
    /\ Follows("stopVideo", "stop") /\ Follows("stopped", "stop") /\ Follows("stopping", "stopVideo")
    /\ Follows("stopping", "stopping") /\ Follows("unplay", "stopping") /\ Follows("stopped", "unplay")
    /\ Follows("end", "stopped") /\ Follows("ending", "end") /\ Follows("ended", "end")
    /\ Follows("ended", "ending") /\ Follows("init", "played") /\ Follows("begin", "init")
    /\ {"startAudio", "startVideo", "hung", "removing", "start", "remove"} \subseteq PlaySteps
<1>1. \A a, b \in PlaySteps : Follows(b, a)
  BY DEF Follows
<1>2. Follows("init", "played") /\ Follows("begin", "init")
  BY DEF Follows
<1>3. Follows("ending", "end") /\ Follows("ended", "end") /\ Follows("ended", "ending")
  BY DEF Follows, EndSteps
<1>4. \A a \in StopSteps \ EndSteps, b \in StopSteps : Follows(b, a)
  BY DEF Follows
<1>5. {"stop", "stopVideo", "stopping", "unplay", "stopped"} \subseteq StopSteps \ EndSteps
  BY DEF StopSteps, EndSteps
<1>6. "end" \in StopSteps
  BY DEF StopSteps, EndSteps
<1>7. {"startAudio", "startVideo", "hung", "removing", "start", "remove"} \subseteq PlaySteps
  BY DEF PlaySteps
<1> QED
  BY <1>1, <1>2, <1>3, <1>4, <1>5, <1>6, <1>7

-----------------------------------------------------------------------------
(* Jobs stay in order, whoever takes a step                                  *)

\* The jobs after a step of the play controller: one worker goes on or returns, and it takes
\* the lock of the players only by beginning to remove a surface or to stop them.
PlayMoves(w) == /\ Turn(w)
                /\ job[w].at \in PlaySteps \cup (StopSteps \ EndSteps)
                /\ job'[w].op \in {job[w].op, "none"}
                /\ job'[w].at \in PlaySteps \cup (StopSteps \ EndSteps) \cup {"none"}

\* Every step of a handler that plays keeps the jobs.
LEMMA PlayJobs ==
    ASSUME JobsOK, NEW w \in Workers, PlayStep(w)
    PROVE  JobsOK' /\ PlayMoves(w)
<1> USE PlayFollows
<1>1. ASSUME StartMedia(w) PROVE JobsOK' /\ PlayMoves(w)
  <2>1. At(w, "start") /\ (Finish(w) \/ Goto(w, "startAudio"))
    BY <1>1 DEF StartMedia
  <2>2. CASE Finish(w)
    BY <2>1, <2>2, FinishJob DEF PlayMoves, At
  <2>3. CASE Goto(w, "startAudio")
    BY <2>1, <2>3, GotoJob DEF PlayMoves, At
  <2> QED
    BY <2>1, <2>2, <2>3
<1>2. ASSUME StartAudio(w) PROVE JobsOK' /\ PlayMoves(w)
  <2>1. At(w, "startAudio") /\ (Goto(w, "hung") \/ Goto(w, "startVideo"))
    BY <1>2 DEF StartAudio
  <2> QED
    BY <2>1, GotoJob DEF PlayMoves, At
<1>3. ASSUME StartVideo(w) PROVE JobsOK' /\ PlayMoves(w)
  <2>1. At(w, "startVideo") /\ Finish(w)
    BY <1>3 DEF StartVideo
  <2> QED
    BY <2>1, FinishJob DEF PlayMoves, At
<1>4. ASSUME NEW s \in Surfaces, AppendSurface(w, s) PROVE JobsOK' /\ PlayMoves(w)
  <2>1. At(w, "append") /\ Finish(w)
    BY <1>4 DEF AppendSurface
  <2> QED
    BY <2>1, FinishJob DEF PlayMoves, At, PlaySteps
<1>5. ASSUME NEW s \in Surfaces, RemoveSurface(w, s) PROVE JobsOK' /\ PlayMoves(w)
  <2>1. At(w, "remove") /\ (Finish(w) \/ Goto(w, "removing"))
    BY <1>5 DEF RemoveSurface
  <2>2. CASE Finish(w)
    BY <2>1, <2>2, FinishJob DEF PlayMoves, At
  <2>3. CASE Goto(w, "removing")
    BY <2>1, <2>3, GotoJob DEF PlayMoves, At
  <2> QED
    BY <2>1, <2>2, <2>3
<1>6. ASSUME NEW s \in Surfaces, Removed(w, s) PROVE JobsOK' /\ PlayMoves(w)
  <2>1. At(w, "removing") /\ Finish(w)
    BY <1>6 DEF Removed
  <2> QED
    BY <2>1, FinishJob DEF PlayMoves, At
<1>7. ASSUME NEW s \in Surfaces, StopOne(w, s) PROVE JobsOK' /\ PlayMoves(w)
  BY <1>7 DEF StopOne, At, PlayMoves, Turn, JobsOK, JobOK, StopSteps, EndSteps
<1>8. ASSUME NEW s \in Surfaces, JoinOne(w, s) PROVE JobsOK' /\ PlayMoves(w)
  <2>1. At(w, "stopping") /\ job' = [job EXCEPT ![w].left = job[w].left \ {s}]
    BY <1>8 DEF JoinOne, JobsOK
  <2>2. JobsOK' /\ Turn(w) /\ job'[w].op = job[w].op /\ job'[w].at = job[w].at
    BY <2>1, LeftJob DEF At
  <2> QED
    BY <2>1, <2>2 DEF PlayMoves, At, StopSteps, EndSteps
<1>9. ASSUME StopAudio(w) PROVE JobsOK' /\ PlayMoves(w)
  <2>1. At(w, "stop") /\ (Goto(w, "stopVideo") \/ Goto(w, "stopped"))
    BY <1>9 DEF StopAudio
  <2> QED
    BY <2>1, GotoJob DEF PlayMoves, At, StopSteps, EndSteps
<1>10. ASSUME StopVideo(w) PROVE JobsOK' /\ PlayMoves(w)
  <2>1. PICK left : /\ At(w, "stopVideo")
                    /\ job' = [job EXCEPT ![w].at = "stopping", ![w].left = left]
    BY <1>10 DEF StopVideo
  <2>2. JobsOK' /\ Turn(w) /\ job'[w].op = job[w].op /\ job'[w].at = "stopping"
    BY <2>1, LeftJob DEF At
  <2> QED
    BY <2>1, <2>2 DEF PlayMoves, At, StopSteps, EndSteps
<1>11. ASSUME StopUnlocks(w) PROVE JobsOK' /\ PlayMoves(w)
  <2>1. At(w, "stopping") /\ Goto(w, "unplay")
    BY <1>11 DEF StopUnlocks
  <2> QED
    BY <2>1, GotoJob DEF PlayMoves, At, StopSteps, EndSteps
<1>12. ASSUME Unplay(w) PROVE JobsOK' /\ PlayMoves(w)
  <2>1. At(w, "unplay") /\ Goto(w, "stopped")
    BY <1>12 DEF Unplay
  <2> QED
    BY <2>1, GotoJob DEF PlayMoves, At, StopSteps, EndSteps
<1>13. ASSUME SetKeyMode(w) \/ SetVolume(w) PROVE JobsOK' /\ PlayMoves(w)
  <2>1. (At(w, "key") \/ At(w, "volume")) /\ Finish(w)
    BY <1>13 DEF SetKeyMode, SetVolume
  <2> QED
    BY <2>1, FinishJob DEF PlayMoves, At, PlaySteps
<1> QED
  BY <1>1, <1>2, <1>3, <1>4, <1>5, <1>6, <1>7, <1>8, <1>9, <1>10, <1>11, <1>12, <1>13 DEF PlayStep

\* The jobs after a step of the capture, of StopConsumer and of CaptureStopped.
CaptureMoves(w) == /\ Turn(w)
                   /\ job[w].at \in {"played", "init", "begin", "stopped"} \cup EndSteps
                   /\ job'[w].op \in {job[w].op, "none"}
                   /\ job'[w].at \in {"init", "begin", "none"} \cup EndSteps
                   /\ job'[w].at \in {job[w].at, "none"} \/ Follows(job'[w].at, job[w].at)

\* Every step of a handler that captures, or that ends the consumer, keeps the jobs.
LEMMA CaptureJobs ==
    ASSUME JobsOK, NEW w \in Workers, CaptureStep(w) \/ StopConsumer(w) \/ CaptureStopped(w)
    PROVE  JobsOK' /\ CaptureMoves(w)
<1> USE PlayFollows
<1>1. /\ job[w].at \in {"played", "init", "begin", "end", "ending", "stopped", "ended"}
      /\ \/ Finish(w)
         \/ At(w, "played") /\ Goto(w, "init")
         \/ At(w, "init") /\ Goto(w, "begin")
         \/ At(w, "end") /\ (Goto(w, "ending") \/ Goto(w, "ended"))
         \/ At(w, "ending") /\ Goto(w, "ended")
         \/ At(w, "stopped") /\ Goto(w, "end")
  BY DEF CaptureStep, HandleProsumerPlay, InitCapture, StartCapture, StopCapture, StopAudioVideo,
         StopConsumer, CaptureStopped, At
<1>2. CASE Finish(w)
  BY <1>1, <1>2, FinishJob DEF CaptureMoves, EndSteps
<1>3. ASSUME NEW next \in {"init", "begin", "end", "ending", "ended"}, Goto(w, next),
             Follows(next, job[w].at)
      PROVE  JobsOK' /\ CaptureMoves(w)
  <2>1. JobsOK' /\ Turn(w) /\ job'[w].op = job[w].op /\ job'[w].at = next
    BY <1>3, GotoJob
  <2> QED
    BY <1>1, <1>3, <2>1 DEF CaptureMoves, EndSteps
<1> QED
  BY <1>1, <1>2, <1>3 DEF At

-----------------------------------------------------------------------------
(* Controllers                                                               *)

\* Start of a controller in the map leaves it running, attached and with its thread.
LEMMA StartedSane ==
    ASSUME NEW v, Sane(v), v.listed
    PROVE  Sane(Started(v)) /\ Started(v).listed
BY DEF Sane, VideoFields, Started, ThreadStarted, DecoderStarted

\* Stop detaches the receiver and leaves the thread to be joined.
LEMMA StoppedSane ==
    ASSUME NEW v, Sane(v)
    PROVE  Sane(Stopped(v)) /\ ~Stopped(v).running
BY DEF Sane, VideoFields, Stopped, DecoderStopped

\* A thread is joined when the receiver is detached.
LEMMA JoinedSane ==
    ASSUME NEW v, Sane(v), ~v.attached
    PROVE  Sane(Joined(v)) /\ ~Joined(v).running
BY DEF Sane, VideoFields, Joined

\* No controller at all, and a new one in the map.
LEMMA NewSane ==
    /\ Sane(NoVideo) /\ ~NoVideo.running
    /\ LET new == SetSurface(DecoderInit([NoVideo EXCEPT !.listed = TRUE]))
       IN  Sane(new) /\ new.listed
BY DEF Sane, VideoFields, NoVideo, SetSurface, DecoderSetSurface, DecoderInit

\* The destructor of a controller whose thread has been joined.
LEMMA ReleasedSane ==
    ASSUME NEW v, Sane(v), v.thread = "off"
    PROVE  Sane(Released(v)) /\ ~Released(v).running
BY DEF Sane, VideoFields, Released

\* A thread that goes on, with the frame it has read and the buffer it has filled.
LEMMA GoesOnSane ==
    ASSUME NEW v, Sane(v), NEW step, step # "off", v.thread # "off"
    PROVE  /\ Sane([v EXCEPT !.thread = step]) /\ [v EXCEPT !.thread = step].running = v.running
           /\ Sane([v EXCEPT !.flag = FALSE, !.thread = step])
           /\ [v EXCEPT !.flag = FALSE, !.thread = step].running = v.running
BY DEF Sane, VideoFields

\* A thread that has given its buffer to the codec.
LEMMA QueuedSane ==
    ASSUME NEW v, Sane(v), NEW step, step # "off", v.thread # "off", NEW inputs
    PROVE  /\ Sane([v EXCEPT !.thread = step, !.inputs = inputs])
           /\ [v EXCEPT !.thread = step, !.inputs = inputs].running = v.running
BY DEF Sane, VideoFields

\* A frame that comes, a buffer that the codec lends, the death of its service.
LEMMA CodecSane ==
    ASSUME NEW v, Sane(v), NEW x
    PROVE  /\ Sane([v EXCEPT !.flag = x]) /\ [v EXCEPT !.flag = x].running = v.running
           /\ Sane([v EXCEPT !.inputs = x]) /\ [v EXCEPT !.inputs = x].running = v.running
           /\ Sane([v EXCEPT !.died = x]) /\ [v EXCEPT !.died = x].running = v.running
BY DEF Sane, VideoFields

\* One controller changes; the others stay as they are.
LEMMA PutVideo ==
    ASSUME VideosOK, NEW s \in Surfaces, NEW v, Sane(v), video' = [video EXCEPT ![s] = v]
    PROVE  /\ VideosOK' /\ video'[s] = v
           /\ \A r \in Surfaces : r # s => video'[r] = video[r]
BY DEF VideosOK

\* A surface that is being removed is not started: nobody else gets the lock.
LEMMA RemovingStays ==
    ASSUME RemovingOK,
           \A s \in Surfaces : video'[s].running => video[s].running,
           \A w \in Workers : job'[w].at = "removing" => job[w].at = "removing" /\ job'[w].arg = job[w].arg
    PROVE  RemovingOK'
BY DEF RemovingOK, At

\* While the lock is free nobody removes a surface.
LEMMA NobodyRemoves ==
    ASSUME LockOK, lock = Nobody, NEW w \in Workers, Turn(w), job'[w].at # "removing"
    PROVE  RemovingOK'
BY JobsAssumption DEF LockOK, RemovingOK, Turn, At

\* The lock stays with who has it when no worker begins or ends a step that needs it.
LEMMA LockStays ==
    ASSUME LockOK, lock' = lock,
           \A w \in Workers : job'[w].at \in {"removing", "stopping"} <=> job[w].at \in {"removing", "stopping"}
    PROVE  LockOK'
BY DEF LockOK

\* A worker that takes the free lock is the only one at a step that holds it.
LEMMA LockTaken ==
    ASSUME LockOK, lock = Nobody, NEW w \in Workers, Turn(w), lock' = w, job'[w].at \in {"removing", "stopping"}
    PROVE  LockOK'
BY JobsAssumption DEF LockOK, Turn

\* A worker that gives the lock back leaves the step that holds it.
LEMMA LockGiven ==
    ASSUME LockOK, NEW w \in Workers, Turn(w), job[w].at \in {"removing", "stopping"},
           lock' = Nobody, job'[w].at \notin {"removing", "stopping"}
    PROVE  LockOK'
BY JobsAssumption DEF LockOK, Turn

\* A step that neither plays nor takes the lock.
LEMMA PlayStays ==
    ASSUME PlayInv, JobsOK', role' = role, lock' = lock, video' = video, NEW w \in Workers, Turn(w),
           {job[w].at, job'[w].at} \cap {"removing", "stopping"} = {}
    PROVE  PlayInv'
<1>1. \A v \in Workers : /\ job'[v].at \in {"removing", "stopping"} <=> job[v].at \in {"removing", "stopping"}
                         /\ job'[v].at = "removing" => job[v].at = "removing" /\ job'[v].arg = job[v].arg
  BY DEF Turn
<1>2. LockOK'
  BY <1>1, LockStays DEF PlayInv
<1>3. RemovingOK'
  BY <1>1, RemovingStays DEF PlayInv
<1> QED
  BY <1>2, <1>3 DEF PlayInv, VideosOK

-----------------------------------------------------------------------------
(* Steps of the play controller                                              *)

\* StartVideo starts controllers of the map, with the lock.
LEMMA StartVideoInv ==
    ASSUME PlayInv, NEW w \in Workers, StartVideo(w), role' = role
    PROVE  PlayInv'
<1>1. At(w, "startVideo") /\ Finish(w)
  BY DEF StartVideo
<1>2. JobsOK' /\ job'[w].at = "none" /\ Turn(w)
  BY <1>1, FinishJob DEF PlayInv
<1>3. CASE UNCHANGED playVars
  BY <1>1, <1>2, <1>3, PlayStays DEF playVars, At
<1>4. CASE lock = Nobody /\ lock' = lock /\ ~UNCHANGED playVars
  <2>1. PICK good \in SUBSET {s \in Listed : DecoderCanStart(video[s])} :
           video' = [s \in Surfaces |-> IF s \in good THEN Started(video[s]) ELSE video[s]]
    BY <1>4 DEF StartVideo
  <2>2. ASSUME NEW s \in Surfaces
        PROVE  Sane(video'[s])
    <3>1. Sane(video[s])
      BY DEF PlayInv, VideosOK
    <3>2. CASE s \in good
      <4>1. video[s].listed
        BY <3>2 DEF Listed
      <4>2. Sane(Started(video[s]))
        BY <3>1, <4>1, StartedSane
      <4> QED
        BY <2>1, <3>2, <4>2
    <3>3. CASE s \notin good
      BY <2>1, <3>1, <3>3
    <3> QED
      BY <3>2, <3>3
  <2>3. VideosOK'
    BY <2>1, <2>2 DEF VideosOK
  <2>4. RemovingOK'
    BY <1>2, <1>4, NobodyRemoves DEF PlayInv
  <2>5. LockOK'
    BY <1>1, <1>2, <1>4, LockStays DEF PlayInv, Turn, At
  <2> QED
    BY <1>2, <2>3, <2>4, <2>5 DEF PlayInv
<1> QED
  BY <1>3, <1>4 DEF StartVideo

\* AppendSurface puts a controller into the map and starts it at once while the others play.
LEMMA AppendSurfaceInv ==
    ASSUME PlayInv, NEW w \in Workers, NEW s \in Surfaces, AppendSurface(w, s), role' = role
    PROVE  PlayInv'
<1>1. At(w, "append") /\ Finish(w) /\ lock = Nobody /\ lock' = lock
  BY DEF AppendSurface
<1>2. JobsOK' /\ job'[w].at = "none" /\ Turn(w)
  BY <1>1, FinishJob DEF PlayInv
<1>3. CASE video' = video
  BY <1>1, <1>2, <1>3, PlayStays DEF At
<1>4. CASE video' # video
  <2> DEFINE new == SetSurface(DecoderInit([NoVideo EXCEPT !.listed = TRUE]))
  <2>1. video' = [video EXCEPT ![s] = new] \/ video' = [video EXCEPT ![s] = Started(new)]
    BY <1>4 DEF AppendSurface
  <2>2. Sane(new) /\ Sane(Started(new))
    <3>1. Sane(new) /\ new.listed
      BY NewSane
    <3> HIDE DEF new
    <3> QED
      BY <3>1, StartedSane
  <2> HIDE DEF new
  <2>3. VideosOK'
    BY <2>1, <2>2, PutVideo DEF PlayInv
  <2>4. RemovingOK'
    BY <1>1, <1>2, NobodyRemoves DEF PlayInv
  <2>5. LockOK'
    BY <1>1, <1>2, LockStays DEF PlayInv, Turn, At
  <2> QED
    BY <1>2, <2>3, <2>4, <2>5 DEF PlayInv
<1> QED
  BY <1>3, <1>4

\* RemoveSurface stops the controller and keeps the lock.
LEMMA RemoveSurfaceInv ==
    ASSUME PlayInv, NEW w \in Workers, NEW s \in Surfaces, RemoveSurface(w, s), role' = role
    PROVE  PlayInv'
<1>1. At(w, "remove") /\ lock = Nobody /\ job[w].arg = s
  BY DEF RemoveSurface
<1>2. CASE player.made /\ video[s].listed
  <2> DEFINE v == Stopped(video[s])
  <2>1. video' = [video EXCEPT ![s] = v] /\ lock' = w /\ Goto(w, "removing")
    BY <1>2 DEF RemoveSurface, PlayInv, VideosOK
  <2>2. Sane(v) /\ ~v.running
    BY StoppedSane DEF PlayInv, VideosOK
  <2> HIDE DEF v
  <2>3. VideosOK' /\ video'[s] = v /\ \A r \in Surfaces : r # s => video'[r] = video[r]
    BY <2>1, <2>2, PutVideo DEF PlayInv
  <2>4. JobsOK' /\ Turn(w) /\ job'[w].arg = s /\ job'[w].at = "removing"
    BY <1>1, <2>1, GotoJob, PlayFollows DEF PlayInv, At
  <2>5. LockOK'
    BY <1>1, <2>1, <2>4, LockTaken DEF PlayInv
  <2>6. \A u \in Workers : job[u].at # "removing"
    BY <1>1, JobsAssumption DEF PlayInv, LockOK
  <2>7. RemovingOK'
    BY <2>2, <2>3, <2>4, <2>6 DEF RemovingOK, Turn, At
  <2> QED
    BY <2>3, <2>4, <2>5, <2>7 DEF PlayInv
<1>3. CASE ~(player.made /\ video[s].listed)
  <2>1. video' = video /\ lock' = lock /\ Finish(w)
    BY <1>3 DEF RemoveSurface
  <2>2. JobsOK' /\ job'[w].at = "none" /\ Turn(w)
    BY <2>1, FinishJob DEF PlayInv
  <2> QED
    BY <1>1, <2>1, <2>2, PlayStays DEF At
<1> QED
  BY <1>2, <1>3

\* The controller goes when its thread has ended.
LEMMA RemovedInv ==
    ASSUME PlayInv, NEW w \in Workers, NEW s \in Surfaces, Removed(w, s), role' = role
    PROVE  PlayInv'
<1>1. At(w, "removing") /\ Finish(w) /\ lock' = Nobody
  BY DEF Removed
<1>2. JobsOK' /\ job'[w].at = "none" /\ Turn(w)
  BY <1>1, FinishJob DEF PlayInv
<1> DEFINE v == NoVideo
<1>3. video' = [video EXCEPT ![s] = v] /\ Sane(v) /\ ~v.running
  BY NewSane DEF Removed
<1> HIDE DEF v
<1>4. VideosOK' /\ video'[s] = v /\ \A r \in Surfaces : r # s => video'[r] = video[r]
  BY <1>3, PutVideo DEF PlayInv
<1>5. LockOK'
  BY <1>1, <1>2, LockGiven DEF PlayInv, At
<1>6. RemovingOK'
  BY <1>2, <1>3, <1>4, RemovingStays DEF PlayInv, Turn
<1> QED
  BY <1>2, <1>4, <1>5, <1>6 DEF PlayInv

\* Stop takes the lock.
LEMMA StopVideoInv ==
    ASSUME PlayInv, NEW w \in Workers, StopVideo(w), role' = role
    PROVE  PlayInv'
<1>1. PICK left : /\ At(w, "stopVideo")
                  /\ job' = [job EXCEPT ![w].at = "stopping", ![w].left = left]
  BY DEF StopVideo
<1>2. lock = Nobody /\ lock' = w /\ video' = video
  BY DEF StopVideo
<1>3. JobsOK' /\ Turn(w) /\ job'[w].at = "stopping"
  BY <1>1, LeftJob, PlayFollows DEF PlayInv, At
<1>4. LockOK'
  BY <1>2, <1>3, LockTaken DEF PlayInv
<1>5. RemovingOK'
  BY <1>2, <1>3, NobodyRemoves DEF PlayInv
<1> QED
  BY <1>2, <1>3, <1>4, <1>5 DEF PlayInv, VideosOK

\* A controller is told to stop, with the lock held.
LEMMA StopOneInv ==
    ASSUME PlayInv, NEW w \in Workers, NEW s \in Surfaces, StopOne(w, s), role' = role
    PROVE  PlayInv'
<1> DEFINE v == Stopped(video[s])
<1>1. video' = [video EXCEPT ![s] = v] /\ lock' = lock /\ job' = job
  BY DEF StopOne, PlayInv, VideosOK
<1>2. Sane(v) /\ ~v.running
  BY StoppedSane DEF PlayInv, VideosOK
<1> HIDE DEF v
<1>3. VideosOK' /\ video'[s] = v /\ \A r \in Surfaces : r # s => video'[r] = video[r]
  BY <1>1, <1>2, PutVideo DEF PlayInv
<1>4. RemovingOK'
  BY <1>1, <1>2, <1>3, RemovingStays DEF PlayInv
<1>5. LockOK'
  BY <1>1, LockStays DEF PlayInv
<1> QED
  BY <1>1, <1>3, <1>4, <1>5 DEF PlayInv, JobsOK

\* Its thread is joined, with the lock held.
LEMMA JoinOneInv ==
    ASSUME PlayInv, NEW w \in Workers, NEW s \in Surfaces, JoinOne(w, s), role' = role
    PROVE  PlayInv'
<1> DEFINE v == Joined(video[s])
<1>1. video' = [video EXCEPT ![s] = v] /\ lock' = lock
  BY DEF JoinOne, PlayInv, VideosOK
<1>2. Sane(v) /\ ~v.running
  BY JoinedSane DEF PlayInv, VideosOK, JoinOne
<1> HIDE DEF v
<1>3. VideosOK' /\ video'[s] = v /\ \A r \in Surfaces : r # s => video'[r] = video[r]
  BY <1>1, <1>2, PutVideo DEF PlayInv
<1>4. At(w, "stopping") /\ job' = [job EXCEPT ![w].left = job[w].left \ {s}]
  BY DEF JoinOne, PlayInv, JobsOK
<1>5. JobsOK' /\ Turn(w) /\ job'[w].arg = job[w].arg /\ job'[w].at = job[w].at
  BY <1>4, LeftJob, PlayFollows DEF At, PlayInv
<1>6. RemovingOK'
  BY <1>2, <1>3, <1>5, RemovingStays DEF PlayInv, Turn
<1>7. LockOK'
  BY <1>1, <1>5, LockStays DEF PlayInv, Turn
<1> QED
  BY <1>3, <1>5, <1>6, <1>7 DEF PlayInv

\* The lock is given back when every surface is stopped.
LEMMA StopUnlocksInv ==
    ASSUME PlayInv, NEW w \in Workers, StopUnlocks(w), role' = role
    PROVE  PlayInv'
<1>1. At(w, "stopping") /\ Goto(w, "unplay") /\ lock' = Nobody /\ video' = video
  BY DEF StopUnlocks
<1>2. JobsOK' /\ Turn(w) /\ job'[w].at = "unplay"
  BY <1>1, GotoJob, PlayFollows DEF PlayInv, At
<1>3. LockOK'
  BY <1>1, <1>2, LockGiven DEF PlayInv, At
<1>4. RemovingOK'
  BY <1>1, <1>2, RemovingStays DEF PlayInv, Turn
<1> QED
  BY <1>1, <1>2, <1>3, <1>4 DEF PlayInv, VideosOK

\* Every step of a handler that plays.
LEMMA PlayStepInv ==
    ASSUME PlayInv, NEW w \in Workers, PlayStep(w), role' = role
    PROVE  PlayInv'
<1>1. JobsOK' /\ Turn(w)
  BY PlayJobs DEF PlayInv, PlayMoves
<1>2. ASSUME StartMedia(w) \/ StartAudio(w) \/ StopAudio(w) \/ Unplay(w) \/ SetKeyMode(w) \/ SetVolume(w)
      PROVE  PlayInv'
  <2>1. lock' = lock /\ video' = video
    BY <1>2 DEF StartMedia, StartAudio, StopAudio, Unplay, SetKeyMode, SetVolume, playVars
  <2>2. /\ job[w].at \notin {"removing", "stopping"}
        /\ \/ Finish(w)
           \/ At(w, "start") /\ Goto(w, "startAudio")
           \/ At(w, "startAudio") /\ (Goto(w, "hung") \/ Goto(w, "startVideo"))
           \/ At(w, "stop") /\ (Goto(w, "stopVideo") \/ Goto(w, "stopped"))
           \/ At(w, "unplay") /\ Goto(w, "stopped")
    BY <1>2 DEF StartMedia, StartAudio, StopAudio, Unplay, SetKeyMode, SetVolume, At
  <2>3. CASE Finish(w)
    <3>1. job'[w].at = "none"
      BY <2>3, FinishJob DEF PlayInv
    <3> QED
      BY <1>1, <2>1, <2>2, <3>1, PlayStays
  <2>4. ASSUME NEW next \in {"startAudio", "hung", "startVideo", "stopVideo", "stopped"}, Goto(w, next),
               Follows(next, job[w].at)
        PROVE  PlayInv'
    <3>1. job'[w].at = next
      BY <2>4, GotoJob DEF PlayInv
    <3> QED
      BY <1>1, <2>1, <2>2, <2>4, <3>1, PlayStays
  <2> QED
    BY <2>2, <2>3, <2>4, PlayFollows DEF At
<1> QED
  BY <1>2, StartVideoInv, AppendSurfaceInv, RemoveSurfaceInv, RemovedInv, StopVideoInv, StopOneInv,
     JoinOneInv, StopUnlocksInv DEF PlayStep

-----------------------------------------------------------------------------
(* Play threads, the codec and the destructor                                *)

\* One controller changes while no worker takes a step.
LEMMA VideoInv ==
    ASSUME PlayInv, NEW s \in Surfaces, NEW v, Sane(v), v.running = video[s].running,
           video' = [video EXCEPT ![s] = v], lock' = lock, job' = job, role' = role
    PROVE  PlayInv'
<1>1. VideosOK' /\ video'[s] = v /\ \A r \in Surfaces : r # s => video'[r] = video[r]
  BY PutVideo DEF PlayInv
<1>2. RemovingOK'
  BY <1>1, RemovingStays DEF PlayInv
<1>3. LockOK'
  BY LockStays DEF PlayInv
<1> QED
  BY <1>1, <1>2, <1>3 DEF PlayInv, JobsOK

\* Whatever a play thread does, it stays a thread until it is joined.
LEMMA PlayThreadInv ==
    ASSUME PlayInv, NEW s \in Surfaces, PlayThread(s), role' = role
    PROVE  PlayInv'
<1>1. Sane(video[s]) /\ video[s].thread # "off" /\ lock' = lock /\ job' = job
  BY DEF PlayThread, Loop, ReadFrame, TakeInput, QueueInput, PlayInv, VideosOK
<1>2. CASE Loop(s) \/ TakeInput(s) \/ QueueInput(s)
  <2>1. PICK step \in {"reading", "left", "queueing", "loop"} :
           \/ video' = [video EXCEPT ![s].thread = step]
           \/ \E inputs : video' = [video EXCEPT ![s].thread = step, ![s].inputs = inputs]
    BY <1>2 DEF Loop, TakeInput, QueueInput, PlayInv, VideosOK
  <2>2. CASE video' = [video EXCEPT ![s].thread = step]
    <3> DEFINE v == [video[s] EXCEPT !.thread = step]
    <3>1. Sane(v) /\ v.running = video[s].running /\ video' = [video EXCEPT ![s] = v]
      BY <1>1, <2>2, GoesOnSane
    <3> HIDE DEF v
    <3> QED
      BY <1>1, <3>1, VideoInv
  <2>3. ASSUME NEW inputs, video' = [video EXCEPT ![s].thread = step, ![s].inputs = inputs]
        PROVE  PlayInv'
    <3> DEFINE v == [video[s] EXCEPT !.thread = step, !.inputs = inputs]
    <3>1. Sane(v) /\ v.running = video[s].running
      BY <1>1, QueuedSane
    <3>2. video' = [video EXCEPT ![s] = v]
      BY <2>3 DEF PlayInv, VideosOK
    <3> HIDE DEF v
    <3> QED
      BY <1>1, <3>1, <3>2, VideoInv
  <2> QED
    BY <2>1, <2>2, <2>3
<1>3. CASE ReadFrame(s)
  <2>1. PICK step \in {"loop", "waiting"} : video' = [video EXCEPT ![s].flag = FALSE, ![s].thread = step]
    BY <1>3 DEF ReadFrame
  <2> DEFINE v == [video[s] EXCEPT !.flag = FALSE, !.thread = step]
  <2>2. Sane(v) /\ v.running = video[s].running /\ video' = [video EXCEPT ![s] = v]
    BY <1>1, <2>1, GoesOnSane DEF PlayInv, VideosOK
  <2> HIDE DEF v
  <2> QED
    BY <1>1, <2>2, VideoInv
<1> QED
  BY <1>2, <1>3 DEF PlayThread

\* A frame for the receiver, an input buffer of the codec, the death of its service.
LEMMA CodecInv ==
    ASSUME PlayInv, NEW s \in Surfaces, role' = role,
           NotifyFrame(s) \/ OnInputBufferAvailable(s) \/ OnError(s)
    PROVE  PlayInv'
<1>1. Sane(video[s]) /\ lock' = lock /\ job' = job
  BY DEF NotifyFrame, OnInputBufferAvailable, OnError, PlayInv, VideosOK
<1>2. PICK x : \/ video' = [video EXCEPT ![s].flag = x]
               \/ video' = [video EXCEPT ![s].inputs = x]
               \/ video' = [video EXCEPT ![s].died = x]
  BY DEF NotifyFrame, OnInputBufferAvailable, OnError, PlayInv, VideosOK
<1>3. PICK v : /\ \/ v = [video[s] EXCEPT !.flag = x]
                  \/ v = [video[s] EXCEPT !.inputs = x]
                  \/ v = [video[s] EXCEPT !.died = x]
               /\ video' = [video EXCEPT ![s] = v]
  BY <1>2
<1>4. Sane(v) /\ v.running = video[s].running
  <2>1. CASE v = [video[s] EXCEPT !.flag = x]
    BY <1>1, <2>1, CodecSane
  <2>2. CASE v = [video[s] EXCEPT !.inputs = x]
    BY <1>1, <2>2, CodecSane
  <2>3. CASE v = [video[s] EXCEPT !.died = x]
    BY <1>1, <2>3, CodecSane
  <2> QED
    BY <1>3, <2>1, <2>2, <2>3
<1> QED
  BY <1>1, <1>3, <1>4, VideoInv

\* ~MediaController leaves nothing that runs.
LEMMA ReleaseInv ==
    ASSUME PlayInv, ReleasePlayers, job' = job, role' = role,
           \A s \in Surfaces : video[s].thread = "off"
    PROVE  PlayInv'
<1>1. video' = [s \in Surfaces |-> Released(video[s])] /\ lock' = lock
  BY DEF ReleasePlayers
<1>2. \A s \in Surfaces : Sane(Released(video[s])) /\ ~Released(video[s]).running
  BY ReleasedSane DEF PlayInv, VideosOK
<1>3. VideosOK' /\ \A s \in Surfaces : ~video'[s].running
  BY <1>1, <1>2 DEF VideosOK
<1>4. RemovingOK'
  BY <1>3 DEF RemovingOK
<1>5. LockOK'
  BY <1>1, LockStays DEF PlayInv
<1> QED
  BY <1>3, <1>4, <1>5 DEF PlayInv, JobsOK

-----------------------------------------------------------------------------
(* Steps of the agents                                                       *)

\* A job that begins, with what it is and on which worker.
Begins(w, op, at) ==
    /\ Idle(w) /\ \E arg : job' = [job EXCEPT ![w] = NewJob(op, arg, at)]
    /\ \/ op \in {"APPEND", "REMOVE", "PLAY", "EXTRA"} /\ at \in {"append", "remove", "start", "key", "volume"}
       \/ op = "PLAYED" /\ at = "played"
       \/ op = "STOP" /\ at = "stop"
       \/ op \in {"DESTROY", "DELETE"} /\ at = "end"

\* The worker was idle and has its job now.
LEMMA BeginsJob ==
    ASSUME JobsOK, NEW w \in Workers, NEW op, NEW at, Begins(w, op, at)
    PROVE  /\ JobsOK' /\ Turn(w) /\ job'[w].op = op /\ job'[w].at = at
           /\ job[w].op = "none" /\ job[w].at = "none"
<1>1. PICK arg : job' = [job EXCEPT ![w] = NewJob(op, arg, at)]
  BY DEF Begins
<1>2. JobsOK' /\ Turn(w) /\ job'[w].op = op /\ job'[w].at = at
  BY <1>1, BeginJob DEF Begins, PlaySteps
<1>3. job[w].op = "none" /\ job[w].at = "none"
  BY DEF Begins, Idle, JobsOK, JobOK
<1> QED
  BY <1>2, <1>3

\* What the agents' steps do to the jobs: at most one begins.
LEMMA AgentsBegin ==
    ASSUME Agents
    PROVE  /\ role' = role
           /\ job' = job \/ \E w \in Workers : \E op, at : Begins(w, op, at)
<1>1. ASSUME SessionStep \/ HandleCreateConsumer \/ HandleStartConsumer \/ HandlePauseConsumer
             \/ HandleMediaChannelDestroy
      PROVE  role' = role /\ job' = job
  BY <1>1 DEF SessionStep, HandleCreateConsumer, HandleStartConsumer, HandlePauseConsumer,
              HandleMediaChannelDestroy
<1>2. ASSUME NEW p \in Producers,
             HandleCreateProducer(p) \/ HandleStartProducer(p) \/ HandleStopProducer(p)
             \/ HandleDestroyProducer(p) \/ OnProducerDestroyed(p)
      PROVE  role' = role /\ job' = job
  BY <1>2 DEF HandleCreateProducer, HandleStartProducer, HandleStopProducer, HandleDestroyProducer,
              OnProducerDestroyed, CreateProducer, Produce
<1>3. ASSUME NEW w \in Workers, HandleStopConsumer(w)
      PROVE  role' = role /\ Begins(w, "STOP", "stop")
  BY <1>3 DEF HandleStopConsumer, Begins
<1>4. ASSUME NEW w \in Workers, HandleDestroyConsumer(w)
      PROVE  role' = role /\ (job' = job \/ Begins(w, "DESTROY", "end"))
  BY <1>4 DEF HandleDestroyConsumer, Begins
<1>5. ASSUME NEW w \in Workers, HandlePlayed(w)
      PROVE  role' = role /\ Begins(w, "PLAYED", "played")
  BY <1>5 DEF HandlePlayed, Begins
<1>6. ASSUME NEW w \in Workers, Destructor(w)
      PROVE  role' = role /\ (job' = job \/ Begins(w, "DELETE", "end"))
  BY <1>6 DEF Destructor, Begins, AllIdle, Idle
<1>7. ASSUME NEW w \in Workers, NEW s, NEW op \in {"APPEND", "REMOVE", "PLAY"}, HandleRequest(w, op, s)
      PROVE  role' = role /\ Begins(w, op, FirstStep(op))
  BY <1>7 DEF HandleRequest, Begins, FirstStep
<1>8. ASSUME NEW w \in Workers, NEW step \in {"key", "volume"}, HandleExtra(w, step)
      PROVE  role' = role /\ Begins(w, "EXTRA", step)
  BY <1>8 DEF HandleExtra, Begins
<1> QED
  BY <1>1, <1>2, <1>3, <1>4, <1>5, <1>6, <1>7, <1>8 DEF Agents, HandleStartPlay

\* Only the destructor of the play controller touches what plays, after the last thread.
LEMMA AgentsPlay ==
    ASSUME Agents, role \in {"sink", "source"}
    PROVE  \/ video' = video /\ lock' = lock
           \/ ReleasePlayers /\ job' = job /\ \A s \in Surfaces : video[s].thread = "off"
<1>1. ASSUME SessionStep \/ HandleCreateConsumer \/ HandleStartConsumer \/ HandlePauseConsumer
             \/ HandleMediaChannelDestroy
      PROVE  video' = video /\ lock' = lock
  BY <1>1 DEF SessionStep, HandleCreateConsumer, HandleStartConsumer, HandlePauseConsumer,
              HandleMediaChannelDestroy, playVars
<1>2. ASSUME NEW p \in Producers,
             HandleCreateProducer(p) \/ HandleStartProducer(p) \/ HandleStopProducer(p)
             \/ HandleDestroyProducer(p) \/ OnProducerDestroyed(p)
      PROVE  video' = video /\ lock' = lock
  BY <1>2 DEF HandleCreateProducer, HandleStartProducer, HandleStopProducer, HandleDestroyProducer,
              OnProducerDestroyed, CreateProducer, Produce, playVars
<1>3. ASSUME NEW w \in Workers, NEW s, NEW op, NEW step,
             \/ HandleStopConsumer(w) \/ HandleDestroyConsumer(w) \/ HandlePlayed(w)
             \/ HandleRequest(w, op, s) \/ HandleExtra(w, step)
      PROVE  video' = video /\ lock' = lock
  BY <1>3 DEF HandleStopConsumer, HandleDestroyConsumer, HandlePlayed, HandleRequest, HandleExtra, playVars
<1>4. ASSUME NEW w \in Workers, Destructor(w)
      PROVE  \/ video' = video /\ lock' = lock
             \/ ReleasePlayers /\ job' = job /\ \A s \in Surfaces : video[s].thread = "off"
  BY <1>4 DEF Destructor, playVars
<1> QED
  BY <1>1, <1>2, <1>3, <1>4 DEF Agents, HandleStartPlay

\* Every step of the channel keeps the controllers in order.
LEMMA PlayNext ==
    ASSUME PlayInv, [Next]_vars
    PROVE  PlayInv'
<1>1. ASSUME Agents PROVE PlayInv'
  <2>1. role' = role
    BY <1>1, AgentsBegin
  <2>2. CASE video' = video /\ lock' = lock
    <3>1. CASE job' = job
      <4>1. LockOK' /\ RemovingOK'
        BY <2>2, <3>1 DEF PlayInv, LockOK, RemovingOK, At
      <4> QED
        BY <2>1, <2>2, <3>1, <4>1 DEF PlayInv, JobsOK, VideosOK
    <3>2. ASSUME NEW w \in Workers, NEW op, NEW at, Begins(w, op, at) PROVE PlayInv'
      <4>1. JobsOK' /\ Turn(w) /\ job'[w].at = at /\ job[w].at = "none"
        BY <3>2, BeginsJob DEF PlayInv
      <4>2. at \notin {"removing", "stopping"}
        BY <3>2 DEF Begins
      <4> QED
        BY <2>1, <2>2, <4>1, <4>2, PlayStays
    <3> QED
      BY <1>1, <3>1, <3>2, AgentsBegin
  <2>3. CASE ReleasePlayers /\ job' = job /\ \A s \in Surfaces : video[s].thread = "off"
    BY <2>1, <2>3, ReleaseInv
  <2> QED
    BY <1>1, <2>2, <2>3, AgentsPlay DEF PlayInv
<1>2. ASSUME Environment PROVE PlayInv'
  BY <1>2, CodecInv DEF Environment, OnMediaControllerNotify, PlayEnvironment, ChannelUnchanged,
                        OnOutputBufferAvailable, playVars, PlayInv, JobsOK, LockOK, VideosOK, RemovingOK, At
<1>3. ASSUME AudioCaptureStep PROVE PlayInv'
  BY <1>3 DEF AudioCaptureStep, AudioCapture, ChannelUnchanged, playVars, PlayInv, JobsOK, LockOK, VideosOK,
              RemovingOK, At
<1>4. ASSUME NEW w \in Workers, Worker(w) PROVE PlayInv'
  <2>1. CASE PlayStep(w) /\ role' = role
    BY <2>1, PlayStepInv
  <2>2. CASE (CaptureStep(w) \/ StopConsumer(w) \/ CaptureStopped(w)) /\ role' = role /\ UNCHANGED playVars
    <3>1. JobsOK' /\ CaptureMoves(w)
      BY <2>2, CaptureJobs DEF PlayInv
    <3>2. {job[w].at, job'[w].at} \cap {"removing", "stopping"} = {}
      BY <3>1 DEF CaptureMoves, EndSteps
    <3> QED
      BY <2>2, <3>1, <3>2, PlayStays DEF CaptureMoves, playVars
  <2> QED
    BY <1>4, <2>1, <2>2 DEF Worker, ChannelUnchanged, StopConsumer, CaptureStopped
<1>5. ASSUME NEW s \in Surfaces, PlayThreadStep(s) PROVE PlayInv'
  BY <1>5, PlayThreadInv DEF PlayThreadStep, ChannelUnchanged
<1>6. ASSUME UNCHANGED vars PROVE PlayInv'
  BY <1>6 DEF vars, PlayInv, JobsOK, LockOK, VideosOK, RemovingOK, At
<1> QED
  BY <1>1, <1>2, <1>3, <1>4, <1>5, <1>6 DEF Next

\* Nothing plays at first, and nobody does anything.
LEMMA PlayInit == Init => PlayInv
<1> SUFFICES ASSUME Init
             PROVE  PlayInv
  OBVIOUS
<1>1. job = [w \in Workers |-> NoJob] /\ JobOK(NoJob) /\ NoJob.at = "none"
  BY DEF Init, JobOK, NoJob, JobFields
<1>2. JobsOK /\ \A w \in Workers : job[w].at = "none"
  BY <1>1 DEF JobsOK
<1>3. LockOK
  BY <1>2, JobsAssumption DEF Init, InitPlay, LockOK
<1>4. VideosOK
  BY NewSane DEF Init, InitPlay, VideosOK
<1>5. RemovingOK
  BY <1>2 DEF RemovingOK, At
<1> QED
  BY <1>2, <1>3, <1>4, <1>5 DEF Init, PlayInv

\* The controllers are in order in every reachable state.
LEMMA PlayCorrect == Spec => []PlayInv
<1> QED
  BY PlayInit, PlayNext, PTL DEF Spec

\* Whatever appends, removes, starts and stops surfaces at the same time, a thread that plays
\* (VideoPlayThread) and a receiver that reads belong to a controller of videoPlayerMap_: for
\* any surfaces, workers, requests, codecs that die and late stops.
THEOREM PlayersAreListed == Spec => []NoOrphanPlayer
<1>1. PlayInv => NoOrphanPlayer
  BY DEF PlayInv, VideosOK, Sane, NoOrphanPlayer
<1> QED
  BY <1>1, PlayCorrect, PTL

\* A controller goes when it is removed, or with the play controller.
LEMMA WhoErases ==
    ASSUME PlayInv, Next, NEW s \in Surfaces, video[s].listed, ~video'[s].listed
    PROVE  \/ \E w \in Workers : Removed(w, s)
           \/ video[s].thread = "off"
<1>1. Sane(video[s]) /\ video = [r \in Surfaces |-> video[r]]
  BY DEF PlayInv, VideosOK
<1>2. CASE Agents
  BY <1>2, AgentsPlay DEF PlayInv
<1>3. CASE Environment \/ AudioCaptureStep
  BY <1>1, <1>3 DEF Environment, OnMediaControllerNotify, OnError, PlayEnvironment, NotifyFrame, OnInputBufferAvailable,
         OnOutputBufferAvailable, AudioCaptureStep, playVars, Sane, VideoFields
<1>4. ASSUME NEW r \in Surfaces, PlayThreadStep(r) PROVE FALSE
  BY <1>1, <1>4 DEF PlayThreadStep, PlayThread, Loop, ReadFrame, TakeInput, QueueInput, Sane, VideoFields
<1>5. ASSUME NEW w \in Workers, Worker(w) PROVE Removed(w, s)
  <2>1. PlayStep(w)
    BY <1>5 DEF Worker, StopConsumer, CaptureStopped, playVars
  <2>2. ASSUME StartVideo(w) PROVE FALSE
    <3>1. Sane(Started(video[s])) /\ Started(video[s]).listed
      BY <1>1, StartedSane
    <3> QED
      BY <2>2, <3>1 DEF StartVideo, playVars
  <2>3. ASSUME NEW r \in Surfaces, AppendSurface(w, r) PROVE FALSE
    <3>1. video[r].listed => video' = video
      BY <2>3 DEF AppendSurface
    <3>2. \E v : video' = [video EXCEPT ![r] = v] \/ video' = video
      BY <2>3 DEF AppendSurface
    <3> QED
      BY <1>1, <3>1, <3>2
  <2>4. ASSUME NEW r \in Surfaces, RemoveSurface(w, r) \/ StopOne(w, r) \/ JoinOne(w, r) PROVE FALSE
    <3>1. Stopped(video[s]).listed /\ Joined(video[s]).listed
      BY <1>1 DEF Stopped, DecoderStopped, Joined, Sane, VideoFields
    <3>2. \/ video' = [video EXCEPT ![r] = Stopped(video[r])]
          \/ video' = [video EXCEPT ![r] = Joined(video[r])]
          \/ video' = video
      BY <1>1, <2>4 DEF RemoveSurface, StopOne, JoinOne
    <3> QED
      BY <1>1, <3>1, <3>2
  <2>5. ASSUME NEW r \in Surfaces, Removed(w, r) PROVE r = s
    BY <1>1, <2>5 DEF Removed
  <2>6. ~UNCHANGED video
    OBVIOUS
  <2> QED
    BY <2>1, <2>2, <2>3, <2>4, <2>5, <2>6 DEF PlayStep, StartMedia, StartAudio, StopAudio, StopVideo, StopUnlocks, Unplay,
       SetKeyMode, SetVolume, playVars
<1> QED
  BY <1>2, <1>3, <1>4, <1>5 DEF Next

\* A controller is taken from videoPlayerMap_ only when its receiver is detached and its thread
\* has left VideoPlayThread.
JoinedBeforeGone ==
    [][\A s \in Surfaces : video[s].listed /\ ~video'[s].listed =>
          ~video[s].attached /\ video[s].thread \in {"off", "left"}]_vars

\* RemoveSurface waits for the thread with playVideoMutex_ held, and nobody starts the
\* controller again in between; the destructor comes when no thread is left.
THEOREM ControllersGoJoined == Spec => JoinedBeforeGone
<1>1. ASSUME PlayInv, Next, NEW s \in Surfaces, video[s].listed, ~video'[s].listed
      PROVE  ~video[s].attached /\ video[s].thread \in {"off", "left"}
  <2>1. Sane(video[s])
    BY <1>1 DEF PlayInv, VideosOK
  <2>2. CASE video[s].thread = "off"
    BY <2>1, <2>2 DEF Sane
  <2>3. ASSUME NEW w \in Workers, Removed(w, s)
        PROVE  ~video[s].running /\ video[s].thread \in {"off", "left"}
    BY <1>1, <2>3 DEF Removed, Joinable, PlayInv, RemovingOK
  <2> QED
    BY <1>1, <2>1, <2>2, <2>3, WhoErases DEF Sane
<1>2. PlayInv /\ [Next]_vars =>
        [\A s \in Surfaces : video[s].listed /\ ~video'[s].listed =>
            ~video[s].attached /\ video[s].thread \in {"off", "left"}]_vars
  BY <1>1
<1> QED
  BY <1>2, PlayCorrect, PTL DEF Spec, JoinedBeforeGone

-----------------------------------------------------------------------------
(* The capture: its screen, its encoder and its microphone                   *)

\* No worker enters or leaves a step of the capture that the invariant speaks of.
StepsStay == \A w \in Workers : \A step \in {"init", "begin", "ending"} :
                job'[w].at = step <=> job[w].at = step

\* The screen and the devices are as they were.
LEMMA CaptureStays ==
    ASSUME ScreenOK, DevicesOK, StepsStay, screens' = screens, encoder' = encoder,
           capture' = [f \in CaptureFields |-> capture'[f]],
           capture'.init = capture.init, capture'.running = capture.running,
           capture'.screen = capture.screen, capture'.holder = capture.holder,
           mic' = [f \in {"on", "thread"} |-> mic'[f]], mic'.thread # "off" => mic.thread # "off"
    PROVE  ScreenOK' /\ DevicesOK'
<1>1. Ending' <=> Ending
  BY DEF Ending, At, StepsStay
<1>2. \A w \in Workers : /\ At(w, "init")' <=> At(w, "init")
                         /\ At(w, "begin")' <=> At(w, "begin")
                         /\ At(w, "ending")' <=> At(w, "ending")
  BY DEF At, StepsStay
<1>3. ScreenOK'
  BY <1>1, <1>2 DEF ScreenOK
<1>4. DevicesOK'
  BY <1>1 DEF DevicesOK
<1> QED
  BY <1>3, <1>4

\* Nothing of the capture changes while one worker takes a step elsewhere.
LEMMA CaptureAside ==
    ASSUME ScreenOK, DevicesOK, NEW w \in Workers, Turn(w),
           {job[w].at, job'[w].at} \cap {"init", "begin", "ending"} = {},
           capture' = capture, screens' = screens, encoder' = encoder, mic' = mic
    PROVE  ScreenOK' /\ DevicesOK'
<1>1. StepsStay
  BY DEF StepsStay, Turn
<1> QED
  BY <1>1, CaptureStays DEF ScreenOK, DevicesOK

\* PLAYED goes on to InitCapture only when the capture is not initialised.
LEMMA PlayedScreen ==
    ASSUME JobsOK, ScreenOK, DevicesOK, NEW w \in Workers, HandleProsumerPlay(w)
    PROVE  ScreenOK' /\ DevicesOK'
<1>1. At(w, "played") /\ UNCHANGED captureVars
  BY DEF HandleProsumerPlay
<1>2. CASE Finish(w)
  BY <1>1, <1>2, FinishJob, CaptureAside DEF captureVars, At
<1>3. CASE Goto(w, "init") /\ ~capture.init
  <2>1. Turn(w) /\ job'[w].at = "init"
    BY <1>1, <1>3, GotoJob, PlayFollows DEF At
  <2>2. Ending' <=> Ending
    BY <1>1, <2>1 DEF Ending, At, Turn
  <2>3. \A v \in Workers : /\ At(v, "begin")' <=> At(v, "begin")
                           /\ At(v, "ending")' <=> At(v, "ending")
    BY <1>1, <2>1 DEF At, Turn
  <2>4. ScreenOK'
    BY <1>1, <1>3, <2>2, <2>3 DEF ScreenOK, captureVars
  <2>5. DevicesOK'
    BY <1>1, <2>2 DEF DevicesOK, captureVars
  <2> QED
    BY <2>4, <2>5
<1> QED
  BY <1>2, <1>3 DEF HandleProsumerPlay

\* One worker at a time makes or starts the capture.
LEMMA OnePlays ==
    ASSUME JobsOK, PlayedOneByOne, NEW w \in Workers, job[w].at \in {"init", "begin"},
           NEW v \in Workers, v # w
    PROVE  job[v].at \notin {"init", "begin"}
<1>1. \A u \in Workers : job[u].at \in {"init", "begin"} => job[u].op = "PLAYED"
  BY DEF JobsOK, JobOK, PlaySteps, StopSteps, EndSteps
<1> QED
  BY <1>1 DEF PlayedOneByOne

\* InitCapture makes the screen, the only one, when one PLAYED is handled at a time.
LEMMA InitScreen ==
    ASSUME JobsOK, ScreenOK, DevicesOK, PlayedOneByOne, NEW w \in Workers, InitCapture(w)
    PROVE  ScreenOK' /\ DevicesOK'
<1>1. At(w, "init") /\ mic' = mic /\ ~capture.init
  BY DEF InitCapture, ScreenOK
<1>2. ~capture.screen /\ ~capture.running /\ ~Ending /\ \A v \in Workers : ~At(v, "begin")
  BY <1>1 DEF ScreenOK, Ending
<1>3. encoder' = "started" => encoder = "started"
  BY DEF InitCapture, InitEncoder
<1>4. \A v \in Workers : v # w => ~At(v, "init")
  BY <1>1, OnePlays DEF At
<1>5. CASE UNCHANGED <<capture, screens>> /\ Finish(w)
  <2>1. Turn(w) /\ job'[w].at = "none"
    BY <1>5, FinishJob
  <2>2. ~Ending' /\ \A v \in Workers : ~At(v, "begin")' /\ ~At(v, "ending")' /\ ~At(v, "init")'
    BY <1>2, <1>4, <2>1 DEF Ending, At, Turn
  <2>3. ScreenOK'
    BY <1>2, <1>5, <2>2 DEF ScreenOK
  <2>4. DevicesOK'
    BY <1>1, <1>2, <1>3, <1>5 DEF DevicesOK
  <2> QED
    BY <2>3, <2>4
<1>6. CASE encoder' = "ready" /\ InitScreenSource /\ Goto(w, "begin")
  <2>1. Turn(w) /\ job'[w].at = "begin"
    BY <1>1, <1>6, GotoJob, PlayFollows DEF At
  <2>2. At(w, "begin")' /\ ~Ending' /\ \A v \in Workers : ~At(v, "ending")' /\ ~At(v, "init")'
    BY <1>2, <1>4, <2>1 DEF Ending, At, Turn
  <2>3. /\ capture' = [f \in CaptureFields |-> capture'[f]]
        /\ capture'.init = TRUE /\ capture'.screen = TRUE /\ capture'.running = capture.running
    BY <1>6 DEF InitScreenSource, ScreenOK, CaptureFields
  <2>4. screens' = 1
    BY <1>2, <1>6 DEF InitScreenSource, ScreenOK
  <2>6. ScreenOK'
    BY <1>2, <2>2, <2>3, <2>4 DEF ScreenOK
  <2>5. DevicesOK'
    BY <1>1, <1>2, <1>6 DEF DevicesOK
  <2> QED
    BY <2>5, <2>6
<1> QED
  BY <1>5, <1>6 DEF InitCapture

\* StartCapture runs what InitCapture made.
LEMMA StartScreen ==
    ASSUME JobsOK, ScreenOK, DevicesOK, PlayedOneByOne, NEW w \in Workers, StartCapture(w)
    PROVE  ScreenOK' /\ DevicesOK'
<1>1. At(w, "begin") /\ Finish(w) /\ screens' = screens
  BY DEF StartCapture
<1>2. capture.screen /\ capture.init /\ ~capture.running /\ ~Ending
  BY <1>1 DEF ScreenOK
<1>3. capture' = [capture EXCEPT !.running = TRUE] /\ StartEncoder /\ StartAudioCapture
  BY <1>2 DEF StartCapture
<1>4. /\ capture' = [f \in CaptureFields |-> capture'[f]] /\ capture'.running = TRUE
      /\ capture'.screen = capture.screen /\ capture'.init = capture.init
  BY <1>3 DEF ScreenOK, CaptureFields
<1>5. Turn(w) /\ job'[w].at = "none"
  BY <1>1, FinishJob
<1>6. \A v \in Workers : ~At(v, "ending")' /\ ~At(v, "init")'
  BY <1>2, <1>5 DEF At, Turn, Ending, ScreenOK
<1>7. \A v \in Workers : ~At(v, "begin")'
  BY <1>1, <1>5, OnePlays DEF At, Turn
<1>8. ScreenOK'
  BY <1>1, <1>2, <1>4, <1>6, <1>7 DEF ScreenOK
<1>9. DevicesOK'
  BY <1>3, <1>4 DEF DevicesOK, StartAudioCapture
<1> QED
  BY <1>8, <1>9

\* StopCapture takes the lock of a capture that runs, and leaves any other alone.
LEMMA StopScreen ==
    ASSUME JobsOK, ScreenOK, DevicesOK, NEW w \in Workers, StopCapture(w)
    PROVE  ScreenOK' /\ DevicesOK'
<1>1. At(w, "end") /\ screens' = screens /\ encoder' = encoder
  BY DEF StopCapture
<1>2. CASE ~capture.running \/ ~capture.init
  <2>1. Goto(w, "ended") /\ capture' = capture /\ mic' = mic
    BY <1>2 DEF StopCapture
  <2>2. Turn(w) /\ job'[w].at = "ended"
    BY <1>1, <2>1, GotoJob, PlayFollows DEF At
  <2> QED
    BY <1>1, <2>1, <2>2, CaptureAside DEF At
<1>3. CASE capture.running /\ capture.init
  <2>1. /\ Goto(w, "ending") /\ capture' = [capture EXCEPT !.running = FALSE, !.holder = w]
        /\ mic' = [mic EXCEPT !.on = FALSE]
    BY <1>3 DEF StopCapture
  <2>2. /\ capture' = [f \in CaptureFields |-> capture'[f]] /\ capture'.running = FALSE
        /\ capture'.screen = capture.screen /\ capture'.init = capture.init /\ capture'.holder = w
    BY <2>1 DEF ScreenOK, CaptureFields
  <2>3. mic' = [f \in {"on", "thread"} |-> mic'[f]]
    BY <2>1 DEF DevicesOK
  <2>4. Turn(w) /\ job'[w].at = "ending"
    BY <1>1, <2>1, GotoJob, PlayFollows DEF At
  <2>5. At(w, "ending")' /\ Ending'
    BY <2>4 DEF At, Ending
  <2>6. ~Ending /\ \A v \in Workers : ~At(v, "begin") /\ ~At(v, "init") /\ ~At(v, "ending")
    BY <1>3 DEF ScreenOK, Ending
  <2>7. \A v \in Workers : ~At(v, "begin")' /\ ~At(v, "init")' /\ (At(v, "ending")' => v = w)
    BY <2>4, <2>6 DEF At, Turn
  <2>8. ScreenOK'
    BY <1>1, <1>3, <2>2, <2>5, <2>7 DEF ScreenOK
  <2>9. DevicesOK'
    BY <2>3, <2>5 DEF DevicesOK
  <2> QED
    BY <2>8, <2>9
<1> QED
  BY <1>2, <1>3

\* StopAudioVideo destroys the screen, and stops the encoder and the microphone.
LEMMA StoppedScreen ==
    ASSUME JobsOK, ScreenOK, DevicesOK, NEW w \in Workers, StopAudioVideo(w)
    PROVE  ScreenOK' /\ DevicesOK'
<1>1. /\ At(w, "ending") /\ Goto(w, "ended") /\ encoder' = "stopped" /\ StopScreenSourceCapture
      /\ mic' = [mic EXCEPT !.thread = "off"]
  BY DEF StopAudioVideo, StopEncoder
<1>2. capture.screen /\ capture.init /\ ~capture.running /\ capture.holder = w /\ Ending
  BY <1>1 DEF ScreenOK, Ending
<1>3. Turn(w) /\ job'[w].at = "ended"
  BY <1>1, GotoJob, PlayFollows DEF At
<1>4. \A v \in Workers : ~At(v, "begin") /\ ~At(v, "init") /\ (At(v, "ending") => v = w)
  BY <1>2 DEF ScreenOK
<1>5. ~Ending' /\ \A v \in Workers : ~At(v, "begin")' /\ ~At(v, "init")' /\ ~At(v, "ending")'
  BY <1>3, <1>4 DEF Ending, At, Turn
<1>6. /\ capture' = [f \in CaptureFields |-> capture'[f]]
      /\ capture'.init = capture.init /\ capture'.screen = FALSE /\ capture'.running = capture.running
  BY <1>1 DEF StopScreenSourceCapture, ScreenOK, CaptureFields
<1>7. screens' = 0
  BY <1>1, <1>2 DEF StopScreenSourceCapture, ScreenOK
<1>10. ScreenOK'
  BY <1>2, <1>5, <1>6, <1>7 DEF ScreenOK
<1>8. mic' = [f \in {"on", "thread"} |-> mic'[f]] /\ mic'.thread = "off"
  BY <1>1 DEF DevicesOK
<1>9. DevicesOK'
  BY <1>1, <1>8 DEF DevicesOK
<1> QED
  BY <1>9, <1>10

-----------------------------------------------------------------------------
(* The end of the channel                                                    *)

\* The destructor runs only for a channel that was destroyed and that no worker handles.
Alive == /\ \A v \in Workers : job[v].op # "DELETE"
         /\ ~(role = "source" /\ chan.phase = "gone")

\* Neither is so while the channel is registered or a handler of another kind is on its way.
LEMMA NotDeleting ==
    ASSUME DeleteOK,
           \/ chan.phase \notin {"destroyed", "gone"}
           \/ chan.registered
           \/ \E w \in Workers : job[w].op \notin {"none", "DELETE"}
    PROVE  Alive
<1>1. ASSUME NEW v \in Workers, job[v].op = "DELETE" PROVE FALSE
  BY <1>1 DEF DeleteOK
<1>2. ASSUME role = "source", chan.phase = "gone" PROVE FALSE
  BY <1>2 DEF DeleteOK, AllIdle, Idle
<1> QED
  BY <1>1, <1>2 DEF Alive

\* Without the destructor nothing is said of the end.
LEMMA StillAlive ==
    ASSUME \A v \in Workers : job'[v].op # "DELETE", role' = "source" => chan'.phase # "gone",
           chan' = [f \in {"phase", "running", "registered"} |-> chan'[f]]
    PROVE  DeleteOK'
BY DEF DeleteOK

\* A handler that is none of the destructor goes on or returns.
LEMMA AliveGoesOn ==
    ASSUME DeleteOK, NEW w \in Workers, Turn(w), job[w].op \notin {"none", "DELETE"},
           job'[w].op \in {job[w].op, "none"}, role' = role, chan' = chan
    PROVE  DeleteOK'
<1>1. Alive
  BY NotDeleting
<1> QED
  BY <1>1, StillAlive DEF Alive, Turn, DeleteOK

\* A step that changes neither jobs nor the channel nor whether the capture runs.
LEMMA DeleteStays ==
    ASSUME DeleteOK, job' = job, role' = role, chan' = chan, capture'.running = capture.running
    PROVE  DeleteOK'
BY DEF DeleteOK, AllIdle, Idle, At

\* The workers that play do not delete, nor does one that is idle take a step.
LEMMA BusyOps ==
    ASSUME JobsOK, NEW w \in Workers
    PROVE  /\ job[w].at \in PlaySteps \cup (StopSteps \ EndSteps) \cup {"played", "init", "begin", "stopped"} =>
                 job[w].op \notin {"none", "DELETE"}
           /\ job[w].at \in EndSteps => job[w].op \in {"STOP", "DESTROY", "DELETE"}
           /\ job[w].at \in PlaySteps => job[w].op \in {"APPEND", "REMOVE", "PLAY", "EXTRA"}
BY DEF JobsOK, JobOK, PlaySteps, StopSteps, EndSteps

\* Phase changes the phase only.
LEMMA PhaseIs ==
    ASSUME DeleteOK, NEW p, Phase(p)
    PROVE  /\ chan' = [f \in {"phase", "running", "registered"} |-> chan'[f]]
           /\ chan'.phase = p /\ chan'.registered = chan.registered
BY DEF DeleteOK, Phase

\* The jobs of the agents: none of them begins while the destructor works or after it.
LEMMA AgentsDelete ==
    ASSUME CaptureInv, Agents
    PROVE  DeleteOK'
<1> USE DEF CaptureInv
<1>1. ASSUME SessionStep PROVE DeleteOK'
  BY <1>1, DeleteStays DEF SessionStep, DeviceVars, UpdateMediaStatus, HandleProsumerInit, HandleProsumerInitState
<1>2. ASSUME HandleCreateConsumer PROVE DeleteOK'
  <2>1. chan.phase = "new" /\ Phase("created") /\ job' = job
    BY <1>2 DEF HandleCreateConsumer, CreateConsumer
  <2> QED
    BY <2>1, NotDeleting, PhaseIs, StillAlive DEF Alive
<1>3. ASSUME HandleStartConsumer PROVE DeleteOK'
  <2>1. chan.phase = "created" /\ job' = job
    BY <1>3 DEF HandleStartConsumer
  <2>2. chan' = [f \in {"phase", "running", "registered"} |-> chan'[f]] /\ chan'.phase = "started"
    BY <1>3 DEF HandleStartConsumer, Phase, DeleteOK
  <2> QED
    BY <2>1, <2>2, NotDeleting, StillAlive DEF Alive
<1>4. ASSUME HandlePauseConsumer PROVE DeleteOK'
  <2>1. capture'.running = capture.running
    BY <1>4 DEF HandlePauseConsumer, ScreenOK, CaptureFields
  <2> QED
    BY <1>4, <2>1, DeleteStays DEF HandlePauseConsumer
<1>5. ASSUME HandleMediaChannelDestroy PROVE DeleteOK'
  <2>1. chan.registered /\ chan.phase = "destroyed" /\ job' = job
    BY <1>5 DEF HandleMediaChannelDestroy
  <2>2. chan' = [f \in {"phase", "running", "registered"} |-> chan'[f]] /\ chan'.phase = chan.phase
    BY <1>5 DEF HandleMediaChannelDestroy, DeleteOK
  <2> QED
    BY <2>1, <2>2, NotDeleting, StillAlive DEF Alive
<1>6. ASSUME NEW p \in Producers,
             HandleCreateProducer(p) \/ HandleStartProducer(p) \/ HandleStopProducer(p)
             \/ HandleDestroyProducer(p) \/ OnProducerDestroyed(p)
      PROVE  DeleteOK'
  <2>1. job' = job /\ chan' = chan /\ role' = role /\ capture' = capture
    BY <1>6 DEF HandleCreateProducer, HandleStartProducer, HandleStopProducer, HandleDestroyProducer,
                OnProducerDestroyed, CreateProducer, Produce, captureVars
  <2> QED
    BY <2>1, DeleteStays
<1>7. ASSUME NEW w \in Workers, NEW op \in {"STOP", "DESTROY", "PLAYED", "APPEND", "REMOVE", "PLAY", "EXTRA"}, NEW at,
             Begins(w, op, at), chan' = [f \in {"phase", "running", "registered"} |-> chan'[f]],
             role = "source" => chan'.phase # "gone", role' = role,
             chan.phase \notin {"destroyed", "gone"} \/ chan.registered
      PROVE  DeleteOK'
  <2>1. Turn(w) /\ job'[w].op = op
    BY <1>7, BeginsJob
  <2>2. Alive
    BY <1>7, NotDeleting
  <2> QED
    BY <1>7, <2>1, <2>2, StillAlive DEF Alive, Turn
<1>8. ASSUME NEW w \in Workers, HandleStopConsumer(w) PROVE DeleteOK'
  <2>1. Begins(w, "STOP", "stop") /\ Phase("stopping") /\ chan.phase = "started" /\ role' = role
    BY <1>8 DEF HandleStopConsumer, Begins
  <2> QED
    BY <1>7, <2>1, PhaseIs
<1>9. ASSUME NEW w \in Workers, HandleDestroyConsumer(w) PROVE DeleteOK'
  <2>1. chan.phase = "stopped" /\ (Phase("destroying") \/ Phase("destroyed"))
        /\ (job' = job \/ Begins(w, "DESTROY", "end")) /\ role' = role
    BY <1>9 DEF HandleDestroyConsumer, Begins
  <2>2. chan' = [f \in {"phase", "running", "registered"} |-> chan'[f]] /\ chan'.phase # "gone"
    BY <2>1, PhaseIs
  <2>3. CASE job' = job
    BY <2>1, <2>2, <2>3, NotDeleting, StillAlive DEF Alive
  <2> QED
    BY <1>7, <2>1, <2>2, <2>3
<1>10. ASSUME NEW w \in Workers, NEW op, NEW s, NEW step,
              \/ HandlePlayed(w)
              \/ op \in {"APPEND", "REMOVE", "PLAY"} /\ HandleRequest(w, op, s)
              \/ step \in {"key", "volume"} /\ HandleExtra(w, step)
       PROVE  DeleteOK'
  <2>1. /\ chan.phase \notin {"destroyed", "gone"} \/ chan.registered
        /\ chan' = chan
    BY <1>10 DEF HandlePlayed, HandleRequest, HandleExtra
  <2>2. \E o \in {"PLAYED", "APPEND", "REMOVE", "PLAY", "EXTRA"} : \E at : Begins(w, o, at)
    BY <1>10 DEF HandlePlayed, HandleRequest, HandleExtra, Begins, FirstStep
  <2>3. role' = role
    BY <1>10 DEF HandlePlayed, HandleRequest, HandleExtra
  <2>4. role = "source" => chan.phase # "gone"
    BY <2>1, NotDeleting DEF Alive
  <2> QED
    BY <1>7, <2>1, <2>2, <2>3, <2>4 DEF DeleteOK
<1>11. ASSUME NEW w \in Workers, Destructor(w) PROVE DeleteOK'
  <2>1. chan.phase = "destroyed" /\ ~chan.registered /\ AllIdle /\ role' = role /\ capture' = capture
    BY <1>11 DEF Destructor, captureVars
  <2>2. \A v \in Workers : job[v].op = "none"
    BY <2>1 DEF AllIdle, Idle
  <2>3. CASE chan' = chan /\ Begins(w, "DELETE", "end")
    <3>1. Turn(w) /\ job'[w].op = "DELETE" /\ job'[w].at = "end"
      BY <2>3, BeginsJob
    <3> QED
      BY <2>1, <2>2, <2>3, <3>1 DEF DeleteOK, Turn, At
  <2>4. CASE job' = job /\ (Phase("terminated") \/ (role # "source" /\ Phase("gone")))
    BY <2>1, <2>2, <2>4, PhaseIs, StillAlive
  <2>5. \/ chan' = chan /\ Begins(w, "DELETE", "end")
        \/ job' = job /\ (Phase("terminated") \/ (role # "source" /\ Phase("gone")))
    BY <1>11 DEF Destructor, Begins, AllIdle
  <2> QED
    BY <2>3, <2>4, <2>5
<1> QED
  BY <1>1, <1>2, <1>3, <1>4, <1>5, <1>6, <1>8, <1>9, <1>10, <1>11 DEF Agents, HandleStartPlay

\* StopCapture, StopAudioVideo and what follows them end the channel for the destructor only.
LEMMA EndDelete ==
    ASSUME CaptureInv, NEW w \in Workers, StopCapture(w) \/ StopAudioVideo(w), role' = role, chan' = chan
    PROVE  DeleteOK'
<1>1. job[w].at \in {"end", "ending"} /\ JobsOK' /\ Turn(w) /\ job'[w].op \in {job[w].op, "none"}
  BY CaptureJobs DEF CaptureInv, CaptureMoves, CaptureStep, StopCapture, StopAudioVideo, At
<1>2. job[w].op \in {"STOP", "DESTROY", "DELETE"}
  BY <1>1, BusyOps DEF CaptureInv, EndSteps
<1>3. CASE job[w].op # "DELETE"
  BY <1>1, <1>2, <1>3, AliveGoesOn DEF CaptureInv
<1>4. CASE job[w].op = "DELETE"
  <2>1. /\ chan.phase = "destroyed" /\ ~chan.registered
        /\ \A v \in Workers \ {w} : job[v].op = "none"
    BY <1>4 DEF CaptureInv, DeleteOK
  <2>2. ~capture'.running
    <3>1. CASE StopCapture(w)
      BY <3>1 DEF StopCapture, CaptureInv, ScreenOK, CaptureFields
    <3>2. CASE StopAudioVideo(w)
      BY <3>2 DEF StopAudioVideo, StopScreenSourceCapture, CaptureInv, ScreenOK, CaptureFields, At
    <3> QED
      BY <3>1, <3>2
  <2> QED
    BY <1>1, <2>1, <2>2 DEF DeleteOK, CaptureInv, Turn
<1> QED
  BY <1>3, <1>4

\* CaptureStopped tells the phase; the channel is gone when the destructor is through.
LEMMA StoppedDelete ==
    ASSUME CaptureInv, NEW w \in Workers, CaptureStopped(w)
    PROVE  DeleteOK'
<1>1. /\ At(w, "ended") /\ Finish(w) /\ role' = role /\ capture' = capture
      /\ Phase(CASE job[w].op = "STOP" -> "stopped" [] job[w].op = "DESTROY" -> "destroyed"
                 [] job[w].op = "DELETE" -> "gone")
  BY DEF CaptureStopped, captureVars
<1>2. job[w].op \in {"STOP", "DESTROY", "DELETE"}
  BY <1>1, BusyOps DEF CaptureInv, At, EndSteps
<1>3. JobsOK' /\ Turn(w) /\ job'[w].op = "none"
  BY <1>1, FinishJob DEF CaptureInv
<1>4. CASE job[w].op = "DELETE"
  <2>1. /\ ~chan.registered /\ ~capture.running
        /\ \A v \in Workers \ {w} : job[v].op = "none"
    BY <1>1, <1>4 DEF CaptureInv, DeleteOK
  <2>2. AllIdle'
    BY <1>3, <2>1 DEF AllIdle, Idle, Turn
  <2>3. \A v \in Workers : job'[v].op # "DELETE"
    BY <2>2 DEF AllIdle, Idle
  <2>4. /\ chan' = [f \in {"phase", "running", "registered"} |-> chan'[f]]
        /\ chan'.registered = chan.registered
    BY <1>1, PhaseIs DEF CaptureInv
  <2> QED
    BY <1>1, <2>1, <2>2, <2>3, <2>4 DEF DeleteOK
<1>5. CASE job[w].op # "DELETE"
  <2>1. Phase("stopped") \/ Phase("destroyed")
    BY <1>1, <1>2, <1>5
  <2>2. /\ chan' = [f \in {"phase", "running", "registered"} |-> chan'[f]]
        /\ chan'.phase # "gone"
    BY <2>1, PhaseIs DEF CaptureInv
  <2>3. Alive
    BY <1>2, <1>5, NotDeleting DEF CaptureInv
  <2> QED
    BY <1>3, <2>2, <2>3, StillAlive DEF Alive, Turn
<1> QED
  BY <1>4, <1>5

\* Every step of a worker.
LEMMA WorkerCapture ==
    ASSUME CaptureInv, PlayedOneByOne, NEW w \in Workers, Worker(w)
    PROVE  CaptureInv'
<1> USE DEF CaptureInv
<1>1. CASE PlayStep(w) /\ ChannelUnchanged /\ UNCHANGED captureVars
  <2>1. JobsOK' /\ PlayMoves(w)
    BY <1>1, PlayJobs
  <2>2. {job[w].at, job'[w].at} \cap {"init", "begin", "ending"} = {}
    BY <2>1 DEF PlayMoves, PlaySteps, StopSteps, EndSteps
  <2>3. ScreenOK' /\ DevicesOK'
    BY <1>1, <2>1, <2>2, CaptureAside DEF PlayMoves, captureVars
  <2>4. DeleteOK'
    BY <1>1, <2>1, BusyOps, AliveGoesOn DEF PlayMoves, ChannelUnchanged
  <2> QED
    BY <1>1, <2>1, <2>3, <2>4 DEF ChannelUnchanged
<1>2. CASE CaptureStep(w) /\ ChannelUnchanged
  <2>1. JobsOK' /\ CaptureMoves(w)
    BY <1>2, CaptureJobs
  <2>2. ScreenOK' /\ DevicesOK'
    BY <1>2, PlayedScreen, InitScreen, StartScreen, StopScreen, StoppedScreen DEF CaptureStep
  <2>6. role' = role /\ chan' = chan
    BY <1>2 DEF ChannelUnchanged
  <2>7. Turn(w) /\ job'[w].op \in {job[w].op, "none"}
    BY <2>1 DEF CaptureMoves
  <2>3. ASSUME HandleProsumerPlay(w) \/ InitCapture(w) \/ StartCapture(w) PROVE DeleteOK'
    <3>1. job[w].op \notin {"none", "DELETE"}
      BY <2>3, BusyOps DEF HandleProsumerPlay, InitCapture, StartCapture, At
    <3> QED
      BY <2>6, <2>7, <3>1, AliveGoesOn
  <2>4. ASSUME StopCapture(w) \/ StopAudioVideo(w) PROVE DeleteOK'
    BY <2>4, <2>6, EndDelete
  <2>5. DeleteOK'
    BY <1>2, <2>3, <2>4 DEF CaptureStep
  <2> QED
    BY <1>2, <2>1, <2>2, <2>5 DEF ChannelUnchanged
<1>3. CASE StopConsumer(w) \/ CaptureStopped(w)
  <2>1. JobsOK' /\ CaptureMoves(w)
    BY <1>3, CaptureJobs
  <2>2. UNCHANGED captureVars /\ role' = role /\ job[w].at \in {"stopped", "ended"}
    BY <1>3 DEF StopConsumer, CaptureStopped, At
  <2>3. job'[w].at \notin {"init", "begin", "ending"}
    BY <1>3, FinishJob, GotoJob, PlayFollows DEF StopConsumer, CaptureStopped, At
  <2>4. ScreenOK' /\ DevicesOK'
    BY <2>1, <2>2, <2>3, CaptureAside DEF CaptureMoves, captureVars
  <2>5. ASSUME StopConsumer(w) PROVE DeleteOK'
    <3>1. job[w].op \notin {"none", "DELETE"}
      BY <2>5, BusyOps DEF StopConsumer, At
    <3>2. /\ chan' = [f \in {"phase", "running", "registered"} |-> chan'[f]]
          /\ chan' = chan \/ chan'.phase = "stopped"
      BY <2>5 DEF StopConsumer, DeleteOK
    <3>3. Alive
      BY <3>1, NotDeleting
    <3>4. Turn(w) /\ job'[w].op \in {job[w].op, "none"}
      BY <2>1 DEF CaptureMoves
    <3>5. \A v \in Workers : job'[v].op # "DELETE"
      BY <3>1, <3>3, <3>4 DEF Alive, Turn
    <3>6. role' = "source" => chan'.phase # "gone"
      BY <2>2, <3>2, <3>3 DEF Alive
    <3> QED
      BY <3>2, <3>5, <3>6, StillAlive
  <2>6. DeleteOK'
    BY <1>3, <2>5, StoppedDelete
  <2> QED
    BY <2>1, <2>2, <2>4, <2>6
<1> QED
  BY <1>1, <1>2, <1>3 DEF Worker

\* Every step of an agent.
LEMMA AgentsCapture ==
    ASSUME CaptureInv, Agents
    PROVE  CaptureInv'
<1> USE DEF CaptureInv
<1>1. role' = role
  BY AgentsBegin
<1>2. /\ screens' = screens /\ encoder' = encoder /\ mic' = mic
      /\ capture' = capture \/ capture' = [capture EXCEPT !.paused = ~capture.paused]
  <2>1. ASSUME SessionStep \/ HandleCreateConsumer \/ HandleStartConsumer \/ HandlePauseConsumer
               \/ HandleMediaChannelDestroy
        PROVE  /\ screens' = screens /\ encoder' = encoder /\ mic' = mic
               /\ capture' = capture \/ capture' = [capture EXCEPT !.paused = ~capture.paused]
    BY <2>1 DEF SessionStep, HandleCreateConsumer, HandleStartConsumer, HandlePauseConsumer, DeviceVars,
       HandleMediaChannelDestroy, captureVars, UpdateMediaStatus, HandleProsumerInit, HandleProsumerInitState
  <2>2. ASSUME NEW p \in Producers,
               HandleCreateProducer(p) \/ HandleStartProducer(p) \/ HandleStopProducer(p)
               \/ HandleDestroyProducer(p) \/ OnProducerDestroyed(p)
        PROVE  UNCHANGED captureVars
    BY <2>2 DEF HandleCreateProducer, HandleStartProducer, HandleStopProducer, HandleDestroyProducer,
                OnProducerDestroyed, CreateProducer, Produce
  <2>3. ASSUME NEW w \in Workers, NEW s, NEW op, NEW step,
               \/ HandleStopConsumer(w) \/ HandleDestroyConsumer(w) \/ HandlePlayed(w) \/ Destructor(w)
               \/ HandleRequest(w, op, s) \/ HandleExtra(w, step)
        PROVE  UNCHANGED captureVars
    BY <2>3 DEF HandleStopConsumer, HandleDestroyConsumer, HandlePlayed, HandleRequest, HandleExtra, Destructor
  <2> QED
    BY <2>1, <2>2, <2>3 DEF Agents, HandleStartPlay, captureVars
<1>3. /\ capture' = [f \in CaptureFields |-> capture'[f]]
      /\ capture'.init = capture.init /\ capture'.running = capture.running
      /\ capture'.screen = capture.screen /\ capture'.holder = capture.holder
  BY <1>2 DEF ScreenOK, CaptureFields
<1>4. JobsOK' /\ StepsStay
  <2>1. CASE job' = job
    BY <2>1 DEF JobsOK, StepsStay
  <2>2. ASSUME NEW w \in Workers, NEW op, NEW at, Begins(w, op, at) PROVE JobsOK' /\ StepsStay
    <3>1. JobsOK' /\ Turn(w) /\ job'[w].at = at /\ job[w].at = "none"
      BY <2>2, BeginsJob
    <3>2. at \notin {"init", "begin", "ending"}
      BY <2>2 DEF Begins
    <3> QED
      BY <3>1, <3>2 DEF StepsStay, Turn
  <2> QED
    BY <2>1, <2>2, AgentsBegin
<1>5. ScreenOK' /\ DevicesOK'
  BY <1>2, <1>3, <1>4, CaptureStays DEF DevicesOK
<1> QED
  BY <1>1, <1>4, <1>5, AgentsDelete

\* Every step, as long as one PLAYED is handled at a time.
LEMMA CaptureNext ==
    ASSUME CaptureInv, PlayedOneByOne, [Next]_vars
    PROVE  CaptureInv'
<1>1. ASSUME UNCHANGED <<role, chan, job, capture, screens, encoder>>,
             mic' = [f \in {"on", "thread"} |-> mic'[f]], mic'.thread # "off" => mic.thread # "off"
      PROVE  CaptureInv'
  <2>1. StepsStay /\ JobsOK'
    BY <1>1 DEF StepsStay, JobsOK, CaptureInv
  <2>2. ScreenOK' /\ DevicesOK'
    BY <1>1, <2>1, CaptureStays DEF CaptureInv, ScreenOK
  <2> QED
    BY <1>1, <2>1, <2>2, DeleteStays DEF CaptureInv
<1>2. CASE Environment
  <2>1. UNCHANGED <<role, chan, job, capture, screens, encoder, mic>>
    BY <1>2 DEF Environment, OnMediaControllerNotify, OnError, PlayEnvironment, NotifyFrame, OnInputBufferAvailable,
                ChannelUnchanged, OnOutputBufferAvailable, captureVars
  <2> QED
    BY <1>1, <2>1 DEF CaptureInv, DevicesOK
<1>3. CASE AudioCaptureStep
  <2>1. /\ UNCHANGED <<role, chan, job, capture, screens, encoder>>
        /\ mic.thread = "reading" /\ mic' = [mic EXCEPT !.thread = "left"]
    BY <1>3 DEF AudioCaptureStep, AudioCapture, ChannelUnchanged
  <2> QED
    BY <1>1, <2>1 DEF CaptureInv, DevicesOK
<1>4. CASE \E s \in Surfaces : PlayThreadStep(s)
  <2>1. UNCHANGED <<role, chan, job, capture, screens, encoder, mic>>
    BY <1>4 DEF PlayThreadStep, PlayThread, Loop, ReadFrame, TakeInput, QueueInput, ChannelUnchanged, captureVars
  <2> QED
    BY <1>1, <2>1 DEF CaptureInv, DevicesOK
<1>5. CASE UNCHANGED vars
  BY <1>1, <1>5 DEF vars, CaptureInv, DevicesOK
<1> QED
  BY <1>2, <1>3, <1>4, <1>5, WorkerCapture, AgentsCapture DEF Next

\* Nothing is captured at first.
LEMMA CaptureInit == Init => CaptureInv
<1> SUFFICES ASSUME Init
             PROVE  CaptureInv
  OBVIOUS
<1>1. JobsOK
  BY PlayInit DEF PlayInv
<1>2. \A w \in Workers : job[w].op = "none" /\ job[w].at = "none"
  BY DEF Init, NoJob
<1>3. ScreenOK
  BY <1>2 DEF Init, InitCaptureState, ScreenOK, CaptureFields, At
<1>4. DevicesOK
  BY DEF Init, InitCaptureState, DevicesOK
<1>5. DeleteOK
  BY <1>2 DEF Init, DeleteOK
<1> QED
  BY <1>1, <1>3, <1>4, <1>5 DEF Init, CaptureInv

\* When the channel of a capture is gone, whatever came before, between and after STOP and
\* DESTROY, its virtual screen is destroyed, its encoder does not run and its audio thread is
\* joined: provided that the next PLAYED is only told when the last one was handled.
THEOREM NothingOfACapture == Spec /\ []PlayedOneByOne => []CaptureEnds
<1>1. CaptureInv => CaptureEnds
  <2> SUFFICES ASSUME CaptureInv, role = "source", chan.phase = "gone"
               PROVE  screens = 0 /\ encoder # "started" /\ mic.thread = "off"
    BY DEF CaptureEnds
  <2>1. AllIdle /\ ~capture.running
    BY DEF CaptureInv, DeleteOK
  <2>2. \A w \in Workers : job[w].at = "none"
    BY <2>1 DEF AllIdle, Idle, CaptureInv, JobsOK, JobOK
  <2>3. ~Ending /\ \A w \in Workers : ~At(w, "begin")
    BY <2>2 DEF Ending, At
  <2> QED
    BY <2>1, <2>3 DEF CaptureInv, ScreenOK, DevicesOK
<1>2. CaptureInv /\ PlayedOneByOne /\ [Next]_vars => CaptureInv'
  BY CaptureNext
<1> QED
  BY <1>1, <1>2, CaptureInit, PTL DEF Spec

-----------------------------------------------------------------------------
(* A session that tells PLAYED once                                          *)

\* How often PLAYED was told bounds the workers that handle it.
ToldOnce == /\ asked = [f \in {"requests", "extras", "played"} |-> asked[f]]
            /\ asked.played \in Nat
            /\ asked.played = 0 => \A w \in Workers : job[w].op # "PLAYED"
            /\ PlayedOneByOne

\* Steps that tell no PLAYED.
LEMMA NoneTold ==
    ASSUME ToldOnce, asked' = [f \in {"requests", "extras", "played"} |-> asked'[f]],
           asked'.played = asked.played,
           \A w \in Workers : job'[w].op = "PLAYED" => job[w].op = "PLAYED"
    PROVE  ToldOnce'
BY DEF ToldOnce, PlayedOneByOne

\* One worker takes a step that begins no job.
LEMMA WorkerTells ==
    ASSUME ToldOnce, asked' = asked, NEW w \in Workers, Turn(w), job'[w].op \in {job[w].op, "none"}
    PROVE  ToldOnce'
<1>1. \A v \in Workers : job'[v].op = "PLAYED" => job[v].op = "PLAYED"
  BY DEF Turn
<1> QED
  BY <1>1, NoneTold DEF ToldOnce

\* The agents: HandlePlayed tells it once more, within the bound.
LEMMA AgentsTell ==
    ASSUME JobsOK, ToldOnce, MaxPlayed <= 1, Agents
    PROVE  ToldOnce'
<1>1. ASSUME SessionStep \/ HandleCreateConsumer \/ HandleStartConsumer \/ HandlePauseConsumer
             \/ HandleMediaChannelDestroy
      PROVE  job' = job /\ asked' = asked
  BY <1>1 DEF SessionStep, HandleCreateConsumer, HandleStartConsumer, HandlePauseConsumer,
              HandleMediaChannelDestroy
<1>2. ASSUME NEW p \in Producers,
             HandleCreateProducer(p) \/ HandleStartProducer(p) \/ HandleStopProducer(p)
             \/ HandleDestroyProducer(p) \/ OnProducerDestroyed(p)
      PROVE  job' = job /\ asked' = asked
  BY <1>2 DEF HandleCreateProducer, HandleStartProducer, HandleStopProducer, HandleDestroyProducer,
              OnProducerDestroyed, CreateProducer, Produce
<1>3. ASSUME job' = job, asked' = asked PROVE ToldOnce'
  BY <1>3, NoneTold DEF ToldOnce
<1>4. ASSUME NEW w \in Workers, NEW op \in {"STOP", "DESTROY", "DELETE", "APPEND", "REMOVE", "PLAY", "EXTRA"}, NEW at,
             Begins(w, op, at), asked' = [f \in {"requests", "extras", "played"} |-> asked'[f]],
             asked'.played = asked.played
      PROVE  ToldOnce'
  <2>1. Turn(w) /\ job'[w].op = op
    BY <1>4, BeginsJob
  <2>2. \A v \in Workers : job'[v].op = "PLAYED" => job[v].op = "PLAYED"
    BY <2>1 DEF Turn
  <2> QED
    BY <1>4, <2>2, NoneTold
<1>5. ASSUME NEW w \in Workers, HandleStopConsumer(w) \/ HandleDestroyConsumer(w) \/ Destructor(w)
      PROVE  ToldOnce'
  <2>1. /\ asked' = asked
        /\ \/ job' = job
           \/ Begins(w, "STOP", "stop") \/ Begins(w, "DESTROY", "end") \/ Begins(w, "DELETE", "end")
    BY <1>5 DEF HandleStopConsumer, HandleDestroyConsumer, Destructor, Begins, AllIdle
  <2> QED
    BY <1>3, <1>4, <2>1 DEF ToldOnce
<1>6. ASSUME NEW w \in Workers, NEW op, NEW s, NEW step,
             \/ op \in {"APPEND", "REMOVE", "PLAY"} /\ HandleRequest(w, op, s)
             \/ step \in {"key", "volume"} /\ HandleExtra(w, step)
      PROVE  ToldOnce'
  <2>1. /\ asked' = [f \in {"requests", "extras", "played"} |-> asked'[f]]
        /\ asked'.played = asked.played
    BY <1>6 DEF HandleRequest, HandleExtra, ToldOnce
  <2>2. \E o \in {"APPEND", "REMOVE", "PLAY", "EXTRA"} : \E at : Begins(w, o, at)
    BY <1>6 DEF HandleRequest, HandleExtra, Begins, FirstStep
  <2> QED
    BY <1>4, <2>1, <2>2
<1>7. ASSUME NEW w \in Workers, HandlePlayed(w) PROVE ToldOnce'
  <2>1. Begins(w, "PLAYED", "played") /\ asked.played < MaxPlayed
    BY <1>7 DEF HandlePlayed, Begins
  <2>2. asked' = [f \in {"requests", "extras", "played"} |-> asked'[f]] /\ asked'.played = asked.played + 1
    BY <1>7 DEF HandlePlayed, ToldOnce
  <2>3. asked.played = 0
    BY <2>1, ChannelAssumption DEF ToldOnce
  <2>4. Turn(w)
    BY <2>1, BeginsJob
  <2>5. \A v \in Workers : job'[v].op = "PLAYED" => v = w
    BY <2>3, <2>4 DEF ToldOnce, Turn
  <2> QED
    BY <2>2, <2>3, <2>5 DEF ToldOnce, PlayedOneByOne
<1> QED
  BY <1>1, <1>2, <1>3, <1>5, <1>6, <1>7 DEF Agents, HandleStartPlay

\* Every step tells PLAYED at most once in all.
LEMMA ToldNext ==
    ASSUME JobsOK, ToldOnce, MaxPlayed <= 1, [Next]_vars
    PROVE  ToldOnce'
<1>1. ASSUME job' = job, asked' = asked PROVE ToldOnce'
  BY <1>1, NoneTold DEF ToldOnce
<1>2. CASE Environment
  <2>1. job' = job /\ asked' = [f \in {"requests", "extras", "played"} |-> asked'[f]]
        /\ asked'.played = asked.played
    BY <1>2 DEF Environment, OnMediaControllerNotify, OnError, PlayEnvironment, NotifyFrame, OnInputBufferAvailable,
                ChannelUnchanged, OnOutputBufferAvailable, ToldOnce
  <2> QED
    BY <2>1, NoneTold
<1>3. CASE AudioCaptureStep
  BY <1>1, <1>3 DEF AudioCaptureStep, AudioCapture, ChannelUnchanged
<1>4. CASE \E s \in Surfaces : PlayThreadStep(s)
  BY <1>1, <1>4 DEF PlayThreadStep, PlayThread, Loop, ReadFrame, TakeInput, QueueInput, ChannelUnchanged
<1>5. ASSUME NEW w \in Workers, Worker(w) PROVE ToldOnce'
  <2>1. asked' = asked
    BY <1>5 DEF Worker, ChannelUnchanged, StopConsumer, CaptureStopped
  <2>2. Turn(w) /\ job'[w].op \in {job[w].op, "none"}
    BY <1>5, PlayJobs, CaptureJobs DEF Worker, PlayMoves, CaptureMoves
  <2> QED
    BY <2>1, <2>2, WorkerTells
<1>6. CASE UNCHANGED vars
  BY <1>1, <1>6 DEF vars
<1> QED
  BY <1>2, <1>3, <1>4, <1>5, <1>6, AgentsTell DEF Next

\* A source session that tells PLAYED once leaves nothing of the capture behind.
THEOREM CaptureOfOnePlayed ==
    ASSUME MaxPlayed <= 1
    PROVE  Spec => []CaptureEnds
<1>1. Init => ToldOnce
  BY DEF Init, ToldOnce, PlayedOneByOne, NoJob
<1>2. PlayInv /\ ToldOnce /\ [Next]_vars => ToldOnce'
  BY ToldNext DEF PlayInv
<1>3. Spec => []ToldOnce
  BY <1>1, <1>2, PlayCorrect, PTL DEF Spec
<1>4. ToldOnce => PlayedOneByOne
  BY DEF ToldOnce
<1> QED
  BY <1>3, <1>4, NothingOfACapture, PTL
=============================================================================
