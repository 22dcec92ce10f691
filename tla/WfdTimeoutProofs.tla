--------------------------- MODULE WfdTimeoutProofs ---------------------------
(***************************************************************************)
(* The timeout of the exchange, in two parts: the timer itself, which both *)
(* sessions own, calls back only for a start that is pending; and in the   *)
(* exchange a request that waits for its response has its timer running.   *)
(***************************************************************************)
EXTENDS WfdRtspProofs, TimeoutTimer

-----------------------------------------------------------------------------
(* The timer, for any number of calls *)

\* The loop only ever stands at one of its points, with one of the five states of state_.
THEOREM TypeCorrect == TimerSpec => []TimerTypeOK
<1> USE DEF TimerTypeOK, States, Pcs
<1>1. TimerInit => TimerTypeOK
  <2> SUFFICES ASSUME TimerInit
               PROVE  TimerTypeOK
    OBVIOUS
  <2>1. ops \in 0..MaxOps
    BY TimerAssumption DEF TimerAssumption, TimerInit
  <2> QED
    BY <2>1, Zenon DEF TimerInit
<1>2. TimerTypeOK /\ [TimerNext]_timerVars => TimerTypeOK'
  <2> SUFFICES ASSUME TimerTypeOK, [TimerNext]_timerVars
               PROVE  TimerTypeOK'
    OBVIOUS
  <2> USE DEF NotifyTask, NotifyCancel
  <2>1. CASE UNCHANGED timerVars
    BY <2>1 DEF timerVars
  <2>2. ASSUME NEW withCallback \in BOOLEAN, NEW again \in {FALSE, AllowReuse},
               StartTimer(withCallback, again)
        PROVE  TimerTypeOK'
    <3>1. ops' \in 0..MaxOps
      BY <2>2, TimerAssumption DEF TimerAssumption, StartTimer, ClientMay
    <3>2. state' \in States /\ pc' \in Pcs
      BY <2>2 DEF StartTimer
    <3>3. reuse' \in BOOLEAN /\ callback' \in BOOLEAN /\ quiet' \in BOOLEAN /\ armed' \in BOOLEAN
      BY <2>2, TimerAssumption, Zenon DEF TimerAssumption, StartTimer
    <3> QED
      BY <3>1, <3>2, <3>3
  <2>3. CASE StopTimer
    <3>1. ops' \in 0..MaxOps
      BY <2>3, TimerAssumption DEF TimerAssumption, StopTimer, ClientMay
    <3>2. state' \in States /\ pc' \in Pcs
      BY <2>3 DEF StopTimer
    <3>3. reuse' \in BOOLEAN /\ callback' \in BOOLEAN /\ quiet' \in BOOLEAN /\ armed' \in BOOLEAN
      BY <2>3, Zenon DEF StopTimer
    <3> QED
      BY <3>1, <3>2, <3>3
  <2>4. CASE SetTimeoutCallback
    BY <2>4 DEF SetTimeoutCallback
  <2>5. CASE Destroy
    BY <2>5 DEF Destroy
  <2>6. CASE MainLoop
    BY <2>6 DEF MainLoop, LoopTop, TaskSignalled, Expire, CancelSignalled, CallbackReturns
  <2>7. CASE SpuriousWakeup
    BY <2>7 DEF SpuriousWakeup
  <2>8. CASE Terminated
    BY <2>8 DEF Terminated, timerVars
  <2> QED
    BY <2>1, <2>2, <2>3, <2>4, <2>5, <2>6, <2>7, <2>8 DEF TimerNext, Client
<1> QED
  BY <1>1, <1>2, PTL DEF TimerSpec

-----------------------------------------------------------------------------
(* NoFireAfterDestroy is not inductive: that the thread is in the callback *)
(* only while state_ is WORKING (the client cannot get through) is what    *)
(* keeps it.                                                               *)

\* The callback runs with taskMutex_ held, so state_ cannot leave WORKING under it.
CallbackWorks == pc = "inCallback" => state = "WORKING"

\* The thread enters, and stays in, the callback only while state_ is WORKING: a client
\* that has run the destructor up to join() is never called back.
THEOREM NeverFiresAfterDestroy == TimerSpec => NoFireAfterDestroy
<1>1. TimerInit => CallbackWorks
  BY DEF TimerInit, CallbackWorks
<1>2. CallbackWorks /\ [TimerNext]_timerVars => CallbackWorks' /\ [pc' = "inCallback" => state # "EXITED"]_timerVars
  <2> SUFFICES ASSUME CallbackWorks, [TimerNext]_timerVars
               PROVE  CallbackWorks' /\ [pc' = "inCallback" => state # "EXITED"]_timerVars
    OBVIOUS
  <2> USE DEF CallbackWorks, NotifyTask, NotifyCancel, ClientMay
  <2>1. CASE UNCHANGED timerVars
    BY <2>1 DEF timerVars
  <2>2. ASSUME NEW withCallback \in BOOLEAN, NEW again \in {FALSE, AllowReuse},
               StartTimer(withCallback, again)
        PROVE  CallbackWorks' /\ pc' # "inCallback"
    BY <2>2 DEF StartTimer
  <2>3. CASE StopTimer
    BY <2>3 DEF StopTimer
  <2>4. CASE SetTimeoutCallback
    BY <2>4 DEF SetTimeoutCallback
  <2>5. CASE Destroy
    BY <2>5 DEF Destroy
  <2>6. CASE MainLoop
    BY <2>6 DEF MainLoop, LoopTop, TaskSignalled, Expire, CancelSignalled, CallbackReturns
  <2>7. CASE SpuriousWakeup
    BY <2>7 DEF SpuriousWakeup
  <2>8. CASE Terminated
    BY <2>8 DEF Terminated, timerVars
  <2> QED
    BY <2>1, <2>2, <2>3, <2>4, <2>5, <2>6, <2>7, <2>8 DEF TimerNext, Client
<1> QED
  BY <1>1, <1>2, PTL DEF TimerSpec, NoFireAfterDestroy

-----------------------------------------------------------------------------
(* FiresOnlyIfArmed is kept by what every point of MainLoop after          *)
(* taskSignal_.wait stands for: a pending start, the reuse mode, or a      *)
(* destructor.                                                             *)

\* The thread left taskSignal_.wait because of a start, of itself, or of the destructor.
WokenByStart == pc = "taskWoken" => ~quiet \/ reuse \/ state = "EXITED"

\* A countdown that was not cancelled belongs to a pending start, or is a repetition.
CountdownIsPending == pc \in {"cancelWait", "cancelWoken"} /\ state = "WORKING" => ~quiet \/ reuse

\* A waiting thread is WAITING, unless the destructor has not reached it yet.
WaitIsWaiting == pc = "taskWait" => state \in {"WAITING", "EXITED"}

\* The inductive strengthening of FiresOnlyIfArmed.
ArmedInv == /\ WokenByStart
            /\ CountdownIsPending
            /\ WaitIsWaiting
            /\ FiresOnlyIfArmed

\* Whatever the calls and the wakeups, the callback answers a start that is still pending,
\* or is a repetition that the client asked for.
THEOREM CallbackIsArmed == TimerSpec => []FiresOnlyIfArmed
<1>1. TimerInit => ArmedInv
  BY DEF TimerInit, ArmedInv, WokenByStart, CountdownIsPending, WaitIsWaiting, FiresOnlyIfArmed
<1>2. ArmedInv /\ [TimerNext]_timerVars => ArmedInv'
  <2> SUFFICES ASSUME ArmedInv, [TimerNext]_timerVars
               PROVE  ArmedInv'
    OBVIOUS
  <2> USE DEF ArmedInv, WokenByStart, CountdownIsPending, WaitIsWaiting, FiresOnlyIfArmed,
              NotifyTask, NotifyCancel, ClientMay
  <2>1. CASE UNCHANGED timerVars
    BY <2>1 DEF timerVars
  <2>2. ASSUME NEW withCallback \in BOOLEAN, NEW again \in {FALSE, AllowReuse},
               StartTimer(withCallback, again)
        PROVE  ArmedInv'
    BY <2>2 DEF StartTimer
  <2>3. CASE StopTimer
    BY <2>3 DEF StopTimer
  <2>4. CASE SetTimeoutCallback
    BY <2>4 DEF SetTimeoutCallback
  <2>5. CASE Destroy
    BY <2>5 DEF Destroy
  <2>6. CASE MainLoop
    BY <2>6 DEF MainLoop, LoopTop, TaskSignalled, Expire, CancelSignalled, CallbackReturns
  <2>7. CASE SpuriousWakeup
    BY <2>7 DEF SpuriousWakeup
  <2>8. CASE Terminated
    BY <2>8 DEF Terminated, timerVars
  <2> QED
    BY <2>1, <2>2, <2>3, <2>4, <2>5, <2>6, <2>7, <2>8 DEF TimerNext, Client
<1>3. ArmedInv => FiresOnlyIfArmed
  BY DEF ArmedInv
<1> QED
  BY <1>1, <1>2, <1>3, PTL DEF TimerSpec

-----------------------------------------------------------------------------
(* The exchange.  Requests that wait are timed, as long as no agent stops  *)
(* the sink: the response to a TEARDOWN that is sent before M1 arrives can *)
(* hide the response to M2, which nobody then waits for.                   *)

\* A sink that has neither told its agent of an error nor been interrupted: it reads, and its client is there.
Hopeful(k) == "ERROR" \notin k.told /\ ~k.interrupting
Awaits(k, what) == \E h \in k.handlers : h[2] = what

\* What AwaitedIsTimed says, whether or not the start is over: until then there is no timer that could be off.
Watched(k) == Awaits(k, "M2") \/ Awaits(k, "M6") \/ Awaits(k, "M7") => k.timer # "off"

\* Nothing was torn down; M4 is the first one as long as there was none.
Unstopped(k) == /\ "STOPED" \notin k.told /\ k.wfd # "STOPPING" /\ k.sending[1] \notin {"STOP", "TEARDOWN"}
                /\ k.starting # "never" => k.client
                /\ k.firstCast <=> k.firstCreate

\* M4 comes once, and the sink then starts the timer anew.
StartsM4(m) == IsM4(m) /\ m.part # "tail"
M4Once(k, a) ==
    /\ \A i, j \in 1..Len(a) : StartsM4(a[i]) /\ StartsM4(a[j]) => i = j
    /\ \A i \in 1..Len(a) : StartsM4(a[i]) => ~StartsM4(k.last) /\ k.firstCast
    /\ StartsM4(k.last) => k.firstCast

\* Before M1 is handled nothing else is on its way.
StageM1(k, c, a, b) ==
    /\ BeforeM1(c, a) => k.handlers = {} /\ b = <<>>
    /\ c.wfd = "M0" => a = <<>>
    /\ HasOptions(a) => c.wfd = "M1" /\ Len(a) = 1

\* While M2 is not answered, nothing else is awaited, and whatever the sink reads next is the answer.
AnswersM2(m, n) == ~m.req /\ m.cseq = n /\ m.part = "whole" /\ m.body = "none"
BeforeM2(m) == m.part = "whole" /\ m.body = "none" /\ (m.req => IsOptions(m))
StageM2(k, c, a, b) ==
    Awaits(k, "M2") =>
        /\ \A h \in k.handlers : h = <<k.cseq, "M2">>
        /\ ~k.last.req /\ "PLAYED" \notin k.told /\ "PLAYED" \notin c.told
        /\ a # <<>> => AnswersM2(a[1], k.cseq)
        /\ (c.wfd = "M1" /\ a = <<>>) \/ (c.wfd = "M3" /\ b = <<>>)
        /\ \A i \in 1..Len(b) : /\ BeforeM2(b[i])
                                /\ b[i].req => b[i].cseq = k.cseq /\ i = Len(b)

\* When M7 is sent the requests of the exchange are over, on either side.
StageM7(k, c, a, b) ==
    Awaits(k, "M7") =>
        /\ ~SinkToken(k) /\ ~HasOptions(a) /\ ~HasM5(a) /\ ~HasOptions(b)
        /\ c.wfd \notin {"M0", "M3", "M4"}
        /\ \A g, h \in k.handlers : g[2] = "M7" /\ h[2] = "M7" => g = h

\* When it is answered nothing of the exchange is awaited any more.
Afterwards(k) == /\ "PLAYED" \in k.told => ~Awaits(k, "M2") /\ ~Awaits(k, "M7")
                 /\ Awaits(k, "IDR") => "PLAYED" \in k.told

Timely(k, c, a, b) == /\ Watched(k) /\ Unstopped(k) /\ M4Once(k, a)
                      /\ StageM1(k, c, a, b) /\ StageM2(k, c, a, b) /\ StageM7(k, c, a, b) /\ Afterwards(k)

TimedInv == Hopeful(sink) => Timely(sink, source, toSink, toSource)

-----------------------------------------------------------------------------
(* What becomes of hope                                                    *)

\* What l is told, and that it was interrupted, is not taken back.
Worse(s, l) == SinkRec(l) /\ l.interrupting = s.interrupting /\ ("ERROR" \in s.told => "ERROR" \in l.told)

\* So a sink without hope stays without, over any number of helpers.
LEMMA WorseTwice ==
    ASSUME NEW s, NEW l, Worse(s, l)
    PROVE  /\ ~Hopeful(s) => ~Hopeful(l)
           /\ \A j : Worse(l, j) => Worse(s, j)
BY DEF Worse, Hopeful

\* NotifyAgentSessionEvent, CheckInterrupt, OnClientClose, the timer and the table of response handlers.
LEMMA WorseCalls ==
    ASSUME NEW s, SinkRec(s)
    PROVE  /\ Worse(s, s)
           /\ \A what : Worse(s, Sink!NotifyAgent(s, what))
           /\ Worse(s, Sink!NotifyServiceError(s)) /\ Worse(s, Sink!CheckInterrupt(s))
           /\ Worse(s, Sink!ClientClosed(s))
           /\ \A what : Worse(s, Sink!StartTimer(s, what))
           /\ Worse(s, Sink!StopTimer(s))
           /\ \A n, what : Worse(s, Sink!SetHandler(s, n, what))
           /\ \A n : Worse(s, Sink!EraseHandler(s, n))
<1>1. Worse(s, s)
  BY DEF Worse
<1>2. ASSUME NEW x, SinkRec(x), NEW what
      PROVE  Worse(x, Sink!NotifyAgent(x, what))
  BY <1>2 DEF Sink!NotifyAgent, SinkRec, SinkFields, Worse
<1>3. ASSUME NEW x, SinkRec(x)
      PROVE  Worse(x, Sink!CheckInterrupt(x)) /\ Worse(x, Sink!NotifyServiceError(x))
  <2>1. Worse(x, x)
    BY <1>3 DEF Worse
  <2> QED
    BY <1>2, <1>3, <2>1 DEF Sink!CheckInterrupt, Sink!NotifySessionInterrupted, Sink!NotifyServiceError
<1> DEFINE t == [s EXCEPT !.client = FALSE, !.socket = Sink!Disconnect(@)]
<1>4. Worse(s, t)
  BY DEF SinkRec, SinkFields, Worse
<1>5. Sink!ClientClosed(s) \in {t, Sink!CheckInterrupt(t), Sink!NotifyServiceError(t)}
  BY DEF Sink!ClientClosed
<1> HIDE DEF t
<1>6. Worse(s, Sink!ClientClosed(s))
  <2>1. SinkRec(t)
    BY <1>4 DEF Worse
  <2>2. Worse(t, Sink!CheckInterrupt(t)) /\ Worse(t, Sink!NotifyServiceError(t))
    BY <1>3, <2>1
  <2> QED
    BY <1>4, <1>5, <2>2, WorseTwice
<1>7. \A what : Worse(s, Sink!StartTimer(s, what))
  BY <1>1 DEF Sink!StartTimer, SinkRec, SinkFields, Worse
<1>8. Worse(s, Sink!StopTimer(s))
  BY <1>7 DEF Sink!StopTimer
<1>9. ASSUME NEW handlers
      PROVE  Worse(s, [s EXCEPT !.handlers = handlers])
  BY DEF SinkRec, SinkFields, Worse
<1>10. /\ \A n, what : Worse(s, Sink!SetHandler(s, n, what))
       /\ \A n : Worse(s, Sink!EraseHandler(s, n))
  BY <1>9 DEF Sink!SetHandler, Sink!EraseHandler
<1> QED
  BY <1>1, <1>2, <1>3, <1>6, <1>7, <1>8, <1>10

\* Send and SendCommonResponse.
LEMMA WorseSends ==
    ASSUME NEW s, SinkRec(s), NEW up
    PROVE  /\ \A m : Worse(s, Sink!Send(s, m, up))
           /\ \A n : Worse(s, Sink!SendCommonResponse(s, n, up))
<1>1. \A m : Worse(s, Sink!Send(s, m, up))
  <2> TAKE m
  <2>1. Worse(s, [s EXCEPT !.out = Append(@, m)])
    BY DEF SinkRec, SinkFields, Worse
  <2>2. Worse(s, Sink!ClientClosed(s))
    BY WorseCalls
  <2> QED
    BY <2>1, <2>2 DEF Sink!Send
<1>2. Worse(s, s)
  BY WorseCalls
<1> QED
  BY <1>1, <1>2 DEF Sink!SendCommonResponse

\* SendTimedRequest.
LEMMA WorseRequests ==
    ASSUME NEW s, SinkRec(s), NEW m, NEW what, NEW up
    PROVE  Worse(s, Sink!SendTimedRequest(s, m, what, up))
<1> DEFINE p == [s EXCEPT !.cseq = m.cseq]
           q == Sink!SetHandler(p, m.cseq, what)
           t == Sink!StartTimer(q, what)
           u == Sink!Send(t, m, up)
           v == Sink!EraseHandler(u, m.cseq)
           w == Sink!StopTimer(v)
           x == Sink!NotifyServiceError(w)
           l == Sink!SendTimedRequest(s, m, what, up)
<1>1. l \in {s, u, x}
  BY DEF Sink!SendTimedRequest
<1> HIDE DEF l
<1>2. Worse(s, p)
  BY DEF SinkRec, SinkFields, Worse
<1> HIDE DEF p
<1>3. Worse(p, q)
  BY <1>2, WorseCalls DEF Worse
<1> HIDE DEF q
<1>4. Worse(q, t)
  BY <1>3, WorseCalls DEF Worse
<1> HIDE DEF t
<1>5. Worse(t, u)
  BY <1>4, WorseSends DEF Worse
<1> HIDE DEF u
<1>6. Worse(u, v)
  BY <1>5, WorseCalls DEF Worse
<1> HIDE DEF v
<1>7. Worse(v, w)
  BY <1>6, WorseCalls DEF Worse
<1> HIDE DEF w
<1>8. Worse(w, x)
  BY <1>7, WorseCalls DEF Worse
<1> HIDE DEF x
<1>9. Worse(s, s) /\ Worse(s, u) /\ Worse(s, x)
  BY <1>2, <1>3, <1>4, <1>5, <1>6, <1>7, <1>8 DEF Worse
<1>10. Worse(s, l)
  BY <1>1, <1>9
<1> QED
  BY <1>10 DEF l

\* A send that fails ends hope, unless the sink was about to stop.
LEMMA ClosedIsHopeless ==
    ASSUME NEW s, SinkRec(s), s.wfd # "STOPPING"
    PROVE  ~Hopeful(Sink!ClientClosed(s))
<1> DEFINE t == [s EXCEPT !.client = FALSE, !.socket = Sink!Disconnect(@)]
<1>1. SinkRec(t) /\ t.interrupting = s.interrupting /\ t.wfd = s.wfd
  BY DEF SinkRec, SinkFields
<1>2. Sink!ClientClosed(s) = IF t.interrupting THEN Sink!CheckInterrupt(t)
                             ELSE IF t.wfd # "STOPPING" THEN Sink!NotifyServiceError(t) ELSE t
  BY DEF Sink!ClientClosed
<1> HIDE DEF t
<1>3. t.interrupting => ~Hopeful(Sink!CheckInterrupt(t))
  BY <1>1, WorseCalls DEF Worse, Hopeful
<1>4. ~Hopeful(Sink!NotifyServiceError(t))
  BY <1>1 DEF Sink!NotifyServiceError, Sink!NotifyAgent, SinkRec, SinkFields, Hopeful
<1> QED
  BY <1>1, <1>2, <1>3, <1>4

\* So does whatever reports an error.
LEMMA ErrorIsHopeless ==
    ASSUME NEW s, SinkRec(s)
    PROVE  ~Hopeful(Sink!NotifyServiceError(s))
BY DEF Sink!NotifyServiceError, Sink!NotifyAgent, SinkRec, SinkFields, Hopeful

\* A request that cannot be answered is handled without hope, or without a trace.
LEMMA DownIsHopeless ==
    ASSUME NEW j, NEW s, s = [j EXCEPT !.last = NoMessage], SinkRec(s), s.client, s.wfd # "STOPPING",
           NEW m, NEW up, ~up, NEW l, l = Sink!HandleRequest(j, m, up), Hopeful(l)
    PROVE  l = s
<1>1. s = [j EXCEPT !.last = Sink!NoMessage]
  BY NoMessageIs
<1>2. l = s \/ l \in {Sink!HandleM1Request(s, m, up), Sink!SendM3Response(s, m, up), Sink!HandleM16Request(s, m, up),
                      Sink!HandleTriggerMethod(s, m, up), Sink!HandleM4Request(s, m, up)}
  BY <1>1 DEF Sink!HandleRequest
<1>3. ASSUME NEW x, SinkRec(x), x.client, x.wfd # "STOPPING", NEW n
      PROVE  ~Hopeful(Sink!Send(x, n, up))
  BY <1>3, ClosedIsHopeless DEF Sink!Send
<1>4. ASSUME l = Sink!HandleM1Request(s, m, up)
      PROVE  FALSE
  <2> DEFINE x == Sink!StopTimer(s)
             t == [x EXCEPT !.firstCast = TRUE, !.firstCreate = TRUE]
             y == Sink!Send(t, Sink!Response(m.cseq), up)
             u == [y EXCEPT !.cseq = m.cseq]
  <2>1. SinkRec(t) /\ t.client /\ t.wfd # "STOPPING"
    <3>1. SinkRec(x) /\ x.client /\ x.wfd # "STOPPING"
      <4>1. x = s \/ x = [s EXCEPT !.timer = "off"]
        BY DEF Sink!StopTimer, Sink!StartTimer
      <4> HIDE DEF x
      <4> QED
        BY ONLY <4>1, SinkRec(s), s.client, s.wfd # "STOPPING" DEF SinkRec, SinkFields
    <3> HIDE DEF x
    <3> QED
      BY ONLY <3>1 DEF SinkRec, SinkFields
  <2>2. l = Sink!SendM2Request(u, up)
    BY <1>4, <2>1 DEF Sink!HandleM1Request
  <2> HIDE DEF t
  <2>3. ~Hopeful(y) /\ SinkRec(y)
    BY <1>3, <2>1, WorseSends DEF Worse
  <2> HIDE DEF y
  <2>4. ~Hopeful(u) /\ SinkRec(u)
    BY <2>3 DEF SinkRec, SinkFields, Hopeful
  <2> HIDE DEF u
  <2>5. Worse(u, l)
    BY <2>2, <2>4, WorseRequests DEF Sink!SendM2Request
  <2> QED
    BY <2>4, <2>5, WorseTwice
<1>5. ASSUME l = Sink!SendM3Response(s, m, up)
      PROVE  FALSE
  <2> DEFINE x == Sink!StopTimer(s)
             y == Sink!StartTimer(x, "M4")
             r == Sink!M3Response(m.cseq, Sink!M3Params(s.config))
             t == Sink!Send(y, r, up)
             z == Sink!StopTimer(t)
  <2>1. l = Sink!NotifyServiceError(z)
    BY <1>5 DEF Sink!SendM3Response
  <2>2. SinkRec(x)
    BY WorseCalls DEF Worse
  <2> HIDE DEF x
  <2>3. SinkRec(y)
    BY <2>2, WorseCalls DEF Worse
  <2> HIDE DEF y, r
  <2>4. SinkRec(t)
    BY <2>3, WorseSends DEF Worse
  <2> HIDE DEF t
  <2>5. SinkRec(z)
    BY <2>4, WorseCalls DEF Worse
  <2> QED
    BY <2>1, <2>5, ErrorIsHopeless
<1>6. ASSUME l = Sink!HandleM16Request(s, m, up)
      PROVE  l = s
  <2> DEFINE y == Sink!SendCommonResponse(s, m.cseq, up)
  <2>1. l = s \/ l = [y EXCEPT !.keepAlive = "on"]
    BY <1>6 DEF Sink!HandleM16Request
  <2>2. ~Hopeful(y) /\ SinkRec(y)
    BY <1>3, WorseSends DEF Sink!SendCommonResponse, Worse
  <2> HIDE DEF y
  <2>3. ~Hopeful([y EXCEPT !.keepAlive = "on"])
    BY <2>2 DEF SinkRec, SinkFields, Hopeful
  <2> QED
    BY <2>1, <2>3
<1>7. ASSUME l = Sink!HandleTriggerMethod(s, m, up)
      PROVE  FALSE
  <2> DEFINE t == IF Sink!GetTriggerMethod(m) = "setup" THEN Sink!StopTimer(s) ELSE s
             u == Sink!SendCommonResponse(t, m.cseq, up)
  <2>1. l = Sink!NotifyServiceError(u)
    BY <1>7 DEF Sink!HandleTriggerMethod, Sink!ResponseSent
  <2>2. SinkRec(t)
    BY WorseCalls DEF Worse
  <2> HIDE DEF t
  <2>3. SinkRec(u)
    BY <2>2, WorseSends DEF Worse
  <2> QED
    BY <2>1, <2>3, ErrorIsHopeless
<1>8. ASSUME l = Sink!HandleM4Request(s, m, up)
      PROVE  FALSE
  <2> DEFINE x == [s EXCEPT !.track = Sink!Tracks(m.params, @)]
             y == Sink!StopTimer(x)
             t == IF x.firstCast THEN Sink!StartTimer(y, "M5") ELSE y
             u == Sink!SendCommonResponse(t, m.cseq, up)
             z == Sink!StopTimer(u)
  <2>1. l = Sink!NotifyServiceError(z)
    BY <1>8 DEF Sink!HandleM4Request, Sink!ResponseSent
  <2>2. SinkRec(x)
    BY ONLY SinkRec(s) DEF SinkRec, SinkFields
  <2> HIDE DEF x
  <2>3. SinkRec(y)
    BY <2>2, WorseCalls DEF Worse
  <2> HIDE DEF y
  <2>4. SinkRec(t)
    BY <2>3, WorseCalls DEF Worse
  <2> HIDE DEF t
  <2>5. SinkRec(u)
    BY <2>4, WorseSends DEF Worse
  <2> HIDE DEF u
  <2>6. SinkRec(z)
    BY <2>5, WorseCalls DEF Worse
  <2> QED
    BY <2>1, <2>6, ErrorIsHopeless
<1> QED
  BY <1>2, <1>4, <1>5, <1>6, <1>7, <1>8

-----------------------------------------------------------------------------
(* What a handler of the sink does when its messages go out                *)

\* The helpers change at most the timer, the handlers, the number and what was sent; some leave more as it is.
Otherwise(s, l) == /\ SinkRec(l)
                   /\ l.client = s.client /\ l.wfd = s.wfd /\ l.sending = s.sending /\ l.starting = s.starting
                   /\ l.firstCast = s.firstCast /\ l.firstCreate = s.firstCreate
                   /\ l.told = s.told /\ l.last = s.last
Unmoved(s, l) == Otherwise(s, l) /\ l.cseq = s.cseq /\ l.handlers = s.handlers

\* One after another.
LEMMA OtherwiseTwice ==
    ASSUME NEW s, NEW l, NEW j, Otherwise(s, l), Otherwise(l, j)
    PROVE  Otherwise(s, j)
BY DEF Otherwise

\* Apart from the timer it sends nothing, or m.
Silent(s, l) == Unmoved(s, l) /\ l.out = s.out
Emits(s, l, m) == Unmoved(s, l) /\ l.timer = s.timer /\ l.out = Append(s.out, m)

\* StartTimer and StopTimer.
LEMMA TimerIsSilent ==
    ASSUME NEW s, SinkRec(s)
    PROVE  /\ Silent(s, Sink!StopTimer(s))
           /\ \A what : Silent(s, Sink!StartTimer(s, what))
           /\ \A what : what # "off" => Sink!StartTimer(s, what).timer # "off"
<1>1. ASSUME NEW what
      PROVE  Silent(s, Sink!StartTimer(s, what)) /\ (what # "off" => Sink!StartTimer(s, what).timer # "off")
  BY DEF Sink!StartTimer, SinkRec, SinkFields, Silent, Unmoved, Otherwise
<1> QED
  BY <1>1 DEF Sink!StopTimer

\* Send, where it works.
LEMMA UpSend ==
    ASSUME NEW s, SinkRec(s), NEW m, NEW up \in BOOLEAN, up, NEW l, l = Sink!Send(s, m, up)
    PROVE  Emits(s, l, m)
<1>1. l = [s EXCEPT !.out = Append(@, m)]
  BY DEF Sink!Send
<1> QED
  BY <1>1 DEF SinkRec, SinkFields, Emits, Unmoved, Otherwise

\* SendCommonResponse, where it works.
LEMMA UpResponse ==
    ASSUME NEW s, SinkRec(s), s.client, NEW n, NEW up \in BOOLEAN, up, NEW l, l = Sink!SendCommonResponse(s, n, up)
    PROVE  Emits(s, l, Sink!Response(n))
<1> DEFINE m == Sink!Response(n)
<1>1. l = Sink!Send(s, m, up)
  BY DEF Sink!SendCommonResponse
<1> HIDE DEF m
<1>2. Emits(s, l, m)
  BY <1>1, UpSend
<1> QED
  BY <1>2 DEF m

\* One helper after another leaves alone what both do.
LEMMA UnmovedTwice ==
    ASSUME NEW s, NEW l, NEW j, Unmoved(s, l), Unmoved(l, j)
    PROVE  Unmoved(s, j)
BY DEF Unmoved, Otherwise

\* A request whose response is awaited: its handler is the only one with its number.
Asks(s, l, n, what) == /\ l.cseq = n /\ l.timer # "off"
                       /\ l.handlers = {h \in s.handlers : h[1] # n} \cup {<<n, what>>}

\* SendTimedRequest.
LEMMA UpRequest ==
    ASSUME NEW s, SinkRec(s), s.client, NEW m, NEW what, what # "off", NEW up \in BOOLEAN, up,
           NEW l, l = Sink!SendTimedRequest(s, m, what, up)
    PROVE  Otherwise(s, l) /\ Asks(s, l, m.cseq, what) /\ l.out = Append(s.out, m)
<1> DEFINE p == [s EXCEPT !.cseq = m.cseq]
           q == [p EXCEPT !.handlers = {h \in @ : h[1] # m.cseq} \cup {<<m.cseq, what>>}]
           t == Sink!StartTimer(q, what)
<1>1. l = Sink!Send(t, m, up)
  BY DEF Sink!SendTimedRequest, Sink!SetHandler
<1>2. Otherwise(s, p) /\ p.cseq = m.cseq /\ p.handlers = s.handlers /\ p.out = s.out
  BY DEF SinkRec, SinkFields, Otherwise
<1> HIDE DEF p
<1>3. /\ Otherwise(p, q) /\ q.cseq = p.cseq /\ q.out = p.out
      /\ q.handlers = {h \in p.handlers : h[1] # m.cseq} \cup {<<m.cseq, what>>}
  BY <1>2 DEF SinkRec, SinkFields, Otherwise
<1> HIDE DEF q
<1>4. Silent(q, t) /\ t.timer # "off" /\ SinkRec(t)
  <2>1. SinkRec(q)
    BY <1>3 DEF Otherwise
  <2>2. Silent(q, t) /\ t.timer # "off"
    BY <2>1, TimerIsSilent
  <2> QED
    BY <2>2 DEF Silent, Unmoved, Otherwise
<1> HIDE DEF t
<1>5. Emits(t, l, m)
  BY <1>1, <1>4, UpSend
<1>6. l.cseq = q.cseq /\ l.handlers = q.handlers /\ l.timer = t.timer /\ l.out = Append(q.out, m)
  BY <1>4, <1>5 DEF Silent, Emits, Unmoved
<1>7. Otherwise(s, l)
  <2>1. Otherwise(s, q)
    BY <1>2, <1>3, OtherwiseTwice
  <2>2. Otherwise(q, l)
    BY <1>4, <1>5, OtherwiseTwice DEF Silent, Emits, Unmoved
  <2> QED
    BY <2>1, <2>2, OtherwiseTwice
<1> QED
  BY <1>2, <1>3, <1>4, <1>6, <1>7 DEF Asks

\* What the handlers of a sink that was not torn down leave alone.
Steady(s, l) == /\ SinkRec(l) /\ l.client /\ l.wfd # "STOPPING"
                /\ l.sending = s.sending /\ l.starting = s.starting
                /\ "STOPED" \in l.told <=> "STOPED" \in s.told
                /\ l.firstCast <=> l.firstCreate

\* What is sent, apart from M2.
Plain(m) == IsMessage(m) /\ m.part = "whole" /\ ~IsOptions(m)
Speaks(o, p) == p = o \/ \E m : Plain(m) /\ p = Append(o, m)

\* The three ways in which a request is answered: M1 with M2, M5 with M6, and the others with a response at most.
AsksM2(s, l, m) == /\ IsOptions(m) /\ Asks(s, l, m.cseq + 1, "M2") /\ l.firstCast
                   /\ \E x, y : /\ l.out = Append(Append(s.out, x), y)
                                /\ Says(x, FALSE, "OK", "none", m.cseq)
                                /\ Says(y, TRUE, "OPTIONS", "none", m.cseq + 1)
AsksM6(s, l, m) == /\ IsM5(m) /\ Asks(s, l, s.cseq + 1, "M6") /\ l.firstCast = s.firstCast
                   /\ \E o : Speaks(s.out, o) /\ Speaks(o, l.out)
Replies(s, l, m) == /\ l.cseq = s.cseq /\ l.handlers = s.handlers
                    /\ Speaks(s.out, l.out)
                    /\ ~IsM4(m) => l.firstCast = s.firstCast
                    /\ s.timer # "off" /\ (IsM4(m) => s.firstCast) => l.timer # "off"
Answers(s, l, m) == /\ Steady(s, l) /\ l.last = s.last
                    /\ "PLAYED" \in l.told <=> "PLAYED" \in s.told
                    /\ AsksM2(s, l, m) \/ AsksM6(s, l, m) \/ Replies(s, l, m)

\* A response is no request of the exchange, nor are the requests behind M2.
LEMMA PlainMessages ==
    ASSUME NEW n \in Nat, NEW id, NEW params
    PROVE  /\ Plain(Sink!Response(n)) /\ Plain(Sink!M3Response(n, params))
           /\ Plain(Sink!RtspRequestSetup(n)) /\ Plain(Sink!WithSession(Sink!RtspRequestPlay(n), id))
           /\ Plain(Sink!IDRRequest(n, id))
<1>1. ASSUME NEW m, NEW req, NEW method, NEW body, Says(m, req, method, body, n), method # "OPTIONS"
      PROVE  Plain(m)
  BY <1>1 DEF Says, Plain, IsOptions
<1> QED
  BY <1>1, SinkMessages

\* HandleM1Request: the first request is answered and M2 sent.
LEMMA UpM1 ==
    ASSUME NEW s, SinkRec(s), s.client, s.wfd # "STOPPING", NEW m, IsOptions(m), m.cseq \in Nat, NEW up \in BOOLEAN, up,
           NEW l, l = Sink!HandleM1Request(s, m, up)
    PROVE  Answers(s, l, m)
<1> DEFINE x == Sink!StopTimer(s)
           t == [x EXCEPT !.firstCast = TRUE, !.firstCreate = TRUE]
           r == Sink!Response(m.cseq)
           y == Sink!Send(t, r, up)
           u == [y EXCEPT !.cseq = m.cseq]
           n == m.cseq + 1
           q == Sink!RtspRequestOptions(n)
<1>1. Silent(s, x)
  BY TimerIsSilent
<1> HIDE DEF x
<1>2. /\ SinkRec(t) /\ t.client = s.client /\ t.wfd = s.wfd /\ t.sending = s.sending /\ t.starting = s.starting
      /\ t.firstCast /\ t.firstCreate /\ t.told = s.told /\ t.last = s.last /\ t.cseq = s.cseq
      /\ t.handlers = s.handlers /\ t.out = s.out
  BY <1>1 DEF Silent, Unmoved, Otherwise, SinkRec, SinkFields
<1>3. l = Sink!SendM2Request(u, up)
  BY <1>2 DEF Sink!HandleM1Request, x
<1> HIDE DEF t, r
<1>4. Emits(t, y, r)
  BY <1>2, UpSend
<1> HIDE DEF y
<1>5. Otherwise(y, u) /\ u.cseq = m.cseq /\ u.handlers = y.handlers /\ u.out = y.out
  BY <1>4 DEF Emits, Unmoved, Otherwise, SinkRec, SinkFields
<1> HIDE DEF u
<1>6. l = Sink!SendTimedRequest(u, q, "M2", up)
  BY <1>3, <1>5 DEF Sink!SendM2Request
<1>7. Says(q, TRUE, "OPTIONS", "none", n) /\ Says(r, FALSE, "OK", "none", m.cseq)
  <2>1. n \in Nat
    OBVIOUS
  <2> QED
    BY <2>1, SinkMessages DEF r
<1> HIDE DEF q
<1>8. u.client /\ SinkRec(u)
  BY <1>2, <1>4, <1>5 DEF Emits, Unmoved, Otherwise
<1>9. Otherwise(u, l) /\ Asks(u, l, q.cseq, "M2") /\ l.out = Append(u.out, q)
  <2>1. "M2" # "off"
    OBVIOUS
  <2> QED
    BY ONLY <1>6, <1>8, <2>1, up \in BOOLEAN, up, UpRequest
<1>10. q.cseq = n
  BY <1>7 DEF Says
<1> HIDE DEF n
<1>11. Asks(s, l, n, "M2") /\ l.out = Append(Append(s.out, r), q)
  BY ONLY <1>2, <1>4, <1>5, <1>9, <1>10 DEF Asks, Emits, Unmoved
<1>12. Steady(s, l) /\ l.last = s.last /\ l.told = s.told /\ l.firstCast
  <2>1. Otherwise(t, l)
    BY ONLY <1>4, <1>5, <1>9 DEF Emits, Unmoved, Otherwise
  <2>2. l.firstCast = t.firstCast /\ l.firstCreate = t.firstCreate
    BY <2>1 DEF Otherwise
  <2>3. l.firstCast /\ l.firstCreate
    BY <1>2, <2>2
  <2> QED
    BY <1>2, <2>1, <2>3 DEF Steady, Otherwise
<1>13. AsksM2(s, l, m)
  BY <1>7, <1>11, <1>12 DEF AsksM2, n
<1> QED
  BY <1>12, <1>13 DEF Answers

\* A request that moves nothing, and leaves the timer running.
LEMMA Rested ==
    ASSUME NEW s, s.client, s.wfd # "STOPPING", s.firstCast <=> s.firstCreate, NEW l, Unmoved(s, l),
           l.timer # "off" \/ l.timer = s.timer, Speaks(s.out, l.out), NEW m
    PROVE  Answers(s, l, m)
<1>1. Replies(s, l, m)
  BY DEF Replies, Unmoved, Otherwise
<1>2. Steady(s, l)
  <2>1. l.firstCast = s.firstCast /\ l.firstCreate = s.firstCreate
    BY DEF Unmoved, Otherwise
  <2> QED
    BY <2>1 DEF Steady, Unmoved, Otherwise
<1> QED
  BY <1>1, <1>2 DEF Answers, Unmoved, Otherwise

\* SendM3Response and HandleM16Request: a response, and M3 starts the timer anew.
LEMMA UpM3 ==
    ASSUME NEW s, SinkRec(s), s.client, s.wfd # "STOPPING", s.firstCast <=> s.firstCreate,
           NEW m, m.cseq \in Nat, ~IsM4(m), NEW up \in BOOLEAN, up,
           NEW l, l = Sink!SendM3Response(s, m, up) \/ l = Sink!HandleM16Request(s, m, up)
    PROVE  Answers(s, l, m)
<1>1. CASE l = Sink!SendM3Response(s, m, up)
  <2> DEFINE x == Sink!StopTimer(s)
             t == Sink!StartTimer(x, "M4")
             p == Sink!M3Params(s.config)
             r == Sink!M3Response(m.cseq, p)
  <2>1. l = Sink!Send(t, r, up)
    BY <1>1 DEF Sink!SendM3Response
  <2>2. Silent(s, x) /\ SinkRec(x)
    BY TimerIsSilent DEF Silent, Unmoved, Otherwise
  <2> HIDE DEF x
  <2>3. Silent(x, t) /\ t.timer # "off" /\ SinkRec(t)
    <3>1. Silent(x, t) /\ t.timer # "off"
      BY <2>2, TimerIsSilent
    <3> QED
      BY <3>1 DEF Silent, Unmoved, Otherwise
  <2> HIDE DEF t, p
  <2>4. Plain(r)
    BY PlainMessages
  <2> HIDE DEF r
  <2>5. Emits(t, l, r)
    BY <2>1, <2>3, UpSend
  <2>6. Unmoved(s, l) /\ l.timer # "off"
    BY <2>2, <2>3, <2>5, UnmovedTwice DEF Silent, Emits
  <2>7. Speaks(s.out, l.out)
    BY <2>2, <2>3, <2>4, <2>5 DEF Speaks, Silent, Emits
  <2> QED
    BY <2>6, <2>7, Rested
<1>2. CASE l = Sink!HandleM16Request(s, m, up)
  <2> DEFINE y == Sink!SendCommonResponse(s, m.cseq, up)
             z == [y EXCEPT !.keepAlive = "on"]
             r == Sink!Response(m.cseq)
  <2>1. l = s \/ l = z
    BY <1>2 DEF Sink!HandleM16Request
  <2>2. Emits(s, y, r)
    BY UpResponse
  <2>3. Plain(r)
    BY PlainMessages
  <2> HIDE DEF y, r
  <2>4. Unmoved(y, z) /\ z.timer = y.timer /\ z.out = y.out
    BY <2>2 DEF Emits, Unmoved, Otherwise, SinkRec, SinkFields
  <2> HIDE DEF z
  <2>5. Unmoved(s, z) /\ Unmoved(s, s)
    BY <2>2, <2>4, UnmovedTwice DEF Emits, Unmoved, Otherwise
  <2>6. Speaks(s.out, l.out) /\ Unmoved(s, l) /\ l.timer = s.timer
    BY <2>1, <2>2, <2>3, <2>4, <2>5 DEF Speaks, Emits
  <2> QED
    BY <2>6, Rested
<1> QED
  BY <1>1, <1>2

\* HandleM4Request: the first M4 starts the timer anew.
LEMMA UpM4 ==
    ASSUME NEW s, SinkRec(s), s.client, s.wfd # "STOPPING", s.firstCast <=> s.firstCreate,
           NEW m, m.cseq \in Nat, IsM4(m), NEW up \in BOOLEAN, up, NEW l, l = Sink!HandleM4Request(s, m, up)
    PROVE  Answers(s, l, m)
<1> DEFINE x == [s EXCEPT !.track = Sink!Tracks(m.params, @)]
           y == Sink!StopTimer(x)
           t == IF x.firstCast THEN Sink!StartTimer(y, "M5") ELSE y
           v == Sink!SendCommonResponse(t, m.cseq, up)
           u == [v EXCEPT !.firstCast = FALSE]
           w == [u EXCEPT !.firstCreate = FALSE, !.creates = @ + 1]
           r == Sink!Response(m.cseq)
<1>1. Unmoved(s, x) /\ x.out = s.out
  BY DEF Unmoved, Otherwise, SinkRec, SinkFields
<1>2. l = IF u.firstCreate THEN w ELSE u
  BY <1>1 DEF Sink!HandleM4Request, Sink!ResponseSent, Unmoved, Otherwise
<1> HIDE DEF x
<1>3. Silent(x, y) /\ SinkRec(y)
  <2>1. Silent(x, y)
    BY <1>1, TimerIsSilent DEF Unmoved, Otherwise
  <2> QED
    BY <2>1 DEF Silent, Unmoved, Otherwise
<1> HIDE DEF y
<1>4. Silent(y, t) /\ (s.firstCast => t.timer # "off")
  <2> DEFINE z == Sink!StartTimer(y, "M5")
  <2>1. Silent(y, y)
    BY <1>3 DEF Silent, Unmoved, Otherwise
  <2>2. Silent(y, z) /\ z.timer # "off"
    BY <1>3, TimerIsSilent
  <2>3. x.firstCast = s.firstCast
    BY <1>1 DEF Unmoved, Otherwise
  <2>4. t = IF x.firstCast THEN z ELSE y
    OBVIOUS
  <2> HIDE DEF z, t
  <2> QED
    BY <2>1, <2>2, <2>3, <2>4
<1> HIDE DEF t
<1>5. t.client /\ SinkRec(t) /\ Unmoved(s, t) /\ t.out = s.out
  BY <1>1, <1>3, <1>4, UnmovedTwice DEF Silent, Unmoved, Otherwise
<1>6. Emits(t, v, r)
  BY <1>5, UpResponse
<1>7. Plain(r)
  BY PlainMessages
<1> HIDE DEF r, v
<1>8. /\ SinkRec(u) /\ u.client = v.client /\ u.wfd = v.wfd /\ u.sending = v.sending /\ u.starting = v.starting
      /\ u.firstCast = FALSE /\ u.firstCreate = v.firstCreate /\ u.told = v.told /\ u.last = v.last
      /\ u.cseq = v.cseq /\ u.handlers = v.handlers /\ u.timer = v.timer /\ u.out = v.out
  BY <1>6 DEF Emits, Unmoved, Otherwise, SinkRec, SinkFields
<1> HIDE DEF u
<1>9. /\ SinkRec(w) /\ w.client = u.client /\ w.wfd = u.wfd /\ w.sending = u.sending /\ w.starting = u.starting
      /\ w.firstCast = u.firstCast /\ w.firstCreate = FALSE /\ w.told = u.told /\ w.last = u.last
      /\ w.cseq = u.cseq /\ w.handlers = u.handlers /\ w.timer = u.timer /\ w.out = u.out
  BY <1>8 DEF SinkRec, SinkFields
<1> HIDE DEF w
<1>10. /\ SinkRec(l) /\ l.client = u.client /\ l.wfd = u.wfd /\ l.sending = u.sending /\ l.starting = u.starting
       /\ l.firstCast = FALSE /\ (l.firstCreate <=> FALSE) /\ l.told = u.told /\ l.last = u.last
       /\ l.cseq = u.cseq /\ l.handlers = u.handlers /\ l.timer = u.timer /\ l.out = u.out
  BY ONLY <1>2, <1>8, <1>9
<1>11. /\ l.client = s.client /\ l.wfd = s.wfd /\ l.sending = s.sending /\ l.starting = s.starting
       /\ l.told = s.told /\ l.last = s.last /\ l.cseq = s.cseq /\ l.handlers = s.handlers
       /\ l.timer = t.timer /\ l.out = Append(s.out, r)
  <2>1. Unmoved(s, v)
    BY <1>5, <1>6, UnmovedTwice DEF Emits
  <2>2. v.timer = t.timer /\ v.out = Append(s.out, r)
    BY <1>5, <1>6 DEF Emits
  <2>3. /\ l.client = v.client /\ l.wfd = v.wfd /\ l.sending = v.sending /\ l.starting = v.starting
        /\ l.told = v.told /\ l.last = v.last /\ l.cseq = v.cseq /\ l.handlers = v.handlers
        /\ l.timer = v.timer /\ l.out = v.out
    BY ONLY <1>8, <1>10
  <2> QED
    BY ONLY <2>1, <2>2, <2>3 DEF Unmoved, Otherwise
<1>12. Steady(s, l)
  BY <1>10, <1>11 DEF Steady
<1>13. Replies(s, l, m)
  BY <1>4, <1>7, <1>11 DEF Replies, Speaks
<1> QED
  BY <1>11, <1>12, <1>13 DEF Answers


\* HandleTriggerMethod for M5: a response, and M6.
LEMMA UpM5 ==
    ASSUME NEW s, SinkRec(s), s.cseq \in Nat, s.client, s.wfd # "STOPPING", s.firstCast <=> s.firstCreate,
           NEW m, m.cseq \in Nat, IsM5(m), NEW up \in BOOLEAN, up,
           NEW l, l = Sink!HandleTriggerMethod(s, m, up)
    PROVE  Answers(s, l, m)
<1> DEFINE t == Sink!StopTimer(s)
           u == Sink!SendCommonResponse(t, m.cseq, up)
           n == s.cseq + 1
           q == Sink!RtspRequestSetup(n)
           v == Sink!SendTimedRequest(u, q, "M6", up)
           r == Sink!Response(m.cseq)
<1>1. Silent(s, t)
  BY TimerIsSilent
<1>2. Sink!GetTriggerMethod(m) = "setup"
  BY DEF Sink!GetTriggerMethod, IsM5
<1>3. l = Sink!SendM6Request(u, up)
  BY <1>2 DEF Sink!HandleTriggerMethod, Sink!ResponseSent
<1> HIDE DEF t
<1>4. t.client /\ SinkRec(t)
  BY <1>1 DEF Silent, Unmoved, Otherwise
<1>5. Emits(t, u, r)
  BY <1>4, UpResponse
<1>6. Plain(r)
  BY PlainMessages
<1> HIDE DEF u, r
<1>7. u.client /\ SinkRec(u) /\ u.cseq = s.cseq /\ u.handlers = s.handlers /\ u.out = Append(s.out, r)
  BY <1>1, <1>4, <1>5 DEF Silent, Emits, Unmoved, Otherwise
<1>8. l = [v EXCEPT !.wfd = "READY"]
  BY <1>3, <1>7 DEF Sink!SendM6Request
<1>9. Plain(q) /\ q.cseq = n
  <2>1. n \in Nat
    OBVIOUS
  <2> QED
    BY ONLY <2>1, PlainMessages, SinkMessages DEF Says
<1> HIDE DEF q, n
<1>18. u.client /\ SinkRec(u)
  BY <1>7
<1>17. "M6" # "off" /\ v = Sink!SendTimedRequest(u, q, "M6", up)
  OBVIOUS
<1> HIDE DEF v
<1>10. Otherwise(u, v) /\ Asks(u, v, q.cseq, "M6") /\ v.out = Append(u.out, q)
  BY ONLY <1>18, <1>17, up \in BOOLEAN, up, UpRequest
<1>11. Otherwise(s, v)
  <2>1. Otherwise(s, t)
    BY <1>1 DEF Silent, Unmoved
  <2>2. Otherwise(t, u)
    BY <1>5 DEF Emits, Unmoved
  <2> QED
    BY <1>10, <2>1, <2>2, OtherwiseTwice
<1>12. /\ SinkRec(l) /\ l.client = v.client /\ l.wfd = "READY" /\ l.sending = v.sending /\ l.starting = v.starting
       /\ l.firstCast = v.firstCast /\ l.firstCreate = v.firstCreate /\ l.told = v.told /\ l.last = v.last
       /\ l.cseq = v.cseq /\ l.handlers = v.handlers /\ l.timer = v.timer /\ l.out = v.out
  BY ONLY <1>8, <1>11 DEF Otherwise, SinkRec, SinkFields
<1>13. Steady(s, l) /\ l.last = s.last /\ l.told = s.told /\ l.firstCast = s.firstCast
  BY <1>11, <1>12 DEF Steady, Otherwise
<1>14. Asks(s, l, n, "M6")
  BY <1>7, <1>9, <1>10, <1>12 DEF Asks
<1>15. Speaks(s.out, u.out) /\ Speaks(u.out, l.out)
  BY ONLY <1>6, <1>7, <1>9, <1>10, <1>12 DEF Speaks
<1>16. AsksM6(s, l, m)
  BY <1>13, <1>14, <1>15 DEF AsksM6, n
<1> QED
  BY <1>13, <1>16 DEF Answers

\* What comes from the source is no request but those of the exchange.
OfExchange(m) == /\ IsMessage(m) /\ m.part = "whole"
                 /\ m.req => m.body \in {"none", "query", "params", "setup"}

\* HandleRequest, if hope remains.
LEMMA HopeAnswers ==
    ASSUME NEW j, NEW s, s = [j EXCEPT !.last = NoMessage], SinkRec(s), s.cseq \in Nat, s.client, s.wfd # "STOPPING",
           s.firstCast <=> s.firstCreate, NEW m, OfExchange(m), m.req, NEW up \in BOOLEAN,
           NEW l, l = Sink!HandleRequest(j, m, up), Hopeful(l)
    PROVE  Answers(s, l, m)
<1>1. m.cseq \in Nat
  BY ONLY OfExchange(m) DEF OfExchange, IsMessage
<1>2. Speaks(s.out, s.out) /\ Unmoved(s, s)
  BY DEF Speaks, Unmoved, Otherwise
<1>3. CASE ~up
  <2>1. l = s
    BY <1>3, DownIsHopeless
  <2> QED
    BY <1>2, <2>1, Rested
<1>4. CASE up
  <2>1. s = [j EXCEPT !.last = Sink!NoMessage]
    BY NoMessageIs
  <2>2. l = CASE m.method = "OPTIONS"                            -> Sink!HandleM1Request(s, m, up)
              [] m.method = "GET_PARAMETER" /\ m.body # "none"   -> Sink!SendM3Response(s, m, up)
              [] m.method = "GET_PARAMETER" /\ m.body = "none"   -> Sink!HandleM16Request(s, m, up)
              [] m.method = "SET_PARAMETER" /\ Sink!GetTriggerMethod(m) # "none"
                                                                 -> Sink!HandleTriggerMethod(s, m, up)
              [] m.method = "SET_PARAMETER" /\ m.body = "params" -> Sink!HandleM4Request(s, m, up)
              [] OTHER                                           -> s
    BY <2>1 DEF Sink!HandleRequest
  <2>3. CASE m.method = "OPTIONS"
    <3>1. l = Sink!HandleM1Request(s, m, up)
      BY <2>2, <2>3
    <3>2. IsOptions(m)
      BY <2>3 DEF IsOptions
    <3> QED
      BY <1>1, <1>4, <3>1, <3>2, UpM1
  <2>4. CASE m.method = "GET_PARAMETER"
    <3>1. l = Sink!SendM3Response(s, m, up) \/ l = Sink!HandleM16Request(s, m, up)
      BY <2>2, <2>4
    <3>2. ~IsM4(m)
      BY <2>4 DEF IsM4
    <3> QED
      BY <1>1, <1>4, <3>1, <3>2, UpM3
  <2>5. CASE m.method = "SET_PARAMETER" /\ m.body = "setup"
    <3>1. l = Sink!HandleTriggerMethod(s, m, up)
      BY <2>2, <2>5 DEF Sink!GetTriggerMethod
    <3>2. IsM5(m)
      BY <2>5 DEF IsM5, OfExchange
    <3> QED
      BY <1>1, <1>4, <3>1, <3>2, UpM5
  <2>6. CASE m.method = "SET_PARAMETER" /\ m.body = "params"
    <3>1. l = Sink!HandleM4Request(s, m, up)
      BY <2>2, <2>6 DEF Sink!GetTriggerMethod
    <3>2. IsM4(m)
      BY <2>6 DEF IsM4
    <3> QED
      BY <1>1, <1>4, <3>1, <3>2, UpM4
  <2>7. CASE m.method \notin {"OPTIONS", "GET_PARAMETER"} /\ ~(m.method = "SET_PARAMETER" /\ m.body \in {"setup", "params"})
    <3>1. m.body \notin {"teardown"}
      BY DEF OfExchange
    <3>2. l = s
      BY <2>2, <2>7, <3>1 DEF Sink!GetTriggerMethod
    <3> QED
      BY <1>2, <3>2, Rested
  <2> QED
    BY <2>3, <2>4, <2>5, <2>6, <2>7
<1> QED
  BY <1>3, <1>4


\* HandleRequest takes nothing back.
LEMMA WorseAnswered ==
    ASSUME NEW j, SinkRec(j), NEW m, NEW up
    PROVE  Worse(j, Sink!HandleRequest(j, m, up))
<1> DEFINE s == [j EXCEPT !.last = NoMessage]
           l == Sink!HandleRequest(j, m, up)
<1>1. s = [j EXCEPT !.last = Sink!NoMessage]
  BY NoMessageIs
<1>2. Worse(j, s) /\ SinkRec(s)
  BY DEF Worse, SinkRec, SinkFields
<1>3. l = s \/ l \in {Sink!HandleM1Request(s, m, up), Sink!SendM3Response(s, m, up), Sink!HandleM16Request(s, m, up),
                      Sink!HandleTriggerMethod(s, m, up), Sink!HandleM4Request(s, m, up)}
  BY <1>1 DEF Sink!HandleRequest
<1> HIDE DEF s
<1>4. Worse(s, Sink!HandleM1Request(s, m, up))
  <2> DEFINE x == Sink!StopTimer(s)
             t == [x EXCEPT !.firstCast = TRUE, !.firstCreate = TRUE]
             y == Sink!Send(t, Sink!Response(m.cseq), up)
             u == [y EXCEPT !.cseq = m.cseq]
  <2>1. Sink!HandleM1Request(s, m, up) \in {Sink!SendM2Request(t, up), Sink!SendM2Request(u, up)}
    BY DEF Sink!HandleM1Request
  <2>2. Worse(s, x)
    BY <1>2, WorseCalls
  <2> HIDE DEF x
  <2>3. Worse(x, t)
    BY <2>2 DEF Worse, SinkRec, SinkFields
  <2> HIDE DEF t
  <2>4. Worse(t, y)
    BY <2>3, WorseSends DEF Worse
  <2> HIDE DEF y
  <2>5. Worse(y, u)
    BY <2>4 DEF Worse, SinkRec, SinkFields
  <2> HIDE DEF u
  <2>6. Worse(t, Sink!SendM2Request(t, up)) /\ Worse(u, Sink!SendM2Request(u, up))
    BY <2>3, <2>5, WorseRequests DEF Worse, Sink!SendM2Request
  <2> QED
    BY <2>1, <2>2, <2>3, <2>4, <2>5, <2>6, WorseTwice
<1>5. Worse(s, Sink!SendM3Response(s, m, up))
  <2> DEFINE x == Sink!StopTimer(s)
             y == Sink!StartTimer(x, "M4")
             t == Sink!Send(y, Sink!M3Response(m.cseq, Sink!M3Params(s.config)), up)
             z == Sink!StopTimer(t)
  <2>1. Sink!SendM3Response(s, m, up) \in {x, t, Sink!NotifyServiceError(z)}
    BY DEF Sink!SendM3Response
  <2>2. Worse(s, x)
    BY <1>2, WorseCalls
  <2> HIDE DEF x
  <2>3. Worse(x, y)
    BY <2>2, WorseCalls DEF Worse
  <2> HIDE DEF y
  <2>4. Worse(y, t)
    BY <2>3, WorseSends DEF Worse
  <2> HIDE DEF t
  <2>5. Worse(t, z)
    BY <2>4, WorseCalls DEF Worse
  <2> HIDE DEF z
  <2>6. Worse(z, Sink!NotifyServiceError(z))
    BY <2>5, WorseCalls DEF Worse
  <2> QED
    BY <2>1, <2>2, <2>3, <2>4, <2>5, <2>6, WorseTwice
<1>6. Worse(s, Sink!HandleM16Request(s, m, up))
  <2> DEFINE y == Sink!SendCommonResponse(s, m.cseq, up)
             z == [y EXCEPT !.keepAlive = "on"]
  <2>1. Sink!HandleM16Request(s, m, up) \in {s, z}
    BY DEF Sink!HandleM16Request
  <2>2. Worse(s, y) /\ Worse(s, s)
    BY <1>2, WorseCalls, WorseSends
  <2> HIDE DEF y
  <2>3. Worse(y, z)
    BY <2>2 DEF Worse, SinkRec, SinkFields
  <2> HIDE DEF z
  <2> QED
    BY <2>1, <2>2, <2>3, WorseTwice
<1>7. Worse(s, Sink!HandleTriggerMethod(s, m, up))
  <2> DEFINE x == Sink!StopTimer(s)
             t == IF Sink!GetTriggerMethod(m) = "setup" THEN x ELSE s
             u == Sink!SendCommonResponse(t, m.cseq, up)
             q == Sink!RtspRequestSetup(u.cseq + 1)
             v == Sink!SendTimedRequest(u, q, "M6", up)
             w == [v EXCEPT !.wfd = "READY"]
  <2>1. Sink!HandleTriggerMethod(s, m, up) \in {Sink!NotifyServiceError(u), v, w, Sink!SendM8Request(u, up)}
    BY DEF Sink!HandleTriggerMethod, Sink!SendM6Request
  <2>2. Worse(s, x) /\ Worse(s, s)
    BY <1>2, WorseCalls
  <2> HIDE DEF x
  <2>3. Worse(s, t)
    BY <2>2
  <2> HIDE DEF t
  <2>4. Worse(t, u)
    BY <2>3, WorseSends DEF Worse
  <2> HIDE DEF u, q
  <2>5. Worse(u, v) /\ Worse(u, Sink!NotifyServiceError(u))
    BY <2>4, WorseCalls, WorseRequests DEF Worse
  <2> HIDE DEF v
  <2>6. Worse(v, w)
    BY <2>5 DEF Worse, SinkRec, SinkFields
  <2> HIDE DEF w
  <2>7. Worse(u, Sink!SendM8Request(u, up))
    <3> DEFINE p == [u EXCEPT !.cseq = @ + 1]
               h == Sink!SetHandler(p, p.cseq, "M8")
               o == Sink!Send(h, Sink!WithSession(Sink!RtspRequestTeardown(u.cseq + 1), p.session), up)
               e == Sink!EraseHandler(o, p.cseq)
               f == IF up THEN o ELSE e
               g == [f EXCEPT !.wfd = "STOPPING"]
    <3>1. Sink!SendM8Request(u, up) \in {u, g}
      BY DEF Sink!SendM8Request, Sink!FinishM8
    <3>2. Worse(u, p) /\ Worse(u, u)
      BY <2>4 DEF Worse, SinkRec, SinkFields
    <3> HIDE DEF p
    <3>3. Worse(p, h)
      BY <3>2, WorseCalls DEF Worse
    <3> HIDE DEF h
    <3>4. Worse(h, o)
      BY <3>3, WorseSends DEF Worse
    <3> HIDE DEF o
    <3>5. Worse(o, e) /\ Worse(o, o)
      BY <3>4, WorseCalls DEF Worse
    <3> HIDE DEF e
    <3>6. Worse(o, f)
      BY <3>5
    <3> HIDE DEF f
    <3>7. Worse(f, g)
      BY <3>6 DEF Worse, SinkRec, SinkFields
    <3> HIDE DEF g
    <3> QED
      BY <3>1, <3>2, <3>3, <3>4, <3>6, <3>7, WorseTwice
  <2> QED
    BY <2>1, <2>3, <2>4, <2>5, <2>6, <2>7, WorseTwice
<1>8. Worse(s, Sink!HandleM4Request(s, m, up))
  <2> DEFINE x == [s EXCEPT !.track = Sink!Tracks(m.params, @)]
             y == Sink!StopTimer(x)
             z == Sink!StartTimer(y, "M5")
             t == IF x.firstCast THEN z ELSE y
             u == Sink!SendCommonResponse(t, m.cseq, up)
             e == Sink!StopTimer(u)
             f == [u EXCEPT !.firstCast = FALSE]
             g == [f EXCEPT !.firstCreate = FALSE, !.creates = @ + 1]
  <2>1. Sink!HandleM4Request(s, m, up) \in {Sink!NotifyServiceError(e), f, g}
    BY DEF Sink!HandleM4Request
  <2>2. Worse(s, x)
    BY <1>2 DEF Worse, SinkRec, SinkFields
  <2> HIDE DEF x
  <2>3. Worse(x, y)
    BY <2>2, WorseCalls DEF Worse
  <2> HIDE DEF y
  <2>4. Worse(y, z) /\ Worse(y, y)
    BY <2>3, WorseCalls DEF Worse
  <2> HIDE DEF z
  <2>5. Worse(y, t)
    BY <2>4
  <2> HIDE DEF t
  <2>6. Worse(t, u)
    BY <2>5, WorseSends DEF Worse
  <2> HIDE DEF u
  <2>7. Worse(u, e)
    BY <2>6, WorseCalls DEF Worse
  <2> HIDE DEF e
  <2>8. Worse(e, Sink!NotifyServiceError(e))
    BY <2>7, WorseCalls DEF Worse
  <2>9. Worse(u, f)
    BY <2>6 DEF Worse, SinkRec, SinkFields
  <2> HIDE DEF f
  <2>10. Worse(f, g)
    BY <2>9 DEF Worse, SinkRec, SinkFields
  <2> HIDE DEF g
  <2> QED
    BY <2>1, <2>2, <2>3, <2>5, <2>6, <2>7, <2>8, <2>9, <2>10, WorseTwice
<1>9. Worse(s, s)
  BY <1>2, WorseCalls
<1> QED
  BY <1>2, <1>3, <1>4, <1>5, <1>6, <1>7, <1>8, <1>9, WorseTwice


\* The response m is handled: its handler goes, and only the answer to M6 asks for more.
Drops(k, l, m) == /\ l.handlers = {h \in k.handlers : h[1] # m.cseq}
                  /\ l.cseq = k.cseq /\ l.out = k.out
RespondsM6(k, l, m) == /\ l.handlers = {h \in k.handlers : h[1] # m.cseq /\ h[1] # k.cseq + 1} \cup {<<k.cseq + 1, "M7">>}
                       /\ l.cseq = k.cseq + 1 /\ l.timer # "off" /\ Speaks(k.out, l.out)
RespondsTo(k, l, m, what) ==
    \/ what = "M6" /\ RespondsM6(k, l, m) /\ ("PLAYED" \in l.told <=> "PLAYED" \in k.told)
    \/ what = "M7" /\ Drops(k, l, m) /\ "PLAYED" \in l.told
    \/ what = "IDR" /\ Drops(k, l, m) /\ ("PLAYED" \in l.told <=> "PLAYED" \in k.told)
    \/ /\ what \in {"M2", "M8"} /\ Drops(k, l, m) /\ ("PLAYED" \in l.told <=> "PLAYED" \in k.told)
       /\ k.timer # "off" => l.timer # "off"
Responds(k, l, m) == /\ Steady(k, l) /\ l.last = NoMessage /\ l.firstCast = k.firstCast
                     /\ \E h \in k.handlers : h[1] = m.cseq /\ RespondsTo(k, l, m, h[2])

\* HandleResponse, if hope remains; there was hope before.
LEMMA HopeResponds ==
    ASSUME NEW k, SinkRec(k), k.cseq \in Nat, k.client, k.wfd # "STOPPING", k.firstCast <=> k.firstCreate,
           k.handlers \subseteq (0..k.cseq) \X Sink!HandlerKinds, NEW m, Sink!Handlers(k, m.cseq) # {},
           NEW up \in BOOLEAN, NEW l, l = Sink!HandleResponse(k, m, up), Hopeful(l)
    PROVE  Hopeful(k) /\ Responds(k, l, m)
<1> DEFINE kind == CHOOSE x \in Sink!Handlers(k, m.cseq) : TRUE
           s == [k EXCEPT !.last = NoMessage]
           u == CASE kind = "M2"  -> Sink!HandleM2Response(s)
                  [] kind = "M6"  -> Sink!HandleM6Response(s, m, up)
                  [] kind = "M7"  -> Sink!HandleM7Response(s)
                  [] kind = "M8"  -> Sink!HandleM8Response(s)
                  [] kind = "IDR" -> Sink!HandleCommonResponse(s)
<1>1. s = [k EXCEPT !.last = Sink!NoMessage]
  BY NoMessageIs
<1>2. l = Sink!EraseHandler(u, m.cseq)
  BY <1>1 DEF Sink!HandleResponse
<1>3. /\ SinkRec(s) /\ s.client = k.client /\ s.wfd = k.wfd /\ s.sending = k.sending /\ s.starting = k.starting
      /\ s.firstCast = k.firstCast /\ s.firstCreate = k.firstCreate /\ s.told = k.told /\ s.last = NoMessage
      /\ s.cseq = k.cseq /\ s.handlers = k.handlers /\ s.timer = k.timer /\ s.out = k.out
      /\ s.interrupting = k.interrupting
  BY DEF SinkRec, SinkFields
<1>4. kind \in Sink!Handlers(k, m.cseq)
  OBVIOUS
<1> HIDE DEF kind, s
<1>5. PICK g \in k.handlers : g[1] = m.cseq /\ g[2] = kind
  BY <1>4 DEF Sink!Handlers
<1>6. kind \in {"M2", "M6", "M7", "M8", "IDR"} /\ m.cseq \in 0..k.cseq
  BY <1>5 DEF Sink!HandlerKinds
<1>7. /\ Hopeful(s) => Hopeful(k)
      /\ \A x : Worse(s, x) /\ Hopeful(x) => Hopeful(k)
  BY <1>3 DEF Worse, Hopeful
<1>8. ASSUME NEW x, SinkRec(x), l = Sink!EraseHandler(x, m.cseq)
      PROVE  /\ SinkRec(l) /\ l.client = x.client /\ l.wfd = x.wfd /\ l.sending = x.sending /\ l.starting = x.starting
             /\ l.firstCast = x.firstCast /\ l.firstCreate = x.firstCreate /\ l.told = x.told /\ l.last = x.last
             /\ l.cseq = x.cseq /\ l.timer = x.timer /\ l.out = x.out /\ l.interrupting = x.interrupting
             /\ l.handlers = {h \in x.handlers : h[1] # m.cseq}
  BY <1>8 DEF Sink!EraseHandler, SinkRec, SinkFields
<1>9. SUFFICES Hopeful(k) /\ Steady(k, l) /\ l.last = NoMessage /\ l.firstCast = k.firstCast /\ RespondsTo(k, l, m, kind)
  BY <1>5 DEF Responds
<1> DEFINE y == Sink!StopTimer(s)
<1>10. Silent(s, y) /\ Worse(s, y)
  BY <1>3, TimerIsSilent, WorseCalls
<1> HIDE DEF y
<1>11. CASE kind = "M2"
  <2> DEFINE z == Sink!StartTimer(y, "M3")
  <2>1. l = Sink!EraseHandler(z, m.cseq)
    BY <1>2, <1>11 DEF Sink!HandleM2Response, y
  <2>2. SinkRec(y)
    BY <1>10 DEF Worse
  <2>3. Silent(y, z) /\ z.timer # "off" /\ Worse(y, z)
    BY <2>2, TimerIsSilent, WorseCalls
  <2> HIDE DEF z
  <2>4. SinkRec(z)
    BY <2>3 DEF Worse
  <2>5. Unmoved(s, z) /\ z.out = s.out
    BY <1>10, <2>3, UnmovedTwice DEF Silent
  <2>6. Worse(s, z) /\ z.interrupting = s.interrupting
    BY <1>10, <2>3, WorseTwice DEF Worse
  <2>7. Hopeful(z)
    BY <1>8, <2>1, <2>4 DEF Hopeful
  <2>8. Hopeful(k)
    BY <1>7, <2>6, <2>7
  <2>9. Steady(k, l) /\ l.last = NoMessage /\ l.firstCast = k.firstCast
    BY <1>3, <1>8, <2>1, <2>4, <2>5 DEF Steady, Unmoved, Otherwise
  <2>10. RespondsTo(k, l, m, kind)
    BY <1>3, <1>8, <1>11, <2>1, <2>3, <2>4, <2>5 DEF RespondsTo, Drops, Unmoved, Otherwise
  <2> QED
    BY <2>8, <2>9, <2>10
<1>12. CASE kind = "M6"
  <2> DEFINE p == [s EXCEPT !.session = m.session]
             t == Sink!StopTimer(p)
             n == t.cseq + 1
             q == Sink!WithSession(Sink!RtspRequestPlay(n), t.session)
             v == Sink!SendTimedRequest(t, q, "M7", up)
  <2>1. l = Sink!EraseHandler(v, m.cseq)
    BY <1>2, <1>12 DEF Sink!HandleM6Response, Sink!SendM7Request
  <2>2. Unmoved(s, p) /\ p.out = s.out /\ Worse(s, p)
    BY <1>3 DEF Unmoved, Otherwise, Worse, SinkRec, SinkFields
  <2> HIDE DEF p
  <2>3. Silent(p, t) /\ Worse(p, t)
    <3>1. SinkRec(p)
      BY <2>2 DEF Worse
    <3> QED
      BY <3>1, TimerIsSilent, WorseCalls
  <2> HIDE DEF t
  <2>4. Unmoved(s, t) /\ t.out = s.out /\ Worse(s, t) /\ SinkRec(t)
    BY <2>2, <2>3, UnmovedTwice, WorseTwice DEF Silent, Worse
  <2>5. t.client /\ t.cseq = k.cseq /\ n \in Nat /\ t.wfd # "STOPPING"
    BY <1>3, <2>4 DEF Unmoved, Otherwise
  <2>6. Plain(q) /\ q.cseq = n
    <3> DEFINE id == t.session
    <3>1. n \in Nat /\ q = Sink!WithSession(Sink!RtspRequestPlay(n), id)
      BY <2>5
    <3> HIDE DEF n, id, q
    <3>2. Plain(q)
      BY <3>1, PlainMessages
    <3>4. Says(q, TRUE, "PLAY", "none", n)
      BY <3>1, SinkMessages
    <3>3. q.cseq = n
      BY <3>4 DEF Says
    <3> QED
      BY <3>2, <3>3
  <2> HIDE DEF q
  <2>7. v = Sink!SendTimedRequest(t, q, "M7", up) /\ "M7" # "off" /\ t.client /\ SinkRec(t)
    BY <2>4, <2>5
  <2>8. Worse(t, v)
    BY <2>7, WorseRequests
  <2> HIDE DEF v
  <2>9. SinkRec(v)
    BY <2>8 DEF Worse
  <2>10. Hopeful(v) /\ Hopeful(k)
    <3>1. Hopeful(v)
      BY <1>8, <2>1, <2>9 DEF Hopeful
    <3>2. Worse(s, v)
      BY <2>4, <2>8, WorseTwice
    <3> QED
      BY <1>7, <3>1, <3>2
  <2>11. up
    <3> SUFFICES ASSUME ~up PROVE FALSE
      OBVIOUS
    <3> DEFINE d == [t EXCEPT !.cseq = q.cseq]
               e == Sink!SetHandler(d, q.cseq, "M7")
               f == Sink!StartTimer(e, "M7")
               g1 == Sink!Send(f, q, up)
               g2 == Sink!EraseHandler(g1, q.cseq)
               g3 == Sink!StopTimer(g2)
    <3>1. v = Sink!NotifyServiceError(g3)
      BY <2>5, <2>7 DEF Sink!SendTimedRequest
    <3>2. SinkRec(d)
      BY <2>4 DEF SinkRec, SinkFields
    <3> HIDE DEF d
    <3>3. SinkRec(e)
      BY <3>2, WorseCalls DEF Worse
    <3> HIDE DEF e
    <3>4. SinkRec(f)
      BY <3>3, WorseCalls DEF Worse
    <3> HIDE DEF f
    <3>5. SinkRec(g1)
      BY <3>4, WorseSends DEF Worse
    <3> HIDE DEF g1
    <3>6. SinkRec(g2)
      BY <3>5, WorseCalls DEF Worse
    <3> HIDE DEF g2
    <3>7. SinkRec(g3)
      BY <3>6, WorseCalls DEF Worse
    <3> QED
      BY <2>10, <3>1, <3>7, ErrorIsHopeless
  <2>12. Otherwise(t, v) /\ Asks(t, v, q.cseq, "M7") /\ v.out = Append(t.out, q)
    BY ONLY <2>7, <2>11, up \in BOOLEAN, UpRequest
  <2>13. Otherwise(s, v)
    BY <2>4, <2>12, OtherwiseTwice DEF Unmoved
  <2>14. n = k.cseq + 1
    BY <2>5
  <2> HIDE DEF n
  <2>15. Steady(k, l) /\ l.last = NoMessage /\ l.firstCast = k.firstCast
    BY <1>3, <1>8, <2>1, <2>9, <2>13 DEF Steady, Otherwise
  <2>16. ("PLAYED" \in l.told <=> "PLAYED" \in k.told) /\ l.timer # "off" /\ l.cseq = k.cseq + 1
    BY <1>3, <1>8, <2>1, <2>6, <2>9, <2>12, <2>13, <2>14 DEF Asks, Otherwise
  <2>17. Speaks(k.out, l.out)
    BY <1>3, <1>8, <2>1, <2>4, <2>6, <2>9, <2>12 DEF Speaks
  <2>18. l.handlers = {h \in k.handlers : h[1] # m.cseq /\ h[1] # k.cseq + 1} \cup {<<k.cseq + 1, "M7">>}
    <3> DEFINE N == k.cseq + 1
               w == <<N, "M7">>
    <3>1. w[1] = N /\ m.cseq # N
      BY <1>6
    <3>2. l.handlers = {h \in v.handlers : h[1] # m.cseq} /\ v.handlers = {h \in k.handlers : h[1] # N} \cup {w}
      BY <1>3, <1>8, <2>1, <2>4, <2>6, <2>9, <2>12, <2>14 DEF Asks, Unmoved
    <3> HIDE DEF w, N
    <3>3. l.handlers = {h \in k.handlers : h[1] # m.cseq /\ h[1] # N} \cup {w}
      BY <3>1, <3>2
    <3> QED
      BY <3>3 DEF w, N
  <2> QED
    BY <1>12, <2>10, <2>15, <2>16, <2>17, <2>18 DEF RespondsTo, RespondsM6
<1>13. CASE kind = "M7"
  <2> DEFINE p == Sink!NotifyAgent(y, "PLAYED")
             z == [p EXCEPT !.wfd = "PLAYING", !.timeoutCall = "network", !.keepAlive = "on"]
  <2>1. l = Sink!EraseHandler(z, m.cseq)
    BY <1>2, <1>13 DEF Sink!HandleM7Response, y
  <2>2. /\ SinkRec(p) /\ p.client = y.client /\ p.sending = y.sending /\ p.starting = y.starting
        /\ p.firstCast = y.firstCast /\ p.firstCreate = y.firstCreate /\ p.last = y.last
        /\ p.cseq = y.cseq /\ p.handlers = y.handlers /\ p.out = y.out /\ p.interrupting = y.interrupting
        /\ p.told = y.told \cup {"PLAYED"}
    BY <1>10 DEF Sink!NotifyAgent, Worse, SinkRec, SinkFields
  <2> HIDE DEF p
  <2>3. /\ SinkRec(z) /\ z.client = p.client /\ z.sending = p.sending /\ z.starting = p.starting /\ z.wfd = "PLAYING"
        /\ z.firstCast = p.firstCast /\ z.firstCreate = p.firstCreate /\ z.last = p.last
        /\ z.cseq = p.cseq /\ z.handlers = p.handlers /\ z.out = p.out /\ z.interrupting = p.interrupting
        /\ z.told = p.told
    BY <2>2 DEF SinkRec, SinkFields
  <2> HIDE DEF z
  <2>4. /\ l.client = y.client /\ l.sending = y.sending /\ l.starting = y.starting /\ l.wfd = "PLAYING"
        /\ l.firstCast = y.firstCast /\ l.firstCreate = y.firstCreate /\ l.last = y.last
        /\ l.cseq = y.cseq /\ l.out = y.out /\ l.interrupting = y.interrupting
        /\ l.told = y.told \cup {"PLAYED"} /\ l.handlers = {h \in y.handlers : h[1] # m.cseq} /\ SinkRec(l)
    BY <1>8, <2>1, <2>2, <2>3
  <2>5. Hopeful(k)
    BY <1>3, <1>10, <2>4 DEF Hopeful, Worse
  <2>6. Steady(k, l) /\ l.last = NoMessage /\ l.firstCast = k.firstCast
    BY <1>3, <1>10, <2>4 DEF Steady, Silent, Unmoved, Otherwise
  <2>7. RespondsTo(k, l, m, kind)
    BY <1>3, <1>10, <1>13, <2>4 DEF RespondsTo, Drops, Silent, Unmoved, Otherwise
  <2> QED
    BY <2>5, <2>6, <2>7
<1>14. CASE kind = "M8"
  <2> DEFINE p == Sink!NotifyAgent(s, "TEARDOWN")
  <2>1. l = Sink!EraseHandler(p, m.cseq)
    BY <1>2, <1>14 DEF Sink!HandleM8Response
  <2>2. /\ SinkRec(p) /\ p.client = s.client /\ p.sending = s.sending /\ p.starting = s.starting /\ p.wfd = s.wfd
        /\ p.firstCast = s.firstCast /\ p.firstCreate = s.firstCreate /\ p.last = s.last /\ p.timer = s.timer
        /\ p.cseq = s.cseq /\ p.handlers = s.handlers /\ p.out = s.out /\ p.interrupting = s.interrupting
        /\ p.told = s.told \cup {"TEARDOWN"}
    BY ONLY <1>3 DEF Sink!NotifyAgent, SinkRec, SinkFields
  <2> HIDE DEF p
  <2>4. /\ l.client = k.client /\ l.sending = k.sending /\ l.starting = k.starting /\ l.wfd = k.wfd
        /\ l.firstCast = k.firstCast /\ l.firstCreate = k.firstCreate /\ l.last = NoMessage /\ l.timer = k.timer
        /\ l.cseq = k.cseq /\ l.out = k.out /\ l.interrupting = k.interrupting
        /\ l.told = k.told \cup {"TEARDOWN"} /\ l.handlers = {h \in k.handlers : h[1] # m.cseq} /\ SinkRec(l)
    <3>1. /\ l.client = p.client /\ l.sending = p.sending /\ l.starting = p.starting /\ l.wfd = p.wfd
          /\ l.firstCast = p.firstCast /\ l.firstCreate = p.firstCreate /\ l.last = p.last /\ l.timer = p.timer
          /\ l.cseq = p.cseq /\ l.out = p.out /\ l.interrupting = p.interrupting
          /\ l.told = p.told /\ l.handlers = {h \in p.handlers : h[1] # m.cseq} /\ SinkRec(l)
      BY <1>8, <2>1, <2>2
    <3> QED
      BY <1>3, <2>2, <3>1
  <2>5. Hopeful(k)
    BY <2>4 DEF Hopeful
  <2>6. Steady(k, l) /\ l.last = NoMessage /\ l.firstCast = k.firstCast
    BY <2>4 DEF Steady
  <2>7. RespondsTo(k, l, m, kind)
    BY <1>14, <2>4 DEF RespondsTo, Drops
  <2> QED
    BY <2>5, <2>6, <2>7
<1>15. CASE kind = "IDR"
  <2>1. l = Sink!EraseHandler(y, m.cseq) /\ SinkRec(y)
    BY <1>2, <1>10, <1>15 DEF Sink!HandleCommonResponse, Worse, y
  <2>2. Hopeful(k)
    <3>1. Hopeful(y)
      BY <1>8, <2>1 DEF Hopeful
    <3> QED
      BY <1>7, <1>10, <3>1
  <2>3. Steady(k, l) /\ l.last = NoMessage /\ l.firstCast = k.firstCast
    BY <1>3, <1>8, <1>10, <2>1 DEF Steady, Silent, Unmoved, Otherwise
  <2>4. RespondsTo(k, l, m, kind)
    BY <1>3, <1>8, <1>10, <1>15, <2>1 DEF RespondsTo, Drops, Silent, Unmoved, Otherwise
  <2> QED
    BY <2>2, <2>3, <2>4
<1> QED
  BY <1>6, <1>11, <1>12, <1>13, <1>14, <1>15

-----------------------------------------------------------------------------
(* One message is taken by the sink                                        *)

\* A queue without messages is empty.
LEMMA NoneLeft ==
    ASSUME NEW q, Queue(q), Len(q) = 0
    PROVE  q = <<>>
BY QueueLength

\* What is left of a queue keeps M4 alone, whether or not the sink forgets what it kept.
LEMMA M4OnceLeft ==
    ASSUME NEW k, NEW a, M4Once(k, a), NEW r, NEW n, Suffix(a, r, n),
           NEW l, l.last = k.last \/ l.last = NoMessage, l.firstCast = k.firstCast
    PROVE  M4Once(l, r)
<1>1. \A i \in 1..Len(r) : i + n \in 1..Len(a) /\ r[i] = a[i + n]
  BY SuffixEffect
<1>2. \A i, j \in 1..Len(r) : i + n = j + n => i = j
  BY SuffixEffect
<1>3. StartsM4(l.last) => StartsM4(k.last)
  BY NoMessageIs DEF StartsM4, IsM4
<1>4. \A i, j \in 1..Len(r) : StartsM4(r[i]) /\ StartsM4(r[j]) => i = j
  BY <1>1, <1>2 DEF M4Once
<1> QED
  BY <1>1, <1>3, <1>4 DEF M4Once

\* More of what was sent is lost; the answer to M2 is not.
LEMMA TimelyLeft ==
    ASSUME NEW k, NEW c, NEW a, NEW b, Timely(k, c, a, b), NEW r, NEW n, Suffix(a, r, n), Queue(a),
           ~Awaits(k, "M2") \/ a = <<>>
    PROVE  Timely(k, c, r, b)
<1>1. HasOptions(r) => HasOptions(a)
  BY SuffixEffect
<1>2. a = <<>> => r = <<>>
  <2> HAVE a = <<>>
  <2>1. Len(a) = 0
    BY EmptyQueue
  <2>2. Len(r) = 0 /\ Queue(r)
    BY <2>1 DEF Suffix
  <2> QED
    BY <2>2, NoneLeft
<1>3. StageM1(k, c, r, b)
  <2>1. HasOptions(r) => Len(r) = 1
    <3> HAVE HasOptions(r)
    <3>1. Len(a) = 1 /\ 1..Len(r) # {}
      BY <1>1 DEF Timely, StageM1, HasOptions
    <3> QED
      BY <3>1 DEF Suffix
  <2> QED
    BY <1>1, <1>2, <2>1 DEF Timely, StageM1, BeforeM1
<1>4. StageM2(k, c, r, b)
  BY <1>2 DEF Timely, StageM2
<1>5. StageM7(k, c, r, b)
  <2>1. HasM5(r) => HasM5(a)
    BY SuffixEffect
  <2> QED
    BY <1>1, <2>1 DEF Timely, StageM7
<1>6. M4Once(k, r)
  BY M4OnceLeft DEF Timely
<1> QED
  BY <1>3, <1>4, <1>5, <1>6 DEF Timely

\* Whoever reads a message has M1 behind it, or in hand.
LEMMA StageM1Left ==
    ASSUME NEW k, NEW c, NEW a, NEW b, StageM1(k, c, a, b), Queue(a), NEW r, NEW n, n >= 1, Suffix(a, r, n)
    PROVE  c.wfd # "M0" /\ ~HasOptions(r)
<1>1. n \in 0..Len(a) /\ Len(a) \in Nat /\ Len(r) = Len(a) - n
  BY DEF Suffix
<1>2. a # <<>>
  BY <1>1, EmptyQueue
<1>3. HasOptions(r) => Len(a) = 1 /\ 1..Len(r) # {}
  BY SuffixEffect DEF StageM1, HasOptions
<1> QED
  BY <1>1, <1>2, <1>3 DEF StageM1

\* The request m is in hand, the messages of r are not read.
Hears(k, c, r, b, m) ==
    /\ Watched(k) /\ Unstopped(k) /\ Afterwards(k) /\ k.last = NoMessage
    /\ M4Once(k, r) /\ StageM7(k, c, r, b) /\ ~Awaits(k, "M2")
    /\ c.wfd # "M0" /\ ~HasOptions(r)
    /\ IsM4(m) => k.firstCast /\ \A i \in 1..Len(r) : ~StartsM4(r[i])
    /\ IsM5(m) => ~Awaits(k, "M7")
    /\ IsOptions(m) => c.wfd = "M1" /\ r = <<>> /\ b = <<>> /\ k.handlers = {}

\* It was the first on its way, and the sink forgets what it kept.
LEMMA HearsFirst ==
    ASSUME NEW k, SinkRec(k), NEW c, NEW a, NEW b, Queue(a), Timely(k, c, a, b), NEW r, Suffix(a, r, 1), a[1].part = "whole",
           NEW m, SameMessage(m, a[1]), m.req, NEW s, s = [k EXCEPT !.last = NoMessage]
    PROVE  Hears(s, c, r, b, m)
<1>1. /\ s.last = NoMessage /\ s.handlers = k.handlers /\ s.cseq = k.cseq /\ s.timer = k.timer /\ s.told = k.told
      /\ s.wfd = k.wfd /\ s.sending = k.sending /\ s.starting = k.starting /\ s.client = k.client
      /\ s.firstCast = k.firstCast /\ s.firstCreate = k.firstCreate
  BY DEF SinkRec, SinkFields
<1>2. a # <<>> /\ 1 \in 1..Len(a)
  <2>1. Len(a) >= 1 /\ Len(a) \in Nat
    BY DEF Suffix
  <2> QED
    BY <2>1, EmptyQueue
<1>3. c.wfd # "M0" /\ ~HasOptions(r)
  BY StageM1Left DEF Timely
<1>4. ~Awaits(k, "M2")
  BY <1>2 DEF Timely, StageM2, AnswersM2, SameMessage
<1>5. M4Once(s, r)
  BY <1>1, M4OnceLeft DEF Timely
<1>6. IsM4(m) => s.firstCast /\ \A i \in 1..Len(r) : ~StartsM4(r[i])
  <2> HAVE IsM4(m)
  <2>1. StartsM4(a[1])
    BY DEF SameMessage, IsM4, StartsM4
  <2>2. \A i \in 1..Len(r) : i + 1 \in 1..Len(a) /\ r[i] = a[i + 1] /\ i + 1 # 1
    BY SuffixEffect
  <2> QED
    BY <1>1, <1>2, <2>1, <2>2 DEF Timely, M4Once
<1>7. IsM5(m) => IsM5(a[1])
  BY DEF SameMessage, IsM5
<1>8. IsM5(m) => ~Awaits(s, "M7")
  BY <1>1, <1>2, <1>7 DEF Timely, StageM7, HasM5, Awaits
<1>9. IsOptions(m) => c.wfd = "M1" /\ r = <<>> /\ b = <<>> /\ s.handlers = {}
  <2> HAVE IsOptions(m)
  <2>1. HasOptions(a)
    BY <1>2 DEF SameMessage, IsOptions, HasOptions
  <2>2. c.wfd = "M1" /\ b = <<>> /\ s.handlers = {} /\ Len(a) = 1
    BY <1>1, <2>1 DEF Timely, StageM1, BeforeM1
  <2>3. Len(r) = 0 /\ Queue(r)
    BY <2>2 DEF Suffix
  <2> QED
    BY <2>2, <2>3, NoneLeft
<1>10. StageM7(s, c, r, b)
  <2>1. (HasM5(r) => HasM5(a)) /\ (SinkToken(s) => SinkToken(k))
    BY <1>1, SuffixEffect, NoMessageIs DEF SinkToken, IsM5
  <2> QED
    BY <1>1, <1>3, <2>1 DEF Timely, StageM7, Awaits
<1>11. Watched(s) /\ Unstopped(s) /\ Afterwards(s) /\ ~Awaits(s, "M2")
  BY <1>1, <1>4 DEF Timely, Watched, Unstopped, Afterwards, Awaits
<1> QED
  BY <1>1, <1>3, <1>5, <1>6, <1>8, <1>9, <1>10, <1>11 DEF Hears

\* It was cut, and the sink had kept its head.
LEMMA HearsJoined ==
    ASSUME NEW k, SinkRec(k), NEW c, NEW a, NEW b, Queue(a), Timely(k, c, a, b), NEW r, Suffix(a, r, 1),
           k.last.req, k.last.method # "OPTIONS", k.last.part # "tail",
           NEW m, SameMessage(m, k.last), NEW s, s = [k EXCEPT !.last = NoMessage]
    PROVE  Hears(s, c, r, b, m)
<1>1. /\ s.last = NoMessage /\ s.handlers = k.handlers /\ s.cseq = k.cseq /\ s.timer = k.timer /\ s.told = k.told
      /\ s.wfd = k.wfd /\ s.sending = k.sending /\ s.starting = k.starting /\ s.client = k.client
      /\ s.firstCast = k.firstCast /\ s.firstCreate = k.firstCreate
  BY DEF SinkRec, SinkFields
<1>3. c.wfd # "M0" /\ ~HasOptions(r)
  BY StageM1Left DEF Timely
<1>4. ~Awaits(k, "M2")
  BY DEF Timely, StageM2
<1>5. M4Once(s, r)
  BY <1>1, M4OnceLeft DEF Timely
<1>6. IsM4(m) => s.firstCast /\ \A i \in 1..Len(r) : ~StartsM4(r[i])
  <2> HAVE IsM4(m)
  <2>1. StartsM4(k.last)
    BY DEF SameMessage, IsM4, StartsM4
  <2>2. \A i \in 1..Len(r) : i + 1 \in 1..Len(a) /\ r[i] = a[i + 1]
    BY SuffixEffect
  <2> QED
    BY <1>1, <2>1, <2>2 DEF Timely, M4Once
<1>7. IsM5(m) => IsM5(k.last)
  BY DEF SameMessage, IsM5
<1>8. IsM5(m) => ~Awaits(s, "M7")
  BY <1>1, <1>7 DEF Timely, StageM7, SinkToken, Awaits
<1>9. ~IsOptions(m)
  BY DEF SameMessage, IsOptions
<1>10. StageM7(s, c, r, b)
  <2>1. (HasM5(r) => HasM5(a)) /\ (SinkToken(s) => SinkToken(k))
    BY <1>1, SuffixEffect, NoMessageIs DEF SinkToken, IsM5
  <2> QED
    BY <1>1, <1>3, <2>1 DEF Timely, StageM7, Awaits
<1>11. Watched(s) /\ Unstopped(s) /\ Afterwards(s) /\ ~Awaits(s, "M2")
  BY <1>1, <1>4 DEF Timely, Watched, Unstopped, Afterwards, Awaits
<1> QED
  BY <1>1, <1>3, <1>5, <1>6, <1>8, <1>9, <1>10, <1>11 DEF Hears

-----------------------------------------------------------------------------
(* The handlers of the sink keep the requests timed                        *)

\* Whatever else is sent, it is not OPTIONS.
LEMMA PlainSpeech ==
    ASSUME NEW t, NEW o, NEW p, Queue(t), Queue(o), Speaks(o, p)
    PROVE  Queue(p) /\ (HasOptions(t \o p) => HasOptions(t \o o))
<1>1. CASE p = o
  BY <1>1
<1>2. ASSUME NEW m, Plain(m), p = Append(o, m)
      PROVE  Queue(p) /\ (HasOptions(t \o p) => HasOptions(t \o o))
  <2>1. IsMessage(m) /\ m.part \in Parts /\ ~IsOptions(m)
    BY <1>2 DEF Plain, Parts
  <2>2. Queue(p) /\ Appended(t \o o, m, t \o p)
    BY <1>2, <2>1, SentBehind
  <2> DEFINE q == t \o o
             r == t \o p
  <2>3. Appended(q, m, r)
    BY <2>2
  <2> HIDE DEF q, r
  <2>4. HasOptions(r) => HasOptions(q)
    BY <2>1, <2>3, AppendedEffect
  <2> QED
    BY <2>2, <2>4 DEF q, r
<1> QED
  BY <1>1, <1>2 DEF Speaks

\* M1 is answered with M2, onto an idle connection.
LEMMA TimelyM1 ==
    ASSUME NEW s, NEW c, NEW r, NEW t, Queue(t), Queue(s.out), t \o s.out = <<>>,
           NEW m, Hears(s, c, r, t \o s.out, m), SinkHolds(s, c, r, t \o s.out, m), m.req,
           Exchange(s, c, r, t \o s.out),
           NEW l, Answers(s, l, m), AsksM2(s, l, m)
    PROVE  Timely(l, c, r, t \o l.out)
<1> DEFINE n == m.cseq + 1
           w == <<n, "M2">>
<1>1. c.wfd = "M1" /\ r = <<>> /\ s.handlers = {}
  BY DEF Hears, AsksM2
<1>2. w[1] = n /\ w[2] = "M2"
  OBVIOUS
<1>3. l.handlers = {w} /\ l.cseq = n /\ l.timer # "off" /\ l.firstCast
  BY <1>1 DEF AsksM2, Asks
<1> HIDE DEF w
<1>4. "PLAYED" \notin c.told /\ "PLAYED" \notin l.told
  BY DEF AsksM2, SinkHolds, NoToken, SourceToken, Exchange, Progress, Answers
<1>5. l.last = NoMessage /\ ~l.last.req /\ ~StartsM4(l.last)
  BY NoMessageIs DEF Answers, Hears, StartsM4, IsM4
<1>6. 1..Len(r) = {} /\ ~HasOptions(r)
  BY <1>1, EmptyQueue DEF HasOptions
<1> DEFINE q == t \o l.out
<1>7. \A i \in 1..Len(q) : BeforeM2(q[i]) /\ (q[i].req => q[i].cseq = n /\ i = Len(q))
  <2>1. PICK x, y : /\ l.out = Append(Append(s.out, x), y)
                    /\ Says(x, FALSE, "OK", "none", m.cseq)
                    /\ Says(y, TRUE, "OPTIONS", "none", n)
    BY DEF AsksM2
  <2> DEFINE o == Append(s.out, x)
             p == t \o o
  <2>2. IsMessage(x) /\ x.part \in Parts /\ IsMessage(y) /\ y.part \in Parts
    BY <2>1 DEF Says, Parts
  <2>3. Queue(o) /\ Appended(t \o s.out, x, p)
    BY <2>2, SentBehind
  <2>4. l.out = Append(o, y)
    BY <2>1
  <2> HIDE DEF o, p
  <2>5. Appended(<<>>, x, p)
    BY <2>3
  <2>6. Appended(t \o o, y, t \o l.out)
    BY <2>2, <2>3, <2>4, SentBehind
  <2>7. Appended(p, y, q)
    BY <2>6 DEF p
  <2> HIDE DEF q
  <2>8. \A i \in 1..Len(q) : (i = 1 /\ q[i] = x) \/ (i = 2 /\ q[i] = y)
    <3>1. Len(<<>>) = 0 /\ Len(p) = 1 /\ p[1] = x
      BY <2>5 DEF Appended
    <3>2. Len(q) = 2 /\ q[1] = x /\ q[2] = y
      BY <2>7, <3>1 DEF Appended
    <3> QED
      BY <3>2
  <2>9. Len(q) = 2
    <3>1. Len(<<>>) = 0
      BY EmptyQueue
    <3> QED
      BY <2>5, <2>7, <3>1 DEF Appended
  <2>10. BeforeM2(x) /\ ~x.req /\ BeforeM2(y) /\ y.cseq = n
    BY <2>1 DEF Says, BeforeM2, IsOptions
  <2> QED
    BY <2>8, <2>9, <2>10
<1> HIDE DEF q, n
<1>8. Watched(l)
  BY <1>3 DEF Watched
<1>9. Unstopped(l)
  BY DEF Answers, Steady, Hears, Unstopped
<1>10. M4Once(l, r)
  BY <1>3, <1>5, <1>6 DEF M4Once
<1>11. StageM1(l, c, r, q)
  BY <1>1, <1>6 DEF StageM1, BeforeM1
<1>12. StageM2(l, c, r, q)
  <2>1. \A h \in l.handlers : h = <<l.cseq, "M2">>
    BY <1>3 DEF w
  <2> QED
    BY <1>1, <1>3, <1>4, <1>5, <1>7, <2>1 DEF StageM2
<1>13. ~Awaits(l, "M7") /\ ~Awaits(l, "IDR")
  BY <1>2, <1>3 DEF Awaits
<1>14. StageM7(l, c, r, q) /\ Afterwards(l)
  BY <1>4, <1>13 DEF StageM7, Afterwards
<1> QED
  BY <1>8, <1>9, <1>10, <1>11, <1>12, <1>14 DEF Timely, q

\* M5 is answered with M6, the others with a response at most.
LEMMA TimelyAnswers ==
    ASSUME NEW s, NEW c, NEW r, NEW t, Queue(t), Queue(s.out),
           NEW m, Hears(s, c, r, t \o s.out, m), SinkHolds(s, c, r, t \o s.out, m), m.req,
           Exchange(s, c, r, t \o s.out), NEW l, Answers(s, l, m)
    PROVE  Timely(l, c, r, t \o l.out)
<1>1. CASE AsksM2(s, l, m)
  <2>1. t \o s.out = <<>>
    BY <1>1 DEF AsksM2, Hears
  <2> QED
    BY <1>1, <2>1, TimelyM1
<1>2. /\ l.last = NoMessage /\ ~l.last.req /\ ~StartsM4(l.last) /\ ~IsM5(l.last)
      /\ "PLAYED" \in l.told <=> "PLAYED" \in s.told
  BY NoMessageIs DEF Answers, Hears, StartsM4, IsM4, IsM5
<1>3. Unstopped(l)
  BY DEF Answers, Steady, Hears, Unstopped
<1>4. StageM1(l, c, r, t \o l.out)
  BY DEF Hears, StageM1, BeforeM1
<1>5. CASE AsksM6(s, l, m)
  <2> DEFINE n == s.cseq + 1
             w == <<n, "M6">>
  <2>1. w[2] = "M6"
    OBVIOUS
  <2>2. l.handlers \subseteq s.handlers \cup {w} /\ l.timer # "off" /\ l.firstCast = s.firstCast
    BY <1>5 DEF AsksM6, Asks
  <2> HIDE DEF w
  <2>3. ~Awaits(l, "M2") /\ ~Awaits(l, "M7") /\ (Awaits(l, "IDR") => Awaits(s, "IDR"))
    BY <1>5, <2>1, <2>2 DEF Awaits, AsksM6, Hears
  <2>4. Watched(l)
    BY <2>2 DEF Watched
  <2>5. M4Once(l, r)
    BY <1>2, <2>2 DEF M4Once, Hears
  <2>6. StageM2(l, c, r, t \o l.out) /\ StageM7(l, c, r, t \o l.out)
    BY <2>3 DEF StageM2, StageM7
  <2>7. Afterwards(l)
    BY <1>2, <2>3 DEF Afterwards, Hears
  <2> QED
    BY <1>3, <1>4, <2>4, <2>5, <2>6, <2>7 DEF Timely
<1>6. CASE Replies(s, l, m)
  <2>1. l.handlers = s.handlers /\ l.cseq = s.cseq
    BY <1>6 DEF Replies
  <2>2. \A what : Awaits(l, what) <=> Awaits(s, what)
    BY <2>1 DEF Awaits
  <2>3. Watched(l)
    BY <1>6, <2>2 DEF Watched, Hears, Replies
  <2>4. M4Once(l, r)
    <3>1. CASE IsM4(m)
      BY <1>2, <3>1 DEF M4Once, Hears
    <3>2. CASE ~IsM4(m)
      <4>1. l.firstCast = s.firstCast
        BY <1>6, <3>2 DEF Replies
      <4> QED
        BY <1>2, <4>1 DEF M4Once, Hears
    <3> QED
      BY <3>1, <3>2
  <2>5. StageM2(l, c, r, t \o l.out)
    BY <2>2 DEF StageM2, Hears
  <2>6. StageM7(l, c, r, t \o l.out)
    <3>1. HasOptions(t \o l.out) => HasOptions(t \o s.out)
      BY <1>6, PlainSpeech DEF Replies
    <3>2. SinkToken(l) => SinkToken(s)
      BY <1>2, <2>1 DEF SinkToken
    <3> QED
      BY <2>1, <2>2, <3>1, <3>2 DEF StageM7, Hears
  <2>7. Afterwards(l)
    BY <1>2, <2>2 DEF Afterwards, Hears
  <2> QED
    BY <1>3, <1>4, <2>3, <2>4, <2>5, <2>6, <2>7 DEF Timely
<1> QED
  BY <1>1, <1>5, <1>6 DEF Answers

\* A response is taken, whatever it answers.
LEMMA TimelyResponds ==
    ASSUME NEW k, NEW c, NEW a, NEW b, Queue(b), k.out = <<>>, Exchange(k, c, a, b), Timely(k, c, a, b),
           NEW r, Suffix(a, r, 1), a[1].part = "whole", NEW m, SameMessage(m, a[1]), ~m.req, NEW l, Responds(k, l, m)
    PROVE  Timely(l, c, r, b \o l.out) /\ ~Awaits(l, "M2")
<1>1. PICK h \in k.handlers : h[1] = m.cseq /\ RespondsTo(k, l, m, h[2])
  BY DEF Responds
<1>2. l.last = NoMessage /\ ~StartsM4(l.last) /\ ~IsM5(l.last) /\ l.firstCast = k.firstCast
  BY NoMessageIs DEF Responds, StartsM4, IsM4, IsM5
<1>3. Unstopped(l)
  BY DEF Responds, Steady, Timely, Unstopped
<1>4. M4Once(l, r)
  BY <1>2, M4OnceLeft DEF Timely
<1>5. StageM1(l, c, r, b \o l.out)
  <2>1. c.wfd # "M0" /\ ~HasOptions(r)
    <3>1. Queue(a)
      BY DEF Exchange
    <3> QED
      BY <3>1, StageM1Left DEF Timely
  <2> QED
    BY <2>1 DEF StageM1, BeforeM1
<1>6. "PLAYED" \in k.told => ~SinkToken(k)
  BY DEF Exchange, Progress, OneToken, SourceToken
<1>7. h[2] # "M2" => ~Awaits(k, "M2")
  <2> SUFFICES ASSUME h[2] # "M2", Awaits(k, "M2") PROVE FALSE
    OBVIOUS
  <2> DEFINE w == <<k.cseq, "M2">>
  <2>1. h = w
    BY DEF Timely, StageM2
  <2>2. w[2] = "M2"
    OBVIOUS
  <2> QED
    BY <2>1, <2>2
<1>8. ASSUME l.handlers \subseteq k.handlers, ~Awaits(l, "M2"), l.out = k.out, Watched(l),
             "PLAYED" \in l.told => ~Awaits(l, "M7"), "PLAYED" \in k.told => "PLAYED" \in l.told
      PROVE  Timely(l, c, r, b \o l.out)
  <2>1. b \o l.out = b
    BY <1>8, QueueLength
  <2>2. \A what : Awaits(l, what) => Awaits(k, what)
    BY <1>8 DEF Awaits
  <2>3. StageM2(l, c, r, b)
    BY <1>8 DEF StageM2
  <2>4. StageM7(l, c, r, b)
    <3>1. (HasOptions(r) => HasOptions(a)) /\ (HasM5(r) => HasM5(a))
      BY SuffixEffect
    <3>2. SinkToken(l) => SinkToken(k)
      BY <1>2, <1>8 DEF SinkToken
    <3> QED
      BY <1>8, <2>2, <3>1, <3>2 DEF StageM7, Timely
  <2>5. Afterwards(l)
    BY <1>8, <2>2 DEF Afterwards, Timely
  <2> QED
    BY <1>3, <1>4, <1>5, <1>8, <2>1, <2>3, <2>4, <2>5 DEF Timely
<1>9. CASE h[2] = "M2"
  <2>1. Drops(k, l, m)
    BY <1>1, <1>9 DEF RespondsTo
  <2>2. l.handlers = {}
    <3>1. Awaits(k, "M2")
      BY <1>9 DEF Awaits
    <3>2. \A g \in k.handlers : g = h
      BY <3>1 DEF Timely, StageM2
    <3> QED
      BY <1>1, <2>1, <3>2 DEF Drops
  <2>3. ~Awaits(l, "M2") /\ ~Awaits(l, "M6") /\ ~Awaits(l, "M7")
    BY <2>2 DEF Awaits
  <2>4. "PLAYED" \in k.told => "PLAYED" \in l.told
    BY <1>1, <1>9 DEF RespondsTo
  <2> QED
    BY <1>8, <2>1, <2>2, <2>3, <2>4 DEF Watched, Drops
<1>10. CASE h[2] = "M8"
  <2>1. Drops(k, l, m) /\ (k.timer # "off" => l.timer # "off") /\ ("PLAYED" \in l.told <=> "PLAYED" \in k.told)
    BY <1>1, <1>10 DEF RespondsTo
  <2>2. l.handlers \subseteq k.handlers /\ \A what : Awaits(l, what) => Awaits(k, what)
    BY <2>1 DEF Drops, Awaits
  <2>3. Watched(l) /\ ~Awaits(l, "M2") /\ ("PLAYED" \in l.told => ~Awaits(l, "M7"))
    BY <1>7, <1>10, <2>1, <2>2 DEF Watched, Timely, Afterwards
  <2> QED
    BY <1>8, <2>1, <2>2, <2>3 DEF Drops
<1>11. CASE h[2] = "IDR"
  <2>1. Drops(k, l, m) /\ ("PLAYED" \in l.told <=> "PLAYED" \in k.told)
    BY <1>1, <1>11 DEF RespondsTo
  <2>2. l.handlers \subseteq k.handlers /\ \A what : Awaits(l, what) => Awaits(k, what)
    BY <2>1 DEF Drops, Awaits
  <2>3. "PLAYED" \in k.told
    BY <1>11 DEF Timely, Afterwards, Awaits
  <2>4. ~Awaits(k, "M2") /\ ~Awaits(k, "M6") /\ ~Awaits(k, "M7")
    BY <1>6, <2>3 DEF Timely, Afterwards, SinkToken, Awaits
  <2> QED
    BY <1>8, <2>1, <2>2, <2>4 DEF Drops, Watched
<1>12. CASE h[2] = "M7"
  <2>1. Drops(k, l, m) /\ "PLAYED" \in l.told
    BY <1>1, <1>12 DEF RespondsTo
  <2>2. l.handlers \subseteq k.handlers /\ \A what : Awaits(l, what) => Awaits(k, what)
    BY <2>1 DEF Drops, Awaits
  <2>3. Awaits(k, "M7")
    BY <1>12 DEF Awaits
  <2>4. ~Awaits(k, "M2") /\ ~Awaits(k, "M6")
    BY <1>7, <1>12, <2>3 DEF Timely, StageM7, SinkToken, Awaits
  <2>5. ~Awaits(l, "M7")
    <3>1. \A g \in k.handlers : g[2] = "M7" => g = h
      BY <1>12, <2>3 DEF Timely, StageM7
    <3> QED
      BY <1>1, <2>1, <3>1 DEF Drops, Awaits
  <2> QED
    BY <1>8, <2>1, <2>2, <2>4, <2>5 DEF Drops, Watched
<1>13. CASE h[2] = "M6"
  <2> DEFINE n == k.cseq + 1
             w == <<n, "M7">>
  <2>1. RespondsM6(k, l, m) /\ ("PLAYED" \in l.told <=> "PLAYED" \in k.told)
    BY <1>1, <1>13 DEF RespondsTo
  <2>2. w[2] = "M7" /\ l.handlers = {g \in k.handlers : g[1] # m.cseq /\ g[1] # n} \cup {w}
        /\ l.timer # "off" /\ Speaks(k.out, l.out)
    BY <2>1 DEF RespondsM6
  <2> HIDE DEF w, n
  <2>3. SinkToken(k) /\ "PLAYED" \notin k.told /\ ~Awaits(k, "M2")
    BY <1>6, <1>7, <1>13 DEF SinkToken
  <2>4. ~Awaits(k, "M7") /\ ~Awaits(k, "IDR")
    BY <2>3 DEF Timely, StageM7, Afterwards
  <2>5. ~Awaits(l, "M2") /\ ~Awaits(l, "IDR")
    BY <2>2, <2>3, <2>4 DEF Awaits
  <2>6. \A g, f \in l.handlers : g[2] = "M7" /\ f[2] = "M7" => g = f
    BY <2>2, <2>4 DEF Awaits
  <2>7. ~SinkToken(l)
    <3>1. \A g \in k.handlers : g[2] = "M6" => g = h
      BY <1>13 DEF Exchange, OneToken
    <3> QED
      BY <1>1, <1>2, <2>2, <3>1 DEF SinkToken
  <2>8. ~HasOptions(r) /\ ~HasM5(r) /\ ~HasOptions(b \o l.out) /\ c.wfd \notin {"M0", "M3", "M4"}
    <3>1. ~HasOptions(a) /\ ~HasM5(a) /\ ~HasOptions(b) /\ c.wfd \notin {"M0", "M3", "M4"}
      BY <2>3 DEF Exchange, OneToken, SourceToken
    <3>2. (HasOptions(r) => HasOptions(a)) /\ (HasM5(r) => HasM5(a))
      BY SuffixEffect
    <3>3. HasOptions(b \o l.out) => HasOptions(b \o k.out)
      BY <2>2, EmptyQueue, PlainSpeech
    <3>4. b \o k.out = b
      BY QueueLength
    <3> QED
      BY <3>1, <3>2, <3>3, <3>4
  <2>9. Watched(l) /\ Afterwards(l)
    BY <2>1, <2>2, <2>3, <2>5 DEF Watched, Afterwards
  <2>10. StageM2(l, c, r, b \o l.out) /\ StageM7(l, c, r, b \o l.out)
    BY <2>5, <2>6, <2>7, <2>8 DEF StageM2, StageM7
  <2> QED
    BY <1>3, <1>4, <1>5, <2>5, <2>9, <2>10 DEF Timely
<1> QED
  BY <1>1, <1>9, <1>10, <1>11, <1>12, <1>13 DEF RespondsTo

-----------------------------------------------------------------------------
(* One read of the sink                                                    *)

\* HandleResponse takes nothing back.
LEMMA WorseResponded ==
    ASSUME NEW k, SinkRec(k), NEW m, NEW up, Sink!Handlers(k, m.cseq) # {}, \A h \in k.handlers : h[2] \in Sink!HandlerKinds
    PROVE  Worse(k, Sink!HandleResponse(k, m, up))
<1> DEFINE kind == CHOOSE x \in Sink!Handlers(k, m.cseq) : TRUE
           s == [k EXCEPT !.last = NoMessage]
           y == Sink!StopTimer(s)
           z == Sink!StartTimer(y, "M3")
           p == [s EXCEPT !.session = m.session]
           t == Sink!StopTimer(p)
           q == Sink!WithSession(Sink!RtspRequestPlay(t.cseq + 1), t.session)
           v == Sink!SendTimedRequest(t, q, "M7", up)
           f == Sink!NotifyAgent(y, "PLAYED")
           g == [f EXCEPT !.wfd = "PLAYING", !.timeoutCall = "network", !.keepAlive = "on"]
           e == Sink!NotifyAgent(s, "TEARDOWN")
           l == Sink!HandleResponse(k, m, up)
<1>1. s = [k EXCEPT !.last = Sink!NoMessage]
  BY NoMessageIs
<1>2. kind \in Sink!Handlers(k, m.cseq)
  OBVIOUS
<1>3. kind \in {"M2", "M6", "M7", "M8", "IDR"}
  <2> HIDE DEF kind
  <2> QED
    BY <1>2 DEF Sink!Handlers, Sink!HandlerKinds
<1>4. \E x \in {z, v, g, e, y} : l = Sink!EraseHandler(x, m.cseq)
  <2> HIDE DEF s
  <2> DEFINE u == CASE kind = "M2"  -> Sink!HandleM2Response(s)
                    [] kind = "M6"  -> Sink!HandleM6Response(s, m, up)
                    [] kind = "M7"  -> Sink!HandleM7Response(s)
                    [] kind = "M8"  -> Sink!HandleM8Response(s)
                    [] kind = "IDR" -> Sink!HandleCommonResponse(s)
  <2>1. l = Sink!EraseHandler(u, m.cseq)
    BY <1>1 DEF Sink!HandleResponse
  <2> HIDE DEF l, kind
  <2>2. u \in {z, v, g, e, y}
    BY <1>3 DEF Sink!HandleM2Response, Sink!HandleM6Response, Sink!SendM7Request, Sink!HandleM7Response,
                Sink!HandleM8Response, Sink!HandleCommonResponse
  <2> QED
    BY <2>1, <2>2
<1>5. Worse(k, s) /\ SinkRec(s)
  BY ONLY SinkRec(k) DEF Worse, SinkRec, SinkFields
<1> HIDE DEF l, kind, s
<1>6. Worse(s, y) /\ Worse(s, p) /\ Worse(s, e)
  <2>1. Worse(s, p)
    BY ONLY <1>5 DEF Worse, SinkRec, SinkFields
  <2>2. Worse(s, y) /\ Worse(s, e)
    BY <1>5, WorseCalls
  <2> QED
    BY <2>1, <2>2
<1> HIDE DEF y, p, e
<1>7. Worse(y, z) /\ Worse(y, f) /\ Worse(p, t)
  BY <1>6, WorseCalls DEF Worse
<1> HIDE DEF z, f, t, q
<1>8. Worse(t, v) /\ Worse(f, g)
  <2>1. Worse(t, v)
    BY <1>7, WorseRequests DEF Worse
  <2>2. Worse(f, g)
    BY <1>7 DEF Worse, SinkRec, SinkFields
  <2> QED
    BY <2>1, <2>2
<1> HIDE DEF v, g
<1>9. Worse(k, z) /\ Worse(k, v) /\ Worse(k, g) /\ Worse(k, e) /\ Worse(k, y)
  BY <1>5, <1>6, <1>7, <1>8, WorseTwice
<1>10. PICK x : Worse(k, x) /\ l = Sink!EraseHandler(x, m.cseq)
  BY <1>4, <1>9
<1>11. Worse(x, l)
  BY <1>10, WorseCalls DEF Worse
<1>12. Worse(k, l)
  BY <1>10, <1>11, WorseTwice
<1> QED
  BY <1>12 DEF l

\* A message that arrived whole is the one that is handled.
LEMMA WholeParses ==
    ASSUME NEW q, Queue(q), NEW n \in 1..Len(q), q[1].part = "whole", NEW last
    PROVE  /\ SameMessage(Sink!ReadFirst(SubSeq(q, 1, n), last), q[1])
           /\ SameMessage(Source!ReadFirst(SubSeq(q, 1, n), last), q[1])
<1> DEFINE chunk == SubSeq(q, 1, n)
<1>1. Queue(chunk) /\ Len(chunk) >= 1 /\ chunk[1] = q[1]
  <2>1. Queue(chunk) /\ Len(chunk) = n /\ \A i \in 1..n : chunk[i] = q[i]
    BY Chunk
  <2>2. n \in Nat /\ n >= 1
    BY QueueLength
  <2> HIDE DEF chunk
  <2> QED
    BY <2>1, <2>2
<1> HIDE DEF chunk
<1>2. Sink!ReadFirst(chunk, last) = Sink!FirstParsed(chunk) /\ Source!ReadFirst(chunk, last) = Source!FirstParsed(chunk)
  BY <1>1 DEF Sink!ReadFirst, Source!ReadFirst
<1>3. SameMessage(Sink!ReadFirst(chunk, last), q[1]) /\ SameMessage(Source!ReadFirst(chunk, last), q[1])
  BY <1>1, <1>2, ParsedIs
<1> QED
  BY <1>3 DEF chunk

\* While M2 is awaited nothing is left of what was read.
AllRead(l, r) == Awaits(l, "M2") => r = <<>>

\* M2 is only sent when nothing is left to be read, and no other request is answered while M2 is awaited.
LEMMA AnswersLeave ==
    ASSUME NEW s, NEW c, NEW r, NEW b, NEW m, Hears(s, c, r, b, m), NEW l, Answers(s, l, m)
    PROVE  AllRead(l, r)
<1>1. ~Awaits(s, "M2") /\ (IsOptions(m) => r = <<>>)
  BY DEF Hears
<1>2. CASE AsksM6(s, l, m)
  <2> DEFINE i == s.cseq + 1
             w == <<i, "M6">>
  <2>1. w[2] = "M6"
    OBVIOUS
  <2>2. l.handlers \subseteq s.handlers \cup {w}
    BY <1>2 DEF AsksM6, Asks
  <2> HIDE DEF w
  <2> QED
    BY <1>1, <2>1, <2>2 DEF Awaits, AllRead
<1>3. CASE Replies(s, l, m)
  BY <1>1, <1>3 DEF Replies, Awaits, AllRead
<1>4. CASE AsksM2(s, l, m)
  BY <1>1, <1>4 DEF AsksM2, AllRead
<1> QED
  BY <1>2, <1>3, <1>4 DEF Answers, AllRead

\* A request in hand: all that is known of it.
InHand(s, c, r, q, m) == Hears(s, c, r, q, m) /\ SinkHolds(s, c, r, q, m) /\ Exchange(s, c, r, q) /\ m.req

\* It is handled; there was hope, since some is left.
LEMMA TimelyHandled ==
    ASSUME NEW j, SinkRec(j), j.client, NEW s, s = [j EXCEPT !.last = NoMessage],
           NEW b, Queue(b), Queue(j.out), NEW c, NEW r, NEW m, InHand(s, c, r, b \o j.out, m),
           NEW up \in BOOLEAN, NEW l, l = Sink!HandleRequest(j, m, up), Hopeful(l)
    PROVE  Timely(l, c, r, b \o l.out) /\ AllRead(l, r)
<1>0. Hears(s, c, r, b \o j.out, m) /\ SinkHolds(s, c, r, b \o j.out, m) /\ Exchange(s, c, r, b \o j.out) /\ m.req
  BY DEF InHand
<1>1. SinkRec(s) /\ s.out = j.out /\ s.client = j.client /\ s.wfd = j.wfd
  BY DEF SinkRec, SinkFields
<1>2. s.wfd # "STOPPING" /\ (s.firstCast <=> s.firstCreate)
  BY <1>0 DEF Hears, Unstopped
<1>3. s.cseq \in Nat /\ OfExchange(m)
  BY <1>0 DEF Exchange, Numbers, SinkHolds, OfExchange
<1>4. Answers(s, l, m)
  BY <1>0, <1>1, <1>2, <1>3, HopeAnswers
<1>5. Hears(s, c, r, b \o s.out, m) /\ SinkHolds(s, c, r, b \o s.out, m) /\ Exchange(s, c, r, b \o s.out) /\ Queue(s.out) /\ m.req
  BY <1>0, <1>1
<1>6. Timely(l, c, r, b \o l.out)
  BY <1>4, <1>5, TimelyAnswers
<1>7. AllRead(l, r)
  BY <1>4, <1>5, AnswersLeave
<1> QED
  BY <1>6, <1>7

\* OnClientReadData.
LEMMA TimelyRead ==
    ASSUME NEW k, NEW c, NEW a, NEW b, Exchange(k, c, a, b), Hopeful(k) => Timely(k, c, a, b), k.out = <<>>, SocketOK(k),
           k.client, NEW n \in 1..Len(a), n = 1 \/ \A i \in 1..n : a[i].part = "whole", NEW up \in BOOLEAN,
           NEW l, l = Sink!ReadData(k, SubSeq(a, 1, n), up), Hopeful(l), NEW r, r = SubSeq(a, n + 1, Len(a))
    PROVE  Timely(l, c, r, b \o l.out)
<1> DEFINE chunk == SubSeq(a, 1, n)
           first == Sink!ReadFirst(chunk, k.last)
           second == Sink!ReadSecond(chunk)
           kept == Sink!ReadKeeps(chunk)
           t == Sink!HandleResponse(k, first, up)
           a1 == SubSeq(a, 1 + 1, Len(a))
           s == [k EXCEPT !.last = NoMessage]
<1>1. /\ SinkRec(k) /\ IsMessage(k.last) /\ Queue(a) /\ Queue(b) /\ Len(a) \in Nat /\ n \in Nat /\ n >= 1
      /\ 1 \in 1..Len(a) /\ Queue(k.out) /\ b \o k.out = b
      /\ \A h \in k.handlers : h[2] \in Sink!HandlerKinds
  <2>1. Queue(a) /\ Queue(b)
    BY DEF Exchange
  <2> QED
    BY <2>1, QueueLength, EmptyQueue DEF Exchange, Numbers
<1>2. Suffix(a, a1, 1) /\ Suffix(a, r, n) /\ Suffix(a1, r, n - 1)
  <2>1. Suffix(a, a1, 1) /\ Suffix(a, r, n)
    BY <1>1, Taken
  <2> QED
    BY <1>1, <2>1, RestTaken
<1>3. Parsed(a, n, k.last, first, second, kept)
  <2>1. chunk = SubSeq(a, 1, n) /\ first = Sink!ReadFirst(chunk, k.last) /\ second = Sink!ReadSecond(chunk)
    OBVIOUS
  <2> HIDE DEF chunk, first, second
  <2> QED
    BY <1>1, <2>1, SinkParses
<1>4. a[1].part = "whole" => SameMessage(first, a[1])
  BY <1>1, WholeParses
<1>5. l = IF k.interrupting THEN Sink!CheckInterrupt(k)
          ELSE IF first = NoMessage THEN [k EXCEPT !.last = kept]
          ELSE IF first.req THEN Sink!HandleRequest(k, first, up)
          ELSE IF Sink!Handlers(k, first.cseq) = {} THEN k
          ELSE IF second = NoMessage THEN t ELSE Sink!HandleRequest(t, second, up)
  BY NoMessageIs DEF Sink!ReadData
<1> HIDE DEF chunk, first, second, kept, a1
<1>6. ~k.interrupting
  <2> SUFFICES ASSUME k.interrupting PROVE FALSE
    OBVIOUS
  <2>1. Worse(k, l)
    BY <1>1, <1>5, WorseCalls
  <2> QED
    BY <2>1 DEF Worse, Hopeful
<1>7. Queue(a1) /\ (Awaits(k, "M2") /\ Timely(k, c, a, b) => AnswersM2(a[1], k.cseq))
  <2>1. a # <<>>
    BY <1>1, EmptyQueue
  <2> QED
    BY <1>2, <2>1 DEF Suffix, Timely, StageM2
\* A part of a message, which is kept if it is its head.
<1>8. CASE first = NoMessage
  <2>1. l = [k EXCEPT !.last = kept]
    BY <1>5, <1>6, <1>8
  <2>2. /\ l.last = kept /\ l.handlers = k.handlers /\ l.cseq = k.cseq /\ l.timer = k.timer /\ l.told = k.told
        /\ l.wfd = k.wfd /\ l.sending = k.sending /\ l.starting = k.starting /\ l.client = k.client
        /\ l.firstCast = k.firstCast /\ l.firstCreate = k.firstCreate /\ l.interrupting = k.interrupting
        /\ l.out = k.out
    BY ONLY <1>1, <2>1 DEF SinkRec, SinkFields
  <2>3. Timely(k, c, a, b)
    BY <2>2 DEF Hopeful
  <2>4. a[1].part # "whole" /\ n = 1 /\ (kept = NoMessage \/ (kept = a[1] /\ a[1].part = "head"))
    <3>1. \A m : SameMessage(m, a[1]) => m # NoMessage
      BY DEF SameMessage, NoMessage
    <3> QED
      BY <1>3, <1>4, <1>8, <3>1 DEF Parsed
  <2>5. ~Awaits(l, "M2")
    BY <1>7, <2>2, <2>3, <2>4 DEF AnswersM2, Awaits
  <2>6. c.wfd # "M0" /\ ~HasOptions(r)
    BY <1>1, <1>2, <2>3, StageM1Left DEF Timely
  <2>7. M4Once(l, r)
    <3>1. \A i \in 1..Len(r) : i + 1 \in 1..Len(a) /\ r[i] = a[i + 1] /\ i + 1 # 1
      BY <1>2, <2>4, SuffixEffect
    <3>2. \A i, j \in 1..Len(r) : i + 1 = j + 1 => i = j
      BY <1>2, <2>4, SuffixEffect
    <3>3. StartsM4(kept) => StartsM4(a[1])
      BY <2>4, NoMessageIs DEF StartsM4, IsM4
    <3>4. StartsM4(kept) => k.firstCast /\ \A i \in 1..Len(r) : ~StartsM4(r[i])
      BY <1>1, <2>3, <3>1, <3>3 DEF Timely, M4Once
    <3>5. \A i, j \in 1..Len(r) : StartsM4(r[i]) /\ StartsM4(r[j]) => i = j
      BY ONLY <2>3, <3>1, <3>2 DEF Timely, M4Once
    <3>6. \A i \in 1..Len(r) : StartsM4(r[i]) => k.firstCast
      BY <2>3, <3>1 DEF Timely, M4Once
    <3> QED
      BY <2>2, <3>4, <3>5, <3>6 DEF M4Once
  <2>8. StageM7(l, c, r, b)
    <3> SUFFICES ASSUME Awaits(l, "M7") PROVE StageM7(l, c, r, b)
      BY DEF StageM7
    <3>1. Awaits(k, "M7") /\ ~HasM5(a)
      BY <2>2, <2>3 DEF Awaits, Timely, StageM7
    <3>2. ~IsM5(kept)
      BY <1>1, <2>4, <3>1, NoMessageIs DEF HasM5, IsM5
    <3>3. ~SinkToken(l)
      BY <2>2, <2>3, <3>1, <3>2 DEF SinkToken, Timely, StageM7
    <3>4. HasM5(r) => HasM5(a)
      BY <1>2, SuffixEffect
    <3> QED
      BY <2>2, <2>3, <2>6, <3>1, <3>3, <3>4 DEF Timely, StageM7
  <2>9. StageM1(l, c, r, b) /\ StageM2(l, c, r, b)
    BY <2>5, <2>6 DEF StageM1, BeforeM1, StageM2
  <2>10. Watched(l) /\ Unstopped(l) /\ Afterwards(l)
    BY <2>2, <2>3 DEF Timely, Watched, Unstopped, Afterwards, Awaits
  <2>11. b \o l.out = b
    BY <1>1, <2>2
  <2> QED
    BY <2>7, <2>8, <2>9, <2>10, <2>11 DEF Timely
<1>9. CASE first # NoMessage /\ first.req
  <2>1. l = Sink!HandleRequest(k, first, up)
    BY <1>5, <1>6, <1>9
  <2>2. Hopeful(k)
    BY <1>1, <2>1, WorseAnswered, WorseTwice
  <2>3. Timely(k, c, a, b)
    BY <2>2
  <2>4. Hears(s, c, a1, b, first) /\ SinkHolds(s, c, a1, b, first) /\ Exchange(s, c, a1, b)
    <3>1. CASE a[1].part = "whole" /\ SameMessage(first, a[1])
      <4>1. s = [k EXCEPT !.last = NoMessage]
        OBVIOUS
      <4> HIDE DEF s
      <4>2. Exchange(k, c, a1, b) /\ SinkHolds(k, c, a1, b, first)
        BY <1>2, <3>1, SinkTakes
      <4>3. Exchange(s, c, a1, b) /\ SinkHolds(s, c, a1, b, first)
        BY <4>1, <4>2, SinkForgets
      <4>4. Hears(s, c, a1, b, first)
        BY <1>1, <1>2, <1>9, <2>3, <3>1, <4>1, HearsFirst
      <4> QED
        BY <4>3, <4>4
    <3>2. CASE k.last.req /\ k.last.part # "tail" /\ SameMessage(first, k.last)
      <4>1. s = [k EXCEPT !.last = NoMessage]
        OBVIOUS
      <4> HIDE DEF s
      <4>2. Exchange(k, c, a1, b)
        BY <1>2, ReadBySink
      <4>3. Exchange(s, c, a1, b) /\ SinkHolds(s, c, a1, b, first)
        BY <3>2, <4>1, <4>2, SinkJoins
      <4>4. k.last.method # "OPTIONS"
        BY <3>2 DEF Exchange, Bodies
      <4>5. Hears(s, c, a1, b, first)
        BY <1>1, <1>2, <2>3, <3>2, <4>1, <4>4, HearsJoined
      <4> QED
        BY <4>3, <4>5
    <3> QED
      BY <1>3, <1>9, <3>1, <3>2 DEF Parsed
  <2>5. Timely(l, c, a1, b \o l.out) /\ AllRead(l, a1)
    <3>1. InHand(s, c, a1, b \o k.out, first)
      BY <1>1, <1>9, <2>4 DEF InHand
    <3>2. s = [k EXCEPT !.last = NoMessage]
      OBVIOUS
    <3> HIDE DEF s
    <3>3. SinkRec(k) /\ Queue(b) /\ Queue(k.out) /\ k.client /\ up \in BOOLEAN /\ Hopeful(l)
      BY <1>1
    <3> QED
      BY ONLY <2>1, <3>1, <3>2, <3>3, TimelyHandled
  <2> QED
    BY <1>2, <1>7, <2>5, TimelyLeft DEF AllRead
<1>10. CASE first # NoMessage /\ ~first.req /\ Sink!Handlers(k, first.cseq) = {}
  <2>1. l = k
    BY <1>5, <1>6, <1>10
  <2>2. Timely(k, c, a, b)
    BY <2>1
  <2>3. ~Awaits(k, "M2")
    <3> SUFFICES ASSUME Awaits(k, "M2") PROVE FALSE
      OBVIOUS
    <3>1. PICK h \in k.handlers : h = <<k.cseq, "M2">>
      BY <2>2 DEF Awaits, Timely, StageM2
    <3>2. h[1] = k.cseq
      BY <3>1
    <3>3. first.cseq = k.cseq
      BY <1>4, <1>7, <2>2 DEF AnswersM2, SameMessage
    <3> QED
      BY <1>10, <3>2, <3>3 DEF Sink!Handlers
  <2>4. Timely(k, c, r, b)
    BY <1>1, <1>2, <2>2, <2>3, TimelyLeft
  <2> QED
    BY <1>1, <2>1, <2>4
<1>11. CASE first # NoMessage /\ ~first.req /\ Sink!Handlers(k, first.cseq) # {}
  <2>1. Worse(k, t)
    BY <1>1, <1>11, WorseResponded
  <2>2. t = Sink!HandleResponse(k, first, up)
    OBVIOUS
  <2>3. l = IF second = NoMessage THEN t ELSE Sink!HandleRequest(t, second, up)
    BY <1>5, <1>6, <1>11
  <2> HIDE DEF t
  <2>4. Hopeful(t) /\ Hopeful(k)
    <3>1. SinkRec(t)
      BY <2>1 DEF Worse
    <3>2. Hopeful(t)
      BY <2>3, <3>1, WorseAnswered, WorseTwice
    <3> QED
      BY <2>1, <3>2, WorseTwice
  <2>5. Timely(k, c, a, b)
    BY <2>4
  <2>6. a[1].part = "whole" /\ SameMessage(first, a[1])
    BY <1>3, <1>11 DEF Parsed, SameMessage
  <2>7. Responds(k, t, first)
    <3>1. k.cseq \in Nat /\ k.wfd # "STOPPING" /\ (k.firstCast <=> k.firstCreate)
          /\ k.handlers \subseteq (0..k.cseq) \X Sink!HandlerKinds
      BY <2>5 DEF Exchange, Numbers, Timely, Unstopped
    <3> QED
      BY <1>1, <1>11, <2>2, <2>4, <3>1, HopeResponds
  <2>8. Timely(t, c, a1, b \o t.out) /\ ~Awaits(t, "M2")
    BY <1>1, <1>2, <1>11, <2>5, <2>6, <2>7, TimelyResponds
  <2>9. SinkAt(t, c, a1, b)
    <3>1. s = [k EXCEPT !.last = NoMessage] /\ s.out = k.out
      BY <1>1 DEF SinkRec, SinkFields
    <3> HIDE DEF s
    <3>2. Exchange(k, c, a1, b) /\ SinkHolds(k, c, a1, b, first)
      BY <1>2, <2>6, SinkTakes
    <3>3. Exchange(s, c, a1, b) /\ SinkHolds(s, c, a1, b, first)
      BY <3>1, <3>2, SinkForgets
    <3>4. SinkAt(s, c, a1, b) /\ SinkHolds(s, c, a1, b \o s.out, first)
      BY <1>1, <3>1, <3>3 DEF SinkAt
    <3>5. SocketOK(s)
      BY <1>1, <3>1 DEF SinkRec, SinkFields, SocketOK
    <3> QED
      BY <1>1, <1>11, <2>2, <3>1, <3>4, <3>5, SinkHandlesResponse
  <2>10. CASE second = NoMessage
    <3>1. l = t
      BY <2>3, <2>10
    <3> QED
      BY <1>2, <1>7, <2>8, <3>1, TimelyLeft
  <2>11. CASE second # NoMessage
    <3> DEFINE a2 == SubSeq(a1, 1 + 1, Len(a1))
               u == [t EXCEPT !.last = NoMessage]
    <3>1. l = Sink!HandleRequest(t, second, up) /\ second.req
      BY <1>3, <2>3, <2>11 DEF Parsed, SameMessage
    <3>2. n >= 2 /\ a[2].part = "whole" /\ a[2].req /\ SameMessage(second, a[2])
      BY <1>3, <2>11 DEF Parsed
    <3>3. Queue(a1) /\ 1 \in 1..Len(a1) /\ a1[1] = a[2]
      BY <1>1, <1>2, <3>2 DEF Suffix
    <3>4. Suffix(a1, a2, 1) /\ Suffix(a2, r, (n - 1) - 1) /\ Queue(a2)
      <4>1. Suffix(a1, a2, 1)
        BY <3>3, Taken
      <4>2. n - 1 >= 1
        BY <1>1, <3>2
      <4> QED
        BY ONLY <1>2, <4>1, <4>2, RestTaken DEF Suffix
    <3> HIDE DEF a2
    <3>5. Exchange(t, c, a2, b \o t.out) /\ SinkHolds(t, c, a2, b \o t.out, second)
      <4>1. Exchange(t, c, a1, b \o t.out)
        BY <2>9 DEF SinkAt
      <4> QED
        BY <3>2, <3>3, <3>4, <4>1, SinkTakes
    <3>6. u = [t EXCEPT !.last = NoMessage] /\ SinkRec(t) /\ Queue(t.out) /\ t.client
      BY <2>1, <2>7, <2>9 DEF Worse, SinkAt, Responds, Steady
    <3> HIDE DEF u
    <3>7. Exchange(u, c, a2, b \o t.out) /\ SinkHolds(u, c, a2, b \o t.out, second)
      BY <3>5, <3>6, SinkForgets
    <3>8. Hears(u, c, a2, b \o t.out, second)
      BY <2>8, <3>1, <3>2, <3>3, <3>4, <3>6, HearsFirst
    <3>9. Timely(l, c, a2, b \o l.out) /\ AllRead(l, a2)
      <4>1. Queue(b) /\ up \in BOOLEAN /\ Hopeful(l)
        BY <1>1
      <4>2. InHand(u, c, a2, b \o t.out, second)
        BY <3>1, <3>7, <3>8 DEF InHand
      <4> QED
        BY ONLY <3>1, <3>6, <4>1, <4>2, TimelyHandled
    <3> QED
      BY <3>4, <3>9, TimelyLeft DEF AllRead
  <2> QED
    BY <2>10, <2>11
<1> QED
  BY <1>8, <1>9, <1>10, <1>11

-----------------------------------------------------------------------------
(* The steps of the sink that read nothing                                 *)

\* What was sent is handed to the connection.
LEMMA SinkTimed ==
    ASSUME NEW l, SinkRec(l), source' = source, sink' = [l EXCEPT !.out = <<>>], toSource' = toSource \o l.out,
           Hopeful(l) => Timely(l, source, toSink', toSource \o l.out)
    PROVE  TimedInv'
<1> DEFINE k == [l EXCEPT !.out = <<>>]
           c == source
           a == toSink'
           b == toSource \o l.out
<1>1. /\ k.last = l.last /\ k.handlers = l.handlers /\ k.cseq = l.cseq /\ k.timer = l.timer /\ k.told = l.told
      /\ k.wfd = l.wfd /\ k.sending = l.sending /\ k.starting = l.starting /\ k.client = l.client
      /\ k.firstCast = l.firstCast /\ k.firstCreate = l.firstCreate /\ k.interrupting = l.interrupting
  BY DEF SinkRec, SinkFields
<1>2. sink' = k /\ source' = c /\ toSource' = b
  OBVIOUS
<1>3. Hopeful(l) => Timely(l, c, a, b)
  OBVIOUS
<1>4. a = toSink'
  OBVIOUS
<1> HIDE DEF k, c, a, b
<1>5. Hopeful(k) => Hopeful(l)
  BY <1>1 DEF Hopeful
<1>6. Timely(l, c, a, b) => Timely(k, c, a, b)
  <2> HAVE Timely(l, c, a, b)
  <2>1. \A what : Awaits(k, what) <=> Awaits(l, what)
    BY <1>1 DEF Awaits
  <2>2. SinkToken(k) <=> SinkToken(l)
    BY <1>1 DEF SinkToken
  <2>3. Watched(k) /\ Unstopped(k) /\ Afterwards(k)
    BY <1>1, <2>1 DEF Timely, Watched, Unstopped, Afterwards
  <2>4. M4Once(k, a) /\ StageM1(k, c, a, b)
    BY <1>1 DEF Timely, M4Once, StageM1
  <2>5. StageM2(k, c, a, b)
    BY <1>1, <2>1 DEF Timely, StageM2
  <2>6. StageM7(k, c, a, b)
    BY <1>1, <2>1, <2>2 DEF Timely, StageM7
  <2> QED
    BY <2>3, <2>4, <2>5, <2>6 DEF Timely
<1> QED
  BY <1>2, <1>3, <1>4, <1>5, <1>6 DEF TimedInv

\* What leaves the exchange alone: it may start the timer, and tell the agent what is not about the exchange.
Ready(k) == k.starting # "never" => k.client
Slight(k, l) ==
    /\ SinkRec(l) /\ (Hopeful(l) => Hopeful(k))
    /\ l.handlers = k.handlers /\ l.cseq = k.cseq /\ l.last = k.last /\ l.out = k.out
    /\ l.firstCast = k.firstCast /\ l.firstCreate = k.firstCreate /\ l.wfd = k.wfd /\ l.sending = k.sending
    /\ Ready(k) => Ready(l)
    /\ l.timer = k.timer \/ l.timer # "off"
    /\ "PLAYED" \in l.told <=> "PLAYED" \in k.told
    /\ "STOPED" \in l.told <=> "STOPED" \in k.told

\* One such step after another.
LEMMA SlightTwice ==
    ASSUME NEW k, NEW l, NEW j, Slight(k, l), Slight(l, j)
    PROVE  Slight(k, j)
BY DEF Slight

\* Telling the agent, and CheckInterrupt, which may tell it.
LEMMA TellsSlightly ==
    ASSUME NEW s, SinkRec(s)
    PROVE  /\ \A what : what \notin {"PLAYED", "STOPED"} => Slight(s, Sink!NotifyAgent(s, what))
           /\ Slight(s, Sink!CheckInterrupt(s)) /\ Slight(s, Sink!NotifyServiceError(s)) /\ Slight(s, s)
<1>1. Slight(s, s)
  BY DEF Slight
<1>2. ASSUME NEW what, what \notin {"PLAYED", "STOPED"}
      PROVE  Slight(s, Sink!NotifyAgent(s, what))
  BY <1>2 DEF Slight, Ready, Hopeful, Sink!NotifyAgent, SinkRec, SinkFields
<1>3. Slight(s, Sink!CheckInterrupt(s)) /\ Slight(s, Sink!NotifyServiceError(s))
  BY <1>1, <1>2 DEF Sink!CheckInterrupt, Sink!NotifySessionInterrupted, Sink!NotifyServiceError
<1> QED
  BY <1>1, <1>2, <1>3

\* The requests stay timed.
LEMMA TimelySlightly ==
    ASSUME NEW k, NEW c, NEW a, NEW b, Timely(k, c, a, b), NEW l, Slight(k, l)
    PROVE  Timely(l, c, a, b)
<1>1. \A what : Awaits(k, what) <=> Awaits(l, what)
  BY DEF Awaits, Slight
<1>2. SinkToken(k) <=> SinkToken(l)
  BY DEF SinkToken, Slight
<1>3. Watched(l) /\ Unstopped(l) /\ Afterwards(l)
  BY <1>1 DEF Timely, Watched, Unstopped, Afterwards, Slight, Ready
<1>4. M4Once(l, a) /\ StageM1(l, c, a, b)
  BY DEF Timely, M4Once, StageM1, Slight
<1>5. StageM2(l, c, a, b)
  BY <1>1 DEF Timely, StageM2, Slight
<1>6. StageM7(l, c, a, b)
  BY <1>1, <1>2 DEF Timely, StageM7, Slight
<1> QED
  BY <1>3, <1>4, <1>5, <1>6 DEF Timely

\* Everything on its way to the sink is lost.
LEMMA TimelyLost ==
    ASSUME NEW k, NEW c, NEW a, NEW b, Timely(k, c, a, b)
    PROVE  Timely(k, c, <<>>, b)
<1>1. 1..Len(<<>>) = {}
  OBVIOUS
<1>2. ~HasOptions(<<>>) /\ ~HasM5(<<>>)
  BY <1>1 DEF HasOptions, HasM5
<1>3. M4Once(k, <<>>)
  BY <1>1 DEF Timely, M4Once
<1>4. StageM1(k, c, <<>>, b) /\ StageM2(k, c, <<>>, b) /\ StageM7(k, c, <<>>, b)
  BY <1>2 DEF Timely, StageM1, BeforeM1, StageM2, StageM7
<1> QED
  BY <1>3, <1>4 DEF Timely

\* So a slight step of the sink keeps the invariant, whether or not the connection was given up in it.
LEMMA SlightlyTimed ==
    ASSUME RtspInv, TimedInv, NEW l, Slight(sink, l), source' = source, sink' = [l EXCEPT !.out = <<>>],
           toSource' = toSource \o l.out, toSink' = toSink \/ toSink' = <<>>
    PROVE  TimedInv'
<1>1. SinkRec(l) /\ toSource \o l.out = toSource
  <2>1. l.out = <<>> /\ Queue(toSource)
    BY DEF RtspInv, Slight, Exchange
  <2> QED
    BY <2>1 DEF Slight, Queue
<1>2. Hopeful(l) => Timely(l, source, toSink', toSource)
  <2> HAVE Hopeful(l)
  <2>1. Timely(sink, source, toSink, toSource)
    BY DEF TimedInv, Slight
  <2>2. Timely(l, source, toSink, toSource)
    BY <2>1, TimelySlightly
  <2> QED
    BY <2>2, TimelyLost
<1> QED
  BY <1>1, <1>2, SinkTimed

\* The events, the calls of the agent and the attempts to connect.
LEMMA SinkIdlesTimed ==
    ASSUME RtspInv, TimedInv, SinkPauses \/ SinkProsumer \/ SinkArms \/ SinkStarts \/ ConnectFails \/ SinkSelects
    PROVE  TimedInv'
<1> DEFINE Behind(l) == sink' = [l EXCEPT !.out = <<>>] /\ toSource' = toSource \o l.out
<1>1. SinkRec(sink)
  BY DEF RtspInv, Exchange
<1>2. source' = source /\ (toSink' = toSink \/ toSink' = <<>>)
  BY DEF SinkPauses, Sink!PauseOrResume, SinkProsumer, Sink!ProsumerCreated, Sink!ProsumerReports,
         SinkArms, Sink!ArmSession, SinkStarts, Sink!StartSession, ConnectFails, Sink!ConnectFails,
         SinkSelects, Sink!SelectReturns
<1>3. ASSUME NEW s, Slight(sink, s),
             NEW l, \/ l \in {s, Sink!CheckInterrupt(s), Sink!NotifyServiceError(s)}
                    \/ \E what : what \notin {"PLAYED", "STOPED"} /\ l = Sink!NotifyAgent(s, what)
      PROVE  Slight(sink, l)
  <2>1. SinkRec(s)
    BY <1>3 DEF Slight
  <2>2. Slight(s, l)
    BY <1>3, <2>1, TellsSlightly
  <2> QED
    BY <1>3, <2>2, SlightTwice
<1>4. ASSUME NEW s, Slight(sink, s), s.starting = "selecting" \/ s.starting = "connecting"
      PROVE  Slight(sink, Sink!AttemptFails(s))
  <2> DEFINE t == [s EXCEPT !.tries = @ + 1, !.starting = "connecting"]
             over == [t EXCEPT !.starting = "no"]
             l == Sink!AttemptFails(s)
  <2>1. l \in {Sink!CheckInterrupt(over), Sink!NotifyServiceError(over), t}
    BY DEF Sink!AttemptFails
  <2>2. Slight(sink, t) /\ Slight(sink, over)
    <3>1. SinkRec(s) /\ s.starting # "never"
      BY ONLY <1>4 DEF Slight
    <3>2. /\ SinkRec(t) /\ t.told = s.told /\ t.interrupting = s.interrupting /\ t.handlers = s.handlers
          /\ t.cseq = s.cseq /\ t.last = s.last /\ t.out = s.out /\ t.firstCast = s.firstCast
          /\ t.firstCreate = s.firstCreate /\ t.wfd = s.wfd /\ t.sending = s.sending /\ t.client = s.client
          /\ t.timer = s.timer
      BY ONLY <3>1 DEF SinkRec, SinkFields
    <3> HIDE DEF t
    <3>3. /\ SinkRec(over) /\ over.told = t.told /\ over.interrupting = t.interrupting /\ over.handlers = t.handlers
          /\ over.cseq = t.cseq /\ over.last = t.last /\ over.out = t.out /\ over.firstCast = t.firstCast
          /\ over.firstCreate = t.firstCreate /\ over.wfd = t.wfd /\ over.sending = t.sending
          /\ over.client = t.client /\ over.timer = t.timer
      BY ONLY <3>2 DEF SinkRec, SinkFields
    <3> HIDE DEF over
    <3>4. Ready(sink) => s.client
      BY ONLY <1>4, <3>1 DEF Slight, Ready
    <3> QED
      BY ONLY <1>4, <3>2, <3>3, <3>4 DEF Slight, Ready, Hopeful
  <2> HIDE DEF t, over, l
  <2>3. Slight(sink, l)
    BY <1>3, <2>1, <2>2
  <2> QED
    BY <2>3 DEF l
<1>5. \E l : Behind(l) /\ Slight(sink, l)
  <2>1. CASE SinkPauses
    <3>1. PICK status \in {"PAUSE", "RESUME"} : LET s == [sink EXCEPT !.status = status]
                                                 IN  Behind(s) \/ Behind(Sink!NotifyAgent(s, status))
      BY <2>1 DEF SinkPauses, Sink!PauseOrResume, Sink!Become
    <3> DEFINE s == [sink EXCEPT !.status = status]
    <3>2. Slight(sink, s)
      BY <1>1 DEF Slight, Ready, Hopeful, SinkRec, SinkFields
    <3>3. Behind(s) \/ Behind(Sink!NotifyAgent(s, status))
      BY <3>1
    <3> HIDE DEF s
    <3>4. Slight(sink, Sink!NotifyAgent(s, status))
      BY <1>3, <3>2
    <3> QED
      BY ONLY <3>2, <3>3, <3>4
  <2>2. CASE SinkProsumer
    <3>1. PICK media, what : what \notin {"PLAYED", "STOPED"} /\
             LET s == [sink EXCEPT !.media = media] IN Behind(Sink!CheckInterrupt(s)) \/ Behind(Sink!NotifyAgent(s, what))
      BY <2>2 DEF SinkProsumer, Sink!ProsumerCreated, Sink!ProsumerReports, Sink!Become
    <3> DEFINE s == [sink EXCEPT !.media = media]
    <3>2. Slight(sink, s)
      BY <1>1 DEF Slight, Ready, Hopeful, SinkRec, SinkFields
    <3>3. Behind(Sink!CheckInterrupt(s)) \/ Behind(Sink!NotifyAgent(s, what))
      BY <3>1
    <3> HIDE DEF s
    <3>4. Slight(sink, Sink!NotifyAgent(s, what)) /\ Slight(sink, Sink!CheckInterrupt(s))
      BY <1>3, <3>1, <3>2
    <3> QED
      BY ONLY <3>3, <3>4
  <2>3. CASE SinkArms
    <3> DEFINE t == [sink EXCEPT !.starting = "no", !.timer = "M1", !.timeoutCall = "negotiate"]
               s == [t EXCEPT !.connected = ~(t.interrupting /\ t.status = "INTERRUPT")]
               l == Sink!CheckInterrupt(s)
    <3>1. Behind(l) /\ sink.starting = "arming"
      BY <2>3 DEF SinkArms, Sink!ArmSession, Sink!Become
    <3>2. Slight(sink, s)
      BY ONLY <1>1, <3>1 DEF Slight, Ready, Hopeful, SinkRec, SinkFields
    <3> HIDE DEF s
    <3>3. Slight(sink, l)
      BY <1>3, <3>2
    <3> QED
      BY <3>1, <3>3
  <2>4. CASE SinkStarts
    <3>1. PICK config :
             Sink!Become([sink EXCEPT !.status = "START", !.starting = "connecting", !.client = TRUE, !.config = config])
      BY <2>4 DEF SinkStarts, Sink!StartSession
    <3> DEFINE l == [sink EXCEPT !.status = "START", !.starting = "connecting", !.client = TRUE, !.config = config]
    <3>2. Behind(l)
      BY <3>1 DEF Sink!Become
    <3>3. Slight(sink, l)
      BY ONLY <1>1 DEF Slight, Ready, Hopeful, SinkRec, SinkFields
    <3> QED
      BY <3>2, <3>3
  <2>5. CASE ConnectFails
    <3>1. Behind(Sink!AttemptFails(sink)) /\ sink.starting = "connecting"
      BY <2>5 DEF ConnectFails, Sink!ConnectFails, Sink!Become
    <3>2. Slight(sink, sink)
      BY <1>1, TellsSlightly
    <3> QED
      BY <1>4, <3>1, <3>2
  <2>6. CASE SinkSelects
    <3>1. PICK rc : Sink!SelectReturns(rc)
      BY <2>6 DEF SinkSelects
    <3> DEFINE x == Sink!TcpClientConnect(rc)
               s == [sink EXCEPT !.socket = x]
               g == [s EXCEPT !.starting = "arming"]
    <3>2. sink.starting = "selecting" /\ (Behind(g) \/ Behind(Sink!AttemptFails(s)))
      BY <3>1 DEF Sink!SelectReturns, Sink!Become
    <3> HIDE DEF x
    <3>3. Slight(sink, s) /\ Slight(sink, g) /\ s.starting = "selecting"
      BY ONLY <1>1, <3>2 DEF Slight, Ready, Hopeful, SinkRec, SinkFields
    <3> HIDE DEF s, g
    <3>4. Slight(sink, Sink!AttemptFails(s))
      BY <1>4, <3>3
    <3> QED
      BY <3>2, <3>3, <3>4
  <2> QED
    BY <2>1, <2>2, <2>3, <2>4, <2>5, <2>6
<1>6. PICK l : Behind(l) /\ Slight(sink, l)
  BY <1>5
<1> QED
  BY <1>2, <1>6, SlightlyTimed

-----------------------------------------------------------------------------
(* The steps of the sink that end hope, that ask for an IDR and that read  *)

\* Behind a sink without hope there is nothing to show.
LEMMA HopelessTimed ==
    ASSUME NEW l, SinkRec(l), ~Hopeful(l), sink' = [l EXCEPT !.out = <<>>]
    PROVE  TimedInv'
<1> DEFINE k == [l EXCEPT !.out = <<>>]
<1>1. k.told = l.told /\ k.interrupting = l.interrupting
  BY DEF SinkRec, SinkFields
<1>2. ~Hopeful(k)
  BY <1>1 DEF Hopeful
<1> QED
  BY <1>2 DEF TimedInv

\* A timer runs out, the connection ends, or the agent interrupts the start.
LEMMA SinkEndsTimed ==
    ASSUME RtspInv, TimedInv, SinkCloses \/ SinkExpires \/ SinkKeepAlive \/ SinkInterrupt
    PROVE  TimedInv'
<1>1. SinkRec(sink)
  BY DEF RtspInv, Exchange
<1>2. \E l : SinkRec(l) /\ ~Hopeful(l) /\ sink' = [l EXCEPT !.out = <<>>]
  <2>1. CASE SinkCloses
    <3> DEFINE l == Sink!ClientClosed(sink)
    <3>1. sink' = [l EXCEPT !.out = <<>>]
      BY <2>1 DEF SinkCloses, Sink!OnClientClose, Sink!Become
    <3>2. Worse(sink, l)
      BY <1>1, WorseCalls
    <3>3. sink.wfd # "STOPPING" => ~Hopeful(l)
      BY <1>1, ClosedIsHopeless
    <3>4. Hopeful(sink) => sink.wfd # "STOPPING"
      BY DEF TimedInv, Timely, Unstopped
    <3> HIDE DEF l
    <3>5. ~Hopeful(l)
      BY <3>2, <3>3, <3>4, WorseTwice
    <3> QED
      BY <3>1, <3>2, <3>5 DEF Worse
  <2>2. CASE SinkExpires
    <3> DEFINE s == [sink EXCEPT !.timer = "off"]
               x == Sink!CheckInterrupt(s)
               y == Sink!NotifyServiceError(s)
    <3>1. \/ s.interrupting /\ sink' = [x EXCEPT !.out = <<>>]
          \/ sink' = [y EXCEPT !.out = <<>>]
      BY <2>2 DEF SinkExpires, Sink!TimeoutCallback, Sink!Become
    <3>2. SinkRec(s)
      BY <1>1 DEF SinkRec, SinkFields
    <3> HIDE DEF s
    <3>3. Worse(s, x) /\ Worse(s, y) /\ ~Hopeful(y)
      BY <3>2, WorseCalls, ErrorIsHopeless
    <3>4. s.interrupting => ~Hopeful(x)
      BY <3>3 DEF Worse, Hopeful
    <3> HIDE DEF x, y
    <3> QED
      BY <3>1, <3>3, <3>4 DEF Worse
  <2>3. CASE SinkKeepAlive
    <3> DEFINE s == [sink EXCEPT !.keepAlive = "off"]
               l == Sink!NotifyServiceError(s)
    <3>1. sink' = [l EXCEPT !.out = <<>>]
      BY <2>3 DEF SinkKeepAlive, Sink!KeepAliveCallback, Sink!Become
    <3>2. SinkRec(s)
      BY <1>1 DEF SinkRec, SinkFields
    <3> HIDE DEF s
    <3>3. Worse(s, l) /\ ~Hopeful(l)
      BY <3>2, WorseCalls, ErrorIsHopeless
    <3> HIDE DEF l
    <3> QED
      BY <3>1, <3>3 DEF Worse
  <2>4. CASE SinkInterrupt
    <3> DEFINE s == [sink EXCEPT !.status = "INTERRUPT"]
               t == Sink!CheckInterrupt(s)
               l == [t EXCEPT !.interrupting = TRUE]
    <3>1. sink' = [l EXCEPT !.out = <<>>]
      BY <2>4 DEF SinkInterrupt, Sink!Interrupt, Sink!Become
    <3>2. SinkRec(s)
      BY <1>1 DEF SinkRec, SinkFields
    <3> HIDE DEF s
    <3>3. SinkRec(t)
      BY <3>2, WorseCalls DEF Worse
    <3> HIDE DEF t
    <3>4. SinkRec(l) /\ ~Hopeful(l)
      BY <3>3 DEF SinkRec, SinkFields, Hopeful
    <3> HIDE DEF l
    <3> QED
      BY <3>1, <3>4
  <2> QED
    BY <2>1, <2>2, <2>3, <2>4
<1> QED
  BY <1>2, HopelessTimed

\* While the sink plays, M2 and M7 are answered, and nothing is before M1.
LEMMA PlayingIsPast ==
    ASSUME NEW k, NEW c, NEW a, NEW b, Exchange(k, c, a, b), Timely(k, c, a, b),
           k.wfd = "PLAYING" \/ k.sending[1] = "IDR"
    PROVE  "PLAYED" \in k.told /\ ~Awaits(k, "M2") /\ ~Awaits(k, "M7") /\ ~BeforeM1(c, a) /\ c.wfd # "M0"
<1>1. "PLAYED" \in k.told /\ "PLAYED" \in c.told
  BY DEF Exchange, Progress
<1>2. ~BeforeM1(c, a) /\ c.wfd # "M0"
  BY <1>1 DEF Exchange, OneToken, SourceToken, BeforeM1
<1> QED
  BY <1>1, <1>2 DEF Timely, Afterwards

\* The first step of an IDR request takes a number.
LEMMA SinkIdrTimed ==
    ASSUME RtspInv, TimedInv, SinkIdr
    PROVE  TimedInv'
<1> DEFINE n == sink.cseq + 1
           w == <<"IDR", n>>
           l == [sink EXCEPT !.idrs = @ + 1, !.cseq = @ + 1, !.sending = w]
           c == source
           a == toSink
           b == toSource
<1>1. /\ sink' = [l EXCEPT !.out = <<>>] /\ toSource' = toSource \o l.out /\ source' = source /\ toSink' = toSink
      /\ sink.wfd = "PLAYING"
  BY DEF SinkIdr, Sink!IdrBegin, Sink!Become
<1>2. w[1] = "IDR"
  OBVIOUS
<1> HIDE DEF w
<1>3. /\ SinkRec(l) /\ l.handlers = sink.handlers /\ l.timer = sink.timer /\ l.told = sink.told /\ l.wfd = sink.wfd
      /\ l.sending = w /\ l.starting = sink.starting /\ l.client = sink.client /\ l.firstCast = sink.firstCast
      /\ l.firstCreate = sink.firstCreate /\ l.interrupting = sink.interrupting /\ l.last = sink.last /\ l.out = <<>>
  BY DEF RtspInv, Exchange, SinkRec, SinkFields
<1> HIDE DEF l
<1>4. toSource \o l.out = toSource
  BY <1>3 DEF RtspInv, Exchange, Queue
<1>5. ASSUME Hopeful(l) PROVE Timely(l, c, a, b)
  <2>1. Timely(sink, c, a, b)
    BY <1>3, <1>5 DEF TimedInv, Hopeful
  <2>2. ~Awaits(sink, "M2") /\ ~Awaits(sink, "M7")
    BY <1>1, <2>1, PlayingIsPast DEF RtspInv
  <2>3. \A what : Awaits(l, what) <=> Awaits(sink, what)
    BY <1>3 DEF Awaits
  <2>4. Watched(l) /\ Unstopped(l) /\ Afterwards(l)
    BY <1>2, <1>3, <2>1, <2>3 DEF Timely, Watched, Unstopped, Afterwards
  <2>5. M4Once(l, a) /\ StageM1(l, c, a, b)
    BY <1>3, <2>1 DEF Timely, M4Once, StageM1
  <2>6. StageM2(l, c, a, b) /\ StageM7(l, c, a, b)
    BY <2>2, <2>3 DEF StageM2, StageM7
  <2> QED
    BY <2>4, <2>5, <2>6 DEF Timely
<1> QED
  BY <1>1, <1>3, <1>4, <1>5, SinkTimed

\* The second one sends it, or finds the connection gone.
LEMMA IdrTimed ==
    ASSUME RtspInv, TimedInv, Sink!IdrFinish, source' = source
    PROVE  TimedInv'
<1> DEFINE up == Sink!Up
           q == Sink!IDRRequest(sink.sending[2], sink.session)
           s == Sink!SetHandler(sink, sink.cseq, "IDR")
           t == Sink!StartTimer(s, "IDR")
           u == Sink!Send(t, q, up)
           f == Sink!CheckInterrupt(u)
           x == <<"none", 0>>
           l == [f EXCEPT !.sending = x]
           v == Sink!ClientClosed(sink)
           c == source
           a == toSink
           b == toSource
<1>1. /\ sink.sending[1] = "IDR" /\ toSink' = toSink
      /\ \E z : sink' = [z EXCEPT !.out = <<>>] /\ toSource' = toSource \o z.out /\ z = Sink!PoolSend(f)
  BY DEF Sink!IdrFinish, Sink!FinishIdr, Sink!Become
<1>2. SinkRec(sink) /\ sink.out = <<>> /\ up \in BOOLEAN
  BY DEF RtspInv, Exchange, Sink!Up
<1>3. x[1] = "none"
  OBVIOUS
<1>4. PICK z : /\ sink' = [z EXCEPT !.out = <<>>] /\ toSource' = toSource \o z.out
               /\ \/ ~sink.client /\ z = [sink EXCEPT !.sending = <<"crash", 0>>]
                  \/ ~up /\ z = [v EXCEPT !.sending = <<"deadlock", 0>>]
                  \/ sink.client /\ up /\ z = l
  BY <1>1 DEF Sink!PoolSend
<1> HIDE DEF x
<1>5. Hopeful(sink) => sink.wfd # "STOPPING" /\ (sink.starting # "never" => sink.client)
  BY DEF TimedInv, Timely, Unstopped
<1>6. sink.starting # "never"
  BY <1>1 DEF RtspInv, SinkOK
<1>7. CASE ~sink.client /\ z = [sink EXCEPT !.sending = <<"crash", 0>>]
  <2>1. SinkRec(z) /\ z.told = sink.told /\ z.interrupting = sink.interrupting
    BY <1>2, <1>7 DEF SinkRec, SinkFields
  <2>2. ~Hopeful(z)
    BY <1>5, <1>6, <1>7, <2>1 DEF Hopeful
  <2> QED
    BY <1>4, <2>1, <2>2, HopelessTimed
<1>8. CASE ~up /\ z = [v EXCEPT !.sending = <<"deadlock", 0>>]
  <2>1. Worse(sink, v)
    BY <1>2, WorseCalls
  <2>2. sink.wfd # "STOPPING" => ~Hopeful(v)
    BY <1>2, ClosedIsHopeless
  <2> HIDE DEF v
  <2>3. SinkRec(v) /\ ~Hopeful(v)
    BY <1>5, <2>1, <2>2, WorseTwice DEF Worse
  <2>4. SinkRec(z) /\ z.told = v.told /\ z.interrupting = v.interrupting
    BY <1>8, <2>3 DEF SinkRec, SinkFields
  <2>5. ~Hopeful(z)
    BY <2>3, <2>4 DEF Hopeful
  <2> QED
    BY <1>4, <2>4, <2>5, HopelessTimed
<1>9. CASE sink.client /\ up /\ z = l
  <2>1. sink.cseq \in Nat /\ sink.sending[2] \in Nat
    BY <1>1 DEF RtspInv, Exchange, Numbers, Sending
  <2>2. Plain(q)
    BY <2>1, PlainMessages
  <2> HIDE DEF q
  <2>3. /\ Otherwise(sink, s) /\ s.cseq = sink.cseq /\ s.out = sink.out /\ s.timer = sink.timer
        /\ s.handlers = {h \in sink.handlers : h[1] # sink.cseq} \cup {<<sink.cseq, "IDR">>}
        /\ s.interrupting = sink.interrupting
    BY <1>2 DEF Sink!SetHandler, Otherwise, SinkRec, SinkFields
  <2> HIDE DEF s
  <2>4. Silent(s, t) /\ SinkRec(t) /\ (t.timer = s.timer \/ t.timer # "off") /\ t.interrupting = s.interrupting
    <3>1. SinkRec(s)
      BY <2>3 DEF Otherwise
    <3>2. Silent(s, t) /\ t.timer # "off"
      BY <3>1, TimerIsSilent
    <3>3. Worse(s, t)
      BY <3>1, WorseCalls
    <3> HIDE DEF t
    <3> QED
      BY <3>2, <3>3 DEF Silent, Unmoved, Otherwise, Worse
  <2> HIDE DEF t
  <2>5. Emits(t, u, q)
    BY <1>2, <1>9, <2>4, UpSend
  <2>6. SinkRec(u) /\ u.handlers = s.handlers /\ u.cseq = s.cseq /\ (u.timer = sink.timer \/ u.timer # "off")
        /\ u.out = Append(sink.out, q)
    BY <2>3, <2>4, <2>5 DEF Emits, Silent, Unmoved, Otherwise
  <2>7. /\ u.client = sink.client /\ u.wfd = sink.wfd /\ u.starting = sink.starting /\ u.told = sink.told
        /\ u.firstCast = sink.firstCast /\ u.firstCreate = sink.firstCreate /\ u.last = sink.last
    BY <2>3, <2>4, <2>5 DEF Emits, Silent, Unmoved, Otherwise
  <2>8. Worse(sink, u)
    <3>1. Worse(t, u)
      BY <2>4, WorseSends
    <3> HIDE DEF u
    <3> QED
      BY <2>3, <2>4, <2>7, <3>1 DEF Worse
  <2> HIDE DEF u
  <2>9. Slight(u, f)
    BY <2>6, TellsSlightly
  <2> HIDE DEF f
  <2>10. /\ SinkRec(l) /\ l.handlers = f.handlers /\ l.timer = f.timer /\ l.told = f.told /\ l.wfd = f.wfd
         /\ l.sending = x /\ l.starting = f.starting /\ l.client = f.client /\ l.firstCast = f.firstCast
         /\ l.firstCreate = f.firstCreate /\ l.interrupting = f.interrupting /\ l.last = f.last /\ l.out = f.out
         /\ l.cseq = f.cseq
    BY <2>9 DEF Slight, SinkRec, SinkFields
  <2> HIDE DEF l
  <2>11. ASSUME Hopeful(l) PROVE Timely(l, c, a, b \o l.out)
    <3>1. Hopeful(sink)
      <4>1. Hopeful(f)
        BY <2>10, <2>11 DEF Hopeful
      <4>2. Hopeful(u)
        BY <2>9, <4>1 DEF Slight
      <4> QED
        BY <2>8, <4>2, WorseTwice
    <3>2. Timely(sink, c, a, b)
      BY <3>1 DEF TimedInv
    <3>3. "PLAYED" \in sink.told /\ ~Awaits(sink, "M2") /\ ~Awaits(sink, "M7") /\ ~BeforeM1(c, a) /\ c.wfd # "M0"
      BY <1>1, <3>2, PlayingIsPast DEF RtspInv
    <3> DEFINE i == sink.cseq
               w == <<i, "IDR">>
    <3>4. w[2] = "IDR"
      OBVIOUS
    <3>5. l.handlers \subseteq sink.handlers \cup {w}
      BY <2>3, <2>6, <2>9, <2>10 DEF Slight
    <3> HIDE DEF w
    <3>6. /\ ~Awaits(l, "M2") /\ ~Awaits(l, "M7") /\ (Awaits(l, "M6") => Awaits(sink, "M6"))
          /\ "PLAYED" \in l.told /\ "STOPED" \notin l.told
      BY <2>7, <2>9, <2>10, <3>2, <3>3, <3>4, <3>5 DEF Awaits, Slight, Timely, Unstopped
    <3>7. Watched(l)
      BY <2>6, <2>9, <2>10, <3>2, <3>6 DEF Timely, Watched, Slight
    <3>8. Unstopped(l)
      <4>1. Ready(u)
        BY <2>7, <3>2 DEF Timely, Unstopped, Ready
      <4>2. Ready(f)
        BY <2>9, <4>1 DEF Slight
      <4> QED
        BY <1>3, <2>7, <2>9, <2>10, <3>2, <3>6, <4>2 DEF Timely, Unstopped, Slight, Ready
    <3>9. M4Once(l, a)
      BY <2>7, <2>9, <2>10, <3>2 DEF Timely, M4Once, Slight
    <3>10. StageM1(l, c, a, b \o l.out)
      BY <3>2, <3>3 DEF Timely, StageM1, BeforeM1
    <3>11. StageM2(l, c, a, b \o l.out) /\ StageM7(l, c, a, b \o l.out) /\ Afterwards(l)
      BY <3>6 DEF StageM2, StageM7, Afterwards
    <3> QED
      BY <3>7, <3>8, <3>9, <3>10, <3>11 DEF Timely
  <2> QED
    BY <1>1, <1>4, <1>9, <2>10, <2>11, SinkTimed
<1> QED
  BY <1>4, <1>7, <1>8, <1>9

-----------------------------------------------------------------------------
(* TEARDOWN, the end of the session, and the reads of the sink             *)

\* Nobody sends TEARDOWN from a sink with hope, and without it there is none behind.
LEMMA M8Timed ==
    ASSUME RtspInv, TimedInv, Sink!M8Finish
    PROVE  TimedInv'
<1> DEFINE up == Sink!Up
           q == Sink!WithSession(Sink!RtspRequestTeardown(sink.sending[2]), sink.session)
           s == Sink!SetHandler(sink, sink.cseq, "M8")
           t == Sink!Send(s, q, up)
           e == Sink!EraseHandler(t, sink.cseq)
           u == [(IF up THEN t ELSE e) EXCEPT !.wfd = "STOPPING"]
           y == [u EXCEPT !.connected = FALSE]
           n == Sink!NotifyAgent(y, "STOPED")
           i == Sink!CheckInterrupt(u)
           f == IF sink.sending[1] = "STOP" THEN n ELSE i
           v == Sink!ClientClosed(sink)
           z == Sink!PoolSend(f)
<1>1. sink' = [z EXCEPT !.out = <<>>] /\ sink.sending[1] \in {"STOP", "TEARDOWN"}
  BY DEF Sink!M8Finish, Sink!FinishM8, Sink!Become
<1>2. SinkRec(sink)
  BY DEF RtspInv, Exchange
<1>3. ~Hopeful(sink)
  BY <1>1 DEF TimedInv, Timely, Unstopped
<1>4. ASSUME NEW g, SinkRec(g), NEW x
      PROVE  Worse(g, [g EXCEPT !.sending = x]) /\ Worse(g, [g EXCEPT !.wfd = x]) /\ Worse(g, [g EXCEPT !.connected = x])
  BY <1>4 DEF Worse, SinkRec, SinkFields
<1>5. \/ z = [sink EXCEPT !.sending = <<"crash", 0>>]
      \/ z = [v EXCEPT !.sending = <<"deadlock", 0>>]
      \/ z = [f EXCEPT !.sending = <<"none", 0>>]
  BY DEF Sink!PoolSend
<1>6. Worse(sink, v) /\ Worse(sink, s) /\ Worse(sink, sink)
  BY <1>2, WorseCalls
<1> HIDE DEF z, v, s, q, up
<1>7. Worse(s, t)
  BY <1>6, WorseSends DEF Worse
<1> HIDE DEF t
<1>8. Worse(t, e) /\ Worse(t, t)
  BY <1>7, WorseCalls DEF Worse
<1> HIDE DEF e
<1>9. \E g : Worse(t, g) /\ Worse(g, u)
  <2>1. CASE up
    <3>1. Worse(t, u)
      BY <1>4, <1>8, <2>1 DEF Worse
    <3> QED
      BY <1>8, <3>1
  <2>2. CASE ~up
    <3>1. Worse(e, u)
      BY <1>4, <1>8, <2>2 DEF Worse
    <3> QED
      BY <1>8, <3>1
  <2> QED
    BY <2>1, <2>2
<1> HIDE DEF u
<1>10. Worse(sink, u) /\ SinkRec(u)
  <2>1. PICK g : Worse(t, g) /\ Worse(g, u)
    BY <1>9
  <2>2. Worse(sink, t)
    BY <1>6, <1>7, WorseTwice
  <2>3. Worse(sink, g)
    BY <2>1, <2>2, WorseTwice
  <2>4. Worse(sink, u)
    BY <2>1, <2>3, WorseTwice
  <2> QED
    BY <2>4 DEF Worse
<1>11. Worse(u, y) /\ Worse(u, i) /\ SinkRec(y)
  <2>1. Worse(u, y)
    BY <1>4, <1>10
  <2>2. Worse(u, i)
    BY <1>10, WorseCalls
  <2> QED
    BY <2>1, <2>2 DEF Worse
<1> HIDE DEF y, i
<1>12. Worse(y, n)
  BY <1>11, WorseCalls
<1>13. Worse(u, n)
  BY <1>11, <1>12, WorseTwice
<1>14. Worse(sink, f)
  BY <1>10, <1>11, <1>13, WorseTwice
<1> HIDE DEF f, n
<1>15. Worse(sink, z)
  <2>1. CASE z = [sink EXCEPT !.sending = <<"crash", 0>>]
    BY <1>2, <1>4, <2>1
  <2>2. CASE z = [v EXCEPT !.sending = <<"deadlock", 0>>]
    <3>1. Worse(v, z)
      BY <1>4, <1>6, <2>2 DEF Worse
    <3> QED
      BY <1>6, <3>1, WorseTwice
  <2>3. CASE z = [f EXCEPT !.sending = <<"none", 0>>]
    <3>1. Worse(f, z)
      BY <1>4, <1>14, <2>3 DEF Worse
    <3> QED
      BY <1>14, <3>1, WorseTwice
  <2> QED
    BY <1>5, <2>1, <2>2, <2>3
<1>16. SinkRec(z) /\ ~Hopeful(z)
  BY <1>3, <1>15, WorseTwice DEF Worse
<1> QED
  BY ONLY <1>1, <1>16, HopelessTimed

\* The agent destroys a session that was stopped.
LEMMA SinkDestroysTimed ==
    ASSUME RtspInv, TimedInv, SinkDestroys
    PROVE  TimedInv'
<1> DEFINE x == Sink!Disconnect(sink.socket)
           s == [sink EXCEPT !.status = "DESTROY", !.client = FALSE, !.socket = x,
                             !.connected = FALSE, !.timer = "null", !.keepAlive = "null"]
           l == Sink!NotifyAgent(s, "DESTROYED")
<1>1. "STOPED" \in sink.told /\ sink' = [l EXCEPT !.out = <<>>]
  BY DEF SinkDestroys, Sink!DestroySession, Sink!Become
<1> HIDE DEF x
<1>2. ~Hopeful(sink)
  BY <1>1 DEF TimedInv, Timely, Unstopped
<1>3. Worse(sink, s)
  BY DEF RtspInv, Exchange, Worse, SinkRec, SinkFields
<1> HIDE DEF s
<1>4. Worse(s, l)
  BY <1>3, WorseCalls DEF Worse
<1> HIDE DEF l
<1>5. SinkRec(l) /\ ~Hopeful(l)
  <2>1. Worse(sink, l)
    BY <1>3, <1>4, WorseTwice
  <2> QED
    BY <1>2, <2>1, WorseTwice DEF Worse
<1> QED
  BY <1>1, <1>5, HopelessTimed

\* OnClientReadData.
LEMMA SinkReadTimed ==
    ASSUME RtspInv, TimedInv, SinkReads
    PROVE  TimedInv'
<1>1. PICK n \in 1..MaxChunk : Sink!OnClientReadData(n)
  BY DEF SinkReads
<1> DEFINE up == Sink!Up
           r == SubSeq(toSink, n + 1, Len(toSink))
           l == Sink!ReadData(sink, SubSeq(toSink, 1, n), up)
<1>2. Queue(toSink) /\ Len(toSink) \in Nat
  <2>1. Queue(toSink)
    BY DEF RtspInv, Exchange
  <2> QED
    BY <2>1, QueueLength
<1>3. /\ n \in 1..Len(toSink) /\ (n = 1 \/ \A i \in 1..n : toSink[i].part = "whole")
      /\ sink' = [l EXCEPT !.out = <<>>] /\ toSource' = toSource \o l.out
      /\ toSink' = r /\ source' = source /\ sink.client
  <2>1. n \in 1..Len(toSink)
    BY <1>1, <1>2, RtspAssumption DEF Sink!OnClientReadData, Sink!Splittable
  <2> QED
    BY <1>1, <2>1 DEF Sink!OnClientReadData, Sink!Splittable, Sink!Become, SinkReads
<1>4. up \in BOOLEAN /\ SocketOK(sink) /\ sink.out = <<>>
  BY DEF Sink!Up, RtspInv, SinkOK, SocketOK
<1>5. l = Sink!ReadData(sink, SubSeq(toSink, 1, n), up) /\ r = SubSeq(toSink, n + 1, Len(toSink))
  OBVIOUS
<1> HIDE DEF l, r, up
<1>6. Hopeful(l) => Timely(l, source, r, toSource \o l.out)
  <2> HAVE Hopeful(l)
  <2>1. Exchange(sink, source, toSink, toSource) /\ (Hopeful(sink) => Timely(sink, source, toSink, toSource))
    BY DEF RtspInv, TimedInv
  <2> QED
    BY <1>3, <1>4, <1>5, <2>1, TimelyRead
<1>7. SinkRec(l)
  <2>1. Exchange(sink, source, toSink, toSource)
    BY DEF RtspInv
  <2>2. Exchange(l, source, r, toSource \o l.out)
    BY <1>3, <1>4, <1>5, <2>1, OneReadOfSink
  <2> QED
    BY <2>2 DEF Exchange
<1> QED
  BY <1>3, <1>6, <1>7, SinkTimed

-----------------------------------------------------------------------------
(* What a handler of the source does to the requests that wait             *)

\* It says nothing; it answers; it answers M2 and sends M3; it sends a request of its own.
Stalls(c, d) == /\ SourceRec(d) /\ d.cseq \in Nat /\ d.wfd = c.wfd /\ d.out = c.out
                /\ "PLAYED" \in d.told <=> "PLAYED" \in c.told
Reply(x) == Says(x, FALSE, "OK", "none", x.cseq)
Replied(c, d) == /\ SourceRec(d) /\ d.cseq \in Nat /\ d.wfd \in {c.wfd, "M7", "M7_WAIT"}
                 /\ d.out = c.out \/ \E x : Reply(x) /\ d.out = Append(c.out, x)
Greets(c, d, m) == /\ SourceRec(d) /\ d.cseq \in Nat /\ d.wfd = "M3"
                   /\ "PLAYED" \in d.told <=> "PLAYED" \in c.told
                   /\ \E x, y : /\ Says(x, FALSE, "OK", "none", m.cseq) /\ Says(y, TRUE, "GET_PARAMETER", "query", y.cseq)
                                /\ d.out = Append(Append(c.out, x), y)
AsksFor(c, d, stage, body) == /\ SourceRec(d) /\ d.cseq \in Nat /\ d.wfd = stage
                            /\ \E x : Says(x, TRUE, "SET_PARAMETER", body, x.cseq) /\ d.out = Append(c.out, x)

\* HandleOptionRequest.
LEMMA OptionsGreeted ==
    ASSUME NEW c, SourceRec(c), c.cseq \in Nat, NEW m, m.cseq \in Nat, NEW up \in BOOLEAN,
           NEW d, d = Source!HandleOptionRequest(c, m, up)
    PROVE  Stalls(c, d) \/ Greets(c, d, m)
<1> DEFINE s == Source!SendM2Response(c, m.cseq, up)
           p == Source!M2Response(m.cseq)
           u == Source!Send(c, p, up)
           v == [u EXCEPT !.wfd = "M2"]
           n == s.cseq + 1
           q == Source!M3Request(n)
<1>1. d = IF Source!Serving(c) /\ up THEN Source!SendRequest(s, q, "M3", up) ELSE s
  BY DEF Source!HandleOptionRequest, Source!SendM3Request
<1>2. s = IF ~Source!Serving(c) THEN c ELSE IF up THEN v ELSE u
  BY DEF Source!SendM2Response
<1>3. Says(p, FALSE, "OK", "none", m.cseq)
  BY SourceMessages
<1> HIDE DEF p
<1>4. Even(c, u) /\ (up => u.out = Append(c.out, p)) /\ (~up => u.out = c.out)
  BY SourceSends
<1> HIDE DEF u
<1>5. Rests(u, v) /\ v.cseq = u.cseq /\ v.out = u.out
  BY <1>4, StateSet DEF Moved, Even, Rests
<1> HIDE DEF v
<1>6. CASE ~(Source!Serving(c) /\ up)
  <2>1. d = c \/ (d = u /\ ~up)
    BY <1>1, <1>2, <1>6
  <2> QED
    BY <1>4, <2>1 DEF Stalls, Even, Rests
<1>7. CASE Source!Serving(c) /\ up
  <2>1. s = v /\ d = Source!SendRequest(s, q, "M3", up)
    BY <1>1, <1>2, <1>7
  <2> HIDE DEF s
  <2>2. SourceRec(s) /\ s.cseq \in Nat /\ s.out = Append(c.out, p) /\ Source!Serving(s) /\ Rests(c, s)
    <3>1. Rests(c, v)
      BY <1>4, <1>5, RestsTwice DEF Even
    <3> QED
      BY <1>4, <1>5, <1>7, <2>1, <3>1 DEF Even, Rests, Source!Serving
  <2>3. Says(q, TRUE, "GET_PARAMETER", "query", n) /\ n \in Nat
    <3>1. n \in Nat
      BY <2>2
    <3> HIDE DEF n
    <3> QED
      BY <3>1, SourceMessages
  <2> HIDE DEF q, n
  <2>4. Requested(s, d, q, "M3", up)
    BY <2>1, <2>2, SourceRequests
  <2>5. Rests(s, d) /\ d.wfd = "M3" /\ d.cseq = q.cseq /\ d.out = Append(s.out, q)
    BY <1>7, <2>2, <2>4 DEF Requested
  <2>6. Says(q, TRUE, "GET_PARAMETER", "query", q.cseq) /\ q.cseq \in Nat
    BY <2>3 DEF Says
  <2>7. SourceRec(d) /\ ("PLAYED" \in d.told <=> "PLAYED" \in c.told)
    BY <2>2, <2>5 DEF Rests
  <2> QED
    BY <1>3, <2>2, <2>5, <2>6, <2>7 DEF Greets
<1> QED
  BY <1>6, <1>7

\* A response to anything else.
LEMMA SendReplies ==
    ASSUME NEW s, SourceRec(s), s.cseq \in Nat, NEW n \in Nat, NEW up \in BOOLEAN,
           NEW d, d \in {s, Source!SendCommonResponse(s, n, up), Source!SendM6Response(s, n, up),
                         Source!SendM7Response(s, n, up)}
    PROVE  Replied(s, d)
<1> DEFINE p == Source!WithSession(Source!Response(n), Source!sessionID)
           p6 == Source!M6Response(n, Source!sessionID)
           p7 == Source!M7Response(n, Source!sessionID)
<1>1. ASSUME NEW q, Says(q, FALSE, "OK", "none", n), NEW e, e = Source!Send(s, q, up)
      PROVE  Replied(s, e) /\ Replied(s, [e EXCEPT !.wfd = "M7"]) /\ Replied(s, [e EXCEPT !.wfd = "M7_WAIT"])
  <2>1. Even(s, e) /\ (e.out = s.out \/ e.out = Append(s.out, q))
    BY <1>1, SourceSends
  <2>2. Reply(q)
    BY <1>1 DEF Reply, Says
  <2>3. Replied(s, e)
    BY <2>1, <2>2 DEF Replied, Even, Rests
  <2>4. ASSUME NEW stage, stage \in {"M7", "M7_WAIT"}
        PROVE  Replied(s, [e EXCEPT !.wfd = stage])
    <3> DEFINE f == [e EXCEPT !.wfd = stage]
    <3>1. SourceRec(f) /\ f.wfd = stage /\ f.cseq = e.cseq /\ f.out = e.out
      BY <2>1 DEF Even, Rests, SourceRec, SourceFields
    <3> HIDE DEF f
    <3>2. Replied(s, f)
      BY <2>1, <2>2, <2>4, <3>1 DEF Replied, Even
    <3> QED
      BY <3>2 DEF f
  <2> QED
    BY <2>3, <2>4
<1>2. Says(p, FALSE, "OK", "none", n) /\ Says(p6, FALSE, "OK", "none", n) /\ Says(p7, FALSE, "OK", "none", n)
  BY SourceMessages
<1>3. Replied(s, s)
  BY DEF Replied
<1>4. d \in {s, Source!Send(s, p, up), [Source!Send(s, p6, up) EXCEPT !.wfd = "M7_WAIT"],
             [Source!Send(s, p7, up) EXCEPT !.wfd = "M7"]}
  BY DEF Source!SendCommonResponse, Source!SendM6Response, Source!SendM7Response
<1> HIDE DEF p, p6, p7
<1> QED
  BY <1>1, <1>2, <1>3, <1>4

\* HandleRequest: OPTIONS, and the others.
LEMMA RequestReplied ==
    ASSUME NEW j, NEW c, c = [j EXCEPT !.last = NoMessage], SourceRec(c), c.cseq \in Nat, NEW m, IsMessage(m), m.req,
           NEW up \in BOOLEAN, NEW d, d = Source!HandleRequest(j, m, up)
    PROVE  IF IsOptions(m) THEN Stalls(c, d) \/ Greets(c, d, m) ELSE Replied(c, d)
<1>1. c = [j EXCEPT !.last = Source!NoMessage] /\ m.cseq \in Nat
  BY NoMessageIs DEF IsMessage
<1>2. CASE IsOptions(m)
  <2>1. d = Source!HandleOptionRequest(c, m, up)
    BY <1>1, <1>2 DEF Source!HandleRequest, IsOptions
  <2> QED
    BY <1>1, <1>2, <2>1, OptionsGreeted
<1>3. CASE ~IsOptions(m)
  <2> SUFFICES Replied(c, d)
    BY <1>3
  <2>1. m.method # "OPTIONS"
    BY <1>3 DEF IsOptions
  <2>2. ASSUME NEW s, SourceRec(s), s.cseq = c.cseq, s.wfd = c.wfd, s.out = c.out,
               d \in {s, Source!SendCommonResponse(s, m.cseq, up), Source!SendM6Response(s, m.cseq, up),
                      Source!SendM7Response(s, m.cseq, up)}
        PROVE  Replied(c, d)
    <3>1. Replied(s, d)
      BY <1>1, <2>2, SendReplies
    <3> QED
      BY <2>2, <3>1 DEF Replied
  <2>3. CASE m.method = "PLAY"
    <3> DEFINE x == Source!SetKeepAliveTimer(c)
               y == IF c.prosumer = "PAUSE" THEN [c EXCEPT !.prosumer = "RESUME"] ELSE [x EXCEPT !.prosumer = "START"]
               s == Source!NotifyAgent(y, "PLAYED")
    <3>1. d = Source!SendM7Response(s, m.cseq, up)
      BY <1>1, <2>3 DEF Source!HandleRequest, Source!HandlePlayRequest
    <3>2. SourceRec(y) /\ y.cseq = c.cseq /\ y.wfd = c.wfd /\ y.out = c.out
      <4>1. SourceRec(x) /\ x.cseq = c.cseq /\ x.wfd = c.wfd /\ x.out = c.out
        BY ONLY SourceRec(c) DEF SourceRec, SourceFields, Source!SetKeepAliveTimer
      <4> HIDE DEF x
      <4>2. c.prosumer = "PAUSE" => y = [c EXCEPT !.prosumer = "RESUME"]
        OBVIOUS
      <4>3. c.prosumer # "PAUSE" => y = [x EXCEPT !.prosumer = "START"]
        OBVIOUS
      <4> HIDE DEF y
      <4> QED
        BY ONLY SourceRec(c), <4>1, <4>2, <4>3 DEF SourceRec, SourceFields
    <3> HIDE DEF y
    <3>3. SourceRec(s) /\ s.cseq = c.cseq /\ s.wfd = c.wfd /\ s.out = c.out
      BY <3>2 DEF SourceRec, SourceFields, Source!NotifyAgent
    <3> HIDE DEF s
    <3> QED
      BY <2>2, <3>1, <3>3
  <2>4. CASE m.method = "PAUSE"
    <3> DEFINE y == [c EXCEPT !.prosumer = "START"]
               s == Source!NotifyAgent(y, "PAUSE")
    <3>1. d = Source!SendCommonResponse(s, m.cseq, up)
      BY <1>1, <2>4 DEF Source!HandleRequest, Source!HandlePauseRequest
    <3>2. SourceRec(s) /\ s.cseq = c.cseq /\ s.wfd = c.wfd /\ s.out = c.out
      BY DEF SourceRec, SourceFields, Source!NotifyAgent
    <3> HIDE DEF s
    <3> QED
      BY <2>2, <3>1, <3>2
  <2>5. CASE m.method = "TEARDOWN"
    <3> DEFINE u == Source!NotifyAgent(c, "DESTROY")
               v == [u EXCEPT !.prosumer = "STOP"]
               s == Source!UnsetKeepAliveTimer(v)
    <3>1. d = Source!SendCommonResponse(s, m.cseq, up)
      BY <1>1, <2>5 DEF Source!HandleRequest, Source!HandleTeardownRequest
    <3>2. SourceRec(v) /\ v.cseq = c.cseq /\ v.wfd = c.wfd /\ v.out = c.out
      BY ONLY SourceRec(c) DEF SourceRec, SourceFields, Source!NotifyAgent
    <3> HIDE DEF v
    <3>3. SourceRec(s) /\ s.cseq = c.cseq /\ s.wfd = c.wfd /\ s.out = c.out
      BY <3>2 DEF SourceRec, SourceFields, Source!UnsetKeepAliveTimer
    <3> HIDE DEF s
    <3> QED
      BY <2>2, <3>1, <3>3
  <2>6. CASE m.method \notin {"PLAY", "PAUSE", "TEARDOWN"}
    <3>1. d \in {c, Source!SendCommonResponse(c, m.cseq, up), Source!SendM6Response(c, m.cseq, up)}
      BY <1>1, <2>1, <2>6 DEF Source!HandleRequest, Source!HandleSetupRequest, Source!HandleIDRRequest
    <3> QED
      BY <2>2, <3>1
  <2> QED
    BY <2>3, <2>4, <2>5, <2>6
<1> QED
  BY <1>2, <1>3

\* What a response makes the source ask for: M4, M5, or nothing.
Follows(c, d) == \/ Stalls(c, d)
                 \/ c.wfd = "M3" /\ AsksFor(c, d, "M4", "params")
                 \/ c.wfd = "M4" /\ AsksFor(c, d, "M5", "setup")
                 \/ c.wfd = "M7_WAIT" /\ Replied(c, d)

\* A request that goes out, or does not.
LEMMA SendAsks ==
    ASSUME NEW s, SourceRec(s), s.cseq \in Nat, NEW body, NEW q, Says(q, TRUE, "SET_PARAMETER", body, s.cseq + 1),
           NEW stage, NEW up \in BOOLEAN, NEW d, d = Source!SendRequest(s, q, stage, up)
    PROVE  IF Source!Serving(s) /\ up THEN AsksFor(s, d, stage, body) ELSE Stalls(s, d)
<1>1. Requested(s, d, q, stage, up)
  BY SourceRequests
<1>2. q.cseq \in Nat /\ Says(q, TRUE, "SET_PARAMETER", body, q.cseq)
  BY DEF Says
<1>3. d = s => Stalls(s, d)
  BY DEF Stalls
<1>4. CASE Source!Serving(s) /\ up
  <2>1. Rests(s, d) /\ d.wfd = stage /\ d.cseq = q.cseq /\ d.out = Append(s.out, q)
    BY <1>1, <1>4 DEF Requested
  <2> QED
    BY <1>2, <1>4, <2>1 DEF AsksFor, Rests
<1>5. CASE ~(Source!Serving(s) /\ up)
  <2>1. d = s \/ (Rests(s, d) /\ d.wfd = s.wfd /\ d.cseq = q.cseq /\ d.out = s.out)
    BY <1>1, <1>5 DEF Requested
  <2>2. Stalls(s, d)
    BY <1>2, <1>3, <2>1 DEF Stalls, Rests
  <2> QED
    BY <1>5, <2>2
<1> QED
  BY <1>4, <1>5

\* HandleResponse.
LEMMA ResponseFollowed ==
    ASSUME NEW j, NEW c, c = [j EXCEPT !.last = NoMessage], SourceRec(c), c.cseq \in Nat, NEW m,
           NEW up \in BOOLEAN, NEW d, d = Source!HandleResponse(j, m, up)
    PROVE  Follows(c, d)
<1> DEFINE y == [c EXCEPT !.counts = MaxCounts]
           x == IF c.wfd \in Source!Played THEN y ELSE c
<1>1. c = [j EXCEPT !.last = Source!NoMessage]
  BY NoMessageIs
<1>2. \/ d = c
      \/ d = CASE x.wfd = "M3"      -> Source!HandleM3Response(x, m, up)
               [] x.wfd = "M4"      -> Source!HandleM4Response(x, up)
               [] x.wfd = "M7_WAIT" -> Source!HandleM7Response(x)
               [] x.wfd = "M8"      -> Source!HandleM8Response(x)
               [] OTHER             -> x
  BY <1>1 DEF Source!HandleResponse
<1>3. SourceRec(x) /\ x.cseq = c.cseq /\ x.wfd = c.wfd /\ x.out = c.out /\ x.told = c.told
  BY DEF SourceRec, SourceFields
<1> HIDE DEF x
<1>4. \/ d = c \/ d = x
      \/ x.wfd = "M3" /\ d = Source!HandleM3Response(x, m, up)
      \/ x.wfd = "M4" /\ d = Source!HandleM4Response(x, up)
      \/ x.wfd = "M7_WAIT" /\ d = Source!HandleM7Response(x)
      \/ d = Source!HandleM8Response(x)
  BY <1>2
<1>5. ASSUME NEW z, SourceRec(z), z.cseq = c.cseq, z.wfd = c.wfd, z.out = c.out, z.told = c.told
      PROVE  /\ \A g : Stalls(z, g) => Stalls(c, g)
             /\ \A g, stage, body : AsksFor(z, g, stage, body) => AsksFor(c, g, stage, body)
             /\ Stalls(c, z)
  BY <1>5 DEF Stalls, AsksFor
<1>6. CASE d = c \/ d = x
  BY <1>3, <1>5, <1>6 DEF Follows
<1>7. CASE x.wfd = "M3" /\ d = Source!HandleM3Response(x, m, up)
  <2> DEFINE choice == Source!Choose(m.params)
             z == [x EXCEPT !.choice = choice]
             params == Source!M4Params(z.choice)
             q == Source!M4Request(z.cseq + 1, params)
  <2>1. d = Source!SendRequest(z, q, "M4", up)
    BY <1>7 DEF Source!HandleM3Response, Source!SendM4Request
  <2> HIDE DEF choice, params
  <2>2. SourceRec(z) /\ z.cseq = c.cseq /\ z.wfd = c.wfd /\ z.out = c.out /\ z.told = c.told
    BY <1>3 DEF SourceRec, SourceFields
  <2> HIDE DEF z
  <2>3. Says(q, TRUE, "SET_PARAMETER", "params", z.cseq + 1) /\ z.cseq \in Nat
    <3>1. z.cseq + 1 \in Nat
      BY <2>2
    <3> QED
      BY <2>2, <3>1, SourceMessages
  <2> HIDE DEF q
  <2>4. IF Source!Serving(z) /\ up THEN AsksFor(z, d, "M4", "params") ELSE Stalls(z, d)
    BY <2>1, <2>2, <2>3, SendAsks
  <2>5. AsksFor(c, d, "M4", "params") \/ Stalls(c, d)
    BY <1>5, <2>2, <2>4
  <2> QED
    BY <1>3, <1>7, <2>5 DEF Follows
<1>8. CASE x.wfd = "M4" /\ d = Source!HandleM4Response(x, up)
  <2> DEFINE q == Source!M5Request(x.cseq + 1)
             e == Source!SendRequest(x, q, "M5", up)
             g == [e EXCEPT !.creates = @ + 1]
  <2>1. d = IF Source!Serving(x) /\ up THEN g ELSE e
    BY <1>8 DEF Source!HandleM4Response, Source!SendM5Request
  <2>2. Says(q, TRUE, "SET_PARAMETER", "setup", x.cseq + 1) /\ x.cseq \in Nat
    <3>1. x.cseq + 1 \in Nat
      BY <1>3
    <3> QED
      BY <1>3, <3>1, SourceMessages
  <2> HIDE DEF q
  <2>3. e = Source!SendRequest(x, q, "M5", up)
    OBVIOUS
  <2> HIDE DEF e
  <2>4. IF Source!Serving(x) /\ up THEN AsksFor(x, e, "M5", "setup") ELSE Stalls(x, e)
    BY <1>3, <2>2, <2>3, SendAsks
  <2>5. CASE Source!Serving(x) /\ up
    <3>1. SourceRec(g) /\ g.cseq = e.cseq /\ g.wfd = e.wfd /\ g.out = e.out
      BY <2>4, <2>5 DEF AsksFor, SourceRec, SourceFields
    <3> HIDE DEF g
    <3>2. AsksFor(x, g, "M5", "setup")
      BY <2>4, <2>5, <3>1 DEF AsksFor
    <3>3. AsksFor(c, d, "M5", "setup")
      BY <1>3, <1>5, <2>1, <2>5, <3>2
    <3> QED
      BY <1>3, <1>8, <3>3 DEF Follows
  <2>6. CASE ~(Source!Serving(x) /\ up)
    <3>1. Stalls(x, d)
      BY <2>1, <2>4, <2>6
    <3>2. Stalls(c, d)
      BY <1>3, <1>5, <3>1
    <3> QED
      BY <3>2 DEF Follows
  <2> QED
    BY <2>5, <2>6
<1>9. CASE x.wfd = "M7_WAIT" /\ d = Source!HandleM7Response(x)
  <2>1. SourceRec(d) /\ d.wfd = "M7" /\ d.cseq = x.cseq /\ d.out = x.out
    BY <1>3, <1>9, StateSet DEF Source!HandleM7Response, Moved, Rests
  <2>2. Replied(c, d)
    BY <1>3, <2>1 DEF Replied
  <2> QED
    BY <1>3, <1>9, <2>2 DEF Follows
<1>10. CASE d = Source!HandleM8Response(x)
  <2>1. Even(x, d) /\ d.out = x.out
    BY <1>3, <1>10, SourceNotifies DEF Source!HandleM8Response
  <2>2. Stalls(c, d)
    BY <1>3, <2>1 DEF Stalls, Even, Rests
  <2> QED
    BY <2>2 DEF Follows
<1> QED
  BY <1>4, <1>6, <1>7, <1>8, <1>9, <1>10

-----------------------------------------------------------------------------
(* The source handles what it reads: its half of an exchange that is timed *)

\* M1 has been handled.
InTurn(c, a) == c.wfd # "M0" /\ ~HasOptions(a)

\* A message behind the others that is not M4.
LEMMA M4OnceBehind ==
    ASSUME NEW k, NEW a, M4Once(k, a), NEW x, ~StartsM4(x), NEW a2, Appended(a, x, a2)
    PROVE  M4Once(k, a2)
<1>1. \A i \in 1..Len(a2) : StartsM4(a2[i]) => i \in 1..Len(a) /\ a2[i] = a[i]
  BY AppendedEffect
<1> QED
  BY <1>1 DEF M4Once

\* What is read by the source is gone.
LEMMA TimelySourceLeft ==
    ASSUME NEW k, NEW c, NEW a, NEW b, Timely(k, c, a, b), NEW r, NEW n, Suffix(b, r, n)
    PROVE  Timely(k, c, a, r)
<1>1. Queue(r) /\ n \in Nat /\ Len(b) \in Nat /\ Len(r) = Len(b) - n /\ (HasOptions(r) => HasOptions(b))
  <2>1. HasOptions(r) => HasOptions(b)
    BY SuffixEffect
  <2> QED
    BY <2>1 DEF Suffix
<1>2. b = <<>> => r = <<>>
  <2> HAVE b = <<>>
  <2>1. Len(b) = 0
    BY EmptyQueue
  <2>2. Len(r) = 0
    BY <1>1, <2>1 DEF Suffix
  <2> QED
    BY <1>1, <2>2, NoneLeft
<1>3. StageM1(k, c, a, r) /\ StageM7(k, c, a, r)
  BY <1>1, <1>2 DEF Timely, StageM1, StageM7
<1>4. StageM2(k, c, a, r)
  <2> SUFFICES ASSUME Awaits(k, "M2") PROVE StageM2(k, c, a, r)
    BY DEF StageM2
  <2>1. ASSUME NEW i \in 1..Len(r)
        PROVE  BeforeM2(r[i]) /\ (r[i].req => r[i].cseq = k.cseq /\ i = Len(r))
    <3>1. i + n \in 1..Len(b) /\ r[i] = b[i + n]
      BY SuffixEffect
    <3>2. BeforeM2(r[i]) /\ (r[i].req => r[i].cseq = k.cseq /\ i + n = Len(b))
      BY <3>1 DEF Timely, StageM2
    <3>3. i + n = Len(b) => i = Len(r)
      BY <1>1
    <3> QED
      BY <3>2, <3>3
  <2> QED
    BY <1>2, <2>1 DEF Timely, StageM2
<1> QED
  BY <1>3, <1>4 DEF Timely

\* A source that says nothing.
LEMMA TimelyStalled ==
    ASSUME NEW k, NEW c, NEW a, NEW b, Timely(k, c, a, b), NEW d, Stalls(c, d)
    PROVE  Timely(k, d, a, b) /\ (InTurn(c, a) => InTurn(d, a))
<1>1. d.wfd = c.wfd /\ ("PLAYED" \in d.told <=> "PLAYED" \in c.told)
  BY DEF Stalls
<1>2. StageM1(k, d, a, b)
  BY <1>1 DEF Timely, StageM1, BeforeM1
<1>3. StageM2(k, d, a, b)
  BY <1>1 DEF Timely, StageM2
<1>4. StageM7(k, d, a, b)
  BY <1>1 DEF Timely, StageM7
<1> QED
  BY <1>1, <1>2, <1>3, <1>4 DEF Timely, InTurn

\* The exchange is not started anew.
Later(k, d) == d.wfd # "M0" /\ (Awaits(k, "M7") => d.wfd \notin {"M3", "M4"})

\* The source says something in the exchange once M2 has been answered, and does not start it anew.
LEMMA TimelySays ==
    ASSUME NEW k, NEW c, NEW a, NEW b, Timely(k, c, a, b), InTurn(c, a), ~Awaits(k, "M2"),
           NEW d, Later(k, d), NEW x, NEW a2, Appended(a, x, a2), ~IsOptions(x), M4Once(k, a2),
           Awaits(k, "M7") => ~IsM5(x)
    PROVE  Timely(k, d, a2, b) /\ InTurn(d, a2)
<1>1. /\ HasOptions(a2) <=> HasOptions(a) \/ IsOptions(x)
      /\ HasM5(a2) <=> HasM5(a) \/ IsM5(x)
  BY AppendedEffect
<1>2. InTurn(d, a2)
  BY <1>1 DEF InTurn, Later
<1>3. StageM1(k, d, a2, b)
  BY <1>2 DEF InTurn, StageM1, BeforeM1
<1>4. StageM2(k, d, a2, b)
  BY DEF StageM2
<1>5. StageM7(k, d, a2, b)
  BY <1>1 DEF Timely, StageM7, InTurn, Later
<1> QED
  BY <1>2, <1>3, <1>4, <1>5 DEF Timely

\* It is at work: t is on its way, c.out was sent since.
AtWork(k, c, t, b) == Queue(c.out) /\ Timely(k, c, t \o c.out, b) /\ InTurn(c, t \o c.out)

\* It answers, or it does not.
LEMMA TimelyReplied ==
    ASSUME NEW k, NEW c, NEW t, NEW b, Queue(t), AtWork(k, c, t, b), ~Awaits(k, "M2"), NEW d, Replied(c, d)
    PROVE  AtWork(k, d, t, b)
<1> DEFINE a == t \o c.out
           a2 == t \o d.out
<1>1. Timely(k, c, a, b) /\ InTurn(c, a) /\ Queue(c.out)
  BY DEF AtWork
<1>2. Later(k, d)
  BY <1>1 DEF Replied, Later, InTurn, Timely, StageM7
<1>3. CASE d.out = c.out
  <2>1. a2 = a
    BY <1>3
  <2> HIDE DEF a, a2
  <2>2. InTurn(d, a2)
    BY <1>1, <1>2, <2>1 DEF InTurn, Later
  <2>3. StageM1(k, d, a2, b) /\ StageM2(k, d, a2, b)
    BY <2>2 DEF InTurn, StageM1, BeforeM1, StageM2
  <2>4. StageM7(k, d, a2, b)
    BY <1>1, <1>2, <2>1 DEF Timely, StageM7, Later
  <2>5. Timely(k, d, a2, b)
    BY <1>1, <2>1, <2>3, <2>4 DEF Timely
  <2> QED
    BY <1>1, <1>3, <2>2, <2>5 DEF AtWork, a2
<1>4. ASSUME NEW x, Reply(x), d.out = Append(c.out, x)
      PROVE  AtWork(k, d, t, b)
  <2>1. IsMessage(x) /\ x.part \in Parts /\ ~x.req
    BY <1>4 DEF Reply, Says, Parts
  <2>2. Queue(d.out) /\ Appended(a, x, a2)
    BY <1>1, <1>4, <2>1, SentBehind
  <2> HIDE DEF a, a2
  <2>3. ~IsOptions(x) /\ ~IsM5(x) /\ ~StartsM4(x)
    BY <2>1 DEF IsOptions, IsM5, StartsM4, IsM4
  <2>4. M4Once(k, a2)
    BY <1>1, <2>2, <2>3, M4OnceBehind DEF Timely
  <2>5. Timely(k, d, a2, b) /\ InTurn(d, a2)
    BY <1>1, <1>2, <2>2, <2>3, <2>4, TimelySays
  <2> QED
    BY <2>2, <2>5 DEF AtWork, a2
<1> QED
  BY <1>3, <1>4 DEF Replied

\* It answers M2 and sends M3; the sink then waits for the answer that comes first.
LEMMA TimelyGreeted ==
    ASSUME NEW k, NEW c, NEW t, NEW b, Queue(t), Queue(b), AtWork(k, c, t, b), NEW i \in 1..Len(b), IsOptions(b[i]),
           NEW m, m.cseq = b[i].cseq, NEW d, Greets(c, d, m), NEW r, NEW n, Suffix(b, r, n), n >= i
    PROVE  AtWork(k, d, t, r)
<1> DEFINE a == t \o c.out
<1>1. Timely(k, c, a, b) /\ InTurn(c, a) /\ Queue(c.out)
  BY DEF AtWork
<1>2. PICK x, y : /\ Says(x, FALSE, "OK", "none", m.cseq) /\ Says(y, TRUE, "GET_PARAMETER", "query", y.cseq)
                  /\ d.out = Append(Append(c.out, x), y)
  BY DEF Greets
<1>3. d.wfd = "M3" /\ ("PLAYED" \in d.told <=> "PLAYED" \in c.told)
  BY DEF Greets
<1> DEFINE o == Append(c.out, x)
           a1 == t \o o
           a2 == t \o d.out
<1>4. /\ IsMessage(x) /\ x.part \in Parts /\ ~x.req /\ x.part = "whole" /\ x.body = "none" /\ x.cseq = b[i].cseq
      /\ IsMessage(y) /\ y.part \in Parts /\ y.req /\ y.method = "GET_PARAMETER"
  BY <1>2 DEF Says, Parts
<1>5. Queue(o) /\ Appended(a, x, a1) /\ Queue(d.out) /\ Appended(a1, y, a2)
  <2>1. Queue(o) /\ Appended(a, x, a1)
    BY <1>1, <1>4, SentBehind
  <2>2. d.out = Append(o, y)
    BY <1>2
  <2> HIDE DEF o, a
  <2>3. Queue(d.out) /\ Appended(a1, y, a2)
    BY <1>4, <2>1, <2>2, SentBehind
  <2> QED
    BY <2>1, <2>3
<1> HIDE DEF a, o, a1, a2
<1>6. /\ ~IsOptions(x) /\ ~IsM5(x) /\ ~StartsM4(x)
      /\ ~IsOptions(y) /\ ~IsM5(y) /\ ~StartsM4(y)
  BY <1>4 DEF IsOptions, IsM5, StartsM4, IsM4
<1>7. M4Once(k, a2)
  <2>1. M4Once(k, a1)
    BY <1>1, <1>5, <1>6, M4OnceBehind DEF Timely
  <2> QED
    BY <1>5, <1>6, <2>1, M4OnceBehind
<1>8. InTurn(d, a2)
  <2>1. ~HasOptions(a2)
    BY <1>1, <1>5, <1>6, AppendedEffect DEF InTurn
  <2> QED
    BY <1>3, <2>1 DEF InTurn
<1>9. ~Awaits(k, "M7")
  BY <1>1 DEF Timely, StageM7, HasOptions
<1>10. StageM2(k, d, a2, r)
  <2> SUFFICES ASSUME Awaits(k, "M2") PROVE StageM2(k, d, a2, r)
    BY DEF StageM2
  <2>1. b[i].req
    BY DEF IsOptions
  <2>2. i = Len(b) /\ b[i].cseq = k.cseq
    BY <1>1, <2>1 DEF Timely, StageM2
  <2>3. r = <<>>
    <3>1. Len(r) = 0 /\ Queue(r)
      BY <2>2 DEF Suffix
    <3> QED
      BY <3>1, NoneLeft
  <2>4. a = <<>>
    <3>1. b # <<>>
      BY EmptyQueue
    <3> QED
      BY <1>1, <3>1 DEF Timely, StageM2
  <2>5. a2[1] = x /\ a2 # <<>>
    <3>1. Len(a) = 0 /\ Len(a1) = 1 /\ a1[1] = x
      <4>1. Len(a) = 0
        BY <2>4, EmptyQueue
      <4> QED
        BY <1>5, <4>1 DEF Appended
    <3>2. Len(a2) = 2 /\ a2[1] = a1[1]
      BY <1>5, <3>1 DEF Appended
    <3>3. a2 # <<>>
      <4> SUFFICES ASSUME a2 = <<>> PROVE FALSE
        OBVIOUS
      <4>1. Len(a2) = 0
        BY EmptyQueue
      <4> QED
        BY <3>2, <4>1
    <3> QED
      BY <3>1, <3>2, <3>3
  <2>6. AnswersM2(a2[1], k.cseq)
    BY <1>4, <2>2, <2>5 DEF AnswersM2
  <2>7. 1..Len(r) = {}
    BY <2>3
  <2> QED
    BY <1>1, <1>3, <2>3, <2>6, <2>7 DEF Timely, StageM2
<1>11. StageM1(k, d, a2, r) /\ StageM7(k, d, a2, r)
  BY <1>8, <1>9 DEF InTurn, StageM1, BeforeM1, StageM7
<1>12. Timely(k, d, a2, r)
  BY <1>1, <1>7, <1>10, <1>11 DEF Timely
<1> QED
  BY <1>5, <1>8, <1>12 DEF AtWork, a2

\* M4 has not been sent.
NotYetM4(k, c, a) == c.wfd = "M3" => k.firstCast /\ ~HasM4(a) /\ ~IsM4(k.last)

\* It handles a response.
LEMMA TimelyFollowed ==
    ASSUME NEW k, NEW c, NEW t, NEW b, Queue(t), b # <<>>, AtWork(k, c, t, b), NotYetM4(k, c, t \o c.out),
           NEW d, Follows(c, d)
    PROVE  AtWork(k, d, t, b)
<1> DEFINE a == t \o c.out
           a2 == t \o d.out
<1>1. Timely(k, c, a, b) /\ InTurn(c, a) /\ Queue(c.out)
  BY DEF AtWork
<1>2. CASE Stalls(c, d)
  <2>1. Timely(k, d, a, b) /\ InTurn(d, a)
    <3> HIDE DEF a
    <3> QED
      BY <1>1, <1>2, TimelyStalled
  <2>2. d.out = c.out
    BY <1>2 DEF Stalls
  <2> QED
    BY <1>1, <2>1, <2>2 DEF AtWork
<1>3. Awaits(k, "M2") => c.wfd = "M1"
  BY <1>1 DEF Timely, StageM2
<1>4. ASSUME NEW stage, stage \in {"M4", "M5"}, c.wfd \in {"M3", "M4"}, NEW body, AsksFor(c, d, stage, body),
             (c.wfd = "M3" /\ body = "params") \/ body = "setup"
      PROVE  AtWork(k, d, t, b)
  <2>1. PICK x : Says(x, TRUE, "SET_PARAMETER", body, x.cseq) /\ d.out = Append(c.out, x)
    BY <1>4 DEF AsksFor
  <2>2. IsMessage(x) /\ x.part \in Parts /\ x.method = "SET_PARAMETER" /\ x.body = body /\ d.wfd = stage
    BY <1>4, <2>1 DEF Says, Parts, AsksFor
  <2>3. Queue(d.out) /\ Appended(a, x, a2)
    BY <1>1, <2>1, <2>2, SentBehind
  <2>4. NotYetM4(k, c, a)
    OBVIOUS
  <2> HIDE DEF a, a2
  <2>5. ~Awaits(k, "M7") /\ ~Awaits(k, "M2")
    BY <1>1, <1>3, <1>4 DEF Timely, StageM7
  <2>6. Later(k, d) /\ ~IsOptions(x)
    BY <1>4, <2>2, <2>5 DEF Later, IsOptions
  <2>7. M4Once(k, a2)
    <3>1. CASE body = "setup"
      <4>1. ~StartsM4(x)
        BY <2>2, <3>1 DEF StartsM4, IsM4
      <4> QED
        BY <1>1, <2>3, <4>1, M4OnceBehind DEF Timely
    <3>2. CASE c.wfd = "M3" /\ body = "params"
      <4>1. k.firstCast /\ ~IsM4(k.last) /\ \A j \in 1..Len(a) : ~IsM4(a[j])
        BY <2>4, <3>2 DEF NotYetM4, HasM4
      <4>2. \A j \in 1..Len(a2) : StartsM4(a2[j]) => j = Len(a) + 1
        BY <2>3, <4>1, AppendedEffect DEF StartsM4
      <4> QED
        BY <4>1, <4>2 DEF M4Once, StartsM4
    <3> QED
      BY <1>4, <3>1, <3>2
  <2>8. Timely(k, d, a2, b) /\ InTurn(d, a2)
    BY <1>1, <2>3, <2>5, <2>6, <2>7, TimelySays
  <2> QED
    BY <2>3, <2>8 DEF AtWork, a2
<1>5. CASE c.wfd = "M3" /\ AsksFor(c, d, "M4", "params")
  BY <1>4, <1>5
<1>6. CASE c.wfd = "M4" /\ AsksFor(c, d, "M5", "setup")
  BY <1>4, <1>6
<1>7. CASE c.wfd = "M7_WAIT" /\ Replied(c, d)
  <2>1. ~Awaits(k, "M2")
    BY <1>3, <1>7
  <2> QED
    BY <1>7, <2>1, TimelyReplied
<1> QED
  BY <1>2, <1>5, <1>6, <1>7 DEF Follows

-----------------------------------------------------------------------------
(* One read of the source                                                  *)

\* It forgets what it kept.
LEMMA TimelyForgot ==
    ASSUME NEW k, NEW j, NEW t, NEW b, AtWork(k, j, t, b), SourceRec(j), j.cseq \in Nat,
           NEW last, NEW c, c = [j EXCEPT !.last = last]
    PROVE  AtWork(k, c, t, b) /\ SourceRec(c) /\ c.cseq \in Nat /\ c.out = j.out /\ c.wfd = j.wfd
<1>1. SourceRec(c) /\ c.cseq = j.cseq /\ c.wfd = j.wfd /\ c.out = j.out /\ c.told = j.told
  BY DEF SourceRec, SourceFields
<1>2. Stalls(j, c)
  BY <1>1 DEF Stalls
<1> DEFINE a == t \o j.out
<1>3. Timely(k, j, a, b) /\ InTurn(j, a)
  BY DEF AtWork
<1>4. a = t \o c.out
  BY <1>1
<1> HIDE DEF a
<1>5. Timely(k, c, a, b) /\ InTurn(c, a)
  BY <1>2, <1>3, TimelyStalled
<1> QED
  BY <1>1, <1>4, <1>5 DEF AtWork

\* It handles a request: the i-th one on its way, or one whose head it kept.
LEMMA TimelyHeard ==
    ASSUME NEW k, NEW j, NEW c, c = [j EXCEPT !.last = NoMessage], SourceRec(c), c.cseq \in Nat,
           NEW t, NEW b, Queue(t), Queue(b), AtWork(k, c, t, b), NEW i \in 1..Len(b), NEW m, IsMessage(m), m.req,
           SameMessage(m, b[i]) \/ (~IsOptions(m) /\ ~Awaits(k, "M2")),
           NEW up \in BOOLEAN, NEW d, d = Source!HandleRequest(j, m, up),
           NEW r, NEW n, Suffix(b, r, n), n >= i
    PROVE  AtWork(k, d, t, r)
<1>1. IF IsOptions(m) THEN Stalls(c, d) \/ Greets(c, d, m) ELSE Replied(c, d)
  BY RequestReplied
<1>2. Queue(c.out) /\ Timely(k, c, t \o c.out, b) /\ InTurn(c, t \o c.out)
  BY DEF AtWork
<1>3. AtWork(k, d, t, b) => AtWork(k, d, t, r)
  BY TimelySourceLeft DEF AtWork
<1>4. CASE IsOptions(m) /\ Greets(c, d, m)
  <2>1. IsOptions(b[i]) /\ m.cseq = b[i].cseq
    BY <1>4 DEF SameMessage, IsOptions
  <2> QED
    BY <1>4, <2>1, TimelyGreeted
<1>5. CASE Stalls(c, d)
  <2> DEFINE a == t \o c.out
  <2>1. d.out = c.out
    BY <1>5 DEF Stalls
  <2>2. Timely(k, c, a, b) /\ InTurn(c, a) /\ a = t \o d.out
    BY <1>2, <2>1
  <2> HIDE DEF a
  <2>3. Timely(k, d, a, b) /\ InTurn(d, a)
    BY <1>5, <2>2, TimelyStalled
  <2>4. AtWork(k, d, t, b)
    BY <1>2, <2>1, <2>2, <2>3 DEF AtWork
  <2> QED
    BY <1>3, <2>4
<1>6. CASE ~IsOptions(m)
  <2>1. ~Awaits(k, "M2")
    <3> SUFFICES ASSUME Awaits(k, "M2"), SameMessage(m, b[i]) PROVE FALSE
      OBVIOUS
    <3>1. ~IsOptions(b[i]) /\ b[i].req
      BY <1>6 DEF SameMessage, IsOptions
    <3> QED
      BY <1>2, <3>1 DEF Timely, StageM2, BeforeM2
  <2>2. Replied(c, d)
    BY <1>1, <1>6
  <2>3. AtWork(k, d, t, b)
    BY <2>1, <2>2, TimelyReplied
  <2> QED
    BY <1>3, <2>3
<1> QED
  BY <1>1, <1>4, <1>5, <1>6

\* OnServerReadData.
LEMMA TimelyServed ==
    ASSUME NEW k, NEW c, NEW a, NEW b, Exchange(k, c, a, b), Timely(k, c, a, b), c.out = <<>>,
           NEW n \in 1..Len(b), n = 1 \/ \A i \in 1..n : b[i].part = "whole", NEW up \in BOOLEAN,
           NEW d, d = Source!ReadData(c, SubSeq(b, 1, n), up), NEW r, r = SubSeq(b, n + 1, Len(b))
    PROVE  AtWork(k, d, a, r)
<1> DEFINE chunk == SubSeq(b, 1, n)
           first == Source!ReadFirst(chunk, c.last)
           second == Source!ReadSecond(chunk)
           kept == Source!ReadKeeps(chunk)
           t == Source!HandleResponse(c, first, up)
           s == [c EXCEPT !.last = NoMessage]
<1>1. /\ SourceRec(c) /\ c.cseq \in Nat /\ IsMessage(c.last) /\ Queue(a) /\ Queue(b) /\ Len(b) \in Nat
      /\ n \in Nat /\ n >= 1 /\ 1 \in 1..Len(b) /\ Queue(c.out) /\ a \o c.out = a /\ b # <<>>
  <2>1. Queue(a) /\ Queue(b)
    BY DEF Exchange
  <2> QED
    BY <2>1, QueueLength, EmptyQueue DEF Exchange, Numbers
<1>2. Suffix(b, r, n)
  BY <1>1, Taken
<1>3. Parsed(b, n, c.last, first, second, kept)
  <2>1. chunk = SubSeq(b, 1, n) /\ first = Source!ReadFirst(chunk, c.last) /\ second = Source!ReadSecond(chunk)
    OBVIOUS
  <2> HIDE DEF chunk, first, second
  <2> QED
    BY <1>1, <2>1, SourceParses
<1>4. b[1].part = "whole" => SameMessage(first, b[1])
  BY <1>1, WholeParses
<1>5. d = IF first = NoMessage THEN [c EXCEPT !.last = kept]
          ELSE IF first.req THEN Source!HandleRequest(c, first, up)
          ELSE IF second = NoMessage THEN t ELSE Source!HandleRequest(t, second, up)
  BY NoMessageIs DEF Source!ReadData
<1> HIDE DEF chunk, first, second, kept
<1>6. InTurn(c, a)
  BY <1>1 DEF Timely, StageM1, BeforeM1, InTurn
<1>7. AtWork(k, c, a, b)
  BY <1>1, <1>6 DEF AtWork
<1>8. ASSUME NEW e, AtWork(k, e, a, b)
      PROVE  AtWork(k, e, a, r)
  BY <1>2, <1>8, TimelySourceLeft DEF AtWork
<1>9. AtWork(k, s, a, b) /\ SourceRec(s) /\ s.cseq \in Nat /\ s.out = c.out /\ s.wfd = c.wfd
  <2>1. s = [c EXCEPT !.last = NoMessage]
    OBVIOUS
  <2>2. SourceRec(s) /\ s.cseq \in Nat /\ s.out = c.out /\ s.wfd = c.wfd
    BY <1>1 DEF SourceRec, SourceFields
  <2> HIDE DEF s
  <2>3. AtWork(k, s, a, b)
    BY ONLY <1>1, <1>7, <2>1, TimelyForgot
  <2> QED
    BY <2>2, <2>3
<1>10. s = [c EXCEPT !.last = NoMessage]
  OBVIOUS
<1> HIDE DEF s
<1>11. CASE first = NoMessage
  <2>1. d = [c EXCEPT !.last = kept]
    BY <1>5, <1>11
  <2>2. AtWork(k, d, a, b)
    BY ONLY <1>1, <1>7, <2>1, TimelyForgot
  <2> QED
    BY <1>8, <2>2
<1>12. CASE first # NoMessage /\ first.req
  <2>1. d = Source!HandleRequest(c, first, up)
    BY <1>5, <1>12
  <2>2. SameMessage(first, b[1]) \/ (~IsOptions(first) /\ ~Awaits(k, "M2"))
    <3> SUFFICES ASSUME b[1].part # "whole" PROVE ~IsOptions(first) /\ ~Awaits(k, "M2")
      BY <1>4
    <3>1. c.last.req /\ SameMessage(first, c.last)
      BY <1>3, <1>12 DEF Parsed
    <3>2. ~IsOptions(first)
      BY <3>1 DEF Exchange, Bodies, SameMessage, IsOptions
    <3>3. ~Awaits(k, "M2")
      BY <1>1 DEF Timely, StageM2, BeforeM2
    <3> QED
      BY <3>2, <3>3
  <2>3. IsMessage(first)
    BY <1>3, <1>12 DEF Parsed, SameMessage
  <2> QED
    BY ONLY up \in BOOLEAN, <1>1, <1>2, <1>9, <1>10, <1>12, <2>1, <2>2, <2>3, TimelyHeard
<1>13. CASE first # NoMessage /\ ~first.req
  <2>1. t = Source!HandleResponse(c, first, up)
    OBVIOUS
  <2>2. d = IF second = NoMessage THEN t ELSE Source!HandleRequest(t, second, up)
    BY <1>5, <1>13
  <2> HIDE DEF t
  <2>3. Follows(s, t)
    BY <1>9, <1>10, <2>1, ResponseFollowed
  <2>4. NotYetM4(k, s, a \o s.out)
    <3>1. c.wfd = "M3" => NoM4(k, c, a) /\ k.creates = 0 /\ (k.firstCreate <=> k.creates = 0)
      BY DEF Exchange, Progress, Early, NoM4
    <3>2. k.firstCast <=> k.firstCreate
      BY DEF Timely, Unstopped
    <3> QED
      BY <1>1, <1>9, <3>1, <3>2 DEF NotYetM4, NoM4
  <2>5. AtWork(k, t, a, b)
    BY <1>1, <1>9, <2>3, <2>4, TimelyFollowed
  <2>6. SourceRec(t) /\ t.cseq \in Nat
    BY <2>3 DEF Follows, Stalls, Replied, AsksFor
  <2>7. CASE second = NoMessage
    BY <1>8, <2>2, <2>5, <2>7
  <2>8. CASE second # NoMessage
    <3> DEFINE u == [t EXCEPT !.last = NoMessage]
    <3>1. d = Source!HandleRequest(t, second, up)
      BY <2>2, <2>8
    <3>2. n >= 2 /\ b[2].req /\ SameMessage(second, b[2])
      BY <1>3, <2>8 DEF Parsed
    <3>3. 2 \in 1..Len(b) /\ IsMessage(second) /\ second.req
      BY <1>1, <3>2 DEF SameMessage
    <3>4. u = [t EXCEPT !.last = NoMessage]
      OBVIOUS
    <3> HIDE DEF u
    <3>5. AtWork(k, u, a, b) /\ SourceRec(u) /\ u.cseq \in Nat
      BY <2>5, <2>6, <3>4, TimelyForgot
    <3> QED
      BY ONLY up \in BOOLEAN, <1>1, <1>2, <3>1, <3>2, <3>3, <3>4, <3>5, TimelyHeard
  <2> QED
    BY <2>7, <2>8
<1> QED
  BY <1>11, <1>12, <1>13

-----------------------------------------------------------------------------
(* The steps of the source and of the connection                           *)

\* What the source sent is handed to the connection.
LEMMA SourceTimed ==
    ASSUME NEW d, SourceRec(d), sink' = sink, source' = [d EXCEPT !.out = <<>>], toSink' = toSink \o d.out,
           Hopeful(sink) => Timely(sink, d, toSink \o d.out, toSource')
    PROVE  TimedInv'
<1> DEFINE c == [d EXCEPT !.out = <<>>]
           a == toSink \o d.out
           b == toSource'
<1>1. c.wfd = d.wfd /\ c.told = d.told
  BY DEF SourceRec, SourceFields
<1>2. sink' = sink /\ source' = c /\ toSink' = a /\ toSource' = b /\ (Hopeful(sink) => Timely(sink, d, a, b))
  OBVIOUS
<1> HIDE DEF c, a, b
<1>3. Timely(sink, d, a, b) => Timely(sink, c, a, b)
  <2> HAVE Timely(sink, d, a, b)
  <2>1. StageM1(sink, c, a, b) /\ StageM7(sink, c, a, b)
    BY <1>1 DEF Timely, StageM1, BeforeM1, StageM7
  <2>2. StageM2(sink, c, a, b)
    BY <1>1 DEF Timely, StageM2
  <2> QED
    BY <2>1, <2>2 DEF Timely
<1> QED
  BY <1>2, <1>3 DEF TimedInv

\* The source says nothing.
LEMMA StalledTimed ==
    ASSUME RtspInv, TimedInv, NEW d, Stalls(source, d), sink' = sink, source' = [d EXCEPT !.out = <<>>],
           toSink' = toSink \o d.out, toSource' = toSource
    PROVE  TimedInv'
<1>1. SourceRec(d) /\ d.out = <<>>
  BY DEF Stalls, RtspInv
<1>2. toSink \o d.out = toSink
  BY <1>1, QueueLength DEF RtspInv, Exchange
<1>3. Hopeful(sink) => Timely(sink, d, toSink, toSource)
  BY TimelyStalled DEF TimedInv
<1> QED
  BY <1>1, <1>2, <1>3, SourceTimed

\* It reads.
LEMMA SourceReadTimed ==
    ASSUME RtspInv, TimedInv, SourceReads
    PROVE  TimedInv'
<1>1. PICK n \in 1..MaxChunk : Source!OnServerReadData(n)
  BY DEF SourceReads
<1> DEFINE up == Source!Up
           r == SubSeq(toSource, n + 1, Len(toSource))
           d == Source!ReadData(source, SubSeq(toSource, 1, n), up)
<1>2. Queue(toSource) /\ Len(toSource) \in Nat
  <2>1. Queue(toSource)
    BY DEF RtspInv, Exchange
  <2> QED
    BY <2>1, QueueLength
<1>3. /\ n \in 1..Len(toSource) /\ (n = 1 \/ \A i \in 1..n : toSource[i].part = "whole")
      /\ source' = [d EXCEPT !.out = <<>>] /\ toSink' = toSink \o d.out /\ toSource' = r /\ sink' = sink
  <2>1. n \in 1..Len(toSource)
    BY <1>1, <1>2, RtspAssumption DEF Source!OnServerReadData, Source!Splittable
  <2> QED
    BY <1>1, <2>1 DEF Source!OnServerReadData, Source!Splittable, Source!Become, SourceReads
<1>4. d = Source!ReadData(source, SubSeq(toSource, 1, n), up) /\ r = SubSeq(toSource, n + 1, Len(toSource))
  OBVIOUS
<1>5. up \in BOOLEAN
  BY DEF Source!Up
<1> HIDE DEF r, d, up
<1>6. Exchange(sink, source, toSink, toSource) /\ source.out = <<>>
  BY DEF RtspInv
<1>7. SourceRec(d)
  <2>1. TimersOK(source)
    BY DEF RtspInv, SourceOK, TimersOK
  <2>2. Exchange(sink, d, toSink \o d.out, r)
    BY <1>3, <1>4, <1>5, <1>6, <2>1, OneReadOfSource
  <2> QED
    BY <2>2 DEF Exchange
<1>8. ASSUME Timely(sink, source, toSink, toSource)
      PROVE  Timely(sink, d, toSink \o d.out, r)
  <2>1. AtWork(sink, d, toSink, r)
    BY ONLY <1>3, <1>4, <1>5, <1>6, <1>8, TimelyServed
  <2> QED
    BY <2>1 DEF AtWork
<1> QED
  BY <1>3, <1>7, <1>8, SourceTimed DEF TimedInv

\* The calls of the agent, the server and the end of the connection: nothing is sent.
LEMMA SourceIdlesTimed ==
    ASSUME RtspInv, TimedInv, SourceStarts \/ SourceCloses \/ SourceProsumer \/ SourceStops
    PROVE  TimedInv'
<1> DEFINE Behind(d) == source' = [d EXCEPT !.out = <<>>] /\ toSink' = toSink \o d.out
<1>1. SourceRec(source) /\ source.cseq \in Nat
  BY DEF RtspInv, Exchange, Numbers
<1>2. ASSUME NEW s, NEW what, Stalls(source, s), what # "PLAYED"
      PROVE  Stalls(source, Source!NotifyAgent(s, what))
  <2>1. SourceRec(s)
    BY <1>2 DEF Stalls
  <2>2. Even(s, Source!NotifyAgent(s, what)) /\ Source!NotifyAgent(s, what).out = s.out
    BY ONLY <1>2, <2>1, SourceNotifies
  <2> QED
    BY <1>2, <2>2 DEF Stalls, Even, Rests
<1>3. sink' = sink /\ toSource' = toSource
  BY DEF SourceStarts, Source!StartServer, SourceCloses, Source!OnSessionClose, SourceProsumer,
         Source!ProsumerCreated, Source!ProsumerReports, SourceStops, Source!StopSession
<1>4. \E d : Behind(d) /\ Stalls(source, d)
  <2>1. CASE SourceStarts
    <3>1. PICK fail : LET s == [source EXCEPT !.socket = Source!TcpServerStart(fail)]
                      IN  \/ Behind([s EXCEPT !.server = "listening"])
                          \/ Behind(Source!NotifyAgent([s EXCEPT !.server = "failed"], "ERROR"))
      BY <2>1 DEF SourceStarts, Source!StartServer, Source!Become, Source!NotifyServiceError
    <3> DEFINE x == Source!TcpServerStart(fail)
               s == [source EXCEPT !.socket = x]
               l == [s EXCEPT !.server = "listening"]
               f == [s EXCEPT !.server = "failed"]
    <3>2. Behind(l) \/ Behind(Source!NotifyAgent(f, "ERROR"))
      BY <3>1
    <3> HIDE DEF x
    <3>3. Stalls(source, l) /\ Stalls(source, f)
      BY <1>1 DEF Stalls, SourceRec, SourceFields
    <3> HIDE DEF l, f, s
    <3>4. Stalls(source, Source!NotifyAgent(f, "ERROR"))
      BY <1>2, <3>3
    <3> QED
      BY <3>2, <3>3, <3>4
  <2>2. CASE SourceCloses
    <3> DEFINE s == [source EXCEPT !.closed = TRUE]
    <3>1. Behind(Source!NotifyAgent(s, "ERROR"))
      BY <2>2 DEF SourceCloses, Source!OnSessionClose, Source!Become, Source!NotifyServiceError
    <3>2. Stalls(source, s)
      BY <1>1 DEF Stalls, SourceRec, SourceFields
    <3> HIDE DEF s
    <3> QED
      BY <1>2, <3>1, <3>2
  <2>3. CASE SourceProsumer
    <3>1. PICK media, what : what # "PLAYED" /\ Behind(Source!NotifyAgent([source EXCEPT !.media = media], what))
      BY <2>3 DEF SourceProsumer, Source!ProsumerCreated, Source!ProsumerReports, Source!Become
    <3> DEFINE s == [source EXCEPT !.media = media]
    <3>2. Stalls(source, s) /\ Behind(Source!NotifyAgent(s, what)) /\ what # "PLAYED"
      BY <1>1, <3>1 DEF Stalls, SourceRec, SourceFields
    <3> HIDE DEF s
    <3> QED
      BY <1>2, <3>2
  <2>4. CASE SourceStops
    <3> DEFINE x == Source!TcpServerStop(source.socket)
               y == Source!SessionShutdown(source.peer)
               s == [source EXCEPT !.server = "stopped", !.timers = 0, !.timerId = FALSE, !.socket = x, !.peer = y]
    <3>1. Behind(Source!NotifyAgent(s, "STOPED"))
      BY <2>4 DEF SourceStops, Source!StopSession, Source!Become
    <3> HIDE DEF x, y
    <3>2. Stalls(source, s)
      BY <1>1 DEF Stalls, SourceRec, SourceFields
    <3> HIDE DEF s
    <3> QED
      BY <1>2, <3>1, <3>2
  <2> QED
    BY <2>1, <2>2, <2>3, <2>4
<1>5. PICK d : Behind(d) /\ Stalls(source, d)
  BY <1>4
<1> QED
  BY <1>3, <1>5, StalledTimed

\* M1 goes out, and nothing was said before.
LEMMA SourceAcceptTimed ==
    ASSUME RtspInv, TimedInv, SourceAccepts
    PROVE  TimedInv'
<1>1. PICK fail :
         LET s == [source EXCEPT !.accepted = TRUE, !.peer = Source!SessionStart(Source!AcceptSocket, fail)]
         IN  IF s.peer.heard
             THEN Source!Become(Source!SendM1Request(s, Source!Up)) /\ UNCHANGED link
             ELSE /\ Source!Become([s EXCEPT !.peer = Source!SessionShutdown(@), !.closed = TRUE])
                  /\ link' = "down"
  BY DEF SourceAccepts, Source!OnAccept
<1> DEFINE up == Source!Up
           x == Source!SessionStart(Source!AcceptSocket, fail)
           s == [source EXCEPT !.accepted = TRUE, !.peer = x]
           n == s.cseq + 1
           q == Source!M1Request(n)
           d == Source!SendRequest(s, q, "M1", up)
           y == Source!SessionShutdown(s.peer)
           e == [s EXCEPT !.peer = y, !.closed = TRUE]
           k == sink
           a == toSink
           b == toSource
<1>2. /\ sink' = sink /\ toSource' = toSource /\ source.wfd = "M0"
      /\ \/ source' = [d EXCEPT !.out = <<>>] /\ toSink' = toSink \o d.out
         \/ source' = [e EXCEPT !.out = <<>>] /\ toSink' = toSink \o e.out
  BY <1>1 DEF SourceAccepts, Source!OnAccept, Source!Become, Source!SendM1Request
<1>3. SourceRec(source) /\ source.cseq \in Nat /\ Queue(toSink) /\ source.out = <<>>
  BY DEF RtspInv, Exchange, Numbers
<1> HIDE DEF x, y
<1>4. Stalls(source, s) /\ Stalls(source, e)
  BY <1>3 DEF Stalls, SourceRec, SourceFields
<1>5. SourceRec(s) /\ s.cseq \in Nat /\ s.wfd = "M0" /\ s.out = <<>>
  BY <1>2, <1>3, <1>4 DEF Stalls
<1> HIDE DEF s, e
<1>6. n \in Nat
  BY <1>5
<1> HIDE DEF n
<1>7. Says(q, TRUE, "OPTIONS", "none", n)
  BY <1>6, SourceMessages
<1>8. up \in BOOLEAN
  BY DEF Source!Up
<1> HIDE DEF q, up
<1>9. Requested(s, d, q, "M1", up) /\ q.cseq = n
  BY <1>5, <1>7, <1>8, SourceRequests DEF Says
<1> HIDE DEF d
<1>10. CASE source' = [e EXCEPT !.out = <<>>] /\ toSink' = toSink \o e.out
  BY <1>2, <1>4, <1>10, StalledTimed
<1>11. CASE source' = [d EXCEPT !.out = <<>>] /\ toSink' = toSink \o d.out
  <2>1. CASE d.wfd = s.wfd /\ d.out = s.out
    <3>1. Stalls(source, d)
      BY <1>4, <1>5, <1>6, <1>9, <2>1 DEF Requested, Rests, Stalls
    <3> QED
      BY <1>2, <1>11, <3>1, StalledTimed
  <2>2. CASE SourceRec(d) /\ d.wfd = "M1" /\ d.out = Append(s.out, q)
    <3> DEFINE a2 == a \o d.out
               o == s.out
    <3>1. Queue(a) /\ Queue(o) /\ a \o o = a /\ IsMessage(q) /\ q.part \in Parts
      BY <1>3, <1>5, <1>7, QueueLength, EmptyQueue DEF Says, Parts
    <3>2. Appended(a, q, a2)
      <4>1. d.out = Append(o, q)
        BY <2>2
      <4> HIDE DEF o
      <4> QED
        BY <3>1, <4>1, SentBehind
    <3>3. ~StartsM4(q) /\ ~IsM5(q)
      BY <1>7 DEF Says, StartsM4, IsM4, IsM5
    <3>4. ASSUME Timely(k, source, a, b)
          PROVE  Timely(k, d, a2, b)
      <4>1. k.handlers = {} /\ b = <<>> /\ a = <<>>
        BY <1>2, <3>4 DEF Timely, StageM1, BeforeM1
      <4>2. Len(a) = 0
        BY <4>1, EmptyQueue
      <4>3. Len(a2) = 1
        BY <3>2, <4>2 DEF Appended
      <4> HIDE DEF a, a2, b, k
      <4>4. M4Once(k, a2)
        BY <3>2, <3>3, <3>4, M4OnceBehind DEF Timely
      <4>5. StageM1(k, d, a2, b)
        BY <2>2, <4>1, <4>3 DEF StageM1
      <4>6. StageM2(k, d, a2, b) /\ StageM7(k, d, a2, b)
        BY <4>1 DEF StageM2, StageM7, Awaits
      <4> QED
        BY <3>4, <4>4, <4>5, <4>6 DEF Timely
    <3> QED
      BY <1>2, <1>11, <2>2, <3>4, SourceTimed DEF TimedInv
  <2> QED
    BY <1>9, <2>1, <2>2 DEF Requested, Rests
<1> QED
  BY <1>2, <1>10, <1>11

\* M16, when the keep-alive timer fires: the source plays, and the exchange is over.
LEMMA SourceKeepAliveTimed ==
    ASSUME RtspInv, TimedInv, SourceKeepAlive
    PROVE  TimedInv'
<1> DEFINE up == Source!Up
           s == [source EXCEPT !.fired = @ + 1]
           t == [s EXCEPT !.cseq = @ + 1, !.counts = @ - 1]
           q == Source!M16Request(t.cseq, Source!sessionID)
           u == Source!Send(t, q, up)
           f == Source!NotifyAgent(s, "ERROR")
           d == Source!SendM16Request(s, up)
           k == sink
           c == source
           a == toSink
           b == toSource
<1>1. /\ sink' = sink /\ toSource' = toSource /\ source.timers > 0
      /\ source' = [d EXCEPT !.out = <<>>] /\ toSink' = toSink \o d.out
  BY DEF SourceKeepAlive, Source!OnSendKeepAlive, Source!Become
<1>2. d \in {f, s, u}
  BY DEF Source!SendM16Request, Source!NotifyServiceError
<1>3. SourceRec(source) /\ source.cseq \in Nat /\ Queue(toSink) /\ source.out = <<>>
  BY DEF RtspInv, Exchange, Numbers
<1>4. Stalls(source, s) /\ SourceRec(s) /\ s.cseq = source.cseq
  BY <1>3 DEF Stalls, SourceRec, SourceFields
<1> HIDE DEF s
<1>5. Stalls(source, t) /\ SourceRec(t) /\ t.cseq \in Nat
  <2>1. /\ SourceRec(t) /\ t.cseq = s.cseq + 1 /\ t.wfd = s.wfd /\ t.out = s.out /\ t.told = s.told
    BY <1>4 DEF SourceRec, SourceFields
  <2> HIDE DEF t
  <2> QED
    BY <1>3, <1>4, <2>1 DEF Stalls
<1> HIDE DEF t
<1>6. Stalls(source, f)
  <2>1. Even(s, f) /\ f.out = s.out
    BY <1>4, SourceNotifies
  <2> HIDE DEF f
  <2> QED
    BY <1>4, <2>1 DEF Stalls, Even, Rests
<1>7. Says(q, TRUE, "GET_PARAMETER", "none", t.cseq)
  BY <1>5, SourceMessages
<1>8. up \in BOOLEAN
  BY DEF Source!Up
<1> HIDE DEF q, up, f, d
<1>9. Even(t, u) /\ (u.out = Append(t.out, q) \/ u.out = t.out)
  BY <1>5, <1>8, SourceSends
<1> HIDE DEF u
<1>10. CASE Stalls(source, d)
  BY <1>1, <1>10, StalledTimed
<1>11. CASE d = u /\ u.out = Append(t.out, q)
  <2>1. SourceRec(d) /\ d.wfd = source.wfd /\ d.out = Append(<<>>, q)
    BY <1>3, <1>5, <1>9, <1>11 DEF Stalls, Even, Rests
  <2>2. "PLAYED" \in source.told /\ source.wfd \notin {"M0", "M3", "M4"} /\ ~HasOptions(toSink)
    BY <1>1 DEF RtspInv, SourceOK, Exchange, OneToken, SourceToken
  <2> DEFINE o == <<>>
             a2 == a \o d.out
  <2>3. Queue(a) /\ Queue(o) /\ a \o o = a /\ IsMessage(q) /\ q.part \in Parts
    BY <1>3, <1>7, QueueLength, EmptyQueue DEF Says, Parts
  <2>4. d.out = Append(o, q)
    BY <2>1
  <2> HIDE DEF o
  <2>5. Appended(a, q, a2)
    BY <2>3, <2>4, SentBehind
  <2>6. ~StartsM4(q) /\ ~IsM5(q) /\ ~IsOptions(q)
    BY <1>7 DEF Says, StartsM4, IsM4, IsM5, IsOptions
  <2>7. ASSUME Timely(k, c, a, b)
        PROVE  Timely(k, d, a2, b)
    <3>1. InTurn(c, a) /\ Later(k, d) /\ ~Awaits(k, "M2")
      BY <2>1, <2>2, <2>7 DEF InTurn, Later, Timely, StageM2
    <3> HIDE DEF a, a2, b, k, c
    <3>2. M4Once(k, a2)
      BY <2>5, <2>6, <2>7, M4OnceBehind DEF Timely
    <3> QED
      BY <2>5, <2>6, <2>7, <3>1, <3>2, TimelySays
  <2> QED
    BY <1>1, <2>1, <2>7, SourceTimed DEF TimedInv
<1>12. Stalls(source, u) \/ u.out = Append(t.out, q)
  BY <1>5, <1>9 DEF Stalls, Even, Rests
<1> QED
  BY <1>2, <1>4, <1>6, <1>10, <1>11, <1>12

\* A connection is made, or lost with what was on its way.
LEMMA LinkTimed ==
    ASSUME RtspInv, TimedInv, Connect \/ LoseLink
    PROVE  TimedInv'
<1>1. SinkRec(sink) /\ SourceRec(source) /\ source.cseq \in Nat /\ Queue(toSource)
  BY DEF RtspInv, Exchange, Numbers
<1>2. CASE Connect
  <2> DEFINE k == [sink EXCEPT !.starting = "selecting"]
             c == [source EXCEPT !.accepted = FALSE, !.closed = FALSE]
             a == toSink
             b == toSource
  <2>1. /\ sink' = k /\ (source' = source \/ source' = c) /\ toSink' = a /\ toSource' = b
        /\ sink.starting = "connecting"
    BY <1>2 DEF Connect
  <2>2. Slight(sink, k)
    BY <1>1, <2>1 DEF Slight, Ready, Hopeful, SinkRec, SinkFields
  <2>3. Stalls(source, c)
    BY <1>1 DEF Stalls, SourceRec, SourceFields
  <2> HIDE DEF k, c, a, b
  <2>4. ASSUME Hopeful(k)
        PROVE  Timely(k, source, a, b) /\ Timely(k, c, a, b)
    <3>1. Timely(sink, source, a, b)
      BY <2>2, <2>4 DEF Slight, TimedInv, a, b
    <3>2. Timely(k, source, a, b)
      BY <2>2, <3>1, TimelySlightly
    <3> QED
      BY <2>3, <3>2, TimelyStalled
  <2> QED
    BY <2>1, <2>4 DEF TimedInv
<1>3. CASE LoseLink
  <2>1. sink' = sink /\ source' = source /\ toSink' = <<>> /\ toSource' = <<>>
    BY <1>3 DEF LoseLink
  <2>2. Suffix(toSource, <<>>, Len(toSource))
    <3>1. Len(toSource) \in Nat
      BY <1>1, QueueLength
    <3> QED
      BY <3>1, EmptyQueue DEF Suffix
  <2>3. Timely(sink, source, toSink, toSource) => Timely(sink, source, <<>>, <<>>)
    BY <2>2, TimelyLost, TimelySourceLeft
  <2> QED
    BY <2>1, <2>3 DEF TimedInv
<1> QED
  BY <1>2, <1>3

\* What is cut is neither M1 nor the response to M2, which have no body; M4 and M5 count by their heads.
LEMMA CutTimed ==
    ASSUME RtspInv, TimedInv, CutToSink \/ CutToSource
    PROVE  TimedInv'
<1> DEFINE k == sink
           c == source
           a == toSink
           b == toSource
<1>1. Queue(a) /\ Queue(b) /\ Exchange(k, c, a, b)
  BY DEF RtspInv, Exchange
<1>2. sink' = sink /\ source' = source
  BY DEF CutToSink, CutToSource
<1>3. CASE CutToSink
  <2> DEFINE r == Fragment(a)
  <2>1. toSink' = r /\ Cut(a, r) /\ toSource' = b
    BY <1>1, <1>3, FragmentCuts DEF CutToSink
  <2> HIDE DEF r, a, b, k, c
  <2>2. ASSUME Timely(k, c, a, b) PROVE Timely(k, c, r, b)
    <3>1. \A j \in 1..Len(r) : /\ From(j) \in 1..Len(a) /\ Like(r[j], a[From(j)])
                               /\ r[j].part = "tail" \/ a[From(j)].part # "tail"
                               /\ j = 2 => r[j].part = "tail"
                               /\ \A i \in 1..Len(r) : i # 2 /\ j # 2 /\ From(i) = From(j) => i = j
      BY <1>1, <2>1, CutEffect
    <3>2. \A j \in 1..Len(r) : /\ StartsM4(r[j]) => StartsM4(a[From(j)]) /\ j # 2
                               /\ IsOptions(r[j]) => IsOptions(a[From(j)])
                               /\ IsM5(r[j]) => IsM5(a[From(j)])
      BY <3>1 DEF StartsM4, IsM4, IsOptions, IsM5, Like
    <3>3. (HasOptions(r) => HasOptions(a)) /\ (HasM5(r) => HasM5(a))
      BY <3>1, <3>2 DEF HasOptions, HasM5
    <3>4. Len(a) >= 1 /\ Len(a) \in Nat /\ a # <<>> /\ a[1].body # "none" /\ 1 \in 1..Len(a)
      BY <2>1, EmptyQueue DEF Cut
    <3>5. ~HasOptions(a) /\ c.wfd # "M0"
      <4> SUFFICES ASSUME HasOptions(a) PROVE FALSE
        BY <2>2, <3>4 DEF Timely, StageM1
      <4>1. Len(a) = 1
        BY <2>2 DEF Timely, StageM1
      <4>2. IsOptions(a[1])
        BY <4>1 DEF HasOptions
      <4> QED
        BY <1>1, <3>4, <4>2 DEF Exchange, Bodies, IsOptions
    <3>6. ~Awaits(k, "M2")
      BY <2>2, <3>4 DEF Timely, StageM2, AnswersM2
    <3>7. M4Once(k, r)
      <4>1. \A i, j \in 1..Len(r) : StartsM4(r[i]) /\ StartsM4(r[j]) => i = j
        <5>1. \A i, j \in 1..Len(r) : StartsM4(r[i]) /\ StartsM4(r[j]) => From(i) = From(j) /\ i # 2 /\ j # 2
          BY <2>2, <3>1, <3>2 DEF Timely, M4Once
        <5> QED
          BY <3>1, <5>1
      <4> QED
        BY <2>2, <3>1, <3>2, <4>1 DEF Timely, M4Once
    <3>8. StageM1(k, c, r, b) /\ StageM2(k, c, r, b)
      BY <3>3, <3>5, <3>6 DEF StageM1, BeforeM1, StageM2
    <3>9. StageM7(k, c, r, b)
      BY <2>2, <3>3 DEF Timely, StageM7
    <3> QED
      BY <2>2, <3>7, <3>8, <3>9 DEF Timely
  <2> QED
    BY <1>2, <2>1, <2>2 DEF TimedInv, k, c, a, b
<1>4. CASE CutToSource
  <2> DEFINE r == Fragment(b)
  <2>1. toSource' = r /\ Cut(b, r) /\ toSink' = a
    BY <1>1, <1>4, FragmentCuts DEF CutToSource
  <2> HIDE DEF r, a, b, k, c
  <2>2. ASSUME Timely(k, c, a, b) PROVE Timely(k, c, a, r)
    <3>1. \A j \in 1..Len(r) : From(j) \in 1..Len(b) /\ Like(r[j], b[From(j)])
      BY <1>1, <2>1, CutEffect
    <3>2. HasOptions(r) => HasOptions(b)
      BY <3>1 DEF HasOptions, IsOptions, Like
    <3>3. Len(b) >= 1 /\ Len(b) \in Nat /\ b # <<>> /\ b[1].body # "none" /\ 1 \in 1..Len(b)
      BY <2>1, EmptyQueue DEF Cut
    <3>4. ~Awaits(k, "M2")
      BY <2>2, <3>3 DEF Timely, StageM2, BeforeM2
    <3>5. StageM1(k, c, a, r)
      BY <2>2, <3>3 DEF Timely, StageM1
    <3>6. StageM2(k, c, a, r) /\ StageM7(k, c, a, r)
      BY <2>2, <3>2, <3>4 DEF Timely, StageM2, StageM7
    <3> QED
      BY <2>2, <3>5, <3>6 DEF Timely
  <2> QED
    BY <1>2, <2>1, <2>2 DEF TimedInv, k, c, a, b
<1> QED
  BY <1>3, <1>4

-----------------------------------------------------------------------------
(* Requests are timed                                                      *)

\* Nothing is awaited at first.
LEMMA InitTimed ==
    ASSUME Init
    PROVE  TimedInv
<1>1. /\ toSink = <<>> /\ toSource = <<>>
      /\ sink.last = NoMessage /\ sink.handlers = {} /\ sink.told = {} /\ sink.wfd = "INIT"
      /\ sink.firstCast /\ sink.firstCreate /\ sink.starting = "never" /\ sink.sending[1] = "none"
  BY DEF Init, Sink!InitSink, Sink!NoMessage, NoMessage
<1>2. 1..Len(<<>>) = {} /\ ~HasOptions(<<>>)
  BY DEF HasOptions
<1>3. \A what : ~Awaits(sink, what)
  BY <1>1 DEF Awaits
<1>4. Watched(sink) /\ Unstopped(sink) /\ Afterwards(sink)
  BY <1>1, <1>3 DEF Watched, Unstopped, Afterwards
<1>5. M4Once(sink, <<>>)
  BY <1>1, <1>2, NoMessageIs DEF M4Once, StartsM4, IsM4
<1>6. StageM1(sink, source, <<>>, <<>>)
  BY <1>1, <1>2 DEF StageM1
<1>7. StageM2(sink, source, <<>>, <<>>) /\ StageM7(sink, source, <<>>, <<>>)
  BY <1>3 DEF StageM2, StageM7
<1> QED
  BY <1>1, <1>4, <1>5, <1>6, <1>7 DEF Timely, TimedInv

\* Every step keeps them timed, but for a stop of the sink by its agent.
LEMMA StepTimed ==
    ASSUME RtspInv, TimedInv, [Next /\ ~SinkStops]_vars
    PROVE  TimedInv'
<1>1. CASE SinkReads
  BY <1>1, SinkReadTimed
<1>2. CASE SinkCloses \/ SinkExpires \/ SinkKeepAlive \/ SinkInterrupt
  BY <1>2, SinkEndsTimed
<1>3. CASE SinkPauses \/ SinkProsumer \/ SinkArms \/ SinkStarts \/ ConnectFails \/ SinkSelects
  BY <1>3, SinkIdlesTimed
<1>4. CASE SinkSends
  BY <1>4, M8Timed, IdrTimed DEF SinkSends
<1>5. CASE SinkIdr
  BY <1>5, SinkIdrTimed
<1>6. CASE SinkDestroys
  BY <1>6, SinkDestroysTimed
<1>7. CASE SourceReads
  BY <1>7, SourceReadTimed
<1>8. CASE SourceStarts \/ SourceCloses \/ SourceProsumer \/ SourceStops
  BY <1>8, SourceIdlesTimed
<1>9. CASE SourceAccepts
  BY <1>9, SourceAcceptTimed
<1>10. CASE SourceKeepAlive
  BY <1>10, SourceKeepAliveTimed
<1>11. CASE Connect \/ LoseLink
  BY <1>11, LinkTimed
<1>12. CASE CutToSink \/ CutToSource
  BY <1>12, CutTimed
<1>13. CASE UNCHANGED vars
  BY <1>13 DEF vars, TimedInv
<1> QED
  BY <1>1, <1>2, <1>3, <1>4, <1>5, <1>6, <1>7, <1>8, <1>9, <1>10, <1>11, <1>12, <1>13 DEF Next, Threads

\* A request of the exchange that waits for its response has the timer running, unless the agent was told of an error
\* or the start was interrupted, however messages are spliced, cut and lost, in every behaviour in which no agent stops
\* the sink session: the response to a TEARDOWN that went out before M1 was handled can hide the response to M2.
THEOREM RequestsAreTimed == Spec /\ [][~SinkStops]_vars => []AwaitedIsTimed
<1>1. Init => RtspInv /\ TimedInv
  BY InitInv, InitTimed
<1>2. RtspInv /\ TimedInv /\ [Next]_vars /\ [~SinkStops]_vars => (RtspInv /\ TimedInv)'
  <2> SUFFICES ASSUME RtspInv, TimedInv, [Next]_vars, [~SinkStops]_vars PROVE (RtspInv /\ TimedInv)'
    OBVIOUS
  <2>1. RtspInv'
    BY RtspStep
  <2>2. [Next /\ ~SinkStops]_vars
    OBVIOUS
  <2> QED
    BY <2>1, <2>2, StepTimed
<1>3. RtspInv /\ TimedInv => AwaitedIsTimed
  BY DEF TimedInv, Timely, Watched, Awaits, Hopeful, AwaitedIsTimed
<1> QED
  BY <1>1, <1>2, <1>3, PTL DEF Spec
=============================================================================
