--------------------------------- MODULE Agent ---------------------------------
(***************************************************************************)
(* The step machine of an agent, services/agent/agent.cpp with SinkAgent   *)
(* and SrcAgent, between the requests of a scene, its session and the      *)
(* media channel that holds the consumer or the producer.                  *)
(*                                                                         *)
(* Requests and answers are events handed out by the workers of the event  *)
(* manager: they arrive in any order.  CheckRunStep runs under             *)
(* runStepMutex_; the call of the session that follows does not, so it is  *)
(* a step of its own (agent.calls holds the calls under way).  What a      *)
(* session notifies is handled inside that call.  The session is what      *)
(* WfdSinkSession and WfdSourceSession let its agent see.                  *)
(***************************************************************************)
EXTENDS Naturals, Sequences, FiniteSets, Bags

CONSTANTS Kind,       \* "SINK" or "SRC": agentType_
          Requests,   \* requests of the scene: pairs <<type, requestId>>, each made at most once
          MaxTrouble, \* bound on errors that a session or prosumer reports
          MayOvertake \* a call of the session may overtake one that another worker is about to make

Types == {"START", "PAUSE", "RESUME", "APPENDSURFACE", "REMOVESURFACE", "PLAY", "PLAYSTOP", "DESTROY"}

ASSUME AgentAssumption == /\ Kind \in {"SINK", "SRC"}
                          /\ Requests \subseteq Types \X Nat
                          /\ MaxTrouble \in Nat
                          /\ MayOvertake \in BOOLEAN

VARIABLES agent,      \* the agent
          session,    \* its session
          prosumer,   \* the consumer or producer in the media channel
          toAgent,    \* bag of events <<outcome, what>> on their way to the agent
          toChannel,  \* bag of events on their way to the media channel
          made,       \* requests the scene has made
          trouble     \* errors so far (bounded by MaxTrouble)

vars == <<agent, session, prosumer, toAgent, toChannel, made, trouble>>

InitAgent == [step      |-> "CREATE",  \* runStep_
              status    |-> "DONE",    \* runningStatus_
              cached    |-> {},        \* keys of runEvents_
              calls     |-> <<>>,      \* calls <<operation, thread>> of UpdateOperation under way
              out       |-> EmptyBag,  \* events sent to the channel by the current action
              torndown  |-> FALSE]     \* the channel or the context was told to destroy the agent

InitSession == [phase        |-> "idle",   \* idle, connecting, failing, up, failed, stopped
                status       |-> "START",  \* status_
                interrupting |-> FALSE,    \* interrupting_
                created      |-> FALSE]    \* NOTIFY_PROSUMER_CREATE was sent

Init == /\ agent = InitAgent
        /\ session = InitSession
        /\ prosumer = "none"
        /\ toAgent = EmptyBag
        /\ toChannel = EmptyBag
        /\ made = {}
        /\ trouble = 0

-----------------------------------------------------------------------------
(* Steps and their order *)

Steps == <<"IDLE", "CREATE", "START", "PAUSE", "RESUME", "APPENDSURFACE", "REMOVESURFACE",
           "PLAY", "PLAYSTOP", "DESTROY">>
Rank(step) == CHOOSE i \in 1..10 : Steps[i] = step

\* An error of the prosumer counts as DESTROY; PAUSE, RESUME and the answers of the channel
\* are IDLE and are never held back.
GetRunStep(type) == CASE type \in Types \ {"PAUSE", "RESUME"} -> type
                      [] type = "PROSUMER_ERROR"              -> "DESTROY"
                      [] OTHER                                -> "IDLE"

GetRunStepWeight(step) == CASE step = "DESTROY" -> 3
                            [] step = "START"   -> 2
                            [] step \in {"APPENDSURFACE", "REMOVESURFACE", "PLAY", "PLAYSTOP"} -> 1
                            [] OTHER            -> 0

\* AgentRunStepKey::operator<, on keys <<type, requestId>>.
Before(k, l) ==
    \/ GetRunStepWeight(k[1]) > GetRunStepWeight(l[1])
    \/ GetRunStepWeight(k[1]) = GetRunStepWeight(l[1])
       /\ (Rank(k[1]) < Rank(l[1]) \/ (k[1] = l[1] /\ k[2] < l[2]))
FirstCached(a) == CHOOSE k \in a.cached : \A l \in a.cached \ {k} : Before(k, l)

SetRunningStatus(a, step, status) == [a EXCEPT !.step = step, !.status = status]
Cache(a, ev) == [a EXCEPT !.cached = @ \cup {ev}]

\* CheckRunStep, by status: the agent afterwards and whether the event is "run", "cached" or
\* "refused".
Run(a, step) == <<SetRunningStatus(a, step, "RUNNING"), "run">>

\* Nothing but START and DESTROY runs before START did.
CheckWhenDone(a, ev, step) ==
    IF a.step = "DESTROY" THEN <<a, "refused">>
    ELSE IF Rank(a.step) < Rank("START") /\ Rank(step) > Rank("START") /\ Rank(step) < Rank("DESTROY")
         THEN <<Cache(a, ev), "cached">>
         ELSE Run(a, step)

CheckWhenRunning(a, ev, step) ==
    IF step = a.step \/ a.step = "DESTROY" \/ ev \in a.cached THEN <<a, "refused">>
    ELSE <<Cache(IF step = "DESTROY" THEN SetRunningStatus(a, a.step, "INTERRUPT") ELSE a, ev), "cached">>

CheckWhenError(a, step) == IF step = "DESTROY" THEN Run(a, step) ELSE <<a, "refused">>

CheckRunStep(a, ev) ==
    LET step == GetRunStep(ev[1])
    IN  IF step = "IDLE" THEN <<a, "run">>
        ELSE CASE a.status = "DONE"      -> CheckWhenDone(a, ev, step)
               [] a.status = "RUNNING"   -> CheckWhenRunning(a, ev, step)
               [] a.status = "ERROR"     -> CheckWhenError(a, step)
               [] a.status = "INTERRUPT" -> <<a, "run">>

One(x) == SetToBag({x})
Call(a, op, thread) == [a EXCEPT !.calls = Append(@, <<op, thread>>)]
ToChannel(a, what) == [a EXCEPT !.out = @ (+) One(what)]

\* What HandleEvent does for a request once it may run; `thread' is the one that runs it.
Perform(a, ev, thread) ==
    CASE a.status = "INTERRUPT"                           -> Call(a, "INTERRUPT", thread)
      [] a.status # "INTERRUPT" /\ ev[1] = "DESTROY"      -> Call(a, "STOP", thread)
      [] a.status # "INTERRUPT" /\ ev[1] \in {"START", "PAUSE", "RESUME"} -> Call(a, ev[1], thread)
      [] OTHER                                            -> ToChannel(a, ev[1])

\* HandleEvent for a request of the scene.
HandleRequest(a, ev, thread) ==
    LET checked == CheckRunStep(a, ev)
    IN  IF checked[2] # "run" /\ checked[1].status # "INTERRUPT" THEN checked[1]
        ELSE Perform(checked[1], ev, thread)

PopNextStep(a, step, status, thread) ==
    LET b == SetRunningStatus(a, step, status)
        k == FirstCached(b)
    IN  IF step # a.step THEN a
        ELSE IF b.cached = {} THEN b
        ELSE HandleRequest([b EXCEPT !.cached = @ \ {k}], k, thread)

-----------------------------------------------------------------------------
(* What the session notifies: SinkAgent::OnSessionNotify and                 *)
(* SrcAgent::OnSessionNotify, with HandleSessionError.                       *)

\* Variant with a fault: the end of an interrupt is not handled.
DeafOnSessionNotify(a, what, thread) ==
    CASE what = "ERROR"                    -> PopNextStep(a, a.step, "ERROR", thread)
      [] what \in {"NOTHING", "INTERRUPTED"} -> a
      [] OTHER                             -> ToChannel(a, what)

OnSessionNotify(a, what, thread) ==
    CASE what = "INTERRUPTED" -> PopNextStep(a, a.step, "DONE", thread)
      [] what = "ERROR"       -> PopNextStep(a, a.step, "ERROR", thread)
      [] what = "NOTHING"     -> a
      [] OTHER                -> ToChannel(a, what)

\* `interrupting_ && status_ == SESSION_INTERRUPT' of the sink's session.
Interrupted(s) == s.interrupting /\ s.status = "INTERRUPT"

\* UpdateOperation: the session afterwards and what it notifies.  The source's session has
\* no case for SESSION_INTERRUPT; it passes the number on, which is that of
\* STATE_SESSION_RESUMED.
UpdateOperation(s, op) ==
    LET t == [s EXCEPT !.status = op]
        unlessInterrupting(what) == IF s.interrupting THEN "NOTHING" ELSE what
    IN  CASE op = "START"     -> <<[t EXCEPT !.phase = "connecting"], "NOTHING">>
          [] op = "STOP"      -> <<[t EXCEPT !.phase = IF @ = "connecting" \/ @ = "failing" THEN @ ELSE "stopped"],
                                   "P_STOP">>
          [] op = "DESTROY"   -> <<t, "P_DESTROY">>
          [] op = "PAUSE"     -> <<t, unlessInterrupting("P_PAUSE")>>
          [] op = "RESUME"    -> <<t, unlessInterrupting("P_RESUME")>>
          [] op = "INTERRUPT" -> IF Kind = "SRC" THEN <<t, "P_RESUME">>
                                 ELSE <<[t EXCEPT !.interrupting = TRUE],
                                        IF s.interrupting THEN "INTERRUPTED" ELSE "NOTHING">>

\* The events of the agent's own action go out to the channel.
BecomeAgent(a) == /\ agent' = [a EXCEPT !.out = EmptyBag]
                  /\ toChannel' = toChannel (+) a.out

-----------------------------------------------------------------------------
(* Actions: the scene and the session *)

Request(ev) ==
    /\ ev \in Requests \ made
    /\ made' = made \cup {ev}
    /\ BecomeAgent(HandleRequest(agent, ev, "worker"))
    /\ UNCHANGED <<session, prosumer, toAgent, trouble>>

\* A worker carries the i-th call of the session out.
RunCall(i) ==
    /\ i = 1 \/ MayOvertake
    /\ LET r == UpdateOperation(session, agent.calls[i][1])
       IN  /\ session' = r[1]
           /\ BecomeAgent(OnSessionNotify([agent EXCEPT !.calls = SubSeq(@, 1, i - 1) \o SubSeq(@, i + 1, Len(@))],
                                          r[2], agent.calls[i][2]))
    /\ UNCHANGED <<prosumer, toAgent, made, trouble>>

\* StartWfdSession of the sink connects, that of the source opens its port.
Connects ==
    /\ session.phase = "connecting"
    /\ session' = [session EXCEPT !.phase = "up"]
    /\ BecomeAgent(IF Interrupted(session) THEN OnSessionNotify(agent, "INTERRUPTED", "worker") ELSE agent)
    /\ UNCHANGED <<prosumer, toAgent, made, trouble>>

\* It does not connect.  A sink that finds itself interrupted between two tries notifies it
\* (and may so be stopped inside that call); one whose tries are used up does not.
ConnectFails ==
    /\ session.phase = "connecting"
    /\ trouble < MaxTrouble /\ trouble' = trouble + 1
    /\ session' = [session EXCEPT !.phase = "failing"]
    /\ \/ Interrupted(session) /\ BecomeAgent(OnSessionNotify(agent, "INTERRUPTED", "connect"))
       \/ BecomeAgent(agent)
    /\ UNCHANGED <<prosumer, toAgent, made>>

\* The end of UpdateOperation(SESSION_START) after StartWfdSession failed.
ReportsFailure ==
    /\ session.phase = "failing"
    /\ \A i \in DOMAIN agent.calls : agent.calls[i][2] # "connect"
    /\ session' = [session EXCEPT !.phase = "failed"]
    /\ BecomeAgent(OnSessionNotify(agent,
                       CASE Interrupted(session) -> "INTERRUPTED"
                         [] session.interrupting /\ session.status \notin {"INTERRUPT", "STOP", "DESTROY"} -> "NOTHING"
                         [] OTHER -> "ERROR", "worker"))
    /\ UNCHANGED <<prosumer, toAgent, made, trouble>>

\* M4 was exchanged.
AsksForProsumer ==
    /\ session.phase = "up" /\ ~session.created /\ ~session.interrupting
    /\ session' = [session EXCEPT !.created = TRUE]
    /\ BecomeAgent(OnSessionNotify(agent, "P_CREATE", "worker"))
    /\ UNCHANGED <<prosumer, toAgent, made, trouble>>

\* A timeout or a lost connection.
SessionFails ==
    /\ session.phase = "up" /\ ~session.interrupting
    /\ trouble < MaxTrouble /\ trouble' = trouble + 1
    /\ BecomeAgent(OnSessionNotify(agent, "ERROR", "worker"))
    /\ UNCHANGED <<session, prosumer, toAgent, made>>

\* The next message, timeout or lost connection answers the interrupt of a sink.
AnswersInterrupt ==
    /\ session.phase = "up" /\ Interrupted(session)
    /\ BecomeAgent(OnSessionNotify(agent, "INTERRUPTED", "worker"))
    /\ UNCHANGED <<session, prosumer, toAgent, made, trouble>>

-----------------------------------------------------------------------------
(* The media channel: media_channel.cpp, WfdRtpConsumer and WfdRtpProducer.  *)
(* A prosumer is created, ready (isInit_) and running (isRunning_).          *)

\* Each answer is <<the events sent to the agent, the prosumer afterwards, the trouble it is>>.
ChannelAnswers(what) ==
    LET none == prosumer = "none"
        silent == {<<EmptyBag, prosumer, 0>>}
        done(p) == {<<One(<<"done", what>>), p, 0>>}
        bad(outcome) == IF trouble < MaxTrouble THEN {<<One(<<outcome, what>>), prosumer, 1>>} ELSE {}
        failed == {<<One(<<"error", what>>), prosumer, 0>>}
    IN  CASE what = "P_CREATE"   -> done("created") \cup bad("error")
          [] what = "MEDIA_INIT" -> IF none THEN silent
                                    ELSE done(IF prosumer = "created" THEN "ready" ELSE prosumer)
                                         \cup (IF Kind = "SRC" THEN bad("failed") ELSE {})
          [] what = "P_START"    -> IF prosumer \in {"none", "created"} THEN failed
                                    ELSE done("running") \cup bad("error")
          [] what = "P_STOP"     -> done(IF prosumer = "running" THEN "ready" ELSE prosumer)
          [] what = "P_DESTROY"  -> IF prosumer = "running" THEN failed
                                    ELSE done(IF Kind = "SRC" THEN "none" ELSE prosumer)
          [] what \in {"P_PAUSE", "P_RESUME", "REMOVESURFACE"} -> IF none THEN silent ELSE done(prosumer)
          [] what = "APPENDSURFACE"        -> IF none THEN silent ELSE done(prosumer) \cup bad("failed")
          [] what \in {"PLAY", "PLAYSTOP"} -> done(prosumer) \cup bad("failed")

ChannelHandles(what) ==
    /\ BagIn(what, toChannel)
    /\ \E r \in ChannelAnswers(what) :
          /\ toAgent' = toAgent (+) r[1]
          /\ prosumer' = r[2]
          /\ trouble' = trouble + r[3]
    /\ toChannel' = toChannel (-) One(what)
    /\ UNCHANGED <<agent, session, made>>

-----------------------------------------------------------------------------
(* HandleEvent for what the channel reports.  An interrupted agent turns     *)
(* every event into SESSION_INTERRUPT.                                       *)

\* EVENT_AGENT_PROSUMER_ERROR: whatever ran before, the agent is now being destroyed.
HandleProsumerError(a, what) ==
    LET b == CheckRunStep(SetRunningStatus(a, a.step, "ERROR"), <<"PROSUMER_ERROR", 0>>)[1]
    IN  CASE what \in {"P_CREATE", "P_START"} -> Call(b, "STOP", "worker")
          [] what = "P_DESTROY"               -> [b EXCEPT !.torndown = TRUE]

\* PushNextStep.
PushNextStep(a, what) ==
    CASE what = "P_START"   -> PopNextStep(a, "START", "DONE", "worker")
      [] what = "P_STOP"    -> Call(a, "DESTROY", "worker")
      [] what = "P_DESTROY" -> [PopNextStep(a, "DESTROY", "DONE", "worker") EXCEPT !.torndown = TRUE]
      [] what \in {"APPENDSURFACE", "REMOVESURFACE", "PLAY", "PLAYSTOP"} -> PopNextStep(a, what, "DONE", "worker")
      [] OTHER              -> a

\* HandleProsumerState, and the answer to MEDIA_INIT: the session sees them first.
ToldSession(a, outcome, what) ==
    IF Interrupted(session) THEN OnSessionNotify(a, "INTERRUPTED", "worker")
    ELSE CASE what = "P_CREATE"                          -> OnSessionNotify(a, "MEDIA_INIT", "worker")
           [] what = "MEDIA_INIT" /\ outcome = "done"    -> OnSessionNotify(a, "P_START", "worker")
           [] what = "MEDIA_INIT" /\ outcome = "failed"  -> OnSessionNotify(a, "ERROR", "worker")
           [] OTHER                                      -> a

HandleChannelState(a, outcome, what) ==
    CASE what \in {"APPENDSURFACE", "REMOVESURFACE", "PLAY", "PLAYSTOP"} ->
            IF outcome = "done" THEN PushNextStep(a, what) ELSE SetRunningStatus(a, a.step, "ERROR")
      [] OTHER -> PushNextStep(ToldSession(a, outcome, what), what)

HandleEvent(ev) ==
    /\ BagIn(ev, toAgent)
    /\ toAgent' = toAgent (-) One(ev)
    /\ BecomeAgent(IF ev[1] = "error" THEN HandleProsumerError(agent, ev[2])
                   ELSE IF agent.status = "INTERRUPT" THEN Call(agent, "INTERRUPT", "worker")
                   ELSE HandleChannelState(agent, ev[1], ev[2]))
    /\ UNCHANGED <<session, prosumer, made, trouble>>

CallsRun == \E i \in DOMAIN agent.calls : RunCall(i)
ChannelRuns == \E what \in BagToSet(toChannel) : ChannelHandles(what)
AgentRuns == \E ev \in BagToSet(toAgent) : HandleEvent(ev)

Next == \/ \E ev \in Requests : Request(ev)
        \/ CallsRun \/ ChannelRuns \/ AgentRuns
        \/ Connects \/ ConnectFails \/ ReportsFailure
        \/ AsksForProsumer \/ SessionFails \/ AnswersInterrupt

\* Workers carry out what is queued.  The sink's session connects or gives up, and answers an
\* interrupt; nothing bounds how long a source waits for a sink.
Spec == Init /\ [][Next]_vars
             /\ WF_vars(CallsRun) /\ WF_vars(ChannelRuns) /\ WF_vars(AgentRuns)
             /\ WF_vars(Connects \/ ConnectFails) /\ WF_vars(ReportsFailure)
             /\ WF_vars(AnswersInterrupt)

-----------------------------------------------------------------------------
(* Properties *)

\* The step, the status and the cached requests of an agent, and the phases of its session
\* and prosumer.
TypeOK ==
    /\ agent.step \in {Steps[i] : i \in 1..10}
    /\ agent.status \in {"DONE", "RUNNING", "ERROR", "INTERRUPT"}
    /\ agent.cached \subseteq Requests
    /\ session.phase \in {"idle", "connecting", "failing", "up", "failed", "stopped"}
    /\ prosumer \in {"none", "created", "ready", "running"}

\* A DESTROY request leads to the destruction of the channel.
DestroyCompletes == (\E r \in made : r[1] = "DESTROY") ~> agent.torndown
=============================================================================
