-------------------------------- MODULE Contexts --------------------------------
(***************************************************************************)
(* Contexts and what they own: services/context (Context, ContextManager), *)
(* the table of media channels (ChannelManager) and the way from an agent  *)
(* that ends back to its context and its scene (Interaction).              *)
(*                                                                         *)
(* Every handler runs on a worker of the event manager, and several do at  *)
(* once: an event that takes a lock more than once has one step per locked *)
(* section, and `stage' says how far its worker is.  An agent is what      *)
(* module Agent lets its context see.  Identifiers are never used again    *)
(* (MakeIdentifier), so contexts and agents are numbered; a media channel  *)
(* has the number of the SINK agent it was created for.                    *)
(***************************************************************************)
EXTENDS Naturals, Sequences, FiniteSets, Bags

CONSTANTS MaxContext,   \* maxContext_
          MaxSinkAgent, \* maxSinkAgent_
          MaxSrcAgent,  \* maxSrcAgent_
          MaxFaults     \* bound on the sessions and prosumers that fail

ASSUME ContextsAssumption == /\ {MaxContext, MaxSinkAgent, MaxSrcAgent} \subseteq Nat \ {0}
                             /\ MaxFaults \in Nat

VARIABLES contexts,   \* contexts_ of the manager
          destroying, \* contexts whose destroying_ is set
          members,    \* agents_ of each context ever made
          agents,     \* every agent ever made
          channels,   \* mediaChannels_
          events,     \* bag of the events that workers hold or will take
          reply,      \* the answer to the synchronous create, or NoReply
          faults      \* faults so far (bounded by MaxFaults)

contextVars == <<contexts, destroying, members, agents, channels, events, reply, faults>>

InvalidId == 0
NoReply == [ctx |-> InvalidId, agent |-> InvalidId, come |-> FALSE]

InitContexts == /\ contexts = {} /\ destroying = {}
                /\ members = <<>> /\ agents = <<>>
                /\ channels = {}
                /\ events = EmptyBag
                /\ reply = NoReply
                /\ faults = 0

-----------------------------------------------------------------------------
(* Events *)

Event(op, ctx, agent) == [op |-> op, ctx |-> ctx, agent |-> agent, stage |-> "new"]
CreateEvent(kind, ctx, agent) == [op |-> "CREATE", ctx |-> ctx, agent |-> agent, stage |-> "new", kind |-> kind]

One(x) == SetToBag({x})
Send(new) == events' = events (+) new
Consume(ev, new) == events' = (events (-) One(ev)) (+) new
Advance(ev, stage) == Consume(ev, One([ev EXCEPT !.stage = stage]))
Ready(ev, op, stage) == BagIn(ev, events) /\ ev.op = op /\ ev.stage = stage

-----------------------------------------------------------------------------
(* Agents, as their context sees them                                        *)

Registered(a) == a \in DOMAIN agents /\ agents[a].ctx \in contexts /\ a \in members[agents[a].ctx]
OfKind(ctx, kind) == {a \in members[ctx] : agents[a].kind = kind}

\* Variant with a fault: SRC agents are not looked for.
BlindIsEmptySrcAgent(ctx, sink) == TRUE

IsEmptySrcAgent(ctx, sink) == \A a \in OfKind(ctx, "SRC") : agents[a].sink # sink

\* EVENT_AGENT_DESTROY as CheckRunStep takes it: an agent that is still starting is
\* interrupted, and neither session of a source ends an interrupt (module Agent).
Destroyed(agent) ==
    CASE agent.life \in {"started", "failed"} -> [agent EXCEPT !.life = "doomed"]
      [] agent.life = "starting"              -> [agent EXCEPT !.life = "interrupted"]
      [] OTHER                                -> agent
DestroyAll(as) == agents' = [a \in DOMAIN agents |-> IF a \in as THEN Destroyed(agents[a]) ELSE agents[a]]

AgentStarts(a) ==
    /\ Registered(a) /\ agents[a].life = "starting"
    /\ agents' = [agents EXCEPT ![a].life = "started"]
    /\ UNCHANGED <<contexts, destroying, members, channels, events, reply, faults>>

\* HandleSessionError: the step is over with AGENT_STATUS_ERROR, a DESTROY that interrupted
\* it runs now.  Only a protocol session reports an error that ends the connection.
SessionFails(a) ==
    /\ Registered(a) /\ agents[a].life \in {"starting", "started", "interrupted"}
    /\ agents[a].kind = "SRC"
    /\ faults < MaxFaults /\ faults' = faults + 1
    /\ agents' = [agents EXCEPT ![a].life = IF @ = "interrupted" THEN "doomed" ELSE "failed"]
    /\ Send(One(Event("MSG_ERROR", agents[a].ctx, a)))
    /\ UNCHANGED <<contexts, destroying, members, channels, reply>>

\* HandleProsumerError: the agent stops and destroys its session by itself.
ProsumerFails(a) ==
    /\ Registered(a) /\ agents[a].life \in {"starting", "started", "interrupted"}
    /\ faults < MaxFaults /\ faults' = faults + 1
    /\ agents' = [agents EXCEPT ![a].life = "doomed"]
    /\ UNCHANGED <<contexts, destroying, members, channels, events, reply>>

\* The end of an agent: a SINK takes its channel along, a SRC tells its context.
AgentEnds(a) ==
    /\ Registered(a) /\ agents[a].life = "doomed"
    /\ agents' = [agents EXCEPT ![a].life = "gone"]
    /\ Send(One(Event(IF agents[a].kind = "SINK" THEN "CHANNEL_DESTROY" ELSE "AGENT_GONE", agents[a].ctx, a)))
    /\ UNCHANGED <<contexts, destroying, members, channels, reply, faults>>

-----------------------------------------------------------------------------
(* ContextManager::HandleAgentCreate and Context::HandleCreateAgent          *)

AgentSize(kind) == Cardinality({a \in UNION {members[c] : c \in contexts} : agents[a].kind = kind})
CheckAgentSize(kind) == AgentSize(kind) < (IF kind = "SINK" THEN MaxSinkAgent ELSE MaxSrcAgent)

Answer(ev, ctx, agent) == /\ Consume(ev, EmptyBag)
                          /\ reply' = [ctx |-> ctx, agent |-> agent, come |-> TRUE]

\* The limits, then the context: the one named, or a new one (HandleContextCreate).
FindContext(ev) ==
    /\ Ready(ev, "CREATE", "new")
    /\ CASE ~CheckAgentSize(ev.kind) ->
              Answer(ev, ev.ctx, ev.agent) /\ UNCHANGED <<contexts, members>>
         [] CheckAgentSize(ev.kind) /\ ev.ctx \in contexts ->
              Advance(ev, "make") /\ UNCHANGED <<contexts, members, reply>>
         [] CheckAgentSize(ev.kind) /\ ev.ctx \notin contexts /\ Cardinality(contexts) >= MaxContext ->
              Answer(ev, InvalidId, ev.agent) /\ UNCHANGED <<contexts, members>>
         [] OTHER ->
              /\ contexts' = contexts \cup {Len(members) + 1}
              /\ members' = Append(members, {})
              /\ Consume(ev, One([ev EXCEPT !.ctx = Len(members) + 1, !.stage = "make"]))
              /\ UNCHANGED reply
    /\ UNCHANGED <<destroying, agents, channels, faults>>

NewAgent(kind, ctx, sink, channel) ==
    [kind |-> kind, ctx |-> ctx, sink |-> sink, channel |-> channel, destroy |-> FALSE, life |-> "starting"]

\* A SRC agent shares the channel of its SINK agent, and is refused once that is to be
\* destroyed.  A SINK agent comes with a channel of its own.
MayShare(ev) == ev.agent \in members[ev.ctx] /\ ~agents[ev.agent].destroy

MakeAgent(ev) ==
    /\ Ready(ev, "CREATE", "make")
    /\ LET a == Len(agents) + 1
       IN  CASE ev.ctx \notin contexts \ destroying ->
                  Answer(ev, ev.ctx, ev.agent) /\ UNCHANGED <<agents, channels>>
             [] ev.ctx \in contexts \ destroying /\ ev.kind = "SRC" /\ ~MayShare(ev) ->
                  Answer(ev, ev.ctx, InvalidId) /\ UNCHANGED <<agents, channels>>
             [] OTHER ->
                  /\ agents' = Append(agents, IF ev.kind = "SINK" THEN NewAgent("SINK", ev.ctx, InvalidId, a)
                                              ELSE NewAgent("SRC", ev.ctx, ev.agent, agents[ev.agent].channel))
                  /\ channels' = IF ev.kind = "SINK" THEN channels \cup {a} ELSE channels
                  /\ Consume(ev, One([ev EXCEPT !.agent = a, !.stage = "emplace"]))
                  /\ UNCHANGED reply
    /\ UNCHANGED <<contexts, destroying, members, faults>>

EmplaceAgent(ev) ==
    /\ Ready(ev, "CREATE", "emplace")
    /\ members' = [members EXCEPT ![ev.ctx] = @ \cup {ev.agent}]
    /\ Answer(ev, ev.ctx, ev.agent)
    /\ UNCHANGED <<contexts, destroying, agents, channels, faults>>

-----------------------------------------------------------------------------
(* Context::HandleAgentDestroy                                               *)

Known(ev) == ev.ctx \in contexts \ destroying /\ ev.agent \in members[ev.ctx]

HandleAgentDestroy(ev) ==
    /\ Ready(ev, "DESTROY", "new")
    /\ CASE ~Known(ev) ->
              Consume(ev, EmptyBag) /\ UNCHANGED agents
         [] Known(ev) /\ agents[ev.agent].kind = "SRC" ->
              Consume(ev, EmptyBag) /\ DestroyAll({ev.agent})
         [] OTHER ->
              /\ agents' = [agents EXCEPT ![ev.agent].destroy = TRUE]
              /\ Advance(ev, "check")
    /\ UNCHANGED <<contexts, destroying, members, channels, reply, faults>>

\* A SINK agent without SRC agents goes at once.
CheckSources(ev) ==
    /\ Ready(ev, "DESTROY", "check")
    /\ IF IsEmptySrcAgent(ev.ctx, ev.agent)
       THEN Consume(ev, EmptyBag) /\ DestroyAll({ev.agent})
       ELSE Advance(ev, "sources") /\ UNCHANGED agents
    /\ UNCHANGED <<contexts, destroying, members, channels, reply, faults>>

\* Otherwise every SRC agent of the context goes first.
DestroySources(ev) ==
    /\ Ready(ev, "DESTROY", "sources")
    /\ Consume(ev, EmptyBag)
    /\ DestroyAll(OfKind(ev.ctx, "SRC"))
    /\ UNCHANGED <<contexts, destroying, members, channels, reply, faults>>

-----------------------------------------------------------------------------
(* The end of an agent: HandleStateDestroyAgent, CheckNeedDestroySink        *)

RemoveAgent(ctx, a) == members' = [members EXCEPT ![ctx] = @ \ {a}]

RemoveSource(ev) ==
    /\ Ready(ev, "AGENT_GONE", "new")
    /\ IF Known(ev) THEN RemoveAgent(ev.ctx, ev.agent) /\ Advance(ev, "sink")
       ELSE Consume(ev, EmptyBag) /\ UNCHANGED members
    /\ UNCHANGED <<contexts, destroying, agents, channels, reply, faults>>

\* Variant with a fault: a SINK agent that waits is forgotten.
ForgetfulSinkToDestroy(ev) == {}

\* The last SRC agent takes along the SINK agent that waited for it.
SinkToDestroy(ev) ==
    LET sink == agents[ev.agent].sink
    IN  {s \in {sink} \cap members[ev.ctx] : agents[s].destroy /\ IsEmptySrcAgent(ev.ctx, s)}

CheckNeedDestroySink(ev) ==
    /\ Ready(ev, "AGENT_GONE", "sink")
    /\ DestroyAll(SinkToDestroy(ev))
    /\ Consume(ev, One(Event("AGENT_DESTROYED", ev.ctx, ev.agent)))
    /\ UNCHANGED <<contexts, destroying, members, channels, reply, faults>>

\* ChannelManager::HandleMediaChannelDestroy.
HandleMediaChannelDestroy(ev) ==
    /\ Ready(ev, "CHANNEL_DESTROY", "new")
    /\ channels' = channels \ {agents[ev.agent].channel}
    /\ Consume(ev, One(Event("CHANNEL_GONE", ev.ctx, ev.agent)))
    /\ UNCHANGED <<contexts, destroying, members, agents, reply, faults>>

\* ContextManager::HandleMediachannelDestroy: the context removes the agent, and is destroyed
\* when it has none left.
RemoveSink(ev) ==
    /\ Ready(ev, "CHANNEL_GONE", "new")
    /\ IF ev.ctx \in contexts
       THEN /\ IF Known(ev) THEN RemoveAgent(ev.ctx, ev.agent) ELSE UNCHANGED members
            /\ Consume(ev, One([ev EXCEPT !.stage = "empty"])
                           (+) (IF Known(ev) THEN One(Event("AGENT_DESTROYED", ev.ctx, ev.agent)) ELSE EmptyBag))
       ELSE Consume(ev, EmptyBag) /\ UNCHANGED members
    /\ UNCHANGED <<contexts, destroying, agents, channels, reply, faults>>

IsEmptyAgent(ev) ==
    /\ Ready(ev, "CHANNEL_GONE", "empty")
    /\ IF members[ev.ctx] = {} THEN Advance(ev, "release") ELSE Consume(ev, EmptyBag)
    /\ UNCHANGED <<contexts, destroying, members, agents, channels, reply, faults>>

\* Context::Release drops what the context still holds.
DestroyContext(ev) ==
    /\ Ready(ev, "CHANNEL_GONE", "release")
    /\ contexts' = contexts \ {ev.ctx}
    /\ destroying' = destroying \cup ({ev.ctx} \cap contexts)
    /\ members' = [members EXCEPT ![ev.ctx] = IF ev.ctx \in contexts THEN {} ELSE @]
    /\ Consume(ev, EmptyBag)
    /\ UNCHANGED <<agents, channels, reply, faults>>

-----------------------------------------------------------------------------
\* The handlers that do not reach the scene.
HandleContextEvent ==
    \E ev \in BagToSet(events) :
        \/ FindContext(ev) \/ MakeAgent(ev) \/ EmplaceAgent(ev)
        \/ HandleAgentDestroy(ev) \/ CheckSources(ev) \/ DestroySources(ev)
        \/ RemoveSource(ev) \/ CheckNeedDestroySink(ev)
        \/ HandleMediaChannelDestroy(ev) \/ RemoveSink(ev) \/ IsEmptyAgent(ev) \/ DestroyContext(ev)

AgentRuns == \E a \in DOMAIN agents : AgentEnds(a)
=============================================================================
