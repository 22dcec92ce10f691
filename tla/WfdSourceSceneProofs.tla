-------------------------- MODULE WfdSourceSceneProofs --------------------------
(***************************************************************************)
(* A client is told that its device went only when an agent of this        *)
(* connection ended, for any agents, links, calls and disturbances; and a  *)
(* media channel outlives the agents that share it, for any of them as     *)
(* long as callbacks, calls and answers do not overtake each other.        *)
(***************************************************************************)
EXTENDS WfdSourceScene, SequenceTheorems, TLAPS

AgentFields == {"kind", "ctx", "sink", "channel", "destroy", "life"}
IsAgent(x) == x = [f \in AgentFields |-> x[f]]
EventFields(op) == {"op", "ctx", "agent", "stage"} \cup (IF op = "CREATE" THEN {"kind"} ELSE {})
IsEvent(e) == e = [f \in EventFields(e.op) |-> e[f]]
Numbered(q) == \E S : q \in Seq(S)

\* An agent that is over does not come back, and what tells of its end is told of no other.
Over == {"failed", "doomed", "gone"}
Ends == {"MSG_ERROR", "AGENT_GONE", "AGENT_DESTROYED", "CHANNEL_DESTROY", "CHANNEL_GONE"}

AgentsOK ==
    /\ Numbered(agents) /\ Numbered(members)
    /\ \A a \in DOMAIN agents : IsAgent(agents[a])
    /\ \A c \in DOMAIN members : \A a \in members[c] : a \in DOMAIN agents /\ agents[a].ctx = c
    /\ contexts \subseteq DOMAIN members
EventOK(e) ==
    /\ IsEvent(e)
    /\ e.op \in Ends => e.agent \in DOMAIN agents /\ agents[e.agent].life \in Over
    /\ e.op = "CREATE" /\ e.stage = "emplace" => e.agent \in DOMAIN agents /\ agents[e.agent].ctx = e.ctx
EventsOK == \A e \in DOMAIN events : EventOK(e)
SceneFields == {"exists", "running", "dev", "contextId", "agentId"}
DevFields == {"mac", "state", "ctx", "agent"}
SceneOK == scene = [f \in SceneFields |-> scene[f]] /\ scene.dev = [f \in DevFields |-> scene.dev[f]]
EndInv == AgentsOK /\ EventsOK /\ SceneOK

-----------------------------------------------------------------------------
(* Bags and sequences                                                      *)

\* What is in a bag after events were added to it.
LEMMA SendEffect ==
    ASSUME NEW new, Send(new)
    PROVE  \A e : e \in DOMAIN events' <=> e \in DOMAIN events \/ e \in DOMAIN new
  BY DEF Send, (+)

\* After one event is taken and others are added.
LEMMA ConsumeEffect ==
    ASSUME NEW ev, NEW new, Consume(ev, new)
    PROVE  \A e : e \in DOMAIN events' => e \in DOMAIN events \/ e \in DOMAIN new
  BY DEF Consume, (+), (-)

\* A bag of one event.
LEMMA OneEffect == \A x, e : e \in DOMAIN One(x) <=> e = x
  BY DEF One, SetToBag

\* An empty bag.
LEMMA EmptyBagEffect == \A e : e \notin DOMAIN EmptyBag
  BY DEF EmptyBag, SetToBag

\* A worker takes an event that is there.
LEMMA ReadyEffect ==
    ASSUME NEW ev, NEW op, NEW stage, Ready(ev, op, stage)
    PROVE  ev \in DOMAIN events /\ ev.op = op /\ ev.stage = stage
  BY DEF Ready, BagIn, BagToSet

\* Sequences are numbered from 1.
LEMMA NumberedDomain ==
    ASSUME NEW q, Numbered(q)
    PROVE  Len(q) \in Nat /\ DOMAIN q = 1..Len(q)
<1>1. PICK S : q \in Seq(S)
  BY DEF Numbered
<1> QED
  BY <1>1, LenProperties

\* A new element gets the next number.
LEMMA AppendNumbered ==
    ASSUME NEW q, Numbered(q), NEW x
    PROVE  /\ Numbered(Append(q, x))
           /\ Len(Append(q, x)) = Len(q) + 1
           /\ DOMAIN Append(q, x) = DOMAIN q \cup {Len(q) + 1}
           /\ Append(q, x)[Len(q) + 1] = x
           /\ \A i \in DOMAIN q : Append(q, x)[i] = q[i] /\ i # Len(q) + 1
<1>1. PICK S : q \in Seq(S)
  BY DEF Numbered
<1> DEFINE T == S \cup {x}
<1>2. q \in Seq(T) /\ x \in T
  BY <1>1, SeqMonotonic, Zenon
<1>3. Append(q, x) \in Seq(T) /\ Len(q) \in Nat /\ DOMAIN q = 1..Len(q)
  BY <1>2, LenProperties
<1>4. Len(Append(q, x)) = Len(q) + 1 /\ DOMAIN Append(q, x) = 1..(Len(q) + 1)
  BY <1>2, <1>3, LenProperties
<1>5. \A i \in 1..(Len(q) + 1) : Append(q, x)[i] = IF i = Len(q) + 1 THEN x ELSE q[i]
  BY <1>2, <1>3
<1> QED
  BY <1>3, <1>4, <1>5 DEF Numbered

\* Elements that change keep their numbers.
LEMMA SameNumbered ==
    ASSUME NEW q, Numbered(q), NEW r, r = [i \in DOMAIN q |-> r[i]]
    PROVE  Numbered(r) /\ DOMAIN r = DOMAIN q /\ Len(r) = Len(q)
<1>1. Len(q) \in Nat /\ DOMAIN q = 1..Len(q)
  BY NumberedDomain
<1> DEFINE T == {r[i] : i \in DOMAIN q}
<1>2. r \in [1..Len(q) -> T]
  BY <1>1
<1>3. r \in Seq(T)
  BY <1>1, <1>2, SeqDef
<1>4. DOMAIN r = 1..Len(q) /\ DOMAIN r = 1..Len(r) /\ Len(r) \in Nat
  BY <1>1, <1>2, <1>3, LenProperties
<1>5. Numbered(r)
  BY <1>3 DEF Numbered
<1>6. \A m, n \in Nat : 1..m = 1..n => m = n
  <2> SUFFICES ASSUME NEW m \in Nat, NEW n \in Nat, 1..m = 1..n
               PROVE  m = n
    OBVIOUS
  <2>1. m >= 1 => m \in 1..n
    OBVIOUS
  <2>2. n >= 1 => n \in 1..m
    OBVIOUS
  <2> QED
    BY <2>1, <2>2
<1>7. Len(r) = Len(q)
  BY <1>1, <1>4, <1>6
<1> QED
  BY <1>1, <1>4, <1>5, <1>7

-----------------------------------------------------------------------------
(* What the steps do to agents                                             *)

\* x becomes y: what never changes of an agent, and that it is over for good.
Stays(x, y) == /\ IsAgent(y)
               /\ y.kind = x.kind /\ y.ctx = x.ctx /\ y.sink = x.sink /\ y.channel = x.channel
               /\ x.life \in Over => y.life \in Over
Grows == /\ Numbered(agents') /\ DOMAIN agents \subseteq DOMAIN agents'
         /\ \A a \in DOMAIN agents : Stays(agents[a], agents'[a])

\* An event that destroys agents changes their lives, and those of no others.
LEMMA DestroyAllEffect ==
    ASSUME AgentsOK, NEW as, DestroyAll(as)
    PROVE  /\ Grows /\ DOMAIN agents' = DOMAIN agents
           /\ \A a \in DOMAIN agents : /\ agents'[a].destroy = agents[a].destroy
                                       /\ a \notin as => agents'[a].life = agents[a].life
                                       /\ agents[a].life = "gone" <=> agents'[a].life = "gone"
<1>1. agents' = [a \in DOMAIN agents |-> IF a \in as THEN Destroyed(agents[a]) ELSE agents[a]]
  BY DEF DestroyAll
<1>2. \A a \in DOMAIN agents : agents'[a] = IF a \in as THEN Destroyed(agents[a]) ELSE agents[a]
  BY <1>1
<1>3. Numbered(agents') /\ DOMAIN agents' = DOMAIN agents
  <2>1. agents' = [a \in DOMAIN agents |-> agents'[a]]
    BY <1>1
  <2> QED
    BY <2>1, SameNumbered DEF AgentsOK
<1>4. ASSUME NEW a \in DOMAIN agents
      PROVE  /\ Stays(agents[a], agents'[a])
             /\ agents'[a].destroy = agents[a].destroy
             /\ a \notin as => agents'[a].life = agents[a].life
             /\ agents[a].life = "gone" <=> agents'[a].life = "gone"
  <2>1. agents[a] = [f \in AgentFields |-> agents[a][f]]
    BY DEF AgentsOK, IsAgent
  <2>2. \/ agents'[a] = agents[a]
        \/ agents'[a] = [agents[a] EXCEPT !.life = "doomed"] /\ agents[a].life \in {"started", "failed"} /\ a \in as
        \/ agents'[a] = [agents[a] EXCEPT !.life = "interrupted"] /\ agents[a].life = "starting" /\ a \in as
    BY <1>2 DEF Destroyed
  <2> QED
    BY <2>1, <2>2 DEF Stays, IsAgent, AgentFields, Over
<1> QED
  BY <1>3, <1>4 DEF Grows

\* One agent gets another life.
LEMMA LifeEffect ==
    ASSUME AgentsOK, NEW a \in DOMAIN agents, NEW x, agents' = [agents EXCEPT ![a].life = x],
           x \in Over \/ agents[a].life \notin Over
    PROVE  /\ Grows /\ DOMAIN agents' = DOMAIN agents
           /\ agents'[a].life = x /\ agents'[a].destroy = agents[a].destroy
           /\ \A b \in DOMAIN agents : b # a => agents'[b] = agents[b]
<1>1. \A b \in DOMAIN agents : b # a => agents'[b] = agents[b]
  OBVIOUS
<1>2. Numbered(agents') /\ DOMAIN agents' = DOMAIN agents
  <2>1. agents' = [b \in DOMAIN agents |-> agents'[b]]
    OBVIOUS
  <2> QED
    BY <2>1, SameNumbered DEF AgentsOK
<1>3. agents[a] = [f \in AgentFields |-> agents[a][f]] /\ agents'[a] = [agents[a] EXCEPT !.life = x]
  BY DEF AgentsOK, IsAgent
<1>4. Stays(agents[a], agents'[a]) /\ agents'[a].life = x /\ agents'[a].destroy = agents[a].destroy
  BY <1>3 DEF Stays, IsAgent, AgentFields
<1>5. \A b \in DOMAIN agents : b # a => Stays(agents[b], agents'[b])
  BY <1>1 DEF Stays, AgentsOK
<1> QED
  BY <1>1, <1>2, <1>4, <1>5 DEF Grows

\* A SINK agent is marked to be destroyed.
LEMMA MarkEffect ==
    ASSUME AgentsOK, NEW a \in DOMAIN agents, agents' = [agents EXCEPT ![a].destroy = TRUE]
    PROVE  /\ Grows /\ DOMAIN agents' = DOMAIN agents
           /\ agents'[a].life = agents[a].life /\ agents'[a].destroy
           /\ \A b \in DOMAIN agents : b # a => agents'[b] = agents[b]
<1>1. \A b \in DOMAIN agents : b # a => agents'[b] = agents[b]
  OBVIOUS
<1>2. Numbered(agents') /\ DOMAIN agents' = DOMAIN agents
  <2>1. agents' = [b \in DOMAIN agents |-> agents'[b]]
    OBVIOUS
  <2> QED
    BY <2>1, SameNumbered DEF AgentsOK
<1>3. agents[a] = [f \in AgentFields |-> agents[a][f]] /\ agents'[a] = [agents[a] EXCEPT !.destroy = TRUE]
  BY DEF AgentsOK, IsAgent
<1>4. Stays(agents[a], agents'[a]) /\ agents'[a].life = agents[a].life /\ agents'[a].destroy
  BY <1>3 DEF Stays, IsAgent, AgentFields
<1>5. \A b \in DOMAIN agents : b # a => Stays(agents[b], agents'[b])
  BY <1>1 DEF Stays, AgentsOK
<1> QED
  BY <1>1, <1>2, <1>4, <1>5 DEF Grows

\* A new agent gets the next number.
LEMMA NewEffect ==
    ASSUME AgentsOK, NEW kind, NEW ctx, NEW sink, NEW channel, agents' = Append(agents, NewAgent(kind, ctx, sink, channel))
    PROVE  /\ Grows /\ DOMAIN agents' = DOMAIN agents \cup {Len(agents) + 1}
           /\ Len(agents) + 1 \notin DOMAIN agents /\ Len(agents') = Len(agents) + 1
           /\ agents'[Len(agents) + 1] = NewAgent(kind, ctx, sink, channel)
           /\ \A b \in DOMAIN agents : agents'[b] = agents[b]
<1>1. /\ Numbered(agents') /\ DOMAIN agents' = DOMAIN agents \cup {Len(agents) + 1} /\ Len(agents') = Len(agents) + 1
      /\ agents'[Len(agents) + 1] = NewAgent(kind, ctx, sink, channel)
      /\ \A b \in DOMAIN agents : agents'[b] = agents[b] /\ b # Len(agents) + 1
  BY AppendNumbered DEF AgentsOK
<1>2. \A b \in DOMAIN agents : Stays(agents[b], agents'[b])
  BY <1>1 DEF Stays, AgentsOK
<1> QED
  BY <1>1, <1>2 DEF Grows

\* Agents that stay as they are grow, too.
LEMMA SameGrows == AgentsOK /\ agents' = agents => Grows
  BY DEF AgentsOK, Grows, Stays

\* While agents only grow, contexts and events go on to say what is true of them.
LEMMA AgentsKeep ==
    ASSUME AgentsOK, Grows, \A a \in DOMAIN agents' : a \in DOMAIN agents \/ IsAgent(agents'[a]),
           Numbered(members'), contexts' \subseteq DOMAIN members',
           \A c \in DOMAIN members' : \A a \in members'[c] :
               \/ c \in DOMAIN members /\ a \in members[c]
               \/ a \in DOMAIN agents /\ agents[a].ctx = c
    PROVE  AgentsOK'
  BY DEF AgentsOK, Grows, Stays

\* Events that a step leaves, and those it adds, say what is true.
LEMMA EventsKeep ==
    ASSUME EventsOK, Grows, \A e \in DOMAIN events' : e \in DOMAIN events \/ EventOK(e)'
    PROVE  EventsOK'
<1> SUFFICES ASSUME NEW e \in DOMAIN events'
             PROVE  EventOK(e)'
  BY DEF EventsOK
<1>1. CASE e \in DOMAIN events
  BY <1>1 DEF EventsOK, EventOK, Grows, Stays
<1> QED
  BY <1>1

-----------------------------------------------------------------------------
(* Contexts keep EndInv                                                    *)

\* An event that a handler takes one step further.
LEMMA AdvanceEffect ==
    ASSUME EventsOK, NEW ev \in DOMAIN events, NEW stage, Advance(ev, stage)
    PROVE  \A e \in DOMAIN events' :
              \/ e \in DOMAIN events
              \/ /\ IsEvent(e) /\ e.op = ev.op /\ e.ctx = ev.ctx /\ e.agent = ev.agent /\ e.stage = stage
                 /\ e.op = "CREATE" => e.kind = ev.kind
<1>1. IsEvent(ev)
  BY DEF EventsOK, EventOK
<1> DEFINE f == [ev EXCEPT !.stage = stage]
<1>2. /\ IsEvent(f) /\ f.op = ev.op /\ f.ctx = ev.ctx /\ f.agent = ev.agent /\ f.stage = stage
      /\ f.op = "CREATE" => f.kind = ev.kind
  BY <1>1 DEF IsEvent, EventFields
<1>3. \A e \in DOMAIN events' : e \in DOMAIN events \/ e = f
  BY ConsumeEffect, OneEffect DEF Advance
<1> QED
  BY <1>2, <1>3

\* A step that leaves agents, contexts and members as they are, and creates nothing.
LEMMA NothingNew ==
    ASSUME AgentsOK, EventsOK, UNCHANGED <<contexts, members, agents>>,
           \A e \in DOMAIN events' : e \in DOMAIN events \/ (IsEvent(e) /\ e.op \in {"DESTROY", "CREATE"} /\ e.stage # "emplace")
    PROVE  AgentsOK' /\ EventsOK' /\ Grows
<1>1. AgentsOK' /\ Grows
  BY SameGrows DEF AgentsOK
<1>2. \A e \in DOMAIN events' : e \in DOMAIN events \/ EventOK(e)'
  BY DEF EventOK, Ends
<1> QED
  BY <1>1, <1>2, EventsKeep

\* HandleContextCreate numbers a new context; a known one is taken as it is.
LEMMA FindContextStep ==
    ASSUME AgentsOK, EventsOK, NEW ev, FindContext(ev)
    PROVE  AgentsOK' /\ EventsOK' /\ Grows
<1>1. ev \in DOMAIN events /\ ev.op = "CREATE" /\ IsEvent(ev)
  BY ReadyEffect DEF FindContext, EventsOK, EventOK
<1>2. agents' = agents /\ Grows
  BY SameGrows DEF FindContext
<1>3. CASE contexts' = contexts /\ members' = members
  <2>1. \A e \in DOMAIN events' : e \in DOMAIN events \/ (IsEvent(e) /\ e.op = "CREATE" /\ e.stage = "make")
    <3>1. CASE \E x, y : Answer(ev, x, y)
      BY <3>1, ConsumeEffect, EmptyBagEffect DEF Answer
    <3>2. CASE Advance(ev, "make")
      BY <3>2, <1>1, AdvanceEffect
    <3>3. CASE Consume(ev, One([ev EXCEPT !.ctx = Len(members) + 1, !.stage = "make"]))
      <4> DEFINE f == [ev EXCEPT !.ctx = Len(members) + 1, !.stage = "make"]
      <4>1. IsEvent(f) /\ f.op = "CREATE" /\ f.stage = "make"
        <5>1. f = [ev EXCEPT !.ctx = Len(members) + 1, !.stage = "make"]
          OBVIOUS
        <5> HIDE DEF f
        <5> QED
          BY <1>1, <5>1 DEF IsEvent, EventFields
      <4>2. \A e \in DOMAIN events' : e \in DOMAIN events \/ e = f
        BY <3>3, ConsumeEffect, OneEffect
      <4> QED
        BY <4>1, <4>2
    <3> QED
      BY <3>1, <3>2, <3>3 DEF FindContext
  <2> QED
    BY <1>2, <1>3, <2>1, NothingNew
<1>4. CASE /\ contexts' = contexts \cup {Len(members) + 1} /\ members' = Append(members, {})
           /\ Consume(ev, One([ev EXCEPT !.ctx = Len(members) + 1, !.stage = "make"]))
  <2> DEFINE f == [ev EXCEPT !.ctx = Len(members) + 1, !.stage = "make"]
  <2>1. IsEvent(f) /\ f.op = "CREATE" /\ f.stage = "make"
    <3>1. f = [ev EXCEPT !.ctx = Len(members) + 1, !.stage = "make"]
      OBVIOUS
    <3> HIDE DEF f
    <3> QED
      BY <1>1, <3>1 DEF IsEvent, EventFields
  <2>2. \A e \in DOMAIN events' : e \in DOMAIN events \/ e = f
    BY <1>4, ConsumeEffect, OneEffect
  <2> HIDE DEF f
  <2>3. /\ Numbered(members') /\ DOMAIN members' = DOMAIN members \cup {Len(members) + 1}
        /\ members'[Len(members) + 1] = {}
        /\ \A c \in DOMAIN members : members'[c] = members[c]
    BY <1>4, AppendNumbered DEF AgentsOK
  <2>4. AgentsOK'
    BY <1>2, <1>4, <2>3 DEF AgentsOK
  <2>5. \A e \in DOMAIN events' : e \in DOMAIN events \/ EventOK(e)'
    BY <2>1, <2>2 DEF EventOK, Ends
  <2> QED
    BY <1>2, <2>4, <2>5, EventsKeep
<1> QED
  BY <1>3, <1>4 DEF FindContext

\* A new agent is in no context yet.
LEMMA MakeAgentStep ==
    ASSUME AgentsOK, EventsOK, NEW ev, MakeAgent(ev)
    PROVE  AgentsOK' /\ EventsOK' /\ Grows
<1>1. ev \in DOMAIN events /\ ev.op = "CREATE" /\ IsEvent(ev)
  BY ReadyEffect DEF MakeAgent, EventsOK, EventOK
<1>2. UNCHANGED <<contexts, members>>
  BY DEF MakeAgent
<1>3. CASE agents' = agents /\ \E x, y : Answer(ev, x, y)
  <2>1. \A e \in DOMAIN events' : e \in DOMAIN events
    BY <1>3, ConsumeEffect, EmptyBagEffect DEF Answer
  <2> QED
    BY <1>2, <1>3, <2>1, NothingNew
<1>4. CASE \E kind, sink, channel :
              /\ agents' = Append(agents, NewAgent(kind, ev.ctx, sink, channel))
              /\ Consume(ev, One([ev EXCEPT !.agent = Len(agents) + 1, !.stage = "emplace"]))
  <2>1. PICK kind, sink, channel :
              /\ agents' = Append(agents, NewAgent(kind, ev.ctx, sink, channel))
              /\ Consume(ev, One([ev EXCEPT !.agent = Len(agents) + 1, !.stage = "emplace"]))
    BY <1>4
  <2> DEFINE n == NewAgent(kind, ev.ctx, sink, channel)
             f == [ev EXCEPT !.agent = Len(agents) + 1, !.stage = "emplace"]
  <2>2. /\ Grows /\ DOMAIN agents' = DOMAIN agents \cup {Len(agents) + 1}
        /\ agents'[Len(agents) + 1] = n
        /\ \A b \in DOMAIN agents : agents'[b] = agents[b]
    BY <2>1, NewEffect
  <2>3. IsAgent(n) /\ n.ctx = ev.ctx
    BY DEF NewAgent, IsAgent, AgentFields
  <2>4. AgentsOK'
    BY <1>2, <2>2, <2>3, AgentsKeep DEF AgentsOK
  <2>5. IsEvent(f) /\ f.op = "CREATE" /\ f.stage = "emplace" /\ f.agent = Len(agents) + 1 /\ f.ctx = ev.ctx
    <3>1. f = [ev EXCEPT !.agent = Len(agents) + 1, !.stage = "emplace"]
      OBVIOUS
    <3> HIDE DEF f
    <3> QED
      BY <1>1, <3>1 DEF IsEvent, EventFields
  <2>6. \A e \in DOMAIN events' : e \in DOMAIN events \/ e = f
    BY <2>1, ConsumeEffect, OneEffect
  <2> HIDE DEF f, n
  <2>7. \A e : e = f => EventOK(e)'
    BY <2>2, <2>3, <2>5 DEF EventOK, Ends
  <2> QED
    BY <2>2, <2>4, <2>6, <2>7, EventsKeep
<1> QED
  BY <1>3, <1>4 DEF MakeAgent

\* The agent gets into the context it was made for.
LEMMA EmplaceAgentStep ==
    ASSUME AgentsOK, EventsOK, NEW ev, EmplaceAgent(ev)
    PROVE  AgentsOK' /\ EventsOK' /\ Grows
<1>1. ev \in DOMAIN events /\ ev.agent \in DOMAIN agents /\ agents[ev.agent].ctx = ev.ctx
  BY ReadyEffect DEF EmplaceAgent, EventsOK, EventOK
<1>2. /\ members' = [members EXCEPT ![ev.ctx] = @ \cup {ev.agent}]
      /\ UNCHANGED <<contexts, agents>> /\ Grows
      /\ \A e \in DOMAIN events' : e \in DOMAIN events
  BY SameGrows, ConsumeEffect, EmptyBagEffect DEF EmplaceAgent, Answer
<1>3. Numbered(members') /\ DOMAIN members' = DOMAIN members
  <2>1. members' = [c \in DOMAIN members |-> members'[c]]
    BY <1>2
  <2> QED
    BY <2>1, SameNumbered DEF AgentsOK
<1>4. \A c \in DOMAIN members : \A a \in members'[c] : a \in members[c] \/ (a = ev.agent /\ c = ev.ctx)
  BY <1>2
<1>5. AgentsOK'
  BY <1>1, <1>2, <1>3, <1>4 DEF AgentsOK
<1> QED
  BY <1>2, <1>5, EventsKeep

\* HandleAgentDestroy, the sections of one handler.
LEMMA DestroyStep ==
    ASSUME AgentsOK, EventsOK, NEW ev, HandleAgentDestroy(ev) \/ CheckSources(ev) \/ DestroySources(ev)
    PROVE  AgentsOK' /\ EventsOK' /\ Grows
<1>1. /\ ev \in DOMAIN events /\ ev.op = "DESTROY"
      /\ UNCHANGED <<contexts, members>>
  BY ReadyEffect DEF HandleAgentDestroy, CheckSources, DestroySources
<1>2. /\ \/ agents' = agents
         \/ \E as : DestroyAll(as)
         \/ ev.agent \in DOMAIN agents /\ agents' = [agents EXCEPT ![ev.agent].destroy = TRUE]
      /\ Consume(ev, EmptyBag) \/ \E stage : stage \in {"check", "sources"} /\ Advance(ev, stage)
  <2>1. Known(ev) => ev.agent \in DOMAIN agents
    BY DEF Known, AgentsOK
  <2> QED
    BY <2>1 DEF HandleAgentDestroy, CheckSources, DestroySources
<1>3. Grows /\ DOMAIN agents' = DOMAIN agents
  BY <1>2, SameGrows, DestroyAllEffect, MarkEffect
<1>4. AgentsOK'
  BY <1>1, <1>3, AgentsKeep DEF AgentsOK
<1>5. \A e \in DOMAIN events' : e \in DOMAIN events \/ (IsEvent(e) /\ e.op = "DESTROY")
  <2>1. CASE Consume(ev, EmptyBag)
    BY <2>1, ConsumeEffect, EmptyBagEffect
  <2>2. CASE \E stage : Advance(ev, stage)
    BY <2>2, <1>1, AdvanceEffect
  <2> QED
    BY <1>2, <2>1, <2>2
<1>6. \A e \in DOMAIN events' : e \in DOMAIN events \/ EventOK(e)'
  BY <1>5 DEF EventOK, Ends
<1> QED
  BY <1>3, <1>4, <1>6, EventsKeep

\* Contexts lose what they own, and what is told of an agent is told on.
Shrinks == contexts' \subseteq contexts /\ DOMAIN members' = DOMAIN members /\ \A c \in DOMAIN members : members'[c] \subseteq members[c]
Tells(ev) == \A e \in DOMAIN events' :
                \/ e \in DOMAIN events
                \/ /\ e.op \in {"AGENT_DESTROYED", "CHANNEL_GONE"} \/ (e.op = "AGENT_GONE" /\ ev.op = "AGENT_GONE")
                   /\ e.agent = ev.agent /\ e.ctx = ev.ctx

\* A SRC agent that ended leaves its context.
LEMMA RemoveSourceStep ==
    ASSUME AgentsOK, EventsOK, NEW ev, RemoveSource(ev)
    PROVE  AgentsOK' /\ EventsOK' /\ Grows /\ Shrinks /\ Tells(ev)
<1>1. ev \in DOMAIN events /\ ev.op = "AGENT_GONE" /\ ev.op \in Ends
  BY ReadyEffect DEF RemoveSource, Ends
<1>2. Grows /\ UNCHANGED <<contexts, agents>>
  BY SameGrows DEF RemoveSource
<1>3. Numbered(members') /\ DOMAIN members' = DOMAIN members /\ \A c \in DOMAIN members : members'[c] \subseteq members[c]
  <2>1. CASE members' = members
    BY <2>1 DEF AgentsOK
  <2>2. CASE RemoveAgent(ev.ctx, ev.agent)
    <3>1. members' = [c \in DOMAIN members |-> members'[c]]
      BY <2>2 DEF RemoveAgent
    <3>2. \A c \in DOMAIN members : members'[c] \subseteq members[c]
      BY <2>2 DEF RemoveAgent
    <3> QED
      BY <3>1, <3>2, SameNumbered DEF AgentsOK
  <2> QED
    BY <2>1, <2>2 DEF RemoveSource
<1>4. AgentsOK'
  BY <1>2, <1>3 DEF AgentsOK
<1>5. \A e \in DOMAIN events' : \/ e \in DOMAIN events
                                \/ IsEvent(e) /\ e.op = ev.op /\ e.agent = ev.agent /\ e.ctx = ev.ctx
  BY <1>1, AdvanceEffect, ConsumeEffect, EmptyBagEffect DEF RemoveSource
<1>6. \A e \in DOMAIN events' : e \in DOMAIN events \/ EventOK(e)'
  <2>1. EventOK(ev)
    BY <1>1 DEF EventsOK
  <2> QED
    BY <1>1, <1>2, <1>5, <2>1 DEF EventOK, Ends
<1>7. Shrinks /\ Tells(ev)
  BY <1>1, <1>2, <1>3, <1>5 DEF Shrinks, Tells
<1> QED
  BY <1>2, <1>4, <1>6, <1>7, EventsKeep

\* An event that tells of an agent, and of nothing else.
LEMMA EventEffect == \A op, ctx, agent : op # "CREATE" => LET e == Event(op, ctx, agent) IN
                        IsEvent(e) /\ e.op = op /\ e.ctx = ctx /\ e.agent = agent /\ e.stage = "new"
  BY DEF Event, IsEvent, EventFields

\* The SINK agent that waited for its last SRC agent goes, and the scene hears of the SRC agent.
LEMMA CheckNeedDestroySinkStep ==
    ASSUME AgentsOK, EventsOK, NEW ev, CheckNeedDestroySink(ev)
    PROVE  AgentsOK' /\ EventsOK' /\ Grows
<1>1. ev \in DOMAIN events /\ ev.op = "AGENT_GONE" /\ ev.op \in Ends
  BY ReadyEffect DEF CheckNeedDestroySink, Ends
<1>2. Grows /\ DOMAIN agents' = DOMAIN agents /\ UNCHANGED <<contexts, members>>
  BY DestroyAllEffect DEF CheckNeedDestroySink
<1>3. AgentsOK'
  BY <1>2, AgentsKeep DEF AgentsOK
<1>4. \A e \in DOMAIN events' : e \in DOMAIN events \/ EventOK(e)'
  <2>1. \A e \in DOMAIN events' : e \in DOMAIN events \/ e = Event("AGENT_DESTROYED", ev.ctx, ev.agent)
    BY ConsumeEffect, OneEffect DEF CheckNeedDestroySink
  <2>2. \A e \in DOMAIN events' : e \in DOMAIN events \/ (IsEvent(e) /\ e.op = "AGENT_DESTROYED" /\ e.agent = ev.agent)
    BY <2>1, EventEffect
  <2>3. ev.agent \in DOMAIN agents' /\ agents'[ev.agent].life \in Over
    BY <1>1, <1>2 DEF EventsOK, EventOK, Grows, Stays
  <2> QED
    BY <2>2, <2>3 DEF EventOK
<1> QED
  BY <1>2, <1>3, <1>4, EventsKeep

\* The media channel of a SINK agent that ended goes.
LEMMA HandleMediaChannelDestroyStep ==
    ASSUME AgentsOK, EventsOK, NEW ev, HandleMediaChannelDestroy(ev)
    PROVE  AgentsOK' /\ EventsOK' /\ Grows
<1>1. ev \in DOMAIN events /\ ev.op \in Ends
  BY ReadyEffect DEF HandleMediaChannelDestroy, Ends
<1>2. Grows /\ AgentsOK' /\ agents' = agents
  BY SameGrows DEF HandleMediaChannelDestroy, AgentsOK
<1>3. \A e \in DOMAIN events' : e \in DOMAIN events \/ EventOK(e)'
  <2>1. \A e \in DOMAIN events' : e \in DOMAIN events \/ e = Event("CHANNEL_GONE", ev.ctx, ev.agent)
    BY ConsumeEffect, OneEffect DEF HandleMediaChannelDestroy
  <2>2. \A e \in DOMAIN events' : e \in DOMAIN events \/ (IsEvent(e) /\ e.op = "CHANNEL_GONE" /\ e.agent = ev.agent)
    BY <2>1, EventEffect
  <2> QED
    BY <1>1, <1>2, <2>2 DEF EventOK, EventsOK
<1> QED
  BY <1>2, <1>3, EventsKeep

\* A SINK agent that ended leaves its context, which goes with its last agent.
LEMMA RemoveSinkStep ==
    ASSUME AgentsOK, EventsOK, NEW ev, RemoveSink(ev) \/ IsEmptyAgent(ev) \/ DestroyContext(ev)
    PROVE  AgentsOK' /\ EventsOK' /\ Grows /\ Shrinks /\ Tells(ev)
<1>1. ev \in DOMAIN events /\ ev.op = "CHANNEL_GONE" /\ ev.op \in Ends
  BY ReadyEffect DEF RemoveSink, IsEmptyAgent, DestroyContext, Ends
<1>2. Grows /\ agents' = agents
  BY SameGrows DEF RemoveSink, IsEmptyAgent, DestroyContext
<1>3. /\ Numbered(members') /\ DOMAIN members' = DOMAIN members /\ contexts' \subseteq contexts
      /\ \A c \in DOMAIN members : members'[c] \subseteq members[c]
  <2>1. /\ contexts' \subseteq contexts
        /\ \/ members' = members
           \/ RemoveAgent(ev.ctx, ev.agent)
           \/ \E S : members' = [members EXCEPT ![ev.ctx] = S] /\ S \in {{}, members[ev.ctx]}
    BY DEF RemoveSink, IsEmptyAgent, DestroyContext
  <2>2. members' = [c \in DOMAIN members |-> members'[c]] \/ members' = members
    BY <2>1 DEF RemoveAgent
  <2>3. \A c \in DOMAIN members : members'[c] \subseteq members[c]
    BY <2>1 DEF RemoveAgent
  <2> QED
    BY <2>1, <2>2, <2>3, SameNumbered DEF AgentsOK
<1>4. AgentsOK'
  BY <1>2, <1>3 DEF AgentsOK
<1>5. \A e \in DOMAIN events' :
         \/ e \in DOMAIN events
         \/ IsEvent(e) /\ e.op \in {"CHANNEL_GONE", "AGENT_DESTROYED"} /\ e.agent = ev.agent /\ e.ctx = ev.ctx
  <2>1. \/ \A e \in DOMAIN events' : e \in DOMAIN events
        \/ \E stage : Advance(ev, stage)
        \/ Consume(ev, One([ev EXCEPT !.stage = "empty"])
                       (+) (IF Known(ev) THEN One(Event("AGENT_DESTROYED", ev.ctx, ev.agent)) ELSE EmptyBag))
    BY ConsumeEffect, EmptyBagEffect DEF RemoveSink, IsEmptyAgent, DestroyContext
  <2>2. CASE \E stage : Advance(ev, stage)
    BY <1>1, <2>2, AdvanceEffect
  <2>3. CASE Consume(ev, One([ev EXCEPT !.stage = "empty"])
                         (+) (IF Known(ev) THEN One(Event("AGENT_DESTROYED", ev.ctx, ev.agent)) ELSE EmptyBag))
    <3> DEFINE f == [ev EXCEPT !.stage = "empty"]
               g == Event("AGENT_DESTROYED", ev.ctx, ev.agent)
    <3>1. IsEvent(f) /\ f.op = ev.op /\ f.agent = ev.agent /\ f.ctx = ev.ctx
      <4>1. IsEvent(ev)
        BY <1>1 DEF EventsOK, EventOK
      <4> QED
        BY <1>1, <4>1 DEF IsEvent, EventFields
    <3>2. IsEvent(g) /\ g.op = "AGENT_DESTROYED" /\ g.agent = ev.agent /\ g.ctx = ev.ctx
      BY EventEffect
    <3>3. \A e \in DOMAIN events' : e \in DOMAIN events \/ e = f \/ e = g
      <4>1. \A A, B, e : e \in DOMAIN (A (+) B) <=> e \in DOMAIN A \/ e \in DOMAIN B
        BY DEF (+)
      <4> QED
        BY <2>3, <4>1, ConsumeEffect, OneEffect, EmptyBagEffect
    <3> HIDE DEF f, g
    <3> QED
      BY <1>1, <3>1, <3>2, <3>3
  <2> QED
    BY <2>1, <2>2, <2>3
<1>6. \A e \in DOMAIN events' : e \in DOMAIN events \/ EventOK(e)'
  BY <1>1, <1>2, <1>5 DEF EventOK, EventsOK
<1>7. Shrinks /\ Tells(ev)
  BY <1>3, <1>5 DEF Shrinks, Tells
<1> QED
  BY <1>2, <1>4, <1>6, <1>7, EventsKeep

\* An agent gets another life, and at most one event tells of it.
LEMMA LifeStep ==
    ASSUME AgentsOK, EventsOK, NEW a \in DOMAIN agents, UNCHANGED <<contexts, members>>,
           NEW x, agents' = [agents EXCEPT ![a].life = x],
           x \in Over \/ (x = "started" /\ agents[a].life = "starting"),
           \/ events' = events
           \/ x \in Over /\ \E op : op # "CREATE" /\ Send(One(Event(op, agents[a].ctx, a)))
    PROVE  AgentsOK' /\ EventsOK' /\ Grows
<1>1. Grows /\ DOMAIN agents' = DOMAIN agents /\ agents'[a].life = x
  BY LifeEffect DEF Over
<1>2. AgentsOK'
  BY <1>1, AgentsKeep DEF AgentsOK
<1>3. \A e \in DOMAIN events' : e \in DOMAIN events \/ EventOK(e)'
  <2>1. CASE events' = events
    BY <2>1
  <2>2. CASE x \in Over /\ \E op : op # "CREATE" /\ Send(One(Event(op, agents[a].ctx, a)))
    <3>1. PICK op : op # "CREATE" /\ Send(One(Event(op, agents[a].ctx, a)))
      BY <2>2
    <3>2. \A e \in DOMAIN events' : e \in DOMAIN events \/ (IsEvent(e) /\ e.op # "CREATE" /\ e.agent = a)
      BY <3>1, SendEffect, OneEffect, EventEffect
    <3> QED
      BY <1>1, <2>2, <3>2 DEF EventOK
  <2> QED
    BY <2>1, <2>2
<1> QED
  BY <1>1, <1>2, <1>3, EventsKeep

\* Agents start, fail and end.
LEMMA PeersStep ==
    ASSUME AgentsOK, EventsOK, NEW a \in DOMAIN agents,
           AgentStarts(a) \/ SessionFails(a) \/ ProsumerFails(a) \/ AgentEnds(a)
    PROVE  AgentsOK' /\ EventsOK' /\ Grows
<1>1. CASE AgentStarts(a)
  BY <1>1, LifeStep DEF AgentStarts
<1>2. CASE SessionFails(a)
  <2>1. PICK x : x \in {"doomed", "failed"} /\ agents' = [agents EXCEPT ![a].life = x]
    BY <1>2 DEF SessionFails
  <2>2. \E op : op # "CREATE" /\ Send(One(Event(op, agents[a].ctx, a)))
    BY <1>2 DEF SessionFails
  <2> QED
    BY <1>2, <2>1, <2>2, LifeStep DEF SessionFails, Over
<1>3. CASE ProsumerFails(a)
  BY <1>3, LifeStep DEF ProsumerFails, Over
<1>4. CASE AgentEnds(a)
  <2>1. \E op : op # "CREATE" /\ Send(One(Event(op, agents[a].ctx, a)))
    <3>1. PICK op : op \in {"CHANNEL_DESTROY", "AGENT_GONE"} /\ Send(One(Event(op, agents[a].ctx, a)))
      BY <1>4 DEF AgentEnds
    <3> QED
      BY <3>1
  <2> QED
    BY <1>4, <2>1, LifeStep DEF AgentEnds, Over
<1> QED
  BY <1>1, <1>2, <1>3, <1>4

\* The handlers of the contexts.
LEMMA ContextEventStep ==
    ASSUME AgentsOK, EventsOK, HandleContextEvent
    PROVE  AgentsOK' /\ EventsOK' /\ Grows
  BY FindContextStep, MakeAgentStep, EmplaceAgentStep, DestroyStep, RemoveSourceStep, CheckNeedDestroySinkStep,
     HandleMediaChannelDestroyStep, RemoveSinkStep DEF HandleContextEvent

-----------------------------------------------------------------------------
(* The scene keeps EndInv                                                  *)

\* What the scene sends: agents to destroy, and one to create.
LEMMA SceneSends ==
    /\ \A ctx, agent, e : e \in DOMAIN DestroyAgent(ctx, agent) =>
          IsEvent(e) /\ e.op = "DESTROY" /\ e.stage = "new" /\ e.agent = agent
    /\ \A kind, ctx, agent, e : e \in DOMAIN One(CreateEvent(kind, ctx, agent)) =>
          IsEvent(e) /\ e.op = "CREATE" /\ e.stage = "new" /\ e.agent = agent /\ e.kind = kind
<1>1. \A kind, ctx, agent : LET e == CreateEvent(kind, ctx, agent) IN
         IsEvent(e) /\ e.op = "CREATE" /\ e.stage = "new" /\ e.agent = agent /\ e.kind = kind
  BY DEF CreateEvent, IsEvent, EventFields
<1> QED
  BY <1>1, OneEffect, EventEffect DEF DestroyAgent

\* A step of the scene that only sends.
LEMMA SceneStep ==
    ASSUME AgentsOK, EventsOK, UNCHANGED <<contexts, members, agents>>,
           NEW new, Send(new) \/ \E ev : Consume(ev, new),
           \A e \in DOMAIN new : IsEvent(e) /\ e.op \in {"DESTROY", "CREATE"} /\ e.stage = "new"
    PROVE  AgentsOK' /\ EventsOK' /\ Grows
  BY SendEffect, ConsumeEffect, NothingNew

\* What the scene and its callbacks assign, except to say that the device is disconnected.
Assigned(s) == \/ s = scene
               \/ \E x \in BOOLEAN : s = [scene EXCEPT !.running = x] \/ s = [scene EXCEPT !.exists = x]
               \/ s = [scene EXCEPT !.dev = NoDev]
               \/ \E x : s = [scene EXCEPT !.dev = [NoDev EXCEPT !.mac = x, !.state = "CONNECTED"]]
               \/ \E x, y : s = [scene EXCEPT !.contextId = x, !.agentId = y]
               \/ \E x, y : s = [scene EXCEPT !.dev.ctx = x, !.dev.agent = y]
\* None of these assignments disconnects the device.
LEMMA AssignedEffect ==
    ASSUME SceneOK, Assigned(scene')
    PROVE  SceneOK' /\ (scene'.dev.state = "DISCONNECTED" => scene.dev.state = "DISCONNECTED")
<1> DEFINE Keeps(t) == /\ t = [f \in SceneFields |-> t[f]] /\ t.dev = [f \in DevFields |-> t.dev[f]]
                       /\ t.dev.state = "DISCONNECTED" => scene.dev.state = "DISCONNECTED"
<1>1. Keeps(scene)
  BY DEF SceneOK
<1>2. ASSUME NEW x \in BOOLEAN
      PROVE  Keeps([scene EXCEPT !.running = x]) /\ Keeps([scene EXCEPT !.exists = x])
  BY DEF SceneOK, SceneFields
<1>3. Keeps([scene EXCEPT !.dev = NoDev])
  BY DEF SceneOK, SceneFields, DevFields, NoDev
<1>4. ASSUME NEW x
      PROVE  Keeps([scene EXCEPT !.dev = [NoDev EXCEPT !.mac = x, !.state = "CONNECTED"]])
  BY DEF SceneOK, SceneFields, DevFields, NoDev
<1>5. ASSUME NEW t, Assigned(t)
      PROVE  Keeps(t)
  <2> HIDE DEF Keeps
  <2>1. CASE t = scene
    BY <2>1, <1>1
  <2>2. CASE \E x \in BOOLEAN : t = [scene EXCEPT !.running = x] \/ t = [scene EXCEPT !.exists = x]
    BY <2>2, <1>2
  <2>3. CASE t = [scene EXCEPT !.dev = NoDev]
    BY <2>3, <1>3
  <2>4. CASE \E x : t = [scene EXCEPT !.dev = [NoDev EXCEPT !.mac = x, !.state = "CONNECTED"]]
    <3>1. PICK x : t = [scene EXCEPT !.dev = [NoDev EXCEPT !.mac = x, !.state = "CONNECTED"]]
      BY <2>4
    <3> QED
      BY <3>1, <1>4, Zenon
  <2>5. CASE \E x, y : t = [scene EXCEPT !.contextId = x, !.agentId = y]
    <3>1. PICK x, y : t = [scene EXCEPT !.contextId = x, !.agentId = y]
      BY <2>5
    <3> QED
      BY <3>1 DEF Keeps, SceneOK, SceneFields
  <2>6. CASE \E x, y : t = [scene EXCEPT !.dev.ctx = x, !.dev.agent = y]
    <3>1. PICK x, y : t = [scene EXCEPT !.dev.ctx = x, !.dev.agent = y]
      BY <2>6
    <3> QED
      BY <3>1 DEF Keeps, SceneOK, SceneFields, DevFields
  <2> QED
    BY <1>5, <2>1, <2>2, <2>3, <2>4, <2>5, <2>6 DEF Assigned
<1> QED
  BY <1>5 DEF SceneOK

\* The calls of the client and the callbacks of Wi-Fi.
LEMMA CallsStep ==
    ASSUME AgentsOK, EventsOK, SceneOK, Client \/ Callbacks \/ LinkUp \/ LinkDown \/ ModuleStops
    PROVE  AgentsOK' /\ EventsOK' /\ Grows /\ Assigned(scene')
<1> DEFINE Stays0 == UNCHANGED <<contexts, members, agents>>
<1>1. Stays0
  BY DEF Client, Callbacks, LinkUp, LinkDown, ModuleStops, HandleStartDiscovery, HandleAddDevice, HandleRemoveDevice,
         HandleDestroyScreenCapture, Release, OnP2pStarted, OnP2pClosed, OnP2pThisDeviceChanged, OnP2pPeerConnected,
         CreateScreenCapture, ScreenCaptureCreated, AppendCast, CastAppended, Ignored, contextVars
<1>2. Assigned(scene')
  BY DEF Client, Callbacks, LinkUp, LinkDown, ModuleStops, HandleStartDiscovery, HandleAddDevice, HandleRemoveDevice,
         HandleDestroyScreenCapture, Release, OnP2pStarted, OnP2pClosed, OnP2pThisDeviceChanged, OnP2pPeerConnected,
         CreateScreenCapture, ScreenCaptureCreated, AppendCast, CastAppended, Ignored, sceneVars, Assigned
<1>3. \/ events' = events
      \/ Send(Capture) \/ Send(EmptyBag)
      \/ Send(DestroyAgent(scene.dev.ctx, scene.dev.agent) (+) (IF CaptureKnown THEN Capture ELSE EmptyBag))
      \/ \E kind : Send(One(CreateEvent(kind, scene.contextId, scene.agentId)))
  BY DEF Client, Callbacks, LinkUp, LinkDown, ModuleStops, HandleStartDiscovery, HandleAddDevice, HandleRemoveDevice,
         HandleDestroyScreenCapture, Release, OnP2pStarted, OnP2pClosed, OnP2pThisDeviceChanged, OnP2pPeerConnected,
         CreateScreenCapture, ScreenCaptureCreated, AppendCast, CastAppended, Ignored, contextVars
<1>4. \A e \in DOMAIN events' : e \in DOMAIN events \/ (IsEvent(e) /\ e.op \in {"DESTROY", "CREATE"} /\ e.stage = "new")
  <2>1. \A A, B, e : e \in DOMAIN (A (+) B) => e \in DOMAIN A \/ e \in DOMAIN B
    BY DEF (+)
  <2>2. \A e \in DOMAIN Capture : IsEvent(e) /\ e.op = "DESTROY" /\ e.stage = "new"
    BY SceneSends DEF Capture
  <2> QED
    BY <1>3, <2>1, <2>2, SceneSends, SendEffect, EmptyBagEffect
<1> QED
  BY <1>1, <1>2, <1>4, NothingNew

\* What the scene makes of an agent that ended or failed.
LEMMA ReportStep ==
    ASSUME AgentsOK, EventsOK, SceneOK, NEW ev, HandleAgentDestroyed(ev) \/ HandleError(ev)
    PROVE  /\ AgentsOK' /\ EventsOK' /\ Grows /\ SceneOK'
           /\ scene'.dev.state = "DISCONNECTED" /\ scene.dev.state # "DISCONNECTED"
                 => ev.agent \in {scene.dev.agent, scene.agentId} /\ agents[ev.agent].life \in Over
<1>1. ev \in DOMAIN events /\ ev.op \in Ends
  BY ReadyEffect DEF HandleAgentDestroyed, HandleError, Ends
<1>2. agents[ev.agent].life \in Over
  BY <1>1 DEF EventsOK, EventOK
<1>3. UNCHANGED <<contexts, members, agents>>
  BY DEF HandleAgentDestroyed, HandleError
<1>4. \A e \in DOMAIN events' : e \in DOMAIN events \/ (IsEvent(e) /\ e.op = "DESTROY" /\ e.stage = "new")
  BY ConsumeEffect, EmptyBagEffect, SceneSends DEF HandleAgentDestroyed, HandleError
<1>5. CASE scene' = scene
  BY <1>3, <1>4, <1>5, NothingNew DEF SceneOK
<1>6. CASE scene' = [scene EXCEPT !.dev.state = "DISCONNECTED"] /\ IsOwn(scene.dev, ev)
  <2>1. SceneOK'
    BY <1>6 DEF SceneOK, SceneFields, DevFields
  <2> QED
    BY <1>2, <1>3, <1>4, <1>6, <2>1, NothingNew DEF IsOwn
<1> QED
  BY <1>5, <1>6 DEF HandleAgentDestroyed, HandleError, OnInnerDestroy

\* Every step keeps what is known of agents, events and the scene, and tells the client of an
\* end only for an agent that is over.
OwnEnd == scene.dev.state = "CONNECTED" /\ scene'.dev.state = "DISCONNECTED"
             => \E a \in {scene.dev.agent, scene.agentId} : agents[a].life \in Over
\* Every step keeps EndInv and tells of no other end.
LEMMA NextEnd ==
    ASSUME EndInv, [Next]_vars
    PROVE  EndInv' /\ OwnEnd
<1> USE DEF EndInv
<1>1. CASE HandleContextEvent /\ UNCHANGED <<p2pVars, sceneVars>>
  BY <1>1, ContextEventStep DEF sceneVars, SceneOK, OwnEnd
<1>2. CASE AgentRuns /\ UNCHANGED <<p2pVars, sceneVars>>
  <2>1. AgentsOK' /\ EventsOK'
    BY <1>2, PeersStep DEF AgentRuns
  <2> QED
    BY <1>2, <2>1 DEF sceneVars, SceneOK, OwnEnd
<1>3. CASE \E ev \in BagToSet(events) : HandleAgentDestroyed(ev) \/ HandleError(ev)
  BY <1>3, ReportStep DEF OwnEnd
<1>4. CASE Client \/ Callbacks \/ LinkUp \/ LinkDown \/ ModuleStops
  BY <1>4, CallsStep, AssignedEffect DEF OwnEnd
<1>5. CASE Peers
  <2>1. AgentsOK' /\ EventsOK'
    BY <1>5, PeersStep DEF Peers
  <2> QED
    BY <1>5, <2>1 DEF Peers, sceneVars, SceneOK, OwnEnd
<1>6. CASE UNCHANGED vars
  BY <1>6 DEF vars, contextVars, sceneVars, AgentsOK, EventsOK, EventOK, SceneOK, OwnEnd
<1> QED
  BY <1>1, <1>2, <1>3, <1>4, <1>5, <1>6 DEF Next, Workers

\* At first there is nothing.
LEMMA InitEnd == Init => EndInv
<1> SUFFICES ASSUME Init
             PROVE  EndInv
  OBVIOUS
<1>1. Numbered(<<>>) /\ DOMAIN <<>> = {}
  <2>1. <<>> \in Seq({}) /\ DOMAIN <<>> = {}
    OBVIOUS
  <2> QED
    BY <2>1 DEF Numbered
<1>2. AgentsOK
  BY <1>1 DEF Init, InitContexts, AgentsOK
<1>3. EventsOK
  BY EmptyBagEffect DEF Init, InitContexts, EventsOK
<1>4. SceneOK
  BY DEF Init, SceneOK, SceneFields, DevFields, NoDev
<1> QED
  BY <1>2, <1>3, <1>4 DEF EndInv

\* The client of a source is told that its device is disconnected only after an agent of this
\* connection failed or ended (OnInnerDestroy): however late the workers bring the ends of the
\* agents of earlier connections, whatever their contexts, and whatever overlaps.
THEOREM OnlyOwnEndIsTold == Spec => OnlyOwnEnd
<1>1. Spec => Init /\ [][Next]_vars
  BY PTL DEF Spec
<1>2. EndInv /\ [Next]_vars => [OwnEnd]_vars
  BY NextEnd
<1>3. Init /\ [][Next]_vars => []EndInv
  BY InitEnd, NextEnd, PTL
<1>4. Init /\ [][Next]_vars => [][OwnEnd]_vars
  BY <1>2, <1>3, PTL
<1>5. [][OwnEnd]_vars => OnlyOwnEnd
  BY PTL DEF OnlyOwnEnd, OwnEnd, Over
<1> QED
  BY <1>1, <1>4, <1>5, PTL

-----------------------------------------------------------------------------
(* A media channel and the agents that share it                            *)

\* Neither a call of the client nor a late answer comes while a callback connects a device,
\* and the capture of the screen does not fail.
Calm == \A d \in Allowed : d \cap {"overlap", "slow", "capture"} = {}
Calmly == allow \cap {"overlap", "slow", "capture"} = {}

Bounded == /\ \A e \in DOMAIN events : e.agent \in 0..Len(agents)
           /\ scene.agentId \in 0..Len(agents) /\ scene.dev.agent \in 0..Len(agents) /\ reply.agent \in 0..Len(agents)

\* A SINK agent has the channel of its number, a SRC agent that of its SINK agent; a SINK agent
\* goes only once it is marked.
SinkOK(a) == /\ agents[a].channel = a
             /\ agents[a].life # "gone" => a \in channels
             /\ agents[a].life \in {"doomed", "gone"} => agents[a].destroy
SourceOK(a) == LET s == agents[a].sink
               IN  /\ s \in DOMAIN agents /\ agents[s].kind = "SINK" /\ agents[s].ctx = agents[a].ctx
                   /\ agents[a].channel = s
Kinds == \A a \in DOMAIN agents : \/ agents[a].kind = "SINK" /\ SinkOK(a)
                                  \/ agents[a].kind = "SRC" /\ SourceOK(a)

Serves(s) == agents[s].life \notin {"doomed", "gone"}
ChannelsKept == \A a \in DOMAIN agents : agents[a].kind = "SRC" /\ Registered(a) => Serves(agents[a].sink)

\* A SINK agent that nobody marked, and that no event will mark.
Fresh(s) == /\ s \in DOMAIN agents /\ agents[s].kind = "SINK" /\ ~agents[s].destroy
            /\ \A e \in DOMAIN events : e.op = "DESTROY" => e.agent # s

\* The one event that creates an agent, while a callback waits for its answer.
CreateOK(e) ==
    /\ ~reply.come /\ events[e] = 1
    /\ \A f \in DOMAIN events : f.op = "CREATE" => f = e
    /\ \/ wifi.at = "capture" /\ e.kind = "SINK"
       \/ wifi.at = "cast" /\ e.kind = "SRC"
    /\ e.stage \in {"new", "make"} => e.agent = scene.agentId
    /\ e.stage = "emplace" => agents[e.agent].kind = e.kind
    /\ e.stage = "emplace" /\ e.kind = "SINK" => Fresh(e.agent)
    /\ e.stage = "emplace" /\ e.kind = "SRC" => agents[e.agent].sink = scene.agentId
Creating == \A e \in DOMAIN events : e.op = "CREATE" => CreateOK(e)
Answering == reply.come => /\ wifi.at \in {"capture", "cast"}
                           /\ wifi.at = "capture" => reply.agent \in {InvalidId, scene.agentId} \/ Fresh(reply.agent)
Sharing == wifi.at \in {"append", "cast"} => Fresh(scene.agentId)

\* What the events that end an agent and its channel say of it.
EndingOK(e) ==
    /\ e.op = "MSG_ERROR" => agents[e.agent].kind = "SRC"
    /\ e.op = "CHANNEL_DESTROY" => agents[e.agent].kind = "SINK" /\ agents[e.agent].life = "gone"
    /\ e.op = "DESTROY" /\ e.stage # "new" => /\ e.agent \in DOMAIN agents /\ agents[e.agent].kind = "SINK"
                                              /\ agents[e.agent].destroy /\ agents[e.agent].ctx = e.ctx
    /\ e.op = "AGENT_GONE" => e.ctx \in DOMAIN members
Ending == \A e \in DOMAIN events : EndingOK(e)

Protocol == Creating /\ Answering /\ Sharing
WifiOK == wifi = [f \in {"at", "mac"} |-> wifi[f]]
ChannelInv == EndInv /\ Calmly /\ WifiOK /\ Bounded /\ Kinds /\ ChannelsKept /\ Protocol /\ Ending

\* The event that is taken is gone if there was one of it, and one comes in its place.
LEMMA ReplaceEffect ==
    ASSUME NEW ev \in DOMAIN events, events[ev] = 1, NEW f, f \notin DOMAIN events, Consume(ev, One(f))
    PROVE  /\ events'[f] = 1
           /\ \A e : e \in DOMAIN events' => e = f \/ (e \in DOMAIN events /\ e # ev)
<1>1. \A e : e \in DOMAIN (events (-) One(ev)) => e \in DOMAIN events /\ e # ev
  <2>1. DOMAIN One(ev) = {ev} /\ One(ev)[ev] = 1
    BY DEF One, SetToBag
  <2> QED
    BY <2>1 DEF (-)
<1>2. DOMAIN One(f) = {f} /\ One(f)[f] = 1
  BY DEF One, SetToBag
<1>3. f \notin DOMAIN (events (-) One(ev))
  BY <1>1
<1> HIDE DEF One, (-)
<1> QED
  BY <1>1, <1>2, <1>3 DEF Consume, (+)

\* The event that is taken is gone if there was one of it.
LEMMA TakeEffect ==
    ASSUME NEW ev \in DOMAIN events, events[ev] = 1, Consume(ev, EmptyBag)
    PROVE  \A e : e \in DOMAIN events' => e \in DOMAIN events /\ e # ev
<1>1. \A e : e \in DOMAIN (events (-) One(ev)) => e \in DOMAIN events /\ e # ev
  <2>1. DOMAIN One(ev) = {ev} /\ One(ev)[ev] = 1
    BY DEF One, SetToBag
  <2> QED
    BY <2>1 DEF (-)
<1> QED
  BY <1>1, EmptyBagEffect DEF Consume, (+)

\* Other events are as many as they were.
LEMMA OtherEffect ==
    ASSUME NEW e, e \in DOMAIN events', NEW new, e \notin DOMAIN new,
           Send(new) \/ \E ev : ev # e /\ Consume(ev, new)
    PROVE  e \in DOMAIN events /\ (events[e] = 1 => events'[e] = 1)
<1>1. CASE Send(new)
  BY <1>1 DEF Send, (+)
<1>2. CASE \E ev : ev # e /\ Consume(ev, new)
  <2>1. PICK ev : ev # e /\ Consume(ev, new)
    BY <1>2
  <2>2. DOMAIN One(ev) = {ev}
    BY DEF One, SetToBag
  <2>3. e \in DOMAIN (events (-) One(ev)) => e \in DOMAIN events /\ (events (-) One(ev))[e] = events[e]
    BY <2>1, <2>2 DEF (-)
  <2> HIDE DEF One, (-)
  <2> QED
    BY <2>1, <2>3 DEF Consume, (+)
<1> QED
  BY <1>1, <1>2

NoCreate == \A e \in DOMAIN events' : e.op = "CREATE" => e \in DOMAIN events /\ (events[e] = 1 => events'[e] = 1)
FreshKept == \A s : Fresh(s) => Fresh(s)'

\* A step that neither creates nor takes an event that creates.
LEMMA NoCreateEffect ==
    ASSUME NEW new, \A e \in DOMAIN new : e.op # "CREATE",
           Send(new) \/ \E ev : ev.op # "CREATE" /\ Consume(ev, new)
    PROVE  NoCreate
  BY OtherEffect DEF NoCreate

\* A step that marks only what an event marks, and sends no other mark of a SINK agent.
LEMMA FreshEffect ==
    ASSUME Grows,
           \A a \in DOMAIN agents : \/ agents'[a].destroy = agents[a].destroy
                                    \/ \E d \in DOMAIN events : d.op = "DESTROY" /\ d.agent = a,
           \A e \in DOMAIN events' : e.op = "DESTROY" =>
               \/ \E d \in DOMAIN events : d.op = "DESTROY" /\ d.agent = e.agent
               \/ e.agent \in DOMAIN agents /\ agents[e.agent].kind = "SRC"
    PROVE  FreshKept
<1> SUFFICES ASSUME NEW s, Fresh(s)
             PROVE  Fresh(s)'
  BY DEF FreshKept
<1>1. s \in DOMAIN agents /\ agents[s].kind = "SINK" /\ \A e \in DOMAIN events : e.op = "DESTROY" => e.agent # s
  BY DEF Fresh
<1>2. s \in DOMAIN agents' /\ agents'[s].kind = "SINK"
  BY <1>1 DEF Grows, Stays
<1>3. ~agents'[s].destroy
  BY <1>1 DEF Fresh
<1>4. \A e \in DOMAIN events' : e.op = "DESTROY" => e.agent # s
  BY <1>1
<1> QED
  BY <1>2, <1>3, <1>4 DEF Fresh

\* While nothing is created, what is true of the creation stays true.
LEMMA ProtocolKeeps ==
    ASSUME Protocol, EventsOK, Grows, NoCreate, FreshKept, UNCHANGED <<reply, wifi>>, scene'.agentId = scene.agentId
    PROVE  Protocol'
<1>1. Creating'
  <2> SUFFICES ASSUME NEW e \in DOMAIN events', e.op = "CREATE"
               PROVE  CreateOK(e)'
    BY DEF Creating
  <2>1. e \in DOMAIN events /\ CreateOK(e) /\ (events[e] = 1 => events'[e] = 1)
    BY DEF NoCreate, Protocol, Creating
  <2>2. \A f \in DOMAIN events' : f.op = "CREATE" => f = e
    BY <2>1 DEF NoCreate, CreateOK
  <2>3. e.stage = "emplace" => /\ agents'[e.agent].kind = agents[e.agent].kind
                               /\ agents'[e.agent].sink = agents[e.agent].sink
    BY <2>1 DEF EventsOK, EventOK, Grows, Stays
  <2> QED
    BY <2>1, <2>2, <2>3 DEF CreateOK, FreshKept
<1>2. Answering' /\ Sharing'
  BY DEF Protocol, Answering, Sharing, FreshKept
<1> QED
  BY <1>1, <1>2 DEF Protocol

\* Numbers of agents stay below the next one.
LEMMA BoundedKeeps ==
    ASSUME AgentsOK, Bounded, Numbered(agents'), DOMAIN agents \subseteq DOMAIN agents',
           \A e \in DOMAIN events' : e \in DOMAIN events \/ e.agent \in DOMAIN agents' \cup (0..Len(agents)),
           {scene'.agentId, scene'.dev.agent, reply'.agent} \subseteq DOMAIN agents' \cup (0..Len(agents))
    PROVE  Bounded'
<1>1. Len(agents) \in Nat /\ DOMAIN agents = 1..Len(agents)
  BY NumberedDomain DEF AgentsOK
<1>2. Len(agents') \in Nat /\ DOMAIN agents' = 1..Len(agents')
  BY NumberedDomain
<1>3. Len(agents) <= Len(agents')
  BY <1>1, <1>2
<1>4. DOMAIN agents' \cup (0..Len(agents)) \subseteq 0..Len(agents')
  BY <1>1, <1>2, <1>3
<1>5. \A e \in DOMAIN events : e.agent \in 0..Len(agents)
  BY DEF Bounded
<1> QED
  BY <1>4, <1>5 DEF Bounded

\* A SINK agent that goes is marked, and keeps its channel until it is gone.
LEMMA KindsKeep ==
    ASSUME Kinds, Grows, DOMAIN agents' = DOMAIN agents,
           \A a \in DOMAIN agents : agents[a].kind = "SINK" =>
               /\ agents[a].destroy => agents'[a].destroy
               /\ agents'[a].life \in {"doomed", "gone"} => agents[a].life \in {"doomed", "gone"} \/ agents'[a].destroy
               /\ agents[a].life = "gone" => agents'[a].life = "gone"
               /\ agents'[a].life # "gone" /\ a \in channels => a \in channels'
    PROVE  Kinds'
<1> SUFFICES ASSUME NEW a \in DOMAIN agents
             PROVE  (\/ agents[a].kind = "SINK" /\ SinkOK(a)
                     \/ agents[a].kind = "SRC" /\ SourceOK(a))'
  BY DEF Kinds
<1>1. Stays(agents[a], agents'[a])
  BY DEF Grows
<1>2. CASE agents[a].kind = "SINK" /\ SinkOK(a)
  <2>1. agents'[a].kind = "SINK" /\ agents'[a].channel = a
    BY <1>1, <1>2 DEF SinkOK, Stays
  <2>2. agents'[a].life # "gone" => a \in channels'
    BY <1>2 DEF SinkOK
  <2>3. agents'[a].life \in {"doomed", "gone"} => agents'[a].destroy
    BY <1>2 DEF SinkOK
  <2> QED
    BY <2>1, <2>2, <2>3 DEF SinkOK
<1>3. CASE agents[a].kind = "SRC" /\ SourceOK(a)
  <2>1. Stays(agents[agents[a].sink], agents'[agents[a].sink])
    BY <1>3 DEF SourceOK, Grows
  <2> QED
    BY <1>1, <1>3, <2>1 DEF SourceOK, Stays
<1> QED
  BY <1>2, <1>3 DEF Kinds

\* A SINK agent goes only when no SRC agent of its context shares its channel.
LEMMA ChannelsKeep ==
    ASSUME Kinds, ChannelsKept, Grows, DOMAIN agents' = DOMAIN agents,
           \A a \in DOMAIN agents : agents[a].kind = "SRC" /\ Registered(a)' => Registered(a),
           \A s \in DOMAIN agents : agents[s].kind = "SINK" /\ agents'[s].life \in {"doomed", "gone"} =>
               \/ agents[s].life \in {"doomed", "gone"}
               \/ \A a \in DOMAIN agents : agents[a].kind = "SRC" /\ Registered(a) => agents[a].sink # s
    PROVE  ChannelsKept'
<1> SUFFICES ASSUME NEW a \in DOMAIN agents, agents'[a].kind = "SRC", Registered(a)'
             PROVE  agents'[agents'[a].sink].life \notin {"doomed", "gone"}
  BY DEF ChannelsKept, Serves
<1>1. agents[a].kind = "SRC" /\ agents'[a].sink = agents[a].sink
  BY DEF Grows, Stays
<1>2. Registered(a) /\ agents[agents[a].sink].life \notin {"doomed", "gone"}
  BY <1>1 DEF ChannelsKept, Serves
<1>3. agents[a].sink \in DOMAIN agents /\ agents[agents[a].sink].kind = "SINK"
  BY <1>1 DEF Kinds, SourceOK
<1> QED
  BY <1>1, <1>2, <1>3

\* What events say of the end of an agent and its channel stays true.
LEMMA EndingKeeps ==
    ASSUME Ending, EventsOK, Grows, DOMAIN members \subseteq DOMAIN members',
           \A a \in DOMAIN agents : agents[a].kind = "SINK" =>
               /\ agents[a].destroy => agents'[a].destroy
               /\ agents[a].life = "gone" => agents'[a].life = "gone",
           \A e \in DOMAIN events' : e \in DOMAIN events \/ EndingOK(e)'
    PROVE  Ending'
<1> SUFFICES ASSUME NEW e \in DOMAIN events
             PROVE  EndingOK(e)'
  BY DEF Ending
<1>1. EndingOK(e)
  BY DEF Ending
<1>2. e.op \in {"MSG_ERROR", "CHANNEL_DESTROY"} \/ (e.op = "DESTROY" /\ e.stage # "new") => e.agent \in DOMAIN agents
  BY <1>1 DEF EventsOK, EventOK, Ends, EndingOK
<1>3. e.agent \in DOMAIN agents => Stays(agents[e.agent], agents'[e.agent]) /\ e.agent \in DOMAIN agents'
  BY DEF Grows
<1> QED
  BY <1>1, <1>2, <1>3 DEF EndingOK, Stays

Rest == Bounded /\ Kinds /\ ChannelsKept /\ Protocol /\ Ending

\* A step that leaves the agents as they are, and whose events mark no SINK agent.
LEMMA TameStep ==
    ASSUME ChannelInv, UNCHANGED <<agents, reply, wifi>>, scene'.agentId = scene.agentId,
           scene'.dev.agent \in {InvalidId, scene.dev.agent}, NoCreate, Shrinks,
           \A a \in DOMAIN agents : a \in channels => a \in channels' \/ agents[a].life = "gone",
           \A e \in DOMAIN events' : \/ e \in DOMAIN events
                                     \/ /\ e.agent \in DOMAIN agents /\ EndingOK(e)
                                        /\ e.op = "DESTROY" => agents[e.agent].kind = "SRC"
    PROVE  Rest'
<1> USE DEF ChannelInv, EndInv
<1>1. Grows
  BY SameGrows
<1>2. Bounded'
  <2>1. Numbered(agents') /\ Len(agents) \in Nat
    BY NumberedDomain DEF AgentsOK
  <2>2. {scene'.agentId, scene'.dev.agent, reply'.agent} \subseteq 0..Len(agents)
    BY <2>1 DEF Bounded, InvalidId
  <2> QED
    BY <2>1, <2>2, BoundedKeeps
<1>3. Kinds'
  BY <1>1, KindsKeep
<1>4. ChannelsKept'
  <2>1. \A a \in DOMAIN agents : Registered(a)' => Registered(a)
    BY DEF Registered, Shrinks, AgentsOK
  <2> QED
    BY <1>1, <2>1, ChannelsKeep
<1>5. Protocol'
  <2>1. FreshKept
    BY <1>1, FreshEffect
  <2> QED
    BY <1>1, <2>1, ProtocolKeeps
<1>6. Ending'
  <2>1. \A e \in DOMAIN events' : e \in DOMAIN events \/ EndingOK(e)'
    BY DEF EndingOK, Shrinks
  <2> QED
    BY <1>1, <2>1, EndingKeeps DEF Shrinks
<1> QED
  BY <1>2, <1>3, <1>4, <1>5, <1>6 DEF Rest

\* No handler of an event that ends something sends one that creates.
LEMMA TakenNoCreate ==
    ASSUME EventsOK, NEW ev \in DOMAIN events, ev.op # "CREATE",
           NEW stage, NEW op, op # "CREATE", NEW ctx, NEW agent,
           \/ Consume(ev, EmptyBag) \/ Advance(ev, stage) \/ Consume(ev, One(Event(op, ctx, agent)))
           \/ Consume(ev, One([ev EXCEPT !.stage = stage]) (+) One(Event(op, ctx, agent)))
           \/ Consume(ev, One([ev EXCEPT !.stage = stage]) (+) EmptyBag)
    PROVE  NoCreate
<1> DEFINE f == [ev EXCEPT !.stage = stage]
           g == Event(op, ctx, agent)
<1>1. f.op = ev.op
  BY DEF EventsOK, EventOK, IsEvent, EventFields
<1>2. g.op = op
  BY EventEffect
<1> HIDE DEF f, g
<1>3. \A A, B, e : e \in DOMAIN (A (+) B) => e \in DOMAIN A \/ e \in DOMAIN B
  BY DEF (+)
<1>4. \E new : Consume(ev, new) /\ \A e \in DOMAIN new : e \in {f, g}
  <2>1. \/ Consume(ev, EmptyBag) \/ Consume(ev, One(f)) \/ Consume(ev, One(g))
        \/ Consume(ev, One(f) (+) One(g)) \/ Consume(ev, One(f) (+) EmptyBag)
    BY DEF f, g, Advance
  <2>2. /\ \A e \in DOMAIN EmptyBag : e \in {f, g}
        /\ \A e \in DOMAIN One(f) : e \in {f, g}
        /\ \A e \in DOMAIN One(g) : e \in {f, g}
        /\ \A e \in DOMAIN (One(f) (+) One(g)) : e \in {f, g}
        /\ \A e \in DOMAIN (One(f) (+) EmptyBag) : e \in {f, g}
    BY <1>3, EmptyBagEffect, OneEffect
  <2> QED
    BY <2>1, <2>2
<1> QED
  BY <1>1, <1>2, <1>4, NoCreateEffect

\* The handlers that take agents and contexts away.
LEMMA AwayChannels ==
    ASSUME ChannelInv, UNCHANGED <<scene, wifi>>, NEW ev,
           RemoveSource(ev) \/ RemoveSink(ev) \/ IsEmptyAgent(ev) \/ DestroyContext(ev)
    PROVE  Rest'
<1> USE DEF ChannelInv, EndInv
<1>1. Shrinks /\ Tells(ev)
  BY RemoveSourceStep, RemoveSinkStep
<1>2. UNCHANGED <<agents, reply, channels>>
  BY DEF RemoveSource, RemoveSink, IsEmptyAgent, DestroyContext
<1>3. ev \in DOMAIN events /\ ev.op \in {"AGENT_GONE", "CHANNEL_GONE"} /\ ev.agent \in DOMAIN agents
  BY ReadyEffect DEF RemoveSource, RemoveSink, IsEmptyAgent, DestroyContext, EventsOK, EventOK, Ends
<1>4. NoCreate
  <2>1. PICK stage : \/ Consume(ev, EmptyBag) \/ Advance(ev, stage)
                     \/ Consume(ev, One([ev EXCEPT !.stage = stage]) (+) One(Event("AGENT_DESTROYED", ev.ctx, ev.agent)))
                     \/ Consume(ev, One([ev EXCEPT !.stage = stage]) (+) EmptyBag)
    BY DEF RemoveSource, RemoveSink, IsEmptyAgent, DestroyContext
  <2> QED
    BY <1>3, <2>1, TakenNoCreate
<1>5. \A e \in DOMAIN events' : e \in DOMAIN events \/ (e.agent \in DOMAIN agents /\ EndingOK(e) /\ e.op # "DESTROY")
  BY <1>1, <1>3 DEF Tells, EndingOK, Ending
<1> QED
  BY <1>1, <1>2, <1>4, <1>5, TameStep

\* A media channel goes after its SINK agent is gone.
LEMMA MediaChannelChannels ==
    ASSUME ChannelInv, UNCHANGED <<scene, wifi>>, NEW ev, HandleMediaChannelDestroy(ev)
    PROVE  Rest'
<1> USE DEF ChannelInv, EndInv
<1>1. /\ ev \in DOMAIN events /\ ev.op = "CHANNEL_DESTROY" /\ UNCHANGED <<agents, reply, contexts, members>>
      /\ channels' = channels \ {agents[ev.agent].channel}
      /\ Consume(ev, One(Event("CHANNEL_GONE", ev.ctx, ev.agent)))
  BY ReadyEffect DEF HandleMediaChannelDestroy
<1>2. /\ ev.agent \in DOMAIN agents /\ agents[ev.agent].life = "gone"
      /\ agents[ev.agent].channel = ev.agent
  <2>1. ev.agent \in DOMAIN agents
    BY <1>1 DEF EventsOK, EventOK, Ends
  <2>2. agents[ev.agent].kind = "SINK" /\ agents[ev.agent].life = "gone"
    BY <1>1 DEF Ending, EndingOK
  <2> QED
    BY <2>1, <2>2 DEF Kinds, SinkOK
<1>3. NoCreate
  BY <1>1, TakenNoCreate
<1>4. \A e \in DOMAIN events' : \/ e \in DOMAIN events
                                \/ e.agent = ev.agent /\ e.op = "CHANNEL_GONE"
  BY <1>1, ConsumeEffect, OneEffect, EventEffect
<1>5. Shrinks
  BY <1>1 DEF Shrinks
<1>6. \A a \in DOMAIN agents : a \in channels => a \in channels' \/ agents[a].life = "gone"
  BY <1>1, <1>2
<1>7. \A e \in DOMAIN events' : \/ e \in DOMAIN events
                                \/ /\ e.agent \in DOMAIN agents /\ EndingOK(e)
                                   /\ e.op = "DESTROY" => agents[e.agent].kind = "SRC"
  BY <1>2, <1>4 DEF EndingOK
<1> QED
  BY <1>1, <1>3, <1>5, <1>6, <1>7, TameStep

\* The scene destroys an agent that failed, a SRC agent.
LEMMA ReportChannels ==
    ASSUME ChannelInv, NEW ev, HandleAgentDestroyed(ev) \/ HandleError(ev)
    PROVE  Rest'
<1> USE DEF ChannelInv, EndInv
<1>1. /\ ev \in DOMAIN events /\ ev.op \in {"AGENT_DESTROYED", "MSG_ERROR"}
      /\ UNCHANGED <<agents, reply, contexts, members, channels, wifi>>
  BY ReadyEffect DEF HandleAgentDestroyed, HandleError
<1>2. \/ Consume(ev, EmptyBag)
      \/ ev.op = "MSG_ERROR" /\ Consume(ev, One(Event("DESTROY", ev.ctx, ev.agent)))
  BY DEF HandleAgentDestroyed, HandleError, DestroyAgent, Ready
<1>3. NoCreate
  BY <1>1, <1>2, TakenNoCreate
<1>4. ev.op = "MSG_ERROR" => ev.agent \in DOMAIN agents /\ agents[ev.agent].kind = "SRC"
  BY <1>1 DEF EventsOK, EventOK, Ends, Ending, EndingOK
<1>5. \A e \in DOMAIN events' :
         e \in DOMAIN events \/ (ev.op = "MSG_ERROR" /\ e.agent = ev.agent /\ e.op = "DESTROY" /\ e.stage = "new")
  BY <1>2, ConsumeEffect, EmptyBagEffect, OneEffect, EventEffect
<1>6. scene'.agentId = scene.agentId /\ scene'.dev.agent = scene.dev.agent
  <2>1. scene' = scene \/ scene' = [scene EXCEPT !.dev.state = "DISCONNECTED"]
    BY DEF HandleAgentDestroyed, HandleError, OnInnerDestroy
  <2> QED
    BY <2>1 DEF SceneOK, SceneFields, DevFields
<1>7. \A e \in DOMAIN events' : \/ e \in DOMAIN events
                                \/ /\ e.agent \in DOMAIN agents /\ EndingOK(e)
                                   /\ e.op = "DESTROY" => agents[e.agent].kind = "SRC"
  BY <1>4, <1>5 DEF EndingOK
<1>8. Shrinks
  BY <1>1 DEF Shrinks
<1> QED
  BY <1>1, <1>3, <1>6, <1>7, <1>8, TameStep

\* A step in which agents go on, none is made and nothing is created.
LEMMA LivesStep ==
    ASSUME ChannelInv, Grows, DOMAIN agents' = DOMAIN agents, NoCreate,
           UNCHANGED <<contexts, members, channels, reply, wifi, scene>>,
           \A a \in DOMAIN agents :
               /\ agents[a].destroy => agents'[a].destroy
               /\ agents[a].life = "gone" => agents'[a].life = "gone"
               /\ \/ agents'[a].destroy = agents[a].destroy
                  \/ \E d \in DOMAIN events : d.op = "DESTROY" /\ d.agent = a
               /\ agents[a].kind = "SINK" /\ agents'[a].life \in {"doomed", "gone"} =>
                     \/ agents[a].life \in {"doomed", "gone"}
                     \/ /\ agents[a].destroy
                        /\ \A b \in DOMAIN agents : agents[b].kind = "SRC" /\ Registered(b) => agents[b].sink # a,
           \A e \in DOMAIN events' :
               \/ e \in DOMAIN events
               \/ /\ e.agent \in DOMAIN agents /\ EndingOK(e)'
                  /\ e.op = "DESTROY" => \E d \in DOMAIN events : d.op = "DESTROY" /\ d.agent = e.agent
    PROVE  Rest'
<1> USE DEF ChannelInv, EndInv
<1>1. Bounded'
  <2>1. Numbered(agents') /\ Len(agents) \in Nat
    BY NumberedDomain DEF AgentsOK, Grows
  <2>2. {scene'.agentId, scene'.dev.agent, reply'.agent} \subseteq 0..Len(agents)
    BY <2>1 DEF Bounded
  <2> QED
    BY <2>1, <2>2, BoundedKeeps
<1>2. Kinds'
  BY KindsKeep
<1>3. ChannelsKept'
  <2>1. \A a \in DOMAIN agents : Registered(a)' => Registered(a)
    BY DEF Registered, Grows, Stays
  <2> QED
    BY <2>1, ChannelsKeep
<1>4. Protocol'
  <2>1. FreshKept
    BY FreshEffect
  <2> QED
    BY <2>1, ProtocolKeeps
<1>5. Ending'
  BY EndingKeeps
<1> QED
  BY <1>1, <1>2, <1>3, <1>4, <1>5 DEF Rest

\* A SINK agent whose context has no SRC agent with its channel is shared by none.
LEMMA NotShared ==
    ASSUME AgentsOK, Kinds, NEW s \in DOMAIN agents, IsEmptySrcAgent(agents[s].ctx, s)
    PROVE  \A b \in DOMAIN agents : agents[b].kind = "SRC" /\ Registered(b) => agents[b].sink # s
  BY DEF IsEmptySrcAgent, OfKind, Registered, Kinds, SourceOK

\* A DESTROY event that its handler takes one section further.
LEMMA DestroyEvents ==
    ASSUME EventsOK, NEW ev \in DOMAIN events, ev.op = "DESTROY",
           NEW stage, Consume(ev, EmptyBag) \/ Advance(ev, stage)
    PROVE  /\ NoCreate
           /\ \A e \in DOMAIN events' : \/ e \in DOMAIN events
                                        \/ e.op = "DESTROY" /\ e.agent = ev.agent /\ e.ctx = ev.ctx /\ Advance(ev, stage)
<1>1. NoCreate
  BY TakenNoCreate
<1>2. CASE Consume(ev, EmptyBag)
  BY <1>1, <1>2, ConsumeEffect, EmptyBagEffect
<1>3. CASE Advance(ev, stage)
  BY <1>1, <1>3, AdvanceEffect
<1> QED
  BY <1>2, <1>3

\* A SRC agent is destroyed, or a SINK agent is marked.
LEMMA HandleAgentDestroyChannels ==
    ASSUME ChannelInv, UNCHANGED <<scene, wifi>>, NEW ev, HandleAgentDestroy(ev)
    PROVE  Rest'
<1> USE DEF ChannelInv, EndInv
<1>1. /\ ev \in DOMAIN events /\ ev.op = "DESTROY" /\ ev.stage = "new"
      /\ UNCHANGED <<contexts, members, channels, reply>>
  BY ReadyEffect DEF HandleAgentDestroy
<1>2. CASE agents' = agents /\ Consume(ev, EmptyBag)
  <2>1. /\ NoCreate
        /\ \A e \in DOMAIN events' : e \in DOMAIN events
    BY <1>1, <1>2, TakenNoCreate, ConsumeEffect, EmptyBagEffect
  <2> QED
    BY <1>1, <1>2, <2>1, SameGrows, LivesStep
<1>3. CASE Known(ev) /\ agents[ev.agent].kind = "SRC" /\ Consume(ev, EmptyBag) /\ DestroyAll({ev.agent})
  <2>1. /\ NoCreate
        /\ \A e \in DOMAIN events' : e \in DOMAIN events
    BY <1>1, <1>3, TakenNoCreate, ConsumeEffect, EmptyBagEffect
  <2>2. /\ Grows /\ DOMAIN agents' = DOMAIN agents
        /\ \A a \in DOMAIN agents : /\ agents'[a].destroy = agents[a].destroy
                                    /\ a \notin {ev.agent} => agents'[a].life = agents[a].life
                                    /\ agents[a].life = "gone" <=> agents'[a].life = "gone"
    BY <1>3, DestroyAllEffect
  <2>3. \A a \in DOMAIN agents : agents[a].kind = "SINK" => agents'[a].life = agents[a].life
    BY <1>3, <2>2
  <2> QED
    BY <1>1, <2>1, <2>2, <2>3, LivesStep
<1>4. CASE /\ Known(ev) /\ agents[ev.agent].kind # "SRC"
           /\ agents' = [agents EXCEPT ![ev.agent].destroy = TRUE] /\ Advance(ev, "check")
  <2>1. ev.agent \in DOMAIN agents /\ agents[ev.agent].kind = "SINK" /\ agents[ev.agent].ctx = ev.ctx
    BY <1>4 DEF Known, AgentsOK, Kinds
  <2>2. /\ NoCreate
        /\ \A e \in DOMAIN events' :
              e \in DOMAIN events \/ (e.op = "DESTROY" /\ e.agent = ev.agent /\ e.ctx = ev.ctx)
    BY <1>1, <1>4, DestroyEvents
  <2>3. /\ Grows /\ DOMAIN agents' = DOMAIN agents
        /\ agents'[ev.agent].life = agents[ev.agent].life /\ agents'[ev.agent].destroy
        /\ \A b \in DOMAIN agents : b # ev.agent => agents'[b] = agents[b]
    BY <1>4, <2>1, MarkEffect
  <2>4. \A e \in DOMAIN events' :
           \/ e \in DOMAIN events
           \/ /\ e.agent \in DOMAIN agents /\ EndingOK(e)'
              /\ e.op = "DESTROY" => \E d \in DOMAIN events : d.op = "DESTROY" /\ d.agent = e.agent
    BY <1>1, <2>1, <2>2, <2>3 DEF EndingOK, Grows, Stays
  <2>5. \A a \in DOMAIN agents :
           /\ agents[a].destroy => agents'[a].destroy
           /\ agents'[a].life = agents[a].life
           /\ \/ agents'[a].destroy = agents[a].destroy
              \/ \E d \in DOMAIN events : d.op = "DESTROY" /\ d.agent = a
    BY <1>1, <2>3
  <2> QED
    BY <1>1, <2>2, <2>3, <2>4, <2>5, LivesStep
<1> QED
  BY <1>2, <1>3, <1>4 DEF HandleAgentDestroy

\* A marked SINK agent that no SRC agent shares goes; or the SRC agents go first.
LEMMA CheckSourcesChannels ==
    ASSUME ChannelInv, UNCHANGED <<scene, wifi>>, NEW ev, CheckSources(ev) \/ DestroySources(ev)
    PROVE  Rest'
<1> USE DEF ChannelInv, EndInv
<1>1. /\ ev \in DOMAIN events /\ ev.op = "DESTROY" /\ ev.stage # "new"
      /\ UNCHANGED <<contexts, members, channels, reply>>
  BY ReadyEffect DEF CheckSources, DestroySources
<1>2. /\ ev.agent \in DOMAIN agents /\ agents[ev.agent].kind = "SINK"
      /\ agents[ev.agent].destroy /\ agents[ev.agent].ctx = ev.ctx
  BY <1>1 DEF Ending, EndingOK
<1>3. CASE agents' = agents /\ Advance(ev, "sources")
  <2>1. /\ NoCreate
        /\ \A e \in DOMAIN events' :
              e \in DOMAIN events \/ (e.op = "DESTROY" /\ e.agent = ev.agent /\ e.ctx = ev.ctx)
    BY <1>1, <1>3, DestroyEvents
  <2>2. \A e \in DOMAIN events' :
           \/ e \in DOMAIN events
           \/ /\ e.agent \in DOMAIN agents /\ EndingOK(e)'
              /\ e.op = "DESTROY" => \E d \in DOMAIN events : d.op = "DESTROY" /\ d.agent = e.agent
    BY <1>1, <1>2, <1>3, <2>1 DEF EndingOK
  <2> QED
    BY <1>1, <1>3, <2>1, <2>2, SameGrows, LivesStep
<1>4. ASSUME NEW as, DestroyAll(as), Consume(ev, EmptyBag),
             \A a \in as \cap DOMAIN agents : agents[a].kind = "SINK" =>
                /\ agents[a].destroy
                /\ \A b \in DOMAIN agents : agents[b].kind = "SRC" /\ Registered(b) => agents[b].sink # a
      PROVE  Rest'
  <2>1. /\ NoCreate
        /\ \A e \in DOMAIN events' : e \in DOMAIN events
    BY <1>1, <1>4, TakenNoCreate, ConsumeEffect, EmptyBagEffect
  <2>2. /\ Grows /\ DOMAIN agents' = DOMAIN agents
        /\ \A a \in DOMAIN agents : /\ agents'[a].destroy = agents[a].destroy
                                    /\ a \notin as => agents'[a].life = agents[a].life
                                    /\ agents[a].life = "gone" <=> agents'[a].life = "gone"
    BY <1>4, DestroyAllEffect
  <2> QED
    BY <1>1, <1>4, <2>1, <2>2, LivesStep
<1>5. CASE IsEmptySrcAgent(ev.ctx, ev.agent) /\ Consume(ev, EmptyBag) /\ DestroyAll({ev.agent})
  BY <1>2, <1>4, <1>5, NotShared
<1>6. CASE Consume(ev, EmptyBag) /\ DestroyAll(OfKind(ev.ctx, "SRC"))
  BY <1>4, <1>6 DEF OfKind
<1> QED
  BY <1>3, <1>5, <1>6 DEF CheckSources, DestroySources

\* The SINK agent that waited for its last SRC agent is shared by none.
LEMMA CheckNeedDestroySinkChannels ==
    ASSUME ChannelInv, UNCHANGED <<scene, wifi>>, NEW ev, CheckNeedDestroySink(ev)
    PROVE  Rest'
<1> USE DEF ChannelInv, EndInv
<1>1. /\ ev \in DOMAIN events /\ ev.op = "AGENT_GONE" /\ DestroyAll(SinkToDestroy(ev))
      /\ UNCHANGED <<contexts, members, channels, reply>>
      /\ Consume(ev, One(Event("AGENT_DESTROYED", ev.ctx, ev.agent)))
  BY ReadyEffect DEF CheckNeedDestroySink
<1>2. ev.agent \in DOMAIN agents /\ ev.ctx \in DOMAIN members
  BY <1>1 DEF EventsOK, EventOK, Ends, Ending, EndingOK
<1>3. /\ NoCreate
      /\ \A e \in DOMAIN events' : e \in DOMAIN events \/ (e.op = "AGENT_DESTROYED" /\ e.agent = ev.agent)
  <2>1. NoCreate
    BY <1>1, TakenNoCreate
  <2>2. \A e \in DOMAIN events' : e \in DOMAIN events \/ e = Event("AGENT_DESTROYED", ev.ctx, ev.agent)
    BY <1>1, ConsumeEffect, OneEffect
  <2> QED
    BY <2>1, <2>2, EventEffect
<1>4. \A s \in SinkToDestroy(ev) :
         /\ s \in DOMAIN agents => agents[s].destroy
         /\ \A b \in DOMAIN agents : agents[b].kind = "SRC" /\ Registered(b) => agents[b].sink # s
  <2> SUFFICES ASSUME NEW s \in SinkToDestroy(ev)
               PROVE  /\ agents[s].destroy
                      /\ \A b \in DOMAIN agents : agents[b].kind = "SRC" /\ Registered(b) => agents[b].sink # s
    OBVIOUS
  <2>1. s \in members[ev.ctx] /\ agents[s].destroy /\ IsEmptySrcAgent(ev.ctx, s)
    BY DEF SinkToDestroy
  <2>2. \A b \in DOMAIN agents : agents[b].kind = "SRC" /\ Registered(b) /\ agents[b].sink = s => FALSE
    <3> SUFFICES ASSUME NEW b \in DOMAIN agents, agents[b].kind = "SRC", Registered(b), agents[b].sink = s
                 PROVE  FALSE
      OBVIOUS
    <3>1. s \in DOMAIN agents /\ agents[s].ctx = agents[b].ctx
      BY DEF Kinds, SourceOK
    <3>2. agents[s].ctx = ev.ctx
      BY <1>2, <2>1 DEF AgentsOK
    <3> QED
      BY <2>1, <3>1, <3>2, NotShared
  <2> QED
    BY <2>1, <2>2
<1>5. /\ Grows /\ DOMAIN agents' = DOMAIN agents
      /\ \A a \in DOMAIN agents : /\ agents'[a].destroy = agents[a].destroy
                                  /\ a \notin SinkToDestroy(ev) => agents'[a].life = agents[a].life
                                  /\ agents[a].life = "gone" <=> agents'[a].life = "gone"
  BY <1>1, DestroyAllEffect
<1>6. \A e \in DOMAIN events' :
         \/ e \in DOMAIN events
         \/ /\ e.agent \in DOMAIN agents /\ EndingOK(e)'
            /\ e.op = "DESTROY" => \E d \in DOMAIN events : d.op = "DESTROY" /\ d.agent = e.agent
  BY <1>2, <1>3 DEF EndingOK
<1> QED
  BY <1>1, <1>3, <1>4, <1>5, <1>6, LivesStep

\* One agent gets another life; a SINK agent only starts, or is gone once it is doomed.
LEMMA LifeChannels ==
    ASSUME ChannelInv, UNCHANGED <<contexts, members, channels, reply, wifi, scene>>,
           NEW a \in DOMAIN agents, NEW x, agents' = [agents EXCEPT ![a].life = x],
           \/ agents[a].kind = "SRC" /\ agents[a].life \notin Over /\ x \in Over \cup {"started"} /\ x # "gone"
           \/ x = "started" /\ agents[a].life = "starting"
           \/ x = "gone" /\ agents[a].life = "doomed",
           \/ events' = events
           \/ agents[a].kind = "SRC" /\ Send(One(Event("MSG_ERROR", agents[a].ctx, a)))
           \/ x = "gone" /\ agents[a].kind = "SINK" /\ Send(One(Event("CHANNEL_DESTROY", agents[a].ctx, a)))
           \/ agents[a].ctx \in DOMAIN members /\ Send(One(Event("AGENT_GONE", agents[a].ctx, a)))
    PROVE  Rest'
<1> USE DEF ChannelInv, EndInv
<1>1. /\ Grows /\ DOMAIN agents' = DOMAIN agents
      /\ agents'[a].life = x /\ agents'[a].destroy = agents[a].destroy
      /\ \A b \in DOMAIN agents : b # a => agents'[b] = agents[b]
  BY LifeEffect DEF Over
<1>2. NoCreate
  <2>1. CASE events' = events
    BY <2>1 DEF NoCreate
  <2>2. ASSUME NEW op \in {"MSG_ERROR", "CHANNEL_DESTROY", "AGENT_GONE"}, Send(One(Event(op, agents[a].ctx, a)))
        PROVE  NoCreate
    <3>1. \A e \in DOMAIN One(Event(op, agents[a].ctx, a)) : e.op # "CREATE"
      BY OneEffect, EventEffect
    <3> QED
      BY <2>2, <3>1, NoCreateEffect
  <2> QED
    BY <2>1, <2>2
<1>3. \A e \in DOMAIN events' :
         \/ e \in DOMAIN events
         \/ /\ e.agent = a /\ e.ctx = agents[a].ctx
            /\ \/ e.op = "MSG_ERROR" /\ agents[a].kind = "SRC"
               \/ e.op = "CHANNEL_DESTROY" /\ agents[a].kind = "SINK" /\ x = "gone"
               \/ e.op = "AGENT_GONE" /\ agents[a].ctx \in DOMAIN members
  BY SendEffect, OneEffect, EventEffect
<1>4. \A e \in DOMAIN events' :
         \/ e \in DOMAIN events
         \/ /\ e.agent \in DOMAIN agents /\ EndingOK(e)'
            /\ e.op = "DESTROY" => \E d \in DOMAIN events : d.op = "DESTROY" /\ d.agent = e.agent
  BY <1>1, <1>3 DEF EndingOK, Grows, Stays
<1>5. \A b \in DOMAIN agents :
         /\ agents'[b].destroy = agents[b].destroy
         /\ agents[b].life = "gone" => agents'[b].life = "gone"
         /\ agents[b].kind = "SINK" /\ agents'[b].life \in {"doomed", "gone"} => agents[b].life \in {"doomed", "gone"}
  BY <1>1 DEF Over
<1> QED
  BY <1>1, <1>2, <1>4, <1>5, LivesStep

\* Agents start, fail and end; the capture of the screen does not fail.
LEMMA PeersChannels ==
    ASSUME ChannelInv, UNCHANGED <<scene, wifi>>, NEW a \in DOMAIN agents,
           \/ AgentStarts(a) \/ SessionFails(a) \/ AgentEnds(a)
           \/ ProsumerFails(a) /\ (agents[a].kind = "SRC" \/ "capture" \in allow)
    PROVE  Rest'
<1>1. agents[a].ctx \in contexts => agents[a].ctx \in DOMAIN members
  BY DEF ChannelInv, EndInv, AgentsOK
<1>2. CASE AgentStarts(a)
  BY <1>2, LifeChannels DEF AgentStarts
<1>3. CASE SessionFails(a)
  <2>1. PICK x : x \in {"doomed", "failed"} /\ agents' = [agents EXCEPT ![a].life = x]
    BY <1>3 DEF SessionFails
  <2> QED
    BY <1>3, <2>1, LifeChannels DEF SessionFails, Over
<1>4. CASE AgentEnds(a)
  <2>1. agents[a].kind \in {"SINK", "SRC"}
    BY DEF ChannelInv, Kinds
  <2> QED
    BY <1>1, <1>4, <2>1, LifeChannels DEF AgentEnds, Registered
<1>5. CASE ProsumerFails(a) /\ agents[a].kind = "SRC"
  BY <1>5, LifeChannels DEF ProsumerFails, Over
<1>6. "capture" \notin allow
  BY DEF ChannelInv, Calmly
<1> QED
  BY <1>2, <1>3, <1>4, <1>5, <1>6

\* The answer to a creation: the number of a SINK agent that is fresh, or of none that is new.
LEMMA AnswerProtocol ==
    ASSUME ChannelInv, UNCHANGED <<agents, scene, wifi>>, NEW ev \in DOMAIN events, ev.op = "CREATE",
           NEW ctx, NEW agent, Answer(ev, ctx, agent),
           wifi.at = "capture" => agent \in {InvalidId, scene.agentId} \/ Fresh(agent)
    PROVE  /\ Protocol' /\ reply'.agent = agent
           /\ \A e \in DOMAIN events' : e \in DOMAIN events
<1> USE DEF ChannelInv, EndInv
<1>1. CreateOK(ev)
  BY DEF Protocol, Creating
<1>2. Consume(ev, EmptyBag) /\ reply'.agent = agent /\ reply'.come = TRUE
  BY DEF Answer
<1>3. \A e \in DOMAIN events' : e \in DOMAIN events /\ e # ev
  BY <1>1, <1>2, TakeEffect DEF CreateOK
<1>4. FreshKept
  BY <1>3 DEF FreshKept, Fresh
<1>5. Creating'
  BY <1>1, <1>3 DEF Creating, CreateOK
<1>6. Answering' /\ Sharing'
  BY <1>1, <1>2, <1>4 DEF Answering, Sharing, Protocol, FreshKept, CreateOK
<1> QED
  BY <1>2, <1>3, <1>5, <1>6 DEF Protocol

\* A creation goes on to its next section.
LEMMA CreatingProtocol ==
    ASSUME ChannelInv, Grows, UNCHANGED <<reply, scene, wifi>>, NEW ev \in DOMAIN events, ev.op = "CREATE",
           \A a \in DOMAIN agents : agents'[a].destroy = agents[a].destroy,
           NEW f, Consume(ev, One(f)), f.op = "CREATE", f.kind = ev.kind, f.stage # ev.stage,
           f.stage \in {"new", "make"} => f.agent = scene.agentId,
           f.stage = "emplace" => agents'[f.agent].kind = f.kind,
           f.stage = "emplace" /\ f.kind = "SINK" => /\ f.agent \in DOMAIN agents' /\ ~agents'[f.agent].destroy
                                                     /\ \A e \in DOMAIN events : e.agent # f.agent,
           f.stage = "emplace" /\ f.kind = "SRC" => agents'[f.agent].sink = scene.agentId
    PROVE  /\ Protocol'
           /\ \A e \in DOMAIN events' : e \in DOMAIN events \/ e = f
<1> USE DEF ChannelInv, EndInv
<1>1. CreateOK(ev)
  BY DEF Protocol, Creating
<1>2. f \notin DOMAIN events
  BY <1>1 DEF CreateOK
<1>3. events'[f] = 1 /\ \A e : e \in DOMAIN events' => e = f \/ (e \in DOMAIN events /\ e # ev)
  BY <1>1, <1>2, ReplaceEffect DEF CreateOK
<1>4. FreshKept
  <2>1. \A e \in DOMAIN events' : e.op = "DESTROY" => e \in DOMAIN events
    BY <1>3
  <2> QED
    BY <2>1, FreshEffect
<1>5. \A e \in DOMAIN events' : e.op = "CREATE" => e = f
  BY <1>1, <1>3 DEF CreateOK
<1>6. f.stage = "emplace" /\ f.kind = "SINK" => Fresh(f.agent)'
  BY <1>3 DEF Fresh
<1>7. CreateOK(f)'
  BY <1>1, <1>3, <1>5, <1>6 DEF CreateOK
<1>8. Creating'
  BY <1>5, <1>7 DEF Creating
<1>9. Answering' /\ Sharing'
  BY <1>4 DEF Answering, Sharing, Protocol, FreshKept
<1> QED
  BY <1>3, <1>8, <1>9 DEF Protocol

\* The context of a creation is found or made.
LEMMA FindContextChannels ==
    ASSUME ChannelInv, UNCHANGED <<scene, wifi>>, NEW ev, FindContext(ev)
    PROVE  Rest'
<1> USE DEF ChannelInv, EndInv
<1>1. /\ ev \in DOMAIN events /\ ev.op = "CREATE" /\ ev.stage = "new" /\ IsEvent(ev)
      /\ UNCHANGED <<agents, channels>>
  BY ReadyEffect DEF FindContext, EventsOK, EventOK
<1>2. CreateOK(ev) /\ ev.agent = scene.agentId
  BY <1>1 DEF Protocol, Creating, CreateOK
<1>3. /\ Protocol' /\ reply'.agent \in {reply.agent, scene.agentId}
      /\ \A e \in DOMAIN events' : e \in DOMAIN events \/ (e.op = "CREATE" /\ e.agent = scene.agentId)
  <2>1. CASE \E ctx : Answer(ev, ctx, ev.agent)
    BY <2>1, <1>1, <1>2, AnswerProtocol
  <2>2. CASE reply' = reply /\ \E ctx, f : /\ f.op = "CREATE" /\ f.kind = ev.kind /\ f.stage = "make"
                                           /\ f.agent = ev.agent /\ Consume(ev, One(f))
    <3>1. PICK f : /\ f.op = "CREATE" /\ f.kind = ev.kind /\ f.stage = "make"
                   /\ f.agent = ev.agent /\ Consume(ev, One(f))
      BY <2>2
    <3>2. Protocol' /\ \A e \in DOMAIN events' : e \in DOMAIN events \/ e = f
      BY <1>1, <1>2, <2>2, <3>1, SameGrows, CreatingProtocol
    <3> QED
      BY <1>2, <2>2, <3>1, <3>2
  <2>3. CASE reply' = reply /\ Advance(ev, "make")
    <3>1. PICK f : f = [ev EXCEPT !.stage = "make"]
      OBVIOUS
    <3>2. f.op = "CREATE" /\ f.kind = ev.kind /\ f.stage = "make" /\ f.agent = ev.agent
      BY <1>1, <3>1 DEF IsEvent, EventFields
    <3>3. Consume(ev, One(f))
      BY <2>3, <3>1 DEF Advance
    <3> QED
      BY <2>2, <2>3, <3>2, <3>3
  <2>4. CASE reply' = reply /\ Consume(ev, One([ev EXCEPT !.ctx = Len(members) + 1, !.stage = "make"]))
    <3>1. PICK f : f = [ev EXCEPT !.ctx = Len(members) + 1, !.stage = "make"]
      OBVIOUS
    <3>2. f.op = "CREATE" /\ f.kind = ev.kind /\ f.stage = "make" /\ f.agent = ev.agent
      BY <1>1, <3>1 DEF IsEvent, EventFields
    <3>3. Consume(ev, One(f))
      BY <2>4, <3>1
    <3> QED
      BY <2>2, <2>4, <3>2, <3>3
  <2> QED
    BY <2>1, <2>3, <2>4 DEF FindContext
<1>4. Bounded'
  BY <1>1, <1>3, BoundedKeeps DEF Bounded, AgentsOK
<1>5. Kinds'
  BY <1>1, SameGrows, KindsKeep
<1>6. DOMAIN members \subseteq DOMAIN members' /\ \A a \in DOMAIN agents : Registered(a)' => Registered(a)
  <2>1. CASE contexts' = contexts /\ members' = members
    BY <1>1, <2>1 DEF Registered
  <2>2. CASE contexts' = contexts \cup {Len(members) + 1} /\ members' = Append(members, {})
    <3>1. /\ DOMAIN members' = DOMAIN members \cup {Len(members) + 1} /\ members'[Len(members) + 1] = {}
          /\ \A c \in DOMAIN members : members'[c] = members[c]
      BY <2>2, AppendNumbered DEF AgentsOK
    <3> QED
      BY <1>1, <2>2, <3>1 DEF Registered, AgentsOK
  <2> QED
    BY <2>1, <2>2 DEF FindContext
<1>7. ChannelsKept'
  BY <1>1, <1>6, SameGrows, ChannelsKeep
<1>8. Ending'
  <2>1. \A e \in DOMAIN events' : e \in DOMAIN events \/ EndingOK(e)'
    BY <1>3 DEF EndingOK
  <2> QED
    BY <1>1, <1>6, <2>1, SameGrows, EndingKeeps
<1> QED
  BY <1>3, <1>4, <1>5, <1>7, <1>8 DEF Rest

\* A new agent has a channel: its own, or that of a SINK agent that nobody marked.
LEMMA MakeAgentChannels ==
    ASSUME ChannelInv, UNCHANGED <<scene, wifi>>, NEW ev, MakeAgent(ev)
    PROVE  Rest'
<1> USE DEF ChannelInv, EndInv
<1>1. /\ ev \in DOMAIN events /\ ev.op = "CREATE" /\ ev.stage = "make" /\ IsEvent(ev)
      /\ UNCHANGED <<contexts, members>>
  BY ReadyEffect DEF MakeAgent, EventsOK, EventOK
<1>2. CreateOK(ev) /\ ev.agent = scene.agentId
  BY <1>1 DEF Protocol, Creating, CreateOK
<1>3. CASE UNCHANGED <<agents, channels>> /\ \E agent \in {InvalidId, ev.agent} : Answer(ev, ev.ctx, agent)
  <2>1. PICK agent \in {InvalidId, scene.agentId} : Answer(ev, ev.ctx, agent)
    BY <1>2, <1>3
  <2>2. Protocol' /\ reply'.agent = agent /\ \A e \in DOMAIN events' : e \in DOMAIN events
    BY <1>1, <1>3, <2>1, AnswerProtocol
  <2>3. Bounded'
    BY <1>3, <2>1, <2>2, BoundedKeeps DEF Bounded, AgentsOK, InvalidId
  <2>4. Kinds' /\ Ending'
    BY <1>1, <1>3, <2>2, SameGrows, KindsKeep, EndingKeeps
  <2>5. ChannelsKept'
    BY <1>1, <1>3, SameGrows, ChannelsKeep DEF Registered
  <2> QED
    BY <2>2, <2>3, <2>4, <2>5 DEF Rest
<1>4. ASSUME NEW x, agents' = Append(agents, x), IsAgent(x), x.kind = ev.kind, ~x.destroy, x.life = "starting",
             \/ /\ x.kind = "SINK" /\ x.channel = Len(agents) + 1 /\ channels' = channels \cup {Len(agents) + 1}
             \/ /\ x.kind = "SRC" /\ x.sink = scene.agentId /\ x.channel = x.sink /\ channels' = channels
                /\ x.sink \in DOMAIN agents /\ agents[x.sink].kind = "SINK" /\ agents[x.sink].ctx = x.ctx,
             reply' = reply, Consume(ev, One([ev EXCEPT !.agent = Len(agents) + 1, !.stage = "emplace"]))
      PROVE  Rest'
  <2>1. PICK n : n = Len(agents) + 1
    OBVIOUS
  <2>2. /\ Numbered(agents') /\ DOMAIN agents' = DOMAIN agents \cup {n}
        /\ agents'[n] = x /\ n \notin DOMAIN agents
        /\ \A b \in DOMAIN agents : agents'[b] = agents[b]
    BY <1>4, <2>1, AppendNumbered DEF AgentsOK
  <2>3. Grows
    BY <2>2 DEF Grows, Stays, AgentsOK
  <2>4. PICK f : f = [ev EXCEPT !.agent = Len(agents) + 1, !.stage = "emplace"]
    OBVIOUS
  <2>5. f.op = "CREATE" /\ f.kind = ev.kind /\ f.stage = "emplace" /\ f.agent = n
    BY <1>1, <2>1, <2>4 DEF IsEvent, EventFields
  <2>6. \A e \in DOMAIN events : e.agent # n
    <3>1. Len(agents) \in Nat
      BY NumberedDomain DEF AgentsOK
    <3> QED
      BY <2>1, <3>1 DEF Bounded
  <2>7. Protocol' /\ \A e \in DOMAIN events' : e \in DOMAIN events \/ e = f
    <3>1. Consume(ev, One(f))
      BY <1>4, <2>4
    <3>2. \A a \in DOMAIN agents : agents'[a].destroy = agents[a].destroy
      BY <2>2
    <3>3. /\ f.agent \in DOMAIN agents' /\ ~agents'[f.agent].destroy /\ agents'[f.agent].kind = f.kind
          /\ f.kind = "SRC" => agents'[f.agent].sink = scene.agentId
      BY <1>4, <2>2, <2>5
    <3> QED
      BY <1>1, <1>4, <2>3, <2>5, <2>6, <3>1, <3>2, <3>3, CreatingProtocol
  <2>8. Bounded'
    <3>1. \A e \in DOMAIN events' : e \in DOMAIN events \/ e.agent \in DOMAIN agents'
      BY <2>2, <2>5, <2>7
    <3> QED
      BY <1>4, <2>2, <3>1, BoundedKeeps DEF Bounded
  <2>9. Kinds'
    <3>1. ASSUME NEW a \in DOMAIN agents
          PROVE  (\/ agents[a].kind = "SINK" /\ SinkOK(a)
                  \/ agents[a].kind = "SRC" /\ SourceOK(a))'
      BY <1>4, <2>2 DEF Kinds, SinkOK, SourceOK
    <3>2. (\/ agents[n].kind = "SINK" /\ SinkOK(n)
           \/ agents[n].kind = "SRC" /\ SourceOK(n))'
      BY <1>4, <2>1, <2>2 DEF SinkOK, SourceOK
    <3> QED
      BY <2>2, <3>1, <3>2 DEF Kinds
  <2>10. ChannelsKept'
    <3> SUFFICES ASSUME NEW a \in DOMAIN agents', agents'[a].kind = "SRC", Registered(a)'
                 PROVE  agents'[agents'[a].sink].life \notin {"doomed", "gone"}
      BY DEF ChannelsKept, Serves
    <3>1. a \in DOMAIN agents
      BY <1>1, <2>2 DEF Registered, AgentsOK
    <3>2. agents[a].kind = "SRC" /\ Registered(a) /\ agents'[a] = agents[a]
      BY <1>1, <2>2, <3>1 DEF Registered
    <3>3. agents[a].sink \in DOMAIN agents /\ agents[agents[a].sink].life \notin {"doomed", "gone"}
      BY <3>1, <3>2 DEF ChannelsKept, Serves, Kinds, SourceOK
    <3> QED
      BY <2>2, <3>2, <3>3
  <2>11. Ending'
    <3>1. \A a \in DOMAIN agents : agents'[a] = agents[a]
      BY <2>2
    <3>2. \A e \in DOMAIN events' : e \in DOMAIN events \/ EndingOK(e)'
      BY <2>5, <2>7 DEF EndingOK
    <3> QED
      BY <1>1, <2>3, <3>1, <3>2, EndingKeeps
  <2> QED
    BY <2>7, <2>8, <2>9, <2>10, <2>11 DEF Rest
<1>5. CASE /\ ev.kind = "SINK"
           /\ agents' = Append(agents, NewAgent("SINK", ev.ctx, InvalidId, Len(agents) + 1))
           /\ channels' = channels \cup {Len(agents) + 1}
           /\ reply' = reply /\ Consume(ev, One([ev EXCEPT !.agent = Len(agents) + 1, !.stage = "emplace"]))
  <2>1. PICK x : x = NewAgent("SINK", ev.ctx, InvalidId, Len(agents) + 1)
    OBVIOUS
  <2>2. IsAgent(x) /\ x.kind = "SINK" /\ ~x.destroy /\ x.life = "starting" /\ x.channel = Len(agents) + 1
    BY <2>1 DEF NewAgent, IsAgent, AgentFields
  <2> QED
    BY <1>4, <1>5, <2>1, <2>2
<1>6. CASE /\ ev.kind # "SINK" /\ ev.ctx \in contexts /\ (ev.kind = "SRC" => MayShare(ev))
           /\ agents' = Append(agents, NewAgent("SRC", ev.ctx, ev.agent, agents[ev.agent].channel))
           /\ channels' = channels
           /\ reply' = reply /\ Consume(ev, One([ev EXCEPT !.agent = Len(agents) + 1, !.stage = "emplace"]))
  <2>1. ev.kind = "SRC" /\ wifi.at = "cast" /\ Fresh(scene.agentId)
    BY <1>2, <1>6 DEF CreateOK, Protocol, Sharing
  <2>2. /\ scene.agentId \in DOMAIN agents /\ agents[scene.agentId].kind = "SINK"
        /\ agents[scene.agentId].channel = scene.agentId
    BY <2>1 DEF Fresh, Kinds, SinkOK
  <2>3. agents[scene.agentId].ctx = ev.ctx
    BY <1>2, <1>6, <2>1 DEF MayShare, AgentsOK
  <2>4. PICK x : x = NewAgent("SRC", ev.ctx, ev.agent, agents[ev.agent].channel)
    OBVIOUS
  <2>5. /\ IsAgent(x) /\ x.kind = "SRC" /\ ~x.destroy /\ x.life = "starting" /\ x.sink = scene.agentId
        /\ x.channel = x.sink /\ x.ctx = ev.ctx
    BY <1>2, <2>2, <2>4 DEF NewAgent, IsAgent, AgentFields
  <2> QED
    BY <1>4, <1>6, <2>1, <2>2, <2>3, <2>4, <2>5
<1> QED
  BY <1>3, <1>5, <1>6 DEF MakeAgent

\* A SRC agent enters its context while its SINK agent is still wanted.
LEMMA EmplaceAgentChannels ==
    ASSUME ChannelInv, UNCHANGED <<scene, wifi>>, NEW ev, EmplaceAgent(ev)
    PROVE  Rest'
<1> USE DEF ChannelInv, EndInv
<1>1. /\ ev \in DOMAIN events /\ ev.op = "CREATE" /\ ev.stage = "emplace" /\ ev.agent \in DOMAIN agents
      /\ UNCHANGED <<contexts, agents, channels>> /\ Answer(ev, ev.ctx, ev.agent)
      /\ members' = [members EXCEPT ![ev.ctx] = @ \cup {ev.agent}]
  BY ReadyEffect DEF EmplaceAgent, EventsOK, EventOK
<1>2. CreateOK(ev)
  BY <1>1 DEF Protocol, Creating
<1>3. Protocol' /\ reply'.agent = ev.agent /\ \A e \in DOMAIN events' : e \in DOMAIN events
  <2>1. wifi.at = "capture" => Fresh(ev.agent)
    BY <1>1, <1>2 DEF CreateOK
  <2> QED
    BY <1>1, <2>1, AnswerProtocol
<1>4. Bounded'
  BY <1>1, <1>3, BoundedKeeps DEF Bounded, AgentsOK
<1>5. Kinds' /\ Ending'
  BY <1>1, <1>3, SameGrows, KindsKeep, EndingKeeps
<1>6. ChannelsKept'
  <2> SUFFICES ASSUME NEW a \in DOMAIN agents, agents[a].kind = "SRC", Registered(a)'
               PROVE  Serves(agents[a].sink)
    BY <1>1 DEF ChannelsKept, Serves
  <2>1. CASE Registered(a)
    BY <2>1 DEF ChannelsKept
  <2>2. CASE a = ev.agent
    <3>1. agents[a].sink = scene.agentId /\ Fresh(scene.agentId)
      BY <1>1, <1>2, <2>2 DEF CreateOK, Protocol, Sharing
    <3>2. SinkOK(scene.agentId) /\ ~agents[scene.agentId].destroy
      BY <3>1 DEF Fresh, Kinds
    <3> QED
      BY <3>1, <3>2 DEF SinkOK, Serves
  <2>3. Registered(a) \/ a = ev.agent
    BY <1>1 DEF Registered
  <2> QED
    BY <2>1, <2>2, <2>3
<1> QED
  BY <1>3, <1>4, <1>5, <1>6 DEF Rest

\* The scene changes no agent and no channel.
LEMMA SceneRest ==
    ASSUME ChannelInv, UNCHANGED <<contexts, members, agents, channels>>, Protocol',
           {scene'.agentId, scene'.dev.agent, reply'.agent} \subseteq 0..Len(agents),
           \A e \in DOMAIN events' : \/ e \in DOMAIN events
                                     \/ e.op \in {"DESTROY", "CREATE"} /\ e.stage = "new" /\ e.agent \in 0..Len(agents)
    PROVE  Rest'
<1> USE DEF ChannelInv, EndInv
<1>1. Bounded'
  BY BoundedKeeps DEF AgentsOK
<1>2. Kinds'
  BY SameGrows, KindsKeep
<1>3. ChannelsKept'
  BY SameGrows, ChannelsKeep DEF Registered
<1>4. Ending'
  <2>1. \A e \in DOMAIN events' : e \in DOMAIN events \/ EndingOK(e)'
    BY DEF EndingOK
  <2> QED
    BY <2>1, SameGrows, EndingKeeps
<1> QED
  BY <1>1, <1>2, <1>3, <1>4 DEF Rest

\* What the scene knows of agents stays when nobody waits for one.
IdleStep == /\ wifi.at = "idle" /\ wifi'.at \in {"idle", "tell"} /\ UNCHANGED <<contexts, members, agents, channels, reply>>
            /\ scene'.agentId = scene.agentId /\ scene'.dev.agent \in {InvalidId, scene.dev.agent}
            /\ \A e \in DOMAIN events' :
                  \/ e \in DOMAIN events
                  \/ e.op = "DESTROY" /\ e.stage = "new" /\ e.agent \in {scene.agentId, scene.dev.agent}
\* The steps that nobody who waits for an agent sees.
LEMMA IdleChannels == ChannelInv /\ IdleStep => Rest'
<1> SUFFICES ASSUME ChannelInv, IdleStep
             PROVE  Rest'
  OBVIOUS
<1>1. ~reply.come /\ \A e \in DOMAIN events : e.op # "CREATE"
  BY DEF ChannelInv, Protocol, Answering, Creating, CreateOK, IdleStep
<1>2. Protocol'
  BY <1>1 DEF Protocol, Answering, Creating, Sharing, IdleStep
<1>3. Len(agents) \in Nat
  BY NumberedDomain DEF ChannelInv, EndInv, AgentsOK
<1>4. {scene'.agentId, scene'.dev.agent, reply'.agent} \subseteq 0..Len(agents)
  BY <1>3 DEF ChannelInv, Bounded, IdleStep, InvalidId
<1>5. \A e \in DOMAIN events' : \/ e \in DOMAIN events
                                \/ e.op \in {"DESTROY", "CREATE"} /\ e.stage = "new" /\ e.agent \in 0..Len(agents)
  BY DEF ChannelInv, Bounded, IdleStep
<1> QED
  BY <1>2, <1>4, <1>5, SceneRest DEF IdleStep

\* The client's calls come while no callback is under way.
LEMMA ClientChannels ==
    ASSUME ChannelInv, Client
    PROVE  Rest'
<1>1. wifi.at = "idle"
  BY DEF ChannelInv, Calmly, Client, HandleStartDiscovery, HandleAddDevice, HandleRemoveDevice,
         HandleDestroyScreenCapture, Release, Call
<1>2. UNCHANGED <<contexts, members, agents, channels, reply, wifi>>
  BY DEF Client, HandleStartDiscovery, HandleAddDevice, HandleRemoveDevice, HandleDestroyScreenCapture, Release, contextVars
<1>3. scene'.agentId = scene.agentId /\ scene'.dev.agent \in {InvalidId, scene.dev.agent}
  <2>1. \/ scene' = scene \/ scene' = [scene EXCEPT !.running = TRUE] \/ scene' = [scene EXCEPT !.exists = FALSE]
        \/ scene' = [scene EXCEPT !.dev = NoDev]
    BY DEF Client, HandleStartDiscovery, HandleAddDevice, HandleRemoveDevice, HandleDestroyScreenCapture, Release
  <2> QED
    BY <2>1 DEF ChannelInv, EndInv, SceneOK, SceneFields, NoDev
<1>4. \A e \in DOMAIN events' :
         e \in DOMAIN events \/ (e.op = "DESTROY" /\ e.stage = "new" /\ e.agent \in {scene.agentId, scene.dev.agent})
  <2>1. \/ events' = events
        \/ Send(Capture)
        \/ Send(DestroyAgent(scene.dev.ctx, scene.dev.agent) (+) (IF CaptureKnown THEN Capture ELSE EmptyBag))
    BY DEF Client, HandleStartDiscovery, HandleAddDevice, HandleRemoveDevice, HandleDestroyScreenCapture, Release, contextVars
  <2>2. \A A, B, e : e \in DOMAIN (A (+) B) => e \in DOMAIN A \/ e \in DOMAIN B
    BY DEF (+)
  <2>3. \A e \in DOMAIN Capture : e.op = "DESTROY" /\ e.stage = "new" /\ e.agent = scene.agentId
    BY SceneSends DEF Capture
  <2> QED
    BY <2>1, <2>2, <2>3, SceneSends, SendEffect, EmptyBagEffect
<1> QED
  BY <1>1, <1>2, <1>3, <1>4, IdleChannels DEF IdleStep

\* What Wi-Fi does by itself changes no agent.
LEMMA WifiChannels ==
    ASSUME ChannelInv, LinkUp \/ LinkDown \/ ModuleStops \/ UNCHANGED vars
    PROVE  Rest'
<1>1. UNCHANGED <<contexts, members, agents, channels, reply, events, scene, wifi>>
  BY DEF LinkUp, LinkDown, ModuleStops, contextVars, sceneVars, vars
<1>2. NoCreate /\ Shrinks
  BY <1>1 DEF NoCreate, Shrinks
<1> QED
  BY <1>1, <1>2, TameStep

\* The callbacks that tell of Wi-Fi come one after the other.
LEMMA NoticeChannels ==
    ASSUME ChannelInv, OnP2pStarted \/ OnP2pClosed \/ OnP2pThisDeviceChanged \/ OnP2pPeerConnected
    PROVE  Rest'
<1>1. /\ wifi.at = "idle" /\ wifi'.at \in {"idle", "tell"}
      /\ UNCHANGED <<contexts, members, agents, channels, reply>>
  BY DEF OnP2pStarted, OnP2pClosed, OnP2pThisDeviceChanged, OnP2pPeerConnected, Notice, Ignored, contextVars, sceneVars
<1>2. scene'.agentId = scene.agentId /\ scene'.dev.agent \in {InvalidId, scene.dev.agent}
  <2>1. PICK d : d = [NoDev EXCEPT !.mac = GroupOwner, !.state = "CONNECTED"]
    OBVIOUS
  <2>2. \/ scene' = scene \/ scene' = [scene EXCEPT !.running = FALSE]
        \/ scene' = [scene EXCEPT !.dev = NoDev]
        \/ scene' = [scene EXCEPT !.dev = d]
    BY <2>1 DEF OnP2pStarted, OnP2pClosed, OnP2pThisDeviceChanged, OnP2pPeerConnected, Ignored, sceneVars
  <2>3. d.agent = InvalidId /\ NoDev.agent = InvalidId
    BY <2>1 DEF NoDev
  <2> QED
    BY <2>2, <2>3 DEF ChannelInv, EndInv, SceneOK, SceneFields
<1>3. \A e \in DOMAIN events' :
         e \in DOMAIN events \/ (e.op = "DESTROY" /\ e.stage = "new" /\ e.agent \in {scene.agentId, scene.dev.agent})
  <2>1. events' = events \/ Send(Capture) \/ Send(EmptyBag)
    BY DEF OnP2pStarted, OnP2pClosed, OnP2pThisDeviceChanged, OnP2pPeerConnected, Ignored, contextVars
  <2>2. \A e \in DOMAIN Capture : e.op = "DESTROY" /\ e.stage = "new" /\ e.agent = scene.agentId
    BY SceneSends DEF Capture
  <2> QED
    BY <2>1, <2>2, SendEffect, EmptyBagEffect
<1> QED
  BY <1>1, <1>2, <1>3, IdleChannels DEF IdleStep

\* The callback asks for an agent, and no other creation is under way.
LEMMA AskChannels ==
    ASSUME ChannelInv, UNCHANGED <<contexts, members, agents, channels, reply, scene>>,
           wifi.at \in {"tell", "append"}, NEW kind, Send(One(CreateEvent(kind, scene.contextId, scene.agentId))),
           \/ wifi'.at = "capture" /\ kind = "SINK"
           \/ wifi'.at = "cast" /\ kind = "SRC" /\ wifi.at = "append"
    PROVE  Rest'
<1>1. ~reply.come /\ \A e \in DOMAIN events : e.op # "CREATE"
  BY DEF ChannelInv, Protocol, Answering, Creating, CreateOK
<1>2. PICK c : c = CreateEvent(kind, scene.contextId, scene.agentId)
  OBVIOUS
<1>3. c.op = "CREATE" /\ c.kind = kind /\ c.stage = "new" /\ c.agent = scene.agentId
  BY <1>2 DEF CreateEvent
<1>4. events'[c] = 1 /\ \A e : e \in DOMAIN events' <=> e \in DOMAIN events \/ e = c
  <2>1. DOMAIN One(c) = {c} /\ One(c)[c] = 1 /\ Send(One(c))
    BY <1>2 DEF One, SetToBag
  <2>2. c \notin DOMAIN events
    BY <1>1, <1>3
  <2> HIDE DEF One
  <2> QED
    BY <2>1, <2>2 DEF Send, (+)
<1>5. Protocol'
  <2>1. CreateOK(c)'
    BY <1>1, <1>3, <1>4 DEF CreateOK
  <2>2. Creating'
    BY <1>1, <1>4, <2>1 DEF Creating
  <2>3. Sharing'
    BY <1>3, <1>4 DEF ChannelInv, Protocol, Sharing, Fresh
  <2> QED
    BY <1>1, <2>2, <2>3 DEF Protocol, Answering
<1>6. Len(agents) \in Nat
  BY NumberedDomain DEF ChannelInv, EndInv, AgentsOK
<1> QED
  BY <1>3, <1>4, <1>5, <1>6, SceneRest DEF ChannelInv, Bounded

\* The answer is taken, and nothing is created any more.
LEMMA TakeAnswerChannels ==
    ASSUME ChannelInv, ScreenCaptureCreated \/ CastAppended
    PROVE  Rest'
<1>1. UNCHANGED <<contexts, members, agents, channels, events>> /\ reply' = NoReply
  BY DEF ScreenCaptureCreated, CastAppended
<1>2. reply.come
  BY DEF ChannelInv, Calmly, ScreenCaptureCreated, CastAppended, Answered, TimesOut
<1>3. \A e \in DOMAIN events : e.op # "CREATE"
  BY <1>2 DEF ChannelInv, Protocol, Creating, CreateOK
<1>4. reply'.come = FALSE /\ reply'.agent = InvalidId
  BY <1>1 DEF NoReply
<1>5. Len(agents) \in Nat /\ {scene.agentId, scene.dev.agent, reply.agent} \subseteq 0..Len(agents)
  BY NumberedDomain DEF ChannelInv, EndInv, AgentsOK, Bounded
<1>6. PICK ctx, agent : ctx = reply.ctx /\ agent = CreatedAgent(scene.agentId)
  OBVIOUS
<1>7. agent \in 0..Len(agents) /\ (agent # InvalidId => agent = reply.agent /\ agent # scene.agentId)
  BY <1>5, <1>6 DEF CreatedAgent, InvalidId
<1>8. CASE ScreenCaptureCreated
  <2>1. /\ wifi.at = "capture" /\ scene' = [scene EXCEPT !.contextId = ctx, !.agentId = agent]
        /\ \/ agent # InvalidId
           \/ wifi'.at = "idle"
    BY <1>2, <1>6, <1>8 DEF ScreenCaptureCreated
  <2>2. scene'.agentId = agent /\ scene'.dev.agent = scene.dev.agent
    BY <2>1 DEF ChannelInv, EndInv, SceneOK, SceneFields
  <2>3. agent # InvalidId => Fresh(agent)
    BY <1>2, <1>7, <2>1 DEF ChannelInv, Protocol, Answering
  <2>4. Sharing'
    BY <1>1, <2>1, <2>2, <2>3 DEF Sharing, Fresh
  <2>5. Protocol'
    BY <1>1, <1>3, <1>4, <2>4 DEF Protocol, Creating, Answering
  <2> QED
    BY <1>1, <1>4, <1>5, <1>7, <2>2, <2>5, SceneRest DEF InvalidId
<1>9. CASE CastAppended
  <2>1. scene' = [scene EXCEPT !.dev.ctx = ctx, !.dev.agent = agent] \/ scene' = scene
    BY <1>2, <1>6, <1>9 DEF CastAppended
  <2>2. scene'.agentId = scene.agentId /\ scene'.dev.agent \in {agent, scene.dev.agent}
    BY <2>1 DEF ChannelInv, EndInv, SceneOK, SceneFields, DevFields
  <2>3. wifi'.at = "idle"
    BY <1>9 DEF CastAppended, Return
  <2>4. Protocol'
    BY <1>1, <1>3, <1>4, <2>3 DEF Protocol, Creating, Answering, Sharing
  <2> QED
    BY <1>1, <1>4, <1>5, <1>7, <2>2, <2>4, SceneRest DEF InvalidId
<1> QED
  BY <1>8, <1>9

\* The sections of the callback that connects a device.
LEMMA ConnectChannels ==
    ASSUME ChannelInv, CreateScreenCapture \/ ScreenCaptureCreated \/ AppendCast \/ CastAppended
    PROVE  Rest'
<1>1. CASE CreateScreenCapture
  <2>1. wifi'.at = "capture"
    BY <1>1 DEF CreateScreenCapture, ChannelInv, WifiOK
  <2> QED
    BY <1>1, <2>1, AskChannels DEF CreateScreenCapture
<1>2. CASE AppendCast /\ Send(One(CreateEvent("SRC", scene.contextId, scene.agentId))) /\ wifi' = [wifi EXCEPT !.at = "cast"]
  <2>1. wifi'.at = "cast"
    BY <1>2 DEF ChannelInv, WifiOK
  <2> QED
    BY <1>2, <2>1, AskChannels DEF AppendCast
<1>3. CASE AppendCast /\ events' = events /\ Return
  <2>1. UNCHANGED <<contexts, members, agents, channels, reply, scene, events>> /\ wifi.at = "append" /\ wifi'.at = "idle"
    BY <1>3 DEF AppendCast, Return
  <2>2. ~reply.come /\ \A e \in DOMAIN events : e.op # "CREATE"
    BY <2>1 DEF ChannelInv, Protocol, Answering, Creating, CreateOK
  <2>3. Protocol'
    BY <2>1, <2>2 DEF Protocol, Creating, Answering, Sharing
  <2>4. {scene'.agentId, scene'.dev.agent, reply'.agent} \subseteq 0..Len(agents)
    BY <2>1 DEF ChannelInv, Bounded
  <2> QED
    BY <2>1, <2>3, <2>4, SceneRest
<1> QED
  BY <1>1, <1>2, <1>3, TakeAnswerChannels DEF AppendCast

\* Every step keeps what is known of channels.
LEMMA NextChannels ==
    ASSUME ChannelInv, [Next]_vars
    PROVE  ChannelInv'
<1>1. EndInv'
  BY NextEnd DEF ChannelInv
<1>2. Calmly'
  <2>1. allow' = allow
    BY DEF Next, Workers, HandleAgentDestroyed, HandleError, Callbacks, OnP2pStarted, OnP2pClosed, OnP2pThisDeviceChanged,
           OnP2pPeerConnected, Ignored, CreateScreenCapture, ScreenCaptureCreated, AppendCast, CastAppended, Client,
           HandleStartDiscovery, HandleRemoveDevice, HandleDestroyScreenCapture, Release, HandleAddDevice, Peers,
           LinkUp, LinkDown, ModuleStops, sceneVars, vars
  <2> QED
    BY <2>1 DEF ChannelInv, Calmly
<1>3. WifiOK'
  <2>1. \/ wifi' = wifi \/ \E x : wifi' = [wifi EXCEPT !.at = x] \/ \E y, z : wifi' = [at |-> y, mac |-> z]
    BY DEF Next, Workers, HandleAgentDestroyed, HandleError, Callbacks, OnP2pStarted, OnP2pClosed, OnP2pThisDeviceChanged,
           OnP2pPeerConnected, Ignored, CreateScreenCapture, ScreenCaptureCreated, AppendCast, CastAppended, Return, Client,
           HandleStartDiscovery, HandleRemoveDevice, HandleDestroyScreenCapture, Release, HandleAddDevice, Peers,
           LinkUp, LinkDown, ModuleStops, sceneVars, vars
  <2> QED
    BY <2>1 DEF ChannelInv, WifiOK
<1>4. Rest'
  <2>1. CASE HandleContextEvent /\ UNCHANGED <<p2pVars, sceneVars>>
    <3>1. UNCHANGED <<scene, wifi>>
      BY <2>1 DEF sceneVars
    <3> QED
      BY <2>1, <3>1, FindContextChannels, MakeAgentChannels, EmplaceAgentChannels, HandleAgentDestroyChannels,
         CheckSourcesChannels, CheckNeedDestroySinkChannels, AwayChannels, MediaChannelChannels DEF HandleContextEvent
  <2>2. CASE (AgentRuns /\ UNCHANGED <<p2pVars, sceneVars>>) \/ Peers
    BY <2>2, PeersChannels DEF AgentRuns, Peers, sceneVars
  <2>3. CASE \E ev \in BagToSet(events) : HandleAgentDestroyed(ev) \/ HandleError(ev)
    BY <2>3, ReportChannels
  <2>4. CASE Client
    BY <2>4, ClientChannels
  <2>5. CASE Callbacks
    BY <2>5, NoticeChannels, ConnectChannels DEF Callbacks
  <2>6. CASE LinkUp \/ LinkDown \/ ModuleStops \/ UNCHANGED vars
    BY <2>6, WifiChannels
  <2> QED
    BY <2>1, <2>2, <2>3, <2>4, <2>5, <2>6 DEF Next, Workers
<1> QED
  BY <1>1, <1>2, <1>3, <1>4 DEF ChannelInv, Rest

\* At first nobody waits for anything.
LEMMA InitChannels == Calm /\ Init => ChannelInv
<1> SUFFICES ASSUME Calm, Init
             PROVE  ChannelInv
  OBVIOUS
<1>1. EndInv
  BY InitEnd
<1>2. Calmly
  BY DEF Calm, Calmly, Init
<1>3. Len(agents) \in Nat
  BY <1>1, NumberedDomain DEF EndInv, AgentsOK
<1>4. Bounded
  BY <1>3, EmptyBagEffect DEF Init, InitContexts, NoReply, NoDev, InvalidId, Bounded
<1>5. WifiOK
  BY DEF Init, WifiOK
<1>6. Kinds /\ ChannelsKept
  <2>1. DOMAIN agents = {}
    BY DEF Init, InitContexts
  <2> QED
    BY <2>1 DEF Kinds, ChannelsKept
<1>7. Protocol /\ Ending
  BY EmptyBagEffect DEF Init, InitContexts, NoReply, Protocol, Creating, Answering, Sharing, Ending
<1> QED
  BY <1>1, <1>2, <1>4, <1>5, <1>6, <1>7 DEF ChannelInv

\* Every agent in a context has its media channel: the channel goes with its SINK agent, and that
\* waits for the SRC agents that share it (CheckNeedDestroySink), for any agents, failures of a
\* cast, destroys and links, as long as a call of the client or a late answer does not come between
\* the creation of the capture and that of the cast, and the capture does not fail.
THEOREM SharedChannelStays ==
    ASSUME Calm
    PROVE  Spec => []SharedChannelLives
<1>1. Init => ChannelInv
  BY InitChannels
<1>2. ChannelInv /\ [Next]_vars => ChannelInv'
  BY NextChannels
<1>3. ChannelInv => SharedChannelLives
  <2> SUFFICES ASSUME ChannelInv, NEW a \in Live
               PROVE  agents[a].channel \in channels
    BY DEF SharedChannelLives
  <2>1. a \in DOMAIN agents /\ Registered(a) /\ agents[a].life # "gone"
    BY DEF Live
  <2>2. CASE agents[a].kind = "SINK" /\ SinkOK(a)
    BY <2>1, <2>2 DEF SinkOK
  <2>3. CASE agents[a].kind = "SRC" /\ SourceOK(a)
    <3>1. /\ agents[a].sink \in DOMAIN agents /\ agents[agents[a].sink].kind = "SINK"
          /\ agents[a].channel = agents[a].sink /\ agents[agents[a].sink].life # "gone"
      BY <2>1, <2>3 DEF ChannelInv, ChannelsKept, Serves, SourceOK
    <3> QED
      BY <3>1 DEF ChannelInv, Kinds, SinkOK
  <2> QED
    BY <2>1, <2>2, <2>3 DEF ChannelInv, Kinds
<1> QED
  BY <1>1, <1>2, <1>3, PTL DEF Spec
=============================================================================
