---------------------------- MODULE WfdSinkScene ----------------------------
(***************************************************************************)
(* The scene of a sink: which sources are connected, which agent serves    *)
(* each of them and on which surfaces they are shown                       *)
(* (src/services/sink/impl/scene/wfd/wfd_sink_scene.cpp), with the way     *)
(* Interaction hands the events of agents to it                            *)
(* (src/services/interaction/interaction.cpp).                             *)
(*                                                                         *)
(* Requests of the client run on Clients, events on Workers and the        *)
(* callbacks of the Wi-Fi service, one at a time, on the thread "wifi".    *)
(* What a handler does under mutex_ is one step.  Where it gives mutex_    *)
(* back and goes on, job[t] is what thread t has still to do.              *)
(*                                                                         *)
(* Left out, since nothing here depends on it: addresses, names and media  *)
(* formats of a device, what the client is told, the listen mode and the   *)
(* trust list of Wi-Fi P2P.  currentConnectDev_ is not kept either: the    *)
(* Wi-Fi service may name any device in it at any time, so the callbacks   *)
(* that read it are for any device.  A request that is refused changes     *)
(* nothing and is not a step.                                              *)
(***************************************************************************)
EXTENDS Integers, FiniteSets

CONSTANTS Devices,            \* MAC addresses of sources
          Surfaces,           \* identifiers of surfaces
          Clients,            \* binder threads
          Workers,            \* event threads
          AccessDevMaximum, SurfaceMaximum, ForegroundMaximum,
          MaxAgents,          \* bound: agents that are created in a behaviour
          MaxRemoves,         \* bound: answers to HandleRemoveSurface that wait at a time
          MaxTrouble          \* bound: errors and teardowns that sessions report

ASSUME SceneAssumption == /\ {AccessDevMaximum, SurfaceMaximum, ForegroundMaximum} \subseteq Nat
                          /\ {MaxAgents, MaxRemoves, MaxTrouble} \subseteq Nat
                          /\ Clients \cap Workers = {} /\ "wifi" \notin Clients \cup Workers

VARIABLES isSinkRunning,
          devConnectionMap,   \* device -> its agent and whether it plays
          devSurfaceItemMap,  \* surface -> device and agent it was appended for, and whether the
                              \* agent was sent it (AppendSurface)
          agents,             \* what becomes of each agent, in the context
          events,             \* events for the interaction that no worker has taken
          troubles,           \* how often sessions have failed
          job,                \* what each thread has still to do
          released,           \* the scene is destroyed
          torn                \* agents that OnInnerDestroy met changed after its gap

vars == <<isSinkRunning, devConnectionMap, devSurfaceItemMap, agents, events,
          troubles, job, released, torn>>

Threads == Clients \cup Workers \cup {"wifi"}
AgentIds == 1..MaxAgents
INVALID_ID == 0
NoDevice == "none"
NoEntry == [agentId |-> INVALID_ID, isRunning |-> FALSE]
NoItem == [deviceId |-> NoDevice, agentId |-> INVALID_ID, deleting |-> FALSE, foreground |-> FALSE,
           shown |-> FALSE]

Job(op, dev, agent, flag) == [op |-> op, dev |-> dev, agent |-> agent, flag |-> flag]
Idle == Job("idle", NoDevice, INVALID_ID, FALSE)

Connected == {d \in Devices : devConnectionMap[d] # NoEntry}
Items == {s \in Surfaces : devSurfaceItemMap[s] # NoItem}
Usable == {s \in Items : ~devSurfaceItemMap[s].deleting}
Foreground == {s \in Items : devSurfaceItemMap[s].foreground}

Init == /\ isSinkRunning = FALSE
        /\ devConnectionMap = [d \in Devices |-> NoEntry]
        /\ devSurfaceItemMap = [s \in Surfaces |-> NoItem]
        /\ agents = [a \in AgentIds |-> [dev |-> NoDevice, state |-> "none"]]
        /\ events = {}
        /\ troubles = 0
        /\ job = [t \in Threads |-> Idle]
        /\ released = FALSE
        /\ torn = {}

-----------------------------------------------------------------------------
(* Parts of handlers *)

\* A thread that has nothing to do begins a handler of the scene.
Begin(t) == job[t] = Idle /\ ~released
Then(t, rest) == job' = [job EXCEPT ![t] = rest]

DestroyJob(a) == Job("DestroyAgent", NoDevice, a, FALSE)

\* Interaction::DestroyAgent: the agent is told; a second call finds it on its way.
Destroy(as) == agents' = [a \in AgentIds |->
                            IF a \in as /\ agents[a].state = "alive" THEN [agents[a] EXCEPT !.state = "dying"]
                                                                     ELSE agents[a]]

\* Variant with a fault: the surfaces of the device stay as they are.
UnmarkedSurfaces(d) == devSurfaceItemMap

MarkedSurfaces(d) == [s \in Surfaces |-> IF s \in Items /\ devSurfaceItemMap[s].deviceId = d
                                         THEN [devSurfaceItemMap[s] EXCEPT !.deleting = TRUE]
                                         ELSE devSurfaceItemMap[s]]

Erased(d) == [devConnectionMap EXCEPT ![d] = NoEntry]

\* The part under mutex_ of HandleClose and of both OnP2pPeerDisconnected: the surfaces of the
\* device are marked and the device leaves the map.
Disconnect(d) == devSurfaceItemMap' = MarkedSurfaces(d) /\ devConnectionMap' = Erased(d)

\* WfdP2pStop and Release: every agent is destroyed, every client removed, both maps cleared.
ClearAll ==
    /\ Destroy({devConnectionMap[d].agentId : d \in Connected})
    /\ devConnectionMap' = [d \in Devices |-> NoEntry]
    /\ devSurfaceItemMap' = [s \in Surfaces |-> NoItem]

-----------------------------------------------------------------------------
(* Start, stop and the end of the scene *)

HandleStart(t) ==
    /\ t \in Clients /\ Begin(t)
    /\ ~isSinkRunning
    /\ isSinkRunning' = TRUE
    /\ UNCHANGED <<devConnectionMap, devSurfaceItemMap, agents, events,
                   troubles, job, released, torn>>

\* HandleStop, or OnP2pStateChanged with P2P_STATE_CLOSED: the flag first, then WfdP2pStop.
HandleStop(t) ==
    /\ t \in Clients \cup {"wifi"} /\ Begin(t)
    /\ isSinkRunning
    /\ isSinkRunning' = FALSE
    /\ Then(t, Job("WfdP2pStop", NoDevice, INVALID_ID, FALSE))
    /\ UNCHANGED <<devConnectionMap, devSurfaceItemMap, agents, events,
                   troubles, released, torn>>

WfdP2pStop(t) ==
    /\ job[t].op = "WfdP2pStop"
    /\ ClearAll
    /\ Then(t, Idle)
    /\ UNCHANGED <<isSinkRunning, events, troubles, released, torn>>

\* The destructor of the scene: no handler holds a reference any more.
Release ==
    /\ ~released /\ \A t \in Threads : job[t] = Idle
    /\ released' = TRUE
    /\ ClearAll
    /\ UNCHANGED <<isSinkRunning, events, troubles, job, torn>>

-----------------------------------------------------------------------------
(* Requests of the client *)

\* Variant with a fault: surfaces that are being deleted do not count.
ForegroundLooksFree == Cardinality(Foreground \cap Usable) < ForegroundMaximum

ForegroundIsFree == Cardinality(Foreground) < ForegroundMaximum

HandleAppendSurface(t, d, s) ==
    /\ t \in Clients /\ Begin(t)
    /\ d \in Connected
    /\ Cardinality(Usable) < SurfaceMaximum
    /\ s \notin Items
    /\ \A u \in Usable : devSurfaceItemMap[u].deviceId # d
    /\ devSurfaceItemMap' = [devSurfaceItemMap EXCEPT ![s] =
           [deviceId |-> d, agentId |-> devConnectionMap[d].agentId, deleting |-> FALSE,
            foreground |-> ForegroundIsFree, shown |-> devConnectionMap[d].isRunning]]
    /\ UNCHANGED <<isSinkRunning, devConnectionMap, agents, events, troubles, job,
                   released, torn>>

\* The channel of the agent answers each call, also the second one for a surface.
HandleRemoveSurface(t, d, s) ==
    /\ t \in Clients /\ Begin(t)
    /\ d \in Connected /\ s \in Items
    /\ devSurfaceItemMap[s].deviceId = d
    /\ Cardinality({e \in events : e.type = "REMOVE_SURFACE"}) < MaxRemoves
    /\ events' = events \cup {[type |-> "REMOVE_SURFACE", agent |-> INVALID_ID, arg |-> s]}
    /\ UNCHANGED <<isSinkRunning, devConnectionMap, devSurfaceItemMap, agents,
                   troubles, job, released, torn>>

HandleSetSceneType(t, d, s, foreground) ==
    /\ t \in Clients /\ Begin(t)
    /\ d \in Connected /\ s \in Usable
    /\ devSurfaceItemMap[s].deviceId = d
    /\ foreground => Cardinality(Foreground \ {s}) + 1 <= ForegroundMaximum
    /\ devSurfaceItemMap' = [devSurfaceItemMap EXCEPT ![s].foreground = foreground]
    /\ UNCHANGED <<isSinkRunning, devConnectionMap, agents, events, troubles,
                   job, released, torn>>

\* The first HandlePlay of a device; later ones only resume.
HandlePlay(t, d) ==
    /\ t \in Clients /\ Begin(t)
    /\ d \in Connected /\ ~devConnectionMap[d].isRunning
    /\ devConnectionMap' = [devConnectionMap EXCEPT ![d].isRunning = TRUE]
    /\ Then(t, Job("play", d, devConnectionMap[d].agentId, FALSE))
    /\ UNCHANGED <<isSinkRunning, devSurfaceItemMap, agents, events, troubles,
                   released, torn>>

\* Variant with a fault: only surfaces in the foreground are sent.
SomeToSend(d) == {s \in Usable \cap Foreground : devSurfaceItemMap[s].deviceId = d}

ToSend(d) == {s \in Usable : devSurfaceItemMap[s].deviceId = d}

\* The rest of HandlePlay, without mutex_: the session is initialised and started and the
\* surfaces of the device are sent to the agent, which shows those that are its own.  When the device has left the map meanwhile,
\* its iterator is dead and any surfaces may be taken for its own; they go to an agent that
\* serves no device.
HandlePlayRest(t) ==
    /\ job[t].op = "play"
    /\ devSurfaceItemMap' = [s \in Surfaces |->
                               IF s \in ToSend(job[t].dev) /\ devSurfaceItemMap[s].agentId = job[t].agent
                               THEN [devSurfaceItemMap[s] EXCEPT !.shown = TRUE]
                               ELSE devSurfaceItemMap[s]]
    /\ Then(t, Idle)
    /\ UNCHANGED <<isSinkRunning, devConnectionMap, agents, events, troubles,
                   released, torn>>

HandleClose(t, d) ==
    /\ t \in Clients /\ Begin(t)
    /\ d \in Connected
    /\ Disconnect(d)
    /\ Then(t, DestroyJob(devConnectionMap[d].agentId))
    /\ UNCHANGED <<isSinkRunning, agents, events, troubles, released, torn>>

DestroyAgent(t) ==
    /\ job[t].op = "DestroyAgent"
    /\ Destroy({job[t].agent})
    /\ Then(t, Idle)
    /\ UNCHANGED <<isSinkRunning, devConnectionMap, devSurfaceItemMap, events,
                   troubles, released, torn>>

-----------------------------------------------------------------------------
(* Callbacks of the Wi-Fi service *)

\* P2P_DISCONNECTED and OnWifiAbilityDied, for the device that currentConnectDev_ holds, and
\* PDS_AVAILABLE.
OnP2pDisconnected(d) ==
    /\ Begin("wifi")
    /\ Then("wifi", Job("OnP2pPeerDisconnected", d, INVALID_ID, FALSE))
    /\ UNCHANGED <<isSinkRunning, devConnectionMap, devSurfaceItemMap, agents, events, troubles,
                   released, torn>>

\* OnP2pGcJoinGroup for a client of the group of the sink; P2P_CONNECTED for the owner of the
\* group, which currentConnectDev_ holds, when the sink is a client of it.
OnP2pGcJoinGroup(d) ==
    /\ Begin("wifi")
    /\ isSinkRunning
    /\ Then("wifi", Job("OnP2pPeerConnected", d, INVALID_ID, FALSE))
    /\ UNCHANGED <<isSinkRunning, devConnectionMap, devSurfaceItemMap, agents, events, troubles,
                   released, torn>>

\* The part of OnP2pPeerDisconnected(mac) under mutex_.
OnP2pPeerDisconnected(t) ==
    LET d == job[t].dev
    IN  /\ job[t].op = "OnP2pPeerDisconnected"
        /\ IF d \in Connected
           THEN Disconnect(d) /\ Then(t, DestroyJob(devConnectionMap[d].agentId))
           ELSE Then(t, Idle) /\ UNCHANGED <<devConnectionMap, devSurfaceItemMap>>
        /\ UNCHANGED <<isSinkRunning, agents, events, troubles, released, torn>>

\* CreateSinkAgentLocked, when the agent is created.
CreateSinkAgentLocked(d) ==
    \E a \in AgentIds :
        /\ agents[a].state = "none" /\ \A b \in AgentIds : b < a => agents[b].state # "none"
        /\ agents' = [agents EXCEPT ![a] = [dev |-> d, state |-> "alive"]]
        /\ devConnectionMap' = [devConnectionMap EXCEPT ![d] = [agentId |-> a, isRunning |-> FALSE]]

\* Variants with a fault: the flag is not asked again; a second agent for a connected device.
WelcomeThoughStopped(d) == Cardinality(Connected) < AccessDevMaximum /\ d \notin Connected
WelcomeTwice(d) == isSinkRunning /\ Cardinality(Connected) < AccessDevMaximum

Welcome(d) == isSinkRunning /\ Cardinality(Connected) < AccessDevMaximum /\ d \notin Connected

\* OnP2pPeerConnected from mutex_ on: the flag is asked again under the lock.  A device that is
\* connected already, or that no agent is created for, is ignored; one too many is rejected.
OnP2pPeerConnected(t) ==
    /\ job[t].op = "OnP2pPeerConnected"
    /\ \/ Welcome(job[t].dev) /\ CreateSinkAgentLocked(job[t].dev)
       \/ UNCHANGED <<agents, devConnectionMap>>
    /\ Then(t, Idle)
    /\ UNCHANGED <<isSinkRunning, devSurfaceItemMap, events, troubles, released, torn>>

-----------------------------------------------------------------------------
(* Agents and their events *)

\* The session of an agent fails with a network error, or its source sends TEARDOWN; what the
\* scene is told of a teardown is the mac.
AgentReports(a) ==
    /\ agents[a].state \in {"alive", "dying"}
    /\ troubles < MaxTrouble
    /\ troubles' = troubles + 1
    /\ \E e \in {[type |-> "MSG_ERROR", agent |-> a, arg |-> NoDevice],
                 [type |-> "RTSP_TEARDOWN", agent |-> a, arg |-> agents[a].dev]} :
          events' = events \cup {e}
    /\ UNCHANGED <<isSinkRunning, devConnectionMap, devSurfaceItemMap, agents,
                   job, released, torn>>

\* The context has destroyed the agent and says so.
AgentDestroyed(a) ==
    /\ agents[a].state = "dying"
    /\ agents' = [agents EXCEPT ![a].state = "gone"]
    /\ events' = events \cup {[type |-> "AGENT_DESTROYED", agent |-> a, arg |-> NoDevice]}
    /\ UNCHANGED <<isSinkRunning, devConnectionMap, devSurfaceItemMap, troubles,
                   job, released, torn>>

\* OnInnerDestroy up to its gap: the surfaces of the agent go; the client is told of the device
\* without mutex_.  After an error Interaction destroys the agent.
OnInnerDestroy(t, a, isError) ==
    LET served == {d \in Connected : devConnectionMap[d].agentId = a}
    IN  /\ devSurfaceItemMap' = [s \in Surfaces |-> IF devSurfaceItemMap[s].agentId = a THEN NoItem
                                                                                   ELSE devSurfaceItemMap[s]]
        /\ IF served # {} THEN \E d \in served : Then(t, Job("OnInnerDestroy", d, a, isError))
           ELSE Then(t, IF isError THEN DestroyJob(a) ELSE Idle)
        /\ UNCHANGED <<devConnectionMap>>

\* The rest of OnInnerDestroy.  When the entry was erased in the gap, its node is freed memory:
\* the mac that is read from it names the device, also if it is connected anew, or nothing.
OnInnerDestroyRest(t) ==
    LET d == job[t].dev
        a == job[t].agent
        current == devConnectionMap[d].agentId
        late == {b \in {a} : \E s \in Usable : devSurfaceItemMap[s].agentId = b}
        erase == /\ devConnectionMap' = Erased(d)
                 /\ torn' = torn \cup late \cup ({current} \ {a, INVALID_ID})
    IN  /\ job[t].op = "OnInnerDestroy"
        /\ erase \/ (current # a /\ UNCHANGED <<devConnectionMap, torn>>)
        /\ Then(t, IF job[t].flag THEN DestroyJob(a) ELSE Idle)
        /\ UNCHANGED <<isSinkRunning, devSurfaceItemMap, agents, events, troubles, released>>

\* OnInnerEvent with EVENT_INTERACTION_STATE_REMOVE_SURFACE: whoever has the surface now.
OnRemoveSurface(s) ==
    /\ devSurfaceItemMap' = [devSurfaceItemMap EXCEPT ![s] = NoItem]
    /\ UNCHANGED <<devConnectionMap, job>>

\* OnInnerEvent with EVENT_WFD_NOTIFY_RTSP_TEARDOWN.
OnTeardown(t, d) ==
    /\ Then(t, Job("OnP2pPeerDisconnected", d, INVALID_ID, FALSE))
    /\ UNCHANGED <<devConnectionMap, devSurfaceItemMap>>

\* Interaction::HandleEvent on a worker; events are taken in any order.
HandleEvent(t, e) ==
    /\ t \in Workers /\ Begin(t)
    /\ e \in events
    /\ events' = events \ {e}
    /\ \/ e.type = "MSG_ERROR" /\ OnInnerDestroy(t, e.agent, TRUE)
       \/ e.type = "AGENT_DESTROYED" /\ OnInnerDestroy(t, e.agent, FALSE)
       \/ e.type = "REMOVE_SURFACE" /\ OnRemoveSurface(e.arg)
       \/ e.type = "RTSP_TEARDOWN" /\ OnTeardown(t, e.arg)
    /\ UNCHANGED <<isSinkRunning, agents, troubles, released, torn>>

-----------------------------------------------------------------------------
GoOn(t) == \/ WfdP2pStop(t) \/ HandlePlayRest(t) \/ DestroyAgent(t)
           \/ OnP2pPeerDisconnected(t) \/ OnP2pPeerConnected(t)
           \/ OnInnerDestroyRest(t)

Request(t) == \/ HandleStart(t) \/ HandleStop(t)
              \/ \E d \in Devices :
                    \/ HandlePlay(t, d) \/ HandleClose(t, d)
                    \/ \E s \in Surfaces :
                          \/ HandleAppendSurface(t, d, s) \/ HandleRemoveSurface(t, d, s)
                          \/ \E f \in BOOLEAN : HandleSetSceneType(t, d, s, f)

Wifi == \E d \in Devices : OnP2pDisconnected(d) \/ OnP2pGcJoinGroup(d)

Next == \/ \E t \in Threads : GoOn(t) \/ Request(t) \/ \E e \in events : HandleEvent(t, e)
        \/ Wifi
        \/ Release
        \/ \E a \in AgentIds : AgentReports(a) \/ AgentDestroyed(a)

Spec == Init /\ [][Next]_vars

-----------------------------------------------------------------------------
(* Properties *)

EntryType == [agentId : AgentIds \cup {INVALID_ID}, isRunning : BOOLEAN]
ItemType == [deviceId : Devices \cup {NoDevice}, agentId : AgentIds \cup {INVALID_ID},
             deleting : BOOLEAN, foreground : BOOLEAN, shown : BOOLEAN]

\* Types; each device in devConnectionMap_ has an agent of its own, made for it.
TypeOK == /\ isSinkRunning \in BOOLEAN /\ released \in BOOLEAN
          /\ devConnectionMap \in [Devices -> EntryType]
          /\ \A d \in Connected : /\ devConnectionMap[d].agentId \in AgentIds
                                  /\ agents[devConnectionMap[d].agentId].dev = d
          /\ devSurfaceItemMap \in [Surfaces -> ItemType]
          /\ agents \in [AgentIds -> [dev : Devices \cup {NoDevice},
                                      state : {"none", "alive", "dying", "gone"}]]
          /\ torn \subseteq AgentIds /\ troubles \in 0..MaxTrouble

\* A sink that is stopped, by HandleStop or since P2P was closed, has no device and no surface
\* left, whatever peer was being accepted meanwhile.
StoppedIsEmpty == (~isSinkRunning /\ \A t \in Threads : job[t].op # "WfdP2pStop")
                      => Connected = {} /\ Items = {}

\* The three limits of the configuration, and one surface in use for each device; surfaces on
\* their way out still count as shown in the foreground.
WithinLimits == /\ Cardinality(Connected) <= AccessDevMaximum
                /\ Cardinality(Usable) <= SurfaceMaximum
                /\ Cardinality(Foreground) <= ForegroundMaximum
                /\ \A s, u \in Usable : s # u => devSurfaceItemMap[s].deviceId # devSurfaceItemMap[u].deviceId

\* A surface that is in use belongs to a connected device and to the agent that serves it now,
\* unless it was appended, or its device erased, in the gap of OnInnerDestroy.
SurfacesHaveDevice == \A s \in Usable :
    LET item == devSurfaceItemMap[s]
    IN  item.agentId \notin torn => devConnectionMap[item.deviceId].agentId = item.agentId

\* While a device plays, its surface is with its agent, whether HandlePlay or
\* HandleAppendSurface came first.
PlayingIsShown == \A s \in Usable :
    LET d == devSurfaceItemMap[s].deviceId
        a == devSurfaceItemMap[s].agentId
    IN  (/\ devConnectionMap[d] = [agentId |-> a, isRunning |-> TRUE]
         /\ \A t \in Threads : job[t].op = "play" => job[t].agent # a)
        => devSurfaceItemMap[s].shown

\* An agent whose device is not in the map is destroyed, by the handler that took the device
\* out and has not ended; and what the map of surfaces still says of an agent that is gone, the
\* event of its destruction will erase.  So it is however the device went: closed, stopped,
\* disconnected, torn down or failed, except if OnInnerDestroy erased it after its gap.
NothingLeftBehind == \A a \in AgentIds : (\A d \in Devices : devConnectionMap[d].agentId # a) =>
    /\ agents[a].state = "alive"
           => a \in torn \/ \E t \in Threads : /\ job[t].agent = a
                                            /\ (job[t].op = "DestroyAgent" \/ job[t].flag)
    /\ agents[a].state = "gone" /\ (\E s \in Surfaces : devSurfaceItemMap[s].agentId = a)
           => \E e \in events : e.type = "AGENT_DESTROYED" /\ e.agent = a
=============================================================================
