--------------------------- MODULE WfdSinkSceneProofs ---------------------------
(***************************************************************************)
(* What the scene of a sink guarantees for any number of devices, surfaces *)
(* and threads.  Each property is proved from SceneInv, the conjunction of *)
(* the clauses below, which the properties themselves are parts of.        *)
(***************************************************************************)
EXTENDS WfdSinkScene, FiniteSetTheorems, TLAPS

Ops == {"idle", "WfdP2pStop", "DestroyAgent", "play", "OnP2pPeerDisconnected",
        "OnP2pPeerConnected", "OnInnerDestroy"}
JobType == [op : Ops, dev : Devices \cup {NoDevice}, agent : AgentIds \cup {INVALID_ID}, flag : BOOLEAN]

\* What a thread has still to do names the device and the agent its handler was about.
JobFits(j) == /\ j \in JobType
              /\ j.op \in {"play", "OnInnerDestroy", "OnP2pPeerDisconnected", "OnP2pPeerConnected"}
                    => j.dev \in Devices
              /\ j.op \in {"play", "OnInnerDestroy"}
                    => j.agent \in AgentIds /\ agents[j.agent].state # "none" /\ agents[j.agent].dev = j.dev
              /\ j.op = "OnInnerDestroy" <=> j.flag
              /\ j.op = "DestroyAgent" => j.agent \in AgentIds /\ agents[j.agent].state # "none"

JobsOK == job \in [Threads -> JobType] /\ \A t \in Threads : JobFits(job[t])

\* An event is about an agent that was created, and a teardown about the device it was for.
EventsOK == \A e \in events :
    /\ e.agent \in AgentIds \cup {INVALID_ID}
    /\ e.type = "MSG_ERROR" => e.agent \in AgentIds /\ agents[e.agent].state # "none"
    /\ e.type = "AGENT_DESTROYED" => e.agent \in AgentIds /\ agents[e.agent].state = "gone"
    /\ e.type = "RTSP_TEARDOWN" => e.arg \in Devices

\* A device in the map is served by an agent that nobody has begun to destroy: whoever
\* destroys an agent has taken its device out of the map before.
ServedByLiving ==
    /\ \A a \in AgentIds : agents[a].state # "none" => agents[a].dev \in Devices
    /\ \A d \in Connected : agents[devConnectionMap[d].agentId].state = "alive"
    /\ \A t \in Threads : job[t].op = "DestroyAgent"
          => \A d \in Devices : devConnectionMap[d].agentId # job[t].agent

\* The maps hold finitely many entries, each surface with the device and the agent of its client.
MapsOK == /\ IsFiniteSet(Connected) /\ IsFiniteSet(Items)
          /\ \A s \in Items : /\ devSurfaceItemMap[s].deviceId \in Devices
                              /\ devSurfaceItemMap[s].agentId \in AgentIds

SceneInv == /\ TypeOK /\ JobsOK /\ EventsOK /\ ServedByLiving /\ MapsOK
            /\ StoppedIsEmpty /\ WithinLimits /\ SurfacesHaveDevice /\ PlayingIsShown /\ NothingLeftBehind
-----------------------------------------------------------------------------
(* What the parts of handlers do to the maps and the agents                *)

AgentType == [dev : Devices \cup {NoDevice}, state : {"none", "alive", "dying", "gone"}]

MapTypes == /\ devConnectionMap \in [Devices -> EntryType]
            /\ devSurfaceItemMap \in [Surfaces -> ItemType]
            /\ agents \in [AgentIds -> AgentType]

\* Destroying agents only turns those of them that live into dying ones.
LEMMA DestroyEffect ==
    ASSUME MapTypes, NEW as, Destroy(as)
    PROVE  /\ agents' \in [AgentIds -> AgentType]
           /\ \A a \in AgentIds : /\ agents'[a].dev = agents[a].dev
                                  /\ agents'[a].state = IF a \in as /\ agents[a].state = "alive" THEN "dying"
                                                        ELSE agents[a].state
BY DEF MapTypes, Destroy, AgentType

\* A device that is disconnected leaves the map, and its surfaces are marked and nothing else.
LEMMA DisconnectEffect ==
    ASSUME MapTypes, NEW d \in Devices, Disconnect(d)
    PROVE  /\ devConnectionMap' \in [Devices -> EntryType]
           /\ devSurfaceItemMap' \in [Surfaces -> ItemType]
           /\ \A x \in Devices : devConnectionMap'[x] = IF x = d THEN NoEntry ELSE devConnectionMap[x]
           /\ \A s \in Surfaces :
                 /\ devSurfaceItemMap'[s].deviceId = devSurfaceItemMap[s].deviceId
                 /\ devSurfaceItemMap'[s].agentId = devSurfaceItemMap[s].agentId
                 /\ devSurfaceItemMap'[s].foreground = devSurfaceItemMap[s].foreground
                 /\ devSurfaceItemMap'[s].shown = devSurfaceItemMap[s].shown
                 /\ devSurfaceItemMap'[s].deleting = (\/ devSurfaceItemMap[s].deleting 
                                                      \/ s \in Items /\ devSurfaceItemMap[s].deviceId = d)
BY DEF MapTypes, Disconnect, MarkedSurfaces, Erased, EntryType, ItemType, NoEntry, INVALID_ID

\* Once all is cleared no entry is left, and the agents that served are dying.
LEMMA ClearAllEffect ==
    ASSUME MapTypes, ClearAll
    PROVE  /\ MapTypes'
           /\ \A d \in Devices : devConnectionMap'[d] = NoEntry
           /\ \A s \in Surfaces : devSurfaceItemMap'[s] = NoItem
           /\ \A a \in AgentIds : 
                 /\ agents'[a].dev = agents[a].dev
                 /\ agents'[a].state = IF (\E d \in Connected : devConnectionMap[d].agentId = a) /\ agents[a].state = "alive"
                                       THEN "dying" ELSE agents[a].state
<1>1. Destroy({devConnectionMap[d].agentId : d \in Connected})
  BY DEF ClearAll
<1>2. MapTypes'
  BY <1>1, DestroyEffect DEF ClearAll, MapTypes, EntryType, ItemType, NoEntry, NoItem, NoDevice, INVALID_ID
<1> QED
  BY <1>1, <1>2, DestroyEffect DEF ClearAll

\* A new agent had no state before, and serves its device, which is not played yet.
LEMMA CreateEffect ==
    ASSUME MapTypes, NEW d \in Devices, CreateSinkAgentLocked(d)
    PROVE  \E a \in AgentIds :
              /\ agents[a].state = "none"
              /\ agents' \in [AgentIds -> AgentType]
              /\ devConnectionMap' \in [Devices -> EntryType]
              /\ \A b \in AgentIds : agents'[b] = IF b = a THEN [dev |-> d, state |-> "alive"] ELSE agents[b]
              /\ \A x \in Devices : devConnectionMap'[x] = IF x = d THEN [agentId |-> a, isRunning |-> FALSE]
                                                          ELSE devConnectionMap[x]
<1>1. PICK a \in AgentIds :
          /\ agents[a].state = "none"
          /\ agents' = [agents EXCEPT ![a] = [dev |-> d, state |-> "alive"]]
          /\ devConnectionMap' = [devConnectionMap EXCEPT ![d] = [agentId |-> a, isRunning |-> FALSE]]
  BY DEF CreateSinkAgentLocked
<1>2. agents' \in [AgentIds -> AgentType] /\ devConnectionMap' \in [Devices -> EntryType]
  BY <1>1 DEF MapTypes, AgentType, EntryType
<1> QED
  BY <1>1, <1>2 DEF MapTypes
\* After its gap OnInnerDestroy erases its device, unless another agent serves it by now.
LEMMA RestEffect ==
    ASSUME NEW t \in Threads, OnInnerDestroyRest(t)
    PROVE  LET d == job[t].dev
               a == job[t].agent
               current == devConnectionMap[d].agentId
           IN  /\ job[t].op = "OnInnerDestroy"
               /\ job' = [job EXCEPT ![t] = IF job[t].flag THEN DestroyJob(a) ELSE Idle]
               /\ UNCHANGED <<isSinkRunning, devSurfaceItemMap, agents, events, troubles, released>>
               /\ torn \subseteq torn'
               /\ \/ /\ devConnectionMap' = Erased(d)
                     /\ current \notin {a, INVALID_ID} => current \in torn'
                     /\ (\E s \in Usable : devSurfaceItemMap[s].agentId = a) => a \in torn'
                     /\ torn' \subseteq torn \cup {a} \cup ({current} \ {INVALID_ID})
                  \/ current # a /\ UNCHANGED <<devConnectionMap, torn>>
<1> DEFINE d == job[t].dev
           a == job[t].agent
           current == devConnectionMap[d].agentId
           late == {b \in {a} : \E s \in Usable : devSurfaceItemMap[s].agentId = b}
<1>1. /\ job[t].op = "OnInnerDestroy"
      /\ job' = [job EXCEPT ![t] = IF job[t].flag THEN DestroyJob(a) ELSE Idle]
      /\ UNCHANGED <<isSinkRunning, devSurfaceItemMap, agents, events, troubles, released>>
  BY DEF OnInnerDestroyRest, Then
<1>2. \/ devConnectionMap' = Erased(d) /\ torn' = torn \cup late \cup ({current} \ {a, INVALID_ID})
      \/ current # a /\ UNCHANGED <<devConnectionMap, torn>>
  BY DEF OnInnerDestroyRest
<1> QED
  BY <1>1, <1>2

\* The three variables that matter most, and the actions that change them.
LEMMA WhoChangesAgents ==
    ASSUME [Next]_vars
    PROVE  \/ UNCHANGED agents
           \/ \E t \in Threads : WfdP2pStop(t) \/ DestroyAgent(t) \/ OnP2pPeerConnected(t)
           \/ Release
           \/ \E a \in AgentIds : AgentDestroyed(a)
<1> DEFINE Goal == \/ UNCHANGED agents
                   \/ \E t \in Threads : WfdP2pStop(t) \/ DestroyAgent(t) \/ OnP2pPeerConnected(t)
                   \/ Release
                   \/ \E a \in AgentIds : AgentDestroyed(a)
<1>1. CASE UNCHANGED vars
  BY <1>1 DEF vars
<1>2. ASSUME NEW t \in Threads, GoOn(t)
      PROVE  Goal
  BY <1>2 DEF GoOn, HandlePlayRest, OnP2pPeerDisconnected, OnInnerDestroyRest
<1>3. ASSUME NEW t \in Threads, Request(t)
      PROVE  Goal
  BY <1>3 DEF Request, HandleStart, HandleStop, HandleAppendSurface, HandleRemoveSurface, HandleSetSceneType,
                   HandlePlay, HandleClose
<1>4. ASSUME NEW t \in Threads, NEW e \in events, HandleEvent(t, e)
      PROVE  Goal
  BY <1>4 DEF HandleEvent
<1>5. CASE Wifi
  BY <1>5 DEF Wifi, OnP2pDisconnected, OnP2pGcJoinGroup
<1>6. CASE Release
  BY <1>6
<1>7. ASSUME NEW a \in AgentIds, AgentReports(a)
      PROVE  Goal
  BY <1>7 DEF AgentReports
<1>8. ASSUME NEW a \in AgentIds, AgentDestroyed(a)
      PROVE  Goal
  BY <1>8
<1> QED
  BY <1>1, <1>2, <1>3, <1>4, <1>5, <1>6, <1>7, <1>8 DEF Next

\* Only these actions write devConnectionMap_.
LEMMA WhoChangesDevices ==
    ASSUME [Next]_vars
    PROVE  \/ UNCHANGED devConnectionMap
           \/ \E t \in Threads : WfdP2pStop(t) \/ OnP2pPeerDisconnected(t) \/ OnP2pPeerConnected(t)
                                 \/ OnInnerDestroyRest(t)
           \/ \E t \in Threads, d \in Devices : HandlePlay(t, d) \/ HandleClose(t, d)
           \/ Release
<1> DEFINE Goal == \/ UNCHANGED devConnectionMap
                   \/ \E t \in Threads : \/ WfdP2pStop(t) \/ OnP2pPeerDisconnected(t)
                                         \/ OnP2pPeerConnected(t) \/ OnInnerDestroyRest(t)
                   \/ \E t \in Threads, d \in Devices : HandlePlay(t, d) \/ HandleClose(t, d)
                   \/ Release
<1>1. CASE UNCHANGED vars
  BY <1>1 DEF vars
<1>2. ASSUME NEW t \in Threads, GoOn(t)
      PROVE  Goal
  BY <1>2 DEF GoOn, HandlePlayRest, DestroyAgent
<1>3. ASSUME NEW t \in Threads, Request(t)
      PROVE  Goal
  BY <1>3 DEF Request, HandleStart, HandleStop, HandleAppendSurface, HandleRemoveSurface, HandleSetSceneType
<1>4. ASSUME NEW t \in Threads, NEW e \in events, HandleEvent(t, e)
      PROVE  Goal
  BY <1>4 DEF HandleEvent, OnInnerDestroy, OnRemoveSurface, OnTeardown
<1>5. CASE Wifi
  BY <1>5 DEF Wifi, OnP2pDisconnected, OnP2pGcJoinGroup
<1>6. CASE Release
  BY <1>6
<1>7. ASSUME NEW a \in AgentIds, AgentReports(a) \/ AgentDestroyed(a)
      PROVE  Goal
  BY <1>7 DEF AgentReports, AgentDestroyed
<1> QED
  BY <1>1, <1>2, <1>3, <1>4, <1>5, <1>6, <1>7 DEF Next

\* Only these actions write devSurfaceItemMap_.
LEMMA WhoChangesSurfaces ==
    ASSUME [Next]_vars
    PROVE  \/ UNCHANGED devSurfaceItemMap
           \/ \E t \in Threads : WfdP2pStop(t) \/ OnP2pPeerDisconnected(t) \/ HandlePlayRest(t)
           \/ \E t \in Threads, d \in Devices :
                 \/ HandleClose(t, d)
                 \/ \E s \in Surfaces : \/ HandleAppendSurface(t, d, s)
                                        \/ \E f \in BOOLEAN : HandleSetSceneType(t, d, s, f)
           \/ \E t \in Threads, e \in events : HandleEvent(t, e)
           \/ Release
BY DEF Next, vars, GoOn, Request, Wifi, HandleStart, HandleStop, HandleRemoveSurface,
       HandlePlay, DestroyAgent, OnP2pDisconnected, OnP2pGcJoinGroup, OnP2pPeerConnected,
       AgentReports, AgentDestroyed, OnInnerDestroyRest

-----------------------------------------------------------------------------
\* Every step leaves both maps and the agents with values of their types.
LEMMA MapTypeStep == SceneInv /\ [Next]_vars => MapTypes'
<1> SUFFICES ASSUME SceneInv, [Next]_vars
             PROVE  MapTypes'
  OBVIOUS
<1>0. /\ MapTypes /\ JobsOK
      /\ Connected \subseteq Devices
      /\ \A d \in Connected : devConnectionMap[d].agentId \in AgentIds
  BY DEF SceneInv, TypeOK, MapTypes, AgentType, Connected
<1> USE <1>0 DEF MapTypes, EntryType, ItemType, AgentType
<1>1. ASSUME NEW t \in Threads, HandleStart(t)
      PROVE  MapTypes'
  BY <1>1 DEF HandleStart
<1>2. ASSUME NEW t \in Threads, HandleStop(t)
      PROVE  MapTypes'
  BY <1>2 DEF HandleStop
<1>3. ASSUME NEW t \in Threads, WfdP2pStop(t)
      PROVE  MapTypes'
  BY <1>3, ClearAllEffect DEF WfdP2pStop
<1>4. CASE Release
  BY <1>4, ClearAllEffect DEF Release
<1>5. ASSUME NEW t \in Threads, NEW d \in Devices, NEW s \in Surfaces, HandleAppendSurface(t, d, s)
      PROVE  MapTypes'
  BY <1>5 DEF HandleAppendSurface, ForegroundIsFree
<1>6. ASSUME NEW t \in Threads, NEW d \in Devices, NEW s \in Surfaces, HandleRemoveSurface(t, d, s)
      PROVE  MapTypes'
  BY <1>6 DEF HandleRemoveSurface
<1>7. ASSUME NEW t \in Threads, NEW d \in Devices, NEW s \in Surfaces, NEW f \in BOOLEAN, HandleSetSceneType(t, d, s, f)
      PROVE  MapTypes'
  <2>1. [devSurfaceItemMap[s] EXCEPT !.foreground = f] \in ItemType
    OBVIOUS
  <2>2. /\ devSurfaceItemMap' = [devSurfaceItemMap EXCEPT ![s] = [devSurfaceItemMap[s] EXCEPT !.foreground = f]]
        /\ UNCHANGED <<devConnectionMap, agents>>
    BY <1>7 DEF HandleSetSceneType
  <2> QED
    BY <2>1, <2>2
<1>8. ASSUME NEW t \in Threads, NEW d \in Devices, HandlePlay(t, d)
      PROVE  MapTypes'
  <2>1. devConnectionMap[d] \in EntryType
    OBVIOUS
  <2>2. /\ devConnectionMap' = [devConnectionMap EXCEPT ![d] = [devConnectionMap[d] EXCEPT !.isRunning = TRUE]]
        /\ UNCHANGED <<devSurfaceItemMap, agents>>
    BY <1>8 DEF HandlePlay
  <2>3. [devConnectionMap[d] EXCEPT !.isRunning = TRUE] \in EntryType
    BY <2>1
  <2> QED
    BY <2>2, <2>3
<1>9. ASSUME NEW t \in Threads, HandlePlayRest(t)
      PROVE  MapTypes'
  <2>1. \A s \in Surfaces : [devSurfaceItemMap[s] EXCEPT !.shown = TRUE] \in ItemType
    OBVIOUS
  <2> QED
    BY <1>9, <2>1 DEF HandlePlayRest
<1>10. ASSUME NEW t \in Threads, NEW d \in Devices, HandleClose(t, d)
      PROVE  MapTypes'
  BY <1>10, DisconnectEffect DEF HandleClose
<1>11. ASSUME NEW t \in Threads, DestroyAgent(t)
      PROVE  MapTypes'
  BY <1>11, DestroyEffect DEF DestroyAgent
<1>12. ASSUME NEW d \in Devices, OnP2pDisconnected(d)
      PROVE  MapTypes'
  BY <1>12 DEF OnP2pDisconnected
<1>13. ASSUME NEW d \in Devices, OnP2pGcJoinGroup(d)
      PROVE  MapTypes'
  BY <1>13 DEF OnP2pGcJoinGroup
<1>14. ASSUME NEW t \in Threads, OnP2pPeerDisconnected(t)
      PROVE  MapTypes'
  BY <1>14, DisconnectEffect DEF OnP2pPeerDisconnected
<1>15. ASSUME NEW t \in Threads, OnP2pPeerConnected(t)
      PROVE  MapTypes'
  <2>1. job[t].dev \in Devices /\ UNCHANGED devSurfaceItemMap
    BY <1>15 DEF OnP2pPeerConnected, JobsOK, JobFits
  <2>2. CASE UNCHANGED <<agents, devConnectionMap>>
    BY <2>1, <2>2
  <2>3. CASE CreateSinkAgentLocked(job[t].dev)
    BY <2>1, <2>3, CreateEffect
  <2> QED
    BY <1>15, <2>2, <2>3 DEF OnP2pPeerConnected
<1>16. ASSUME NEW t \in Threads, OnInnerDestroyRest(t)
      PROVE  MapTypes'
  <2>1. UNCHANGED <<devSurfaceItemMap, agents>> /\ job[t].op = "OnInnerDestroy"
    BY <1>16, RestEffect
  <2>2. job[t].dev \in Devices
    BY <2>1 DEF JobsOK, JobFits
  <2>3. CASE devConnectionMap' = Erased(job[t].dev)
    BY <2>1, <2>2, <2>3 DEF Erased, NoEntry, INVALID_ID
  <2>4. CASE UNCHANGED devConnectionMap
    BY <2>1, <2>4
  <2> QED
    BY <1>16, <2>3, <2>4, RestEffect
<1>17. ASSUME NEW a \in AgentIds, AgentReports(a)
      PROVE  MapTypes'
  BY <1>17 DEF AgentReports
<1>18. ASSUME NEW a \in AgentIds, AgentDestroyed(a)
      PROVE  MapTypes'
  BY <1>18 DEF AgentDestroyed
<1>19. ASSUME NEW t \in Threads, NEW e \in events, HandleEvent(t, e)
      PROVE  MapTypes'
  <2>1. NoItem \in ItemType
    BY DEF NoItem, INVALID_ID
  <2> QED
    BY <1>19, <2>1 DEF HandleEvent, OnInnerDestroy, OnRemoveSurface, OnTeardown
<1>20. CASE UNCHANGED vars
  BY <1>20 DEF vars
<1> QED
  BY <1>1, <1>2, <1>3, <1>4, <1>5, <1>6, <1>7, <1>8, <1>9, <1>10, <1>11, <1>12,
     <1>13, <1>14, <1>15, <1>16, <1>17, <1>18, <1>19, <1>20 DEF Next, GoOn, Request, Wifi

-----------------------------------------------------------------------------
(* The steps keep SceneInv                                                 *)

\* What the other lemmas need of SceneInv to read the two maps.
LEMMA Typed == SceneInv => /\ MapTypes
                           /\ \A d \in Devices : d \in Connected <=> devConnectionMap[d].agentId # INVALID_ID
                           /\ \A d \in Connected : /\ d \in Devices
                                                   /\ devConnectionMap[d].agentId \in AgentIds
                                                   /\ agents[devConnectionMap[d].agentId].dev = d
                           /\ \A s \in Items : s \in Surfaces
                           /\ \A s \in Usable : s \in Items /\ ~devSurfaceItemMap[s].deleting
                           /\ INVALID_ID \notin AgentIds
BY SceneAssumption DEF SceneAssumption, SceneInv, TypeOK, MapTypes, AgentType, EntryType, NoEntry,
       Connected, Items, Usable, AgentIds, INVALID_ID

\* An agent that was created keeps its device, and is not revived.
LEMMA AgentsStay ==
    ASSUME SceneInv, [Next]_vars, NEW a \in AgentIds
    PROVE  /\ agents[a].state # "none" => agents'[a].dev = agents[a].dev /\ agents'[a].state # "none"
           /\ agents[a].state = "gone" => agents'[a].state = "gone"
<1>0. MapTypes
  BY Typed
<1>1. CASE UNCHANGED agents
  BY <1>1
<1>2. ASSUME NEW t \in Threads, WfdP2pStop(t)
      PROVE  /\ agents'[a].dev = agents[a].dev /\ (agents[a].state # "none" => agents'[a].state # "none")
             /\ agents[a].state = "gone" => agents'[a].state = "gone"
  BY <1>0, <1>2, ClearAllEffect DEF WfdP2pStop
<1>3. CASE Release
  BY <1>0, <1>3, ClearAllEffect DEF Release
<1>4. ASSUME NEW t \in Threads, DestroyAgent(t)
      PROVE  /\ agents'[a].dev = agents[a].dev /\ (agents[a].state # "none" => agents'[a].state # "none")
             /\ agents[a].state = "gone" => agents'[a].state = "gone"
  BY <1>0, <1>4, DestroyEffect DEF DestroyAgent
<1>5. ASSUME NEW t \in Threads, OnP2pPeerConnected(t)
      PROVE  agents[a].state # "none" => agents'[a] = agents[a]
  <2>1. job[t].dev \in Devices
    BY <1>5 DEF SceneInv, JobsOK, JobFits, OnP2pPeerConnected
  <2>2. CASE CreateSinkAgentLocked(job[t].dev)
    BY <1>0, <2>1, <2>2, CreateEffect
  <2> QED
    BY <1>5, <2>2 DEF OnP2pPeerConnected
<1>6. ASSUME NEW b \in AgentIds, AgentDestroyed(b)
      PROVE  /\ agents'[a].dev = agents[a].dev /\ (agents[a].state # "none" => agents'[a].state # "none")
             /\ agents[a].state = "gone" => agents'[a].state = "gone"
  BY <1>0, <1>6 DEF AgentDestroyed, MapTypes, AgentType
<1> QED
  BY <1>1, <1>2, <1>3, <1>4, <1>5, <1>6, WhoChangesAgents

\* A job that a handler leaves names a device, and an agent that was created for it.
LEMMA JobsStep ==
    ASSUME SceneInv, [Next]_vars
    PROVE  JobsOK'
<1>0. MapTypes /\ JobsOK /\ EventsOK /\ ServedByLiving
  BY Typed DEF SceneInv
<1>1. \A j : JobFits(j) => JobFits(j)'
  BY AgentsStay DEF JobFits
<1>2. ASSUME NEW t \in Threads, NEW j, JobFits(j)', job' = [job EXCEPT ![t] = j]
      PROVE  JobsOK'
  BY <1>0, <1>1, <1>2 DEF JobsOK, JobFits
<1>3. JobFits(Idle)'
  BY DEF JobFits, JobType, Ops, Idle, Job
<1>4. \A a \in AgentIds : agents[a].state # "none" => JobFits(DestroyJob(a))'
  BY AgentsStay DEF JobFits, JobType, Ops, DestroyJob, Job
<1>5. CASE UNCHANGED job
  BY <1>0, <1>1, <1>5 DEF JobsOK
<1>6. ASSUME NEW t \in Threads, HandleStop(t)
      PROVE  JobsOK'
  <2>1. JobFits(Job("WfdP2pStop", NoDevice, INVALID_ID, FALSE))'
    BY DEF JobFits, JobType, Ops, Job
  <2> QED
    BY <1>2, <1>6, <2>1 DEF HandleStop, Then
<1>7. ASSUME NEW t \in Threads, NEW d \in Devices, HandlePlay(t, d)
      PROVE  JobsOK'
  <2>1. JobFits(Job("play", d, devConnectionMap[d].agentId, FALSE))
    BY <1>7, <1>0, Typed DEF HandlePlay, ServedByLiving, JobFits, JobType, Ops, Job
  <2> QED
    BY <1>1, <1>2, <1>7, <2>1 DEF HandlePlay, Then
<1>8. ASSUME NEW t \in Threads, NEW d \in Connected, Then(t, DestroyJob(devConnectionMap[d].agentId))
      PROVE  JobsOK'
  BY <1>0, <1>2, <1>4, <1>8, Typed DEF ServedByLiving, Then
<1>9. ASSUME NEW t \in Threads, Then(t, Idle)
      PROVE  JobsOK'
  BY <1>2, <1>3, <1>9 DEF Then
<1>10. ASSUME NEW t \in Threads, NEW d \in Devices, NEW op \in {"OnP2pPeerDisconnected", "OnP2pPeerConnected"},
              Then(t, Job(op, d, INVALID_ID, FALSE))
       PROVE  JobsOK'
  <2>1. JobFits(Job(op, d, INVALID_ID, FALSE))'
    BY DEF JobFits, JobType, Ops, Job
  <2> QED
    BY <1>2, <1>10, <2>1 DEF Then
<1>11. ASSUME NEW t \in Threads, GoOn(t)
       PROVE  JobsOK'
  <2>1. CASE OnInnerDestroyRest(t)
    <3>1. job[t].agent \in AgentIds /\ agents[job[t].agent].state # "none"
      BY <2>1, <1>0, RestEffect DEF JobsOK, JobFits
    <3> QED
      BY <2>1, <3>1, <1>2, <1>3, <1>4, RestEffect
  <2>2. CASE OnP2pPeerDisconnected(t)
    BY <2>2, <1>8, <1>9 DEF OnP2pPeerDisconnected
  <2> QED
    BY <1>9, <1>11, <2>1, <2>2 DEF GoOn, WfdP2pStop, HandlePlayRest, DestroyAgent, OnP2pPeerConnected
<1>12. ASSUME NEW t \in Threads, NEW e \in events, HandleEvent(t, e)
       PROVE  JobsOK'
  <2>1. ASSUME NEW isError \in BOOLEAN, OnInnerDestroy(t, e.agent, isError),
               e.type = IF isError THEN "MSG_ERROR" ELSE "AGENT_DESTROYED"
        PROVE  JobsOK'
    <3>1. e.agent \in AgentIds /\ agents[e.agent].state # "none"
      BY <1>0, <2>1 DEF EventsOK
    <3>2. ASSUME NEW d \in Connected, devConnectionMap[d].agentId = e.agent,
                 Then(t, Job("OnInnerDestroy", d, e.agent, isError))
          PROVE  JobsOK'
      <4>1. isError
        BY <1>0, <2>1, <3>2 DEF EventsOK, ServedByLiving
      <4>2. JobFits(Job("OnInnerDestroy", d, e.agent, isError))
        BY <3>1, <3>2, <4>1, Typed DEF JobFits, JobType, Ops, Job
      <4> QED
        BY <1>1, <1>2, <3>2, <4>2 DEF Then
    <3>3. CASE Then(t, IF isError THEN DestroyJob(e.agent) ELSE Idle)
      BY <1>2, <1>3, <1>4, <3>1, <3>3 DEF Then
    <3> QED
      BY <2>1, <3>2, <3>3 DEF OnInnerDestroy
  <2>2. CASE e.type = "RTSP_TEARDOWN" /\ OnTeardown(t, e.arg)
    BY <1>0, <1>10, <2>2 DEF EventsOK, OnTeardown
  <2>3. CASE OnRemoveSurface(e.arg)
    BY <1>5, <2>3 DEF OnRemoveSurface
  <2> QED
    BY <1>12, <2>1, <2>2, <2>3 DEF HandleEvent
<1>13. CASE Wifi
  <2>1. "wifi" \in Threads
    BY DEF Threads
  <2> QED
    BY <1>10, <1>13, <2>1 DEF Wifi, OnP2pDisconnected, OnP2pGcJoinGroup
<1>14. ASSUME NEW t \in Threads, Request(t)
       PROVE  JobsOK'
  <2>1. ASSUME NEW d \in Devices, HandleClose(t, d)
        PROVE  JobsOK'
    BY <1>8, <2>1 DEF HandleClose
  <2> QED
    BY <1>5, <1>6, <1>7, <1>14, <2>1
       DEF Request, HandleStart, HandleAppendSurface, HandleRemoveSurface, HandleSetSceneType
<1> QED
  BY <1>5, <1>11, <1>12, <1>13, <1>14 DEF Next, vars, Release, AgentReports, AgentDestroyed

\* Events that wait stay true of the agents they are about.
LEMMA EventsStep ==
    ASSUME SceneInv, [Next]_vars
    PROVE  EventsOK'
<1>0. MapTypes /\ EventsOK /\ ServedByLiving
  BY Typed DEF SceneInv
<1> DEFINE Fits(e) == /\ e.agent \in AgentIds \cup {INVALID_ID}
                      /\ e.type = "MSG_ERROR" => e.agent \in AgentIds /\ agents[e.agent].state # "none"
                      /\ e.type = "AGENT_DESTROYED" => e.agent \in AgentIds /\ agents[e.agent].state = "gone"
                      /\ e.type = "RTSP_TEARDOWN" => e.arg \in Devices
<1>1. \A e \in events : Fits(e)'
  BY <1>0, AgentsStay DEF EventsOK
<1>2. CASE events' \subseteq events
  BY <1>1, <1>2 DEF EventsOK
<1>3. ASSUME NEW t \in Threads, NEW d \in Devices, NEW s \in Surfaces, HandleRemoveSurface(t, d, s)
      PROVE  EventsOK'
  BY <1>1, <1>3 DEF HandleRemoveSurface, EventsOK
<1>4. ASSUME NEW a \in AgentIds, AgentReports(a)
      PROVE  EventsOK'
  BY <1>0, <1>1, <1>4 DEF AgentReports, EventsOK, ServedByLiving
<1>5. ASSUME NEW a \in AgentIds, AgentDestroyed(a)
      PROVE  EventsOK'
  <2>1. agents'[a].state = "gone"
    BY <1>0, <1>5 DEF AgentDestroyed, MapTypes, AgentType
  <2> QED
    BY <1>1, <1>5, <2>1 DEF AgentDestroyed, EventsOK
<1>6. ASSUME NEW t \in Threads, GoOn(t)
      PROVE  events' = events
  BY <1>6, RestEffect
     DEF GoOn, WfdP2pStop, HandlePlayRest, DestroyAgent, OnP2pPeerDisconnected, OnP2pPeerConnected
<1>7. ASSUME NEW t \in Threads, Request(t)
      PROVE  EventsOK'
  BY <1>2, <1>3, <1>7 DEF Request, HandleStart, HandleStop, HandleAppendSurface,
                          HandleSetSceneType, HandlePlay, HandleClose
<1>8. ASSUME NEW t \in Threads, NEW e \in events, HandleEvent(t, e)
      PROVE  events' \subseteq events
  BY <1>8 DEF HandleEvent
<1>9. CASE Wifi \/ Release \/ UNCHANGED vars
  BY <1>2, <1>9 DEF Wifi, OnP2pDisconnected, OnP2pGcJoinGroup, Release, vars
<1> QED
  BY <1>2, <1>4, <1>5, <1>6, <1>7, <1>8, <1>9 DEF Next

\* A device keeps its agent or leaves the map; a device that was not in it gets a new agent.
LEMMA EntriesStay ==
    ASSUME SceneInv, [Next]_vars, NEW d \in Devices
    PROVE  \/ devConnectionMap'[d] = NoEntry
           \/ d \in Connected /\ devConnectionMap'[d].agentId = devConnectionMap[d].agentId
           \/ /\ devConnectionMap[d].agentId = INVALID_ID /\ devConnectionMap'[d].agentId \in AgentIds
              /\ agents[devConnectionMap'[d].agentId].state = "none"
              /\ agents'[devConnectionMap'[d].agentId] = [dev |-> d, state |-> "alive"]
              /\ devConnectionMap'[d].isRunning = FALSE
<1> DEFINE Goal == \/ devConnectionMap'[d] = NoEntry
                   \/ d \in Connected /\ devConnectionMap'[d].agentId = devConnectionMap[d].agentId
                   \/ /\ devConnectionMap[d].agentId = INVALID_ID /\ devConnectionMap'[d].agentId \in AgentIds
                      /\ agents[devConnectionMap'[d].agentId].state = "none"
                      /\ agents'[devConnectionMap'[d].agentId] = [dev |-> d, state |-> "alive"]
                      /\ devConnectionMap'[d].isRunning = FALSE
<1>0. MapTypes /\ JobsOK
  BY Typed DEF SceneInv
<1>1. devConnectionMap[d] = NoEntry \/ d \in Connected
  BY DEF Connected
<1>2. CASE UNCHANGED devConnectionMap
  BY <1>1, <1>2
<1>3. CASE ClearAll
  BY <1>0, <1>1, <1>3, ClearAllEffect
<1>4. ASSUME NEW x \in Devices, Disconnect(x)
      PROVE  Goal
  BY <1>0, <1>1, <1>4, DisconnectEffect
<1>5. ASSUME NEW t \in Threads, NEW x \in Devices, HandlePlay(t, x)
      PROVE  Goal
  BY <1>0, <1>1, <1>5 DEF HandlePlay, MapTypes, EntryType
<1>6. ASSUME NEW t \in Threads, OnP2pPeerDisconnected(t)
      PROVE  Goal
  BY <1>2, <1>4, <1>6, Typed DEF OnP2pPeerDisconnected
<1>7. ASSUME NEW t \in Threads, OnP2pPeerConnected(t)
      PROVE  Goal
  <2>1. job[t].dev \in Devices
    BY <1>0, <1>7 DEF OnP2pPeerConnected, JobsOK, JobFits
  <2>2. CASE Welcome(job[t].dev) /\ CreateSinkAgentLocked(job[t].dev)
    <3>1. devConnectionMap[job[t].dev].agentId = INVALID_ID
      BY <2>1, <2>2, Typed DEF Welcome
    <3>2. PICK a \in AgentIds :
              /\ agents[a].state = "none"
              /\ \A b \in AgentIds : agents'[b] = IF b = a THEN [dev |-> job[t].dev, state |-> "alive"] ELSE agents[b]
              /\ \A x \in Devices : devConnectionMap'[x] = IF x = job[t].dev THEN [agentId |-> a, isRunning |-> FALSE]
                                                          ELSE devConnectionMap[x]
      BY <1>0, <2>1, <2>2, CreateEffect
    <3>3. CASE d = job[t].dev
      BY <3>1, <3>2, <3>3
    <3> QED
      BY <1>1, <3>2, <3>3
  <2> QED
    BY <1>2, <1>7, <2>2 DEF OnP2pPeerConnected
<1>8. ASSUME NEW t \in Threads, OnInnerDestroyRest(t)
      PROVE  Goal
  <2>1. job[t].dev \in Devices
    BY <1>0, <1>8, RestEffect DEF JobsOK, JobFits
  <2> QED
    BY <1>0, <1>1, <1>2, <1>8, <2>1, RestEffect DEF Erased, MapTypes
<1> QED
  BY <1>2, <1>3, <1>4, <1>5, <1>6, <1>7, <1>8, WhoChangesDevices DEF WfdP2pStop, HandleClose, Release

\* A thread that is about to destroy an agent was so before, or took its device out of the map.
LEMMA DestroysWhoLeft ==
    ASSUME SceneInv, [Next]_vars, NEW t \in Threads, job'[t].op = "DestroyAgent", job'[t] # job[t]
    PROVE  \A d \in Devices : devConnectionMap'[d].agentId # job'[t].agent
<1>0. MapTypes /\ JobsOK
  BY Typed DEF SceneInv
<1>1. ASSUME NEW d \in Connected, Disconnect(d), job'[t].agent = devConnectionMap[d].agentId
      PROVE  \A x \in Devices : devConnectionMap'[x].agentId # job'[t].agent
  <2>1. devConnectionMap[d].agentId \in AgentIds /\ d \in Devices /\ INVALID_ID \notin AgentIds
    BY Typed
  <2>2. \A x \in Devices : x # d => devConnectionMap[x].agentId # devConnectionMap[d].agentId
    BY <2>1, Typed
  <2>3. \A x \in Devices : devConnectionMap'[x] = IF x = d THEN NoEntry ELSE devConnectionMap[x]
    BY <1>0, <1>1, <2>1, DisconnectEffect
  <2> QED
    BY <1>1, <2>1, <2>2, <2>3 DEF NoEntry
<1>2. \A u \in Threads : Then(u, Idle) => FALSE
  BY <1>0 DEF Then, Idle, Job, JobsOK
<1>3. \A u \in Threads : \A j : Then(u, j) => u = t /\ j = job'[t]
  BY <1>0 DEF Then, JobsOK
<1>4. ASSUME NEW a, DestroyJob(a) = job'[t]
      PROVE  job'[t].agent = a
  BY <1>4 DEF DestroyJob, Job
<1>5. \A op, d, a, f : Job(op, d, a, f) = job'[t] => op = "DestroyAgent"
  BY DEF Job
<1>6. ASSUME NEW u \in Threads, OnInnerDestroyRest(u)
      PROVE  \A x \in Devices : devConnectionMap'[x].agentId # job'[t].agent
  <2> DEFINE d == job[u].dev
             a == job[u].agent
  <2>1. d \in Devices /\ a \in AgentIds /\ agents[a].dev = d
    BY <1>0, <1>6, RestEffect DEF JobsOK, JobFits
  <2>2. job'[t].agent = a
    BY <1>0, <1>2, <1>3, <1>4, <1>6, RestEffect DEF Then
  <2>3. \A x \in Devices : x # d => devConnectionMap[x].agentId # a
    BY <2>1, Typed
  <2> QED
    BY <1>0, <1>6, <2>1, <2>2, <2>3, Typed, RestEffect DEF Erased, NoEntry, MapTypes
<1>7. ASSUME NEW u \in Threads, NEW e \in events, HandleEvent(u, e)
      PROVE  \A x \in Devices : devConnectionMap'[x].agentId # job'[t].agent
  <2>1. UNCHANGED devConnectionMap
    BY <1>7 DEF HandleEvent, OnInnerDestroy, OnRemoveSurface, OnTeardown
  <2>2. ASSUME NEW isError \in BOOLEAN, OnInnerDestroy(u, e.agent, isError), e.agent \in AgentIds
        PROVE  \A x \in Devices : devConnectionMap'[x].agentId # job'[t].agent
    <3>1. {d \in Connected : devConnectionMap[d].agentId = e.agent} = {}
      BY <1>3, <1>5, <2>2 DEF OnInnerDestroy
    <3>2. job'[t].agent = e.agent
      BY <1>2, <1>3, <1>4, <2>2, <3>1 DEF OnInnerDestroy
    <3> QED
      BY <2>1, <2>2, <3>1, <3>2, Typed
  <2>3. e.type \in {"MSG_ERROR", "AGENT_DESTROYED"} => e.agent \in AgentIds
    BY DEF SceneInv, EventsOK
  <2> QED
    BY <1>3, <1>5, <1>7, <2>2, <2>3 DEF HandleEvent, OnRemoveSurface, OnTeardown
<1> QED
  <2>1. ASSUME NEW u \in Threads, GoOn(u)
        PROVE  \A x \in Devices : devConnectionMap'[x].agentId # job'[t].agent
    BY <1>1, <1>2, <1>3, <1>4, <1>6, <2>1
       DEF GoOn, WfdP2pStop, HandlePlayRest, DestroyAgent, OnP2pPeerDisconnected, OnP2pPeerConnected
  <2>2. ASSUME NEW u \in Threads, Request(u)
        PROVE  \A x \in Devices : devConnectionMap'[x].agentId # job'[t].agent
    <3>1. ASSUME NEW d \in Devices, HandleClose(u, d)
          PROVE  \A x \in Devices : devConnectionMap'[x].agentId # job'[t].agent
      BY <1>1, <1>3, <1>4, <3>1 DEF HandleClose
    <3>2. ASSUME NEW op, NEW d, NEW a, NEW f, Then(u, Job(op, d, a, f)), op # "DestroyAgent"
          PROVE  FALSE
      BY <1>3, <1>5, <3>2
    <3>3. job' # job
      OBVIOUS
    <3> QED
      BY <2>2, <3>1, <3>2, <3>3 DEF Request, HandleStart, HandleStop, HandleAppendSurface, HandleRemoveSurface,
                                    HandleSetSceneType, HandlePlay
  <2>3. CASE Wifi
    BY <1>3, <1>5, <2>3 DEF Wifi, OnP2pDisconnected, OnP2pGcJoinGroup, Threads
  <2> QED
    BY <1>7, <2>1, <2>2, <2>3 DEF Next, vars, Release, AgentReports, AgentDestroyed

\* Who is in the map is served by an agent that is alive and was made for it.
LEMMA ServedStep ==
    ASSUME SceneInv, [Next]_vars
    PROVE  /\ ServedByLiving'
           /\ \A d \in Devices : devConnectionMap'[d] # NoEntry =>
                 /\ devConnectionMap'[d].agentId \in AgentIds
                 /\ agents'[devConnectionMap'[d].agentId].dev = d
<1>0. MapTypes /\ MapTypes' /\ JobsOK /\ JobsOK' /\ ServedByLiving
  BY Typed, MapTypeStep, JobsStep DEF SceneInv
<1>1. ASSUME NEW a \in AgentIds, agents'[a].state # "none"
      PROVE  agents'[a].dev \in Devices
  <2>1. CASE agents[a].state # "none"
    BY <1>0, <2>1, AgentsStay DEF ServedByLiving
  <2>2. ASSUME NEW t \in Threads, OnP2pPeerConnected(t)
        PROVE  agents'[a].dev \in Devices
    <3>1. job[t].dev \in Devices
      BY <1>0, <2>2 DEF OnP2pPeerConnected, JobsOK, JobFits
    <3>2. CASE CreateSinkAgentLocked(job[t].dev)
      <4>1. PICK b \in AgentIds :
                \A x \in AgentIds : agents'[x] = IF x = b THEN [dev |-> job[t].dev, state |-> "alive"] ELSE agents[x]
        BY <1>0, <3>1, <3>2, CreateEffect
      <4> QED
        BY <1>1, <2>1, <3>1, <4>1
    <3> QED
      BY <1>1, <2>1, <2>2, <3>2 DEF OnP2pPeerConnected
  <2> QED
    BY <1>0, <1>1, <2>1, <2>2, WhoChangesAgents, ClearAllEffect, DestroyEffect
       DEF WfdP2pStop, Release, DestroyAgent, AgentDestroyed, MapTypes, AgentType
<1>2. ASSUME NEW d \in Devices, devConnectionMap'[d] # NoEntry
      PROVE  /\ devConnectionMap'[d].agentId \in AgentIds
             /\ agents'[devConnectionMap'[d].agentId].dev = d
             /\ agents'[devConnectionMap'[d].agentId].state = "alive"
  <2> DEFINE a == devConnectionMap'[d].agentId
  <2>1. CASE devConnectionMap[d].agentId = INVALID_ID
    <3>1. d \notin Connected
      BY <2>1, Typed
    <3>2. a \in AgentIds /\ agents'[a] = [dev |-> d, state |-> "alive"]
      BY <1>2, <3>1, EntriesStay
    <3> QED
      BY <3>2
  <2>2. CASE devConnectionMap[d].agentId # INVALID_ID
    <3>1. a = devConnectionMap[d].agentId /\ d \in Connected
      BY <1>2, <2>2, EntriesStay
    <3>2. a \in AgentIds /\ agents[a].dev = d /\ agents[a].state = "alive"
      BY <1>0, <3>1, Typed DEF ServedByLiving
    <3>3. ~ClearAll
      BY <1>0, <1>2, ClearAllEffect
    <3>4. ASSUME NEW t \in Threads, OnP2pPeerConnected(t)
          PROVE  agents'[a].state = "alive"
      <4>1. job[t].dev \in Devices
        BY <1>0, <3>4 DEF OnP2pPeerConnected, JobsOK, JobFits
      <4> QED
        BY <1>0, <3>2, <3>4, <4>1, CreateEffect DEF OnP2pPeerConnected
    <3>5. ASSUME NEW t \in Threads, DestroyAgent(t)
          PROVE  agents'[a].state = "alive"
      <4>1. job[t].agent # a
        BY <1>0, <3>1, <3>5 DEF DestroyAgent, ServedByLiving
      <4> QED
        BY <1>0, <3>2, <3>5, <4>1, DestroyEffect DEF DestroyAgent
    <3>6. ASSUME NEW b \in AgentIds, AgentDestroyed(b)
          PROVE  agents'[a].state = "alive"
      BY <1>0, <3>2, <3>6 DEF AgentDestroyed, MapTypes
    <3>7. agents'[a].state = "alive"
      BY <3>2, <3>3, <3>4, <3>5, <3>6, WhoChangesAgents DEF WfdP2pStop, Release
    <3> QED
      BY <3>2, <3>7, AgentsStay
  <2> QED
    BY <2>1, <2>2
<1>3. ASSUME NEW t \in Threads, job'[t].op = "DestroyAgent", NEW d \in Devices
      PROVE  devConnectionMap'[d].agentId # job'[t].agent
  <2>1. CASE job'[t] = job[t]
    <3>1. /\ job[t].agent \in AgentIds /\ agents[job[t].agent].state # "none"
          /\ devConnectionMap[d].agentId # job[t].agent
      BY <1>0, <1>3, <2>1 DEF ServedByLiving, JobsOK, JobFits
    <3>2. INVALID_ID \notin AgentIds /\ NoEntry.agentId = INVALID_ID
      BY Typed DEF NoEntry
    <3> QED
      BY <2>1, <3>1, <3>2, EntriesStay
  <2> QED
    BY <1>3, <2>1, DestroysWhoLeft
<1> QED
  BY <1>1, <1>2, <1>3 DEF ServedByLiving, Connected

\* Only OnP2pPeerConnected adds a device, while the sink runs and there is room.
LEMMA ConnectedStay ==
    ASSUME SceneInv, [Next]_vars
    PROVE  \/ Connected' \subseteq Connected
           \/ /\ isSinkRunning /\ isSinkRunning' /\ Cardinality(Connected) < AccessDevMaximum
              /\ \E d \in Devices : Connected' = Connected \cup {d}
<1>0. MapTypes /\ MapTypes' /\ JobsOK
  BY Typed, MapTypeStep DEF SceneInv
<1>1. ASSUME UNCHANGED devConnectionMap
      PROVE  Connected' \subseteq Connected
  BY <1>1 DEF Connected
<1>2. CASE ClearAll
  BY <1>0, <1>2, ClearAllEffect DEF Connected
<1>3. ASSUME NEW d \in Devices, Disconnect(d)
      PROVE  Connected' \subseteq Connected
  BY <1>0, <1>3, DisconnectEffect DEF Connected
<1>4. ASSUME NEW t \in Threads, NEW d \in Devices, HandlePlay(t, d)
      PROVE  Connected' \subseteq Connected
  BY <1>0, <1>4 DEF HandlePlay, Connected, MapTypes
<1>5. ASSUME NEW t \in Threads, OnP2pPeerDisconnected(t)
      PROVE  Connected' \subseteq Connected
  <2>1. \/ UNCHANGED devConnectionMap
        \/ job[t].dev \in Connected /\ Disconnect(job[t].dev)
    BY <1>5 DEF OnP2pPeerDisconnected
  <2>2. ASSUME job[t].dev \in Connected, Disconnect(job[t].dev)
        PROVE  Connected' \subseteq Connected
    <3>1. job[t].dev \in Devices
      BY <2>2, Typed
    <3> QED
      BY <1>3, <2>2, <3>1
  <2> QED
    BY <1>1, <2>1, <2>2
<1>6. ASSUME NEW t \in Threads, OnInnerDestroyRest(t)
      PROVE  Connected' \subseteq Connected
  BY <1>0, <1>1, <1>6, RestEffect DEF Erased, Connected, MapTypes
<1>7. ASSUME NEW t \in Threads, OnP2pPeerConnected(t), ~UNCHANGED devConnectionMap
      PROVE  /\ isSinkRunning /\ isSinkRunning' /\ Cardinality(Connected) < AccessDevMaximum
             /\ \E d \in Devices : Connected' = Connected \cup {d}
  <2>1. job[t].dev \in Devices
    BY <1>0, <1>7 DEF OnP2pPeerConnected, JobsOK, JobFits
  <2>2. /\ Welcome(job[t].dev) /\ CreateSinkAgentLocked(job[t].dev)
        /\ UNCHANGED isSinkRunning
    BY <1>7 DEF OnP2pPeerConnected
  <2>3. PICK a \in AgentIds :
            \A x \in Devices : devConnectionMap'[x] = IF x = job[t].dev THEN [agentId |-> a, isRunning |-> FALSE]
                                                      ELSE devConnectionMap[x]
    BY <1>0, <2>1, <2>2, CreateEffect
  <2>4. [agentId |-> a, isRunning |-> FALSE] # NoEntry
    BY Typed DEF NoEntry
  <2>5. Connected' = Connected \cup {job[t].dev}
    BY <2>1, <2>3, <2>4 DEF Connected
  <2> QED
    BY <2>1, <2>2, <2>5 DEF Welcome
<1> QED
  BY <1>1, <1>2, <1>3, <1>4, <1>5, <1>6, <1>7, WhoChangesDevices DEF WfdP2pStop, HandleClose, Release

\* A surface is appended, or it leaves the map, or it stays with its device and its agent: one
\* that is being deleted stays so, and one that is shown too.
LEMMA SurfacesStay ==
    ASSUME SceneInv, [Next]_vars, NEW s \in Surfaces
    PROVE  \/ devSurfaceItemMap'[s] = NoItem
           \/ /\ s \in Items
              /\ devSurfaceItemMap'[s].deviceId = devSurfaceItemMap[s].deviceId
              /\ devSurfaceItemMap'[s].agentId = devSurfaceItemMap[s].agentId
              /\ devSurfaceItemMap[s].deleting => devSurfaceItemMap'[s].deleting
              /\ devSurfaceItemMap[s].shown => devSurfaceItemMap'[s].shown
              /\ devSurfaceItemMap'[s].foreground => \/ devSurfaceItemMap[s].foreground
                                                     \/ \E t \in Threads, d \in Devices : HandleSetSceneType(t, d, s, TRUE)
           \/ \E t \in Threads, d \in Devices : HandleAppendSurface(t, d, s)
<1> DEFINE Stays == /\ s \in Items
                    /\ devSurfaceItemMap'[s].deviceId = devSurfaceItemMap[s].deviceId
                    /\ devSurfaceItemMap'[s].agentId = devSurfaceItemMap[s].agentId
                    /\ devSurfaceItemMap[s].deleting => devSurfaceItemMap'[s].deleting
                    /\ devSurfaceItemMap[s].shown => devSurfaceItemMap'[s].shown
                    /\ devSurfaceItemMap'[s].foreground => \/ devSurfaceItemMap[s].foreground
                                                           \/ \E t \in Threads, d \in Devices : HandleSetSceneType(t, d, s, TRUE)
           Goal == \/ devSurfaceItemMap'[s] = NoItem
                   \/ Stays
                   \/ \E t \in Threads, d \in Devices : HandleAppendSurface(t, d, s)
<1>0. MapTypes /\ MapTypes'
  BY Typed, MapTypeStep
<1>1. CASE UNCHANGED devSurfaceItemMap \/ devSurfaceItemMap'[s] = devSurfaceItemMap[s]
  BY <1>1 DEF Items
<1>2. CASE ClearAll
  BY <1>0, <1>2, ClearAllEffect
<1>3. ASSUME NEW d \in Devices, Disconnect(d)
      PROVE  Goal
  <2>1. CASE s \in Items
    BY <1>0, <1>3, <2>1, DisconnectEffect
  <2>2. CASE s \notin Items
    BY <1>1, <1>3, <2>2 DEF Disconnect, MarkedSurfaces
  <2> QED
    BY <2>1, <2>2
<1>4. ASSUME NEW t \in Threads, OnP2pPeerDisconnected(t)
      PROVE  Goal
  BY <1>1, <1>3, <1>4, Typed DEF OnP2pPeerDisconnected
<1>5. ASSUME NEW t \in Threads, HandlePlayRest(t)
      PROVE  Goal
  <2>1. \/ devSurfaceItemMap'[s] = devSurfaceItemMap[s]
        \/ s \in Items /\ devSurfaceItemMap'[s] = [devSurfaceItemMap[s] EXCEPT !.shown = TRUE]
    BY <1>5, Typed DEF HandlePlayRest, ToSend
  <2> QED
    BY <1>0, <1>1, <2>1 DEF MapTypes, ItemType
<1>6. ASSUME NEW t \in Threads, NEW d \in Devices, NEW u \in Surfaces, HandleAppendSurface(t, d, u)
      PROVE  Goal
  <2>1. CASE s = u
    BY <1>6, <2>1
  <2>2. CASE s # u
    BY <1>0, <1>1, <1>6, <2>2 DEF HandleAppendSurface, MapTypes
  <2> QED
    BY <2>1, <2>2
<1>7. ASSUME NEW t \in Threads, NEW d \in Devices, NEW u \in Surfaces, NEW f \in BOOLEAN,
             HandleSetSceneType(t, d, u, f)
      PROVE  Goal
  <2>1. u \in Items
    BY <1>7, Typed DEF HandleSetSceneType
  <2>2. devSurfaceItemMap' = [devSurfaceItemMap EXCEPT ![u] = [devSurfaceItemMap[u] EXCEPT !.foreground = f]]
    BY <1>7 DEF HandleSetSceneType
  <2>3. CASE s # u
    BY <1>0, <1>1, <2>2, <2>3 DEF MapTypes
  <2>4. CASE s = u
    <3>1. devSurfaceItemMap'[s].foreground = f
      BY <1>0, <2>2, <2>4 DEF MapTypes, ItemType
    <3>2. f => f = TRUE
      OBVIOUS
    <3>3. f => HandleSetSceneType(t, d, s, TRUE)
      BY <1>7, <2>4, <3>2
    <3>4. /\ devSurfaceItemMap'[s].deviceId = devSurfaceItemMap[s].deviceId
          /\ devSurfaceItemMap'[s].agentId = devSurfaceItemMap[s].agentId
          /\ devSurfaceItemMap'[s].deleting = devSurfaceItemMap[s].deleting
          /\ devSurfaceItemMap'[s].shown = devSurfaceItemMap[s].shown
      BY <1>0, <2>2, <2>4 DEF MapTypes, ItemType
    <3> QED
      BY <2>1, <2>4, <3>1, <3>3, <3>4
  <2> QED
    BY <2>3, <2>4
<1>8. ASSUME NEW t \in Threads, NEW e \in events, HandleEvent(t, e)
      PROVE  Goal
  BY <1>0, <1>1, <1>8 DEF HandleEvent, OnInnerDestroy, OnRemoveSurface, OnTeardown, MapTypes
<1> QED
  BY <1>1, <1>2, <1>3, <1>4, <1>5, <1>6, <1>7, <1>8, WhoChangesSurfaces DEF WfdP2pStop, HandleClose, Release

\* The surface that HandleAppendSurface adds, and what it finds.
LEMMA AppendEffect ==
    ASSUME SceneInv, NEW t \in Threads, NEW d \in Devices, NEW s \in Surfaces, HandleAppendSurface(t, d, s)
    PROVE  /\ d \in Connected /\ s \notin Items
           /\ devSurfaceItemMap' \in [Surfaces -> ItemType]
           /\ devSurfaceItemMap'[s].deviceId = d
           /\ devSurfaceItemMap'[s].agentId = devConnectionMap[d].agentId
           /\ devSurfaceItemMap'[s].shown = devConnectionMap[d].isRunning
           /\ \A u \in Surfaces : u # s => devSurfaceItemMap'[u] = devSurfaceItemMap[u]
           /\ Items' = Items \cup {s} /\ Usable' = Usable \cup {s}
           /\ Foreground' = IF ForegroundIsFree THEN Foreground \cup {s} ELSE Foreground
           /\ UNCHANGED <<isSinkRunning, devConnectionMap, agents, job, torn>>
<1>0. MapTypes /\ MapTypes' /\ devConnectionMap[d].agentId # INVALID_ID /\ ForegroundIsFree \in BOOLEAN
  BY Typed DEF HandleAppendSurface, MapTypes, EntryType, ItemType, ForegroundIsFree
<1>1. /\ d \in Connected /\ s \notin Items
      /\ UNCHANGED <<isSinkRunning, devConnectionMap, agents, job, torn>>
      /\ devSurfaceItemMap' = [devSurfaceItemMap EXCEPT ![s] =
           [deviceId |-> d, agentId |-> devConnectionMap[d].agentId, deleting |-> FALSE,
            foreground |-> ForegroundIsFree, shown |-> devConnectionMap[d].isRunning]]
  BY DEF HandleAppendSurface
<1>2. devSurfaceItemMap'[s] # NoItem
  BY <1>0, <1>1 DEF NoItem, MapTypes
<1>3. Items' = Items \cup {s}
  BY <1>0, <1>1, <1>2 DEF Items, MapTypes
<1>4. Usable' = Usable \cup {s}
  BY <1>0, <1>1, <1>3 DEF Usable, Items, MapTypes
<1>5. Foreground' = IF ForegroundIsFree THEN Foreground \cup {s} ELSE Foreground
  BY <1>0, <1>1, <1>3 DEF Foreground, Items, MapTypes
<1>6. /\ devSurfaceItemMap'[s].deviceId = d
      /\ devSurfaceItemMap'[s].agentId = devConnectionMap[d].agentId
      /\ devSurfaceItemMap'[s].shown = devConnectionMap[d].isRunning
  BY <1>0, <1>1 DEF MapTypes
<1> QED
  BY <1>0, <1>1, <1>3, <1>4, <1>5, <1>6 DEF MapTypes

\* The maps stay finite, and what is in the map of surfaces has a device and an agent.
LEMMA MapsStep ==
    ASSUME SceneInv, [Next]_vars
    PROVE  MapsOK'
<1>0. MapTypes /\ MapsOK
  BY Typed DEF SceneInv
<1>1. IsFiniteSet(Connected')
  BY <1>0, ConnectedStay, FS_Subset, FS_AddElement DEF MapsOK
<1>2. \A s \in Items' : s \in Items \/ \E t \in Threads, d \in Devices : HandleAppendSurface(t, d, s)
  BY SurfacesStay DEF Items
<1>3. IsFiniteSet(Items')
  <2>1. CASE \E t \in Threads, d \in Devices, s \in Surfaces : HandleAppendSurface(t, d, s)
    <3>1. PICK s \in Surfaces : Items' = Items \cup {s}
      BY <2>1, AppendEffect
    <3> QED
      BY <1>0, <3>1, FS_AddElement DEF MapsOK
  <2>2. CASE Items' \subseteq Items
    BY <1>0, <2>2, FS_Subset DEF MapsOK
  <2> QED
    BY <1>2, <2>1, <2>2 DEF Items
<1>4. ASSUME NEW s \in Items'
      PROVE  devSurfaceItemMap'[s].deviceId \in Devices /\ devSurfaceItemMap'[s].agentId \in AgentIds
  <2>1. CASE \E t \in Threads, d \in Devices : HandleAppendSurface(t, d, s)
    <3>1. PICK t \in Threads, d \in Devices : HandleAppendSurface(t, d, s)
      BY <2>1
    <3>2. s \in Surfaces
      BY <1>4 DEF Items
    <3>3. /\ d \in Connected /\ devSurfaceItemMap'[s].deviceId = d
          /\ devSurfaceItemMap'[s].agentId = devConnectionMap[d].agentId
      BY <3>1, <3>2, AppendEffect
    <3>4. devConnectionMap[d].agentId \in AgentIds
      BY <3>3, Typed
    <3> QED
      BY <3>3, <3>4
  <2>2. CASE ~\E t \in Threads, d \in Devices : HandleAppendSurface(t, d, s)
    BY <1>0, <1>4, <2>2, SurfacesStay DEF MapsOK, Items
  <2> QED
    BY <2>1, <2>2
<1> QED
  BY <1>1, <1>3, <1>4 DEF MapsOK

\* What a thread has to do is over once it has gone on with it, not before.
LEMMA JobsGoOn ==
    ASSUME SceneInv, [Next]_vars, NEW t \in Threads
    PROVE  job'[t] = job[t] \/ job[t] = Idle \/ GoOn(t)
<1>0. job \in [Threads -> JobType]
  BY DEF SceneInv, JobsOK
<1>1. ASSUME NEW u \in Threads, NEW j, Then(u, j), u # t
      PROVE  job'[t] = job[t]
  BY <1>0, <1>1 DEF Then
<1>2. CASE UNCHANGED job
  BY <1>2
<1>3. ASSUME NEW u \in Threads, GoOn(u)
      PROVE  job'[t] = job[t] \/ GoOn(t)
  <2>1. \E j : Then(u, j)
    BY <1>3, RestEffect DEF GoOn, WfdP2pStop, HandlePlayRest, DestroyAgent, OnP2pPeerDisconnected,
                            OnP2pPeerConnected, Then
  <2> QED
    BY <1>1, <1>3, <2>1
<1>4. ASSUME NEW u \in Threads, Request(u)
      PROVE  job'[t] = job[t] \/ job[t] = Idle
  <2>1. UNCHANGED job \/ (Begin(u) /\ \E j : Then(u, j))
    BY <1>4 DEF Request, HandleStart, HandleStop, HandleAppendSurface, HandleRemoveSurface,
                HandleSetSceneType, HandlePlay, HandleClose
  <2> QED
    BY <1>1, <2>1 DEF Begin
<1>5. ASSUME NEW u \in Threads, NEW e \in events, HandleEvent(u, e)
      PROVE  job'[t] = job[t] \/ job[t] = Idle
  <2>1. UNCHANGED job \/ (Begin(u) /\ \E j : Then(u, j))
    BY <1>5 DEF HandleEvent, OnInnerDestroy, OnRemoveSurface, OnTeardown
  <2> QED
    BY <1>1, <2>1 DEF Begin
<1>6. CASE Wifi
  <2>1. Begin("wifi") /\ \E j : Then("wifi", j)
    BY <1>6 DEF Wifi, OnP2pDisconnected, OnP2pGcJoinGroup
  <2> QED
    BY <1>1, <2>1 DEF Begin, Threads
<1> QED
  BY <1>2, <1>3, <1>4, <1>5, <1>6 DEF Next, vars, Release, AgentReports, AgentDestroyed

\* Whoever clears isSinkRunning_ has WfdP2pStop still to do.
LEMMA StopsWithJob ==
    ASSUME SceneInv, [Next]_vars, isSinkRunning, ~isSinkRunning'
    PROVE  \E t \in Threads : job'[t].op = "WfdP2pStop"
<1>1. ASSUME NEW t \in Threads, GoOn(t)
      PROVE  UNCHANGED isSinkRunning
  BY <1>1, RestEffect DEF GoOn, WfdP2pStop, HandlePlayRest, DestroyAgent, OnP2pPeerDisconnected, OnP2pPeerConnected
<1>2. ASSUME NEW t \in Threads, Request(t)
      PROVE  HandleStop(t)
  BY <1>2 DEF Request, HandleStart, HandleAppendSurface, HandleRemoveSurface, HandleSetSceneType, HandlePlay,
              HandleClose
<1>3. ASSUME NEW t \in Threads, NEW e \in events, HandleEvent(t, e)
      PROVE  UNCHANGED isSinkRunning
  BY <1>3 DEF HandleEvent
<1>4. ASSUME Wifi \/ Release \/ UNCHANGED vars
      PROVE  UNCHANGED isSinkRunning
  BY <1>4 DEF Wifi, OnP2pDisconnected, OnP2pGcJoinGroup, Release, vars
<1>5. ASSUME NEW a \in AgentIds, AgentReports(a) \/ AgentDestroyed(a)
      PROVE  UNCHANGED isSinkRunning
  BY <1>5 DEF AgentReports, AgentDestroyed
<1>6. \E t \in Threads : HandleStop(t)
  BY <1>1, <1>2, <1>3, <1>4, <1>5 DEF Next
<1> QED
  BY <1>6 DEF HandleStop, Then, Job, SceneInv, JobsOK

\* Only a job that HandleStop left keeps a stopped sink from being empty.
LEMMA StoppedStep ==
    ASSUME SceneInv, [Next]_vars
    PROVE  StoppedIsEmpty'
<1>0. MapTypes /\ JobsOK /\ StoppedIsEmpty
  BY Typed DEF SceneInv
<1> SUFFICES ASSUME ~isSinkRunning', \A t \in Threads : job'[t].op # "WfdP2pStop"
             PROVE  Connected' = {} /\ Items' = {}
  BY DEF StoppedIsEmpty
<1>1. CASE \E t \in Threads : WfdP2pStop(t)
  <2>1. ClearAll
    BY <1>1 DEF WfdP2pStop
  <2> QED
    BY <1>0, <2>1, ClearAllEffect DEF Connected, Items
<1>2. CASE ~\E t \in Threads : WfdP2pStop(t)
  <2>1. ~isSinkRunning /\ \A t \in Threads : job[t].op # "WfdP2pStop"
    <3>1. ASSUME NEW t \in Threads, job[t].op = "WfdP2pStop"
          PROVE  FALSE
      <4>1. job'[t] # job[t] /\ job[t] # Idle
        BY <3>1 DEF Idle, Job
      <4>2. GoOn(t)
        BY <4>1, JobsGoOn
      <4> QED
        BY <1>2, <3>1, <4>2, RestEffect
           DEF GoOn, HandlePlayRest, DestroyAgent, OnP2pPeerDisconnected, OnP2pPeerConnected
    <3> QED
      BY <3>1, StopsWithJob
  <2>2. Connected = {} /\ Items = {}
    BY <1>0, <2>1 DEF StoppedIsEmpty
  <2>3. Connected' = {}
    BY <2>1, <2>2, ConnectedStay
  <2>4. \A s \in Surfaces : devSurfaceItemMap'[s] = NoItem
    BY <2>2, SurfacesStay, AppendEffect
  <2> QED
    BY <2>3, <2>4 DEF Items
<1> QED
  BY <1>1, <1>2

\* A surface that is in use was so before, for the same device and agent, or is appended.
LEMMA UsableStay ==
    ASSUME SceneInv, [Next]_vars, NEW s \in Usable'
    PROVE  \/ /\ s \in Usable
              /\ devSurfaceItemMap'[s].deviceId = devSurfaceItemMap[s].deviceId
              /\ devSurfaceItemMap'[s].agentId = devSurfaceItemMap[s].agentId
              /\ devSurfaceItemMap[s].shown => devSurfaceItemMap'[s].shown
           \/ \E t \in Threads, d \in Devices : HandleAppendSurface(t, d, s)
BY SurfacesStay DEF Usable, Items

\* What is below a limit may grow by one.
LEMMA OneMore ==
    ASSUME NEW S, NEW x, IsFiniteSet(S), NEW n \in Nat, Cardinality(S) < n
    PROVE  Cardinality(S \cup {x}) <= n
<1>1. Cardinality(S) \in Nat
  BY FS_CardinalityType
<1>2. Cardinality(S \cup {x}) = IF x \in S THEN Cardinality(S) ELSE Cardinality(S) + 1
  BY FS_AddElement
<1> QED
  BY <1>1, <1>2

\* What is within a limit may shrink.
LEMMA NotMore ==
    ASSUME NEW S, NEW T, IsFiniteSet(S), T \subseteq S, NEW n \in Nat, Cardinality(S) <= n
    PROVE  Cardinality(T) <= n
BY FS_Subset, FS_CardinalityType

\* Each limit is asked where an entry is added, and an addition that is made for one limit
\* does not disturb the others.
LEMMA LimitsStep ==
    ASSUME SceneInv, [Next]_vars
    PROVE  WithinLimits'
<1>0. /\ MapTypes /\ WithinLimits /\ IsFiniteSet(Connected) /\ IsFiniteSet(Items)
      /\ AccessDevMaximum \in Nat /\ SurfaceMaximum \in Nat /\ ForegroundMaximum \in Nat
  BY Typed, SceneAssumption DEF SceneInv, MapsOK, SceneAssumption
<1>1. IsFiniteSet(Usable) /\ IsFiniteSet(Foreground) 
  BY <1>0, FS_Subset DEF Usable, Foreground
<1>2. Cardinality(Connected') <= AccessDevMaximum
  <2>1. CASE Connected' \subseteq Connected
    BY <1>0, <2>1, NotMore DEF WithinLimits
  <2>2. ASSUME NEW d \in Devices, Cardinality(Connected) < AccessDevMaximum, Connected' = Connected \cup {d}
        PROVE  Cardinality(Connected') <= AccessDevMaximum
    BY <1>0, <2>2, OneMore
  <2> QED
    BY <2>1, <2>2, ConnectedStay
<1>3. ASSUME NEW t \in Threads, NEW d \in Devices, NEW s \in Surfaces, HandleAppendSurface(t, d, s)
      PROVE  /\ Cardinality(Usable') <= SurfaceMaximum
             /\ Cardinality(Foreground') <= ForegroundMaximum
             /\ \A u, w \in Usable' : u # w => devSurfaceItemMap'[u].deviceId # devSurfaceItemMap'[w].deviceId
  <2>1. Cardinality(Usable) < SurfaceMaximum /\ \A u \in Usable : devSurfaceItemMap[u].deviceId # d
    BY <1>3 DEF HandleAppendSurface
  <2>2. Cardinality(Usable') <= SurfaceMaximum
    <3>1. Usable' = Usable \cup {s}
      BY <1>3, AppendEffect
    <3> QED
      BY <1>0, <1>1, <2>1, <3>1, OneMore
  <2>3. Cardinality(Foreground') <= ForegroundMaximum
    <3>1. Foreground' = IF ForegroundIsFree THEN Foreground \cup {s} ELSE Foreground
      BY <1>3, AppendEffect
    <3> QED
      BY <1>0, <1>1, <3>1, OneMore DEF ForegroundIsFree, WithinLimits
  <2>4. \A u \in Usable : u # s /\ devSurfaceItemMap'[u] = devSurfaceItemMap[u]
    BY <1>3, Typed, AppendEffect
  <2>5. Usable' = Usable \cup {s} /\ devSurfaceItemMap'[s].deviceId = d
    BY <1>3, AppendEffect
  <2>6. ASSUME NEW u \in Usable', NEW w \in Usable', u # w
        PROVE  devSurfaceItemMap'[u].deviceId # devSurfaceItemMap'[w].deviceId
    <3>1. CASE u = s
      BY <2>1, <2>4, <2>5, <2>6, <3>1
    <3>2. CASE w = s
      BY <2>1, <2>4, <2>5, <2>6, <3>2
    <3>3. CASE u # s /\ w # s
      BY <1>0, <2>4, <2>5, <2>6, <3>3 DEF WithinLimits
    <3> QED
      BY <3>1, <3>2, <3>3
  <2> QED
    BY <2>2, <2>3, <2>6
<1>4. ASSUME ~\E t \in Threads, d \in Devices, s \in Surfaces : HandleAppendSurface(t, d, s)
      PROVE  /\ Cardinality(Usable') <= SurfaceMaximum
             /\ \A u, w \in Usable' : u # w => devSurfaceItemMap'[u].deviceId # devSurfaceItemMap'[w].deviceId
  <2>1. \A s \in Usable' : s \in Usable /\ devSurfaceItemMap'[s].deviceId = devSurfaceItemMap[s].deviceId
    BY <1>4, UsableStay DEF Usable, Items
  <2>2. Cardinality(Usable') <= SurfaceMaximum
    BY <1>0, <1>1, <2>1, NotMore DEF WithinLimits
  <2> QED
    BY <1>0, <2>1, <2>2 DEF WithinLimits
<1>5. ASSUME NEW t \in Threads, NEW d \in Devices, NEW s \in Surfaces, HandleSetSceneType(t, d, s, TRUE)
      PROVE  Cardinality(Foreground') <= ForegroundMaximum
  <2>1. Cardinality(Foreground \ {s}) + 1 <= ForegroundMaximum
    BY <1>5 DEF HandleSetSceneType
  <2>2. devSurfaceItemMap' = [devSurfaceItemMap EXCEPT ![s] = [devSurfaceItemMap[s] EXCEPT !.foreground = TRUE]]
    BY <1>5 DEF HandleSetSceneType
  <2>3. Foreground' \subseteq (Foreground \ {s}) \cup {s}
    BY <1>0, <2>2 DEF Foreground, Items, MapTypes
  <2>4. IsFiniteSet(Foreground \ {s})
    BY <1>1, FS_Subset
  <2>5. Cardinality((Foreground \ {s}) \cup {s}) <= ForegroundMaximum
    <3>1. Cardinality(Foreground \ {s}) < ForegroundMaximum
      BY <1>0, <2>1, <2>4, FS_CardinalityType
    <3> QED
      BY <1>0, <2>4, <3>1, OneMore
  <2>6. IsFiniteSet((Foreground \ {s}) \cup {s})
    BY <2>4, FS_AddElement
  <2> QED
    BY <1>0, <2>3, <2>5, <2>6, NotMore
<1>6. ASSUME ~\E t \in Threads, d \in Devices, s \in Surfaces :
                HandleAppendSurface(t, d, s) \/ HandleSetSceneType(t, d, s, TRUE)
      PROVE  Cardinality(Foreground') <= ForegroundMaximum
  <2>1. Foreground' \subseteq Foreground
    BY <1>6, SurfacesStay DEF Foreground, Items
  <2> QED
    BY <1>0, <1>1, <2>1, NotMore DEF WithinLimits
<1> QED
  BY <1>2, <1>3, <1>4, <1>5, <1>6 DEF WithinLimits

\* Only the end of OnInnerDestroy tears agents.
LEMMA TornStays ==
    ASSUME [Next]_vars
    PROVE  torn' = torn \/ \E t \in Threads : OnInnerDestroyRest(t)
<1>1. ASSUME NEW t \in Threads, GoOn(t), ~OnInnerDestroyRest(t)
      PROVE  torn' = torn
  BY <1>1 DEF GoOn, WfdP2pStop, HandlePlayRest, DestroyAgent, OnP2pPeerDisconnected, OnP2pPeerConnected
<1>2. ASSUME NEW t \in Threads, Request(t)
      PROVE  torn' = torn
  BY <1>2 DEF Request, HandleStart, HandleStop, HandleAppendSurface, HandleRemoveSurface, HandleSetSceneType,
              HandlePlay, HandleClose
<1>3. ASSUME NEW t \in Threads, NEW e \in events, HandleEvent(t, e)
      PROVE  torn' = torn
  BY <1>3 DEF HandleEvent
<1>4. ASSUME Wifi \/ Release \/ UNCHANGED vars
      PROVE  torn' = torn
  BY <1>4 DEF Wifi, OnP2pDisconnected, OnP2pGcJoinGroup, Release, vars
<1>5. ASSUME NEW a \in AgentIds, AgentReports(a) \/ AgentDestroyed(a)
      PROVE  torn' = torn
  BY <1>5 DEF AgentReports, AgentDestroyed
<1> QED
  BY <1>1, <1>2, <1>3, <1>4, <1>5 DEF Next

\* A device leaves the map with its surfaces marked, or, after the gap of OnInnerDestroy, with
\* its agent torn.
LEMMA HaveDeviceStep ==
    ASSUME SceneInv, [Next]_vars
    PROVE  SurfacesHaveDevice'
<1>0. MapTypes /\ MapTypes' /\ MapsOK /\ JobsOK /\ SurfacesHaveDevice
  BY Typed, MapTypeStep DEF SceneInv
<1>1. SUFFICES ASSUME NEW s \in Usable', devSurfaceItemMap'[s].agentId \notin torn'
               PROVE  devConnectionMap'[devSurfaceItemMap'[s].deviceId].agentId = devSurfaceItemMap'[s].agentId
  BY DEF SurfacesHaveDevice
<1>2. s \in Surfaces
  BY DEF Usable, Items
<1>3. ASSUME NEW t \in Threads, NEW d \in Devices, HandleAppendSurface(t, d, s)
      PROVE  devConnectionMap'[devSurfaceItemMap'[s].deviceId].agentId = devSurfaceItemMap'[s].agentId
  BY <1>2, <1>3, AppendEffect
<1> DEFINE d == devSurfaceItemMap[s].deviceId
           a == devSurfaceItemMap[s].agentId
<1>4. CASE ~\E t \in Threads, x \in Devices : HandleAppendSurface(t, x, s)
  <2>1. s \in Usable /\ devSurfaceItemMap'[s].deviceId = d /\ devSurfaceItemMap'[s].agentId = a
    BY <1>4, UsableStay
  <2>2. d \in Devices /\ a \in AgentIds /\ a # INVALID_ID /\ ~devSurfaceItemMap[s].deleting /\ s \in Items
    BY <1>0, <2>1, Typed DEF MapsOK
  <2>3. ASSUME NEW t \in Threads, OnInnerDestroyRest(t), ~UNCHANGED devConnectionMap
        PROVE  devConnectionMap'[d].agentId = a
    <3> DEFINE e == job[t].dev
               b == job[t].agent
    <3>1. /\ devConnectionMap' = Erased(e) /\ torn \subseteq torn' /\ e \in Devices
          /\ devConnectionMap[e].agentId \notin {b, INVALID_ID} => devConnectionMap[e].agentId \in torn'
          /\ (\E u \in Usable : devSurfaceItemMap[u].agentId = b) => b \in torn'
      BY <1>0, <2>3, RestEffect DEF JobsOK, JobFits
    <3>2. devConnectionMap[d].agentId = a /\ a \notin torn'
      BY <1>0, <1>1, <2>1, <3>1 DEF SurfacesHaveDevice
    <3>3. d # e
      BY <2>1, <2>2, <3>1, <3>2
    <3> QED
      BY <1>0, <2>2, <3>1, <3>2, <3>3 DEF Erased, MapTypes
  <2>4. ASSUME torn \subseteq torn'
        PROVE  devConnectionMap[d].agentId = a
    BY <1>0, <1>1, <2>1, <2>4 DEF SurfacesHaveDevice
  <2>5. ~ClearAll
    BY <1>0, <1>2, ClearAllEffect DEF Usable, Items
  <2>6. ASSUME NEW x \in Devices, Disconnect(x)
        PROVE  d # x
    BY <1>0, <1>2, <2>2, <2>6, DisconnectEffect DEF Usable
  <2>7. CASE \E t \in Threads : OnInnerDestroyRest(t)
    BY <2>1, <2>3, <2>4, <2>7, RestEffect
  <2>8. CASE ~\E t \in Threads : OnInnerDestroyRest(t)
    <3>1. torn' = torn
      BY <2>8, TornStays
    <3>2. devConnectionMap[d].agentId = a
      BY <2>4, <3>1
    <3>3. devConnectionMap[d] # NoEntry
      BY <2>2, <3>2 DEF NoEntry
    <3>4. devConnectionMap'[d] # NoEntry
      <4>1. ASSUME NEW x \in Devices, Disconnect(x)
            PROVE  devConnectionMap'[d] # NoEntry
        <5>1. d # x
          BY <2>6, <4>1
        <5>2. devConnectionMap'[d] = devConnectionMap[d]
          BY <1>0, <2>2, <4>1, <5>1, DisconnectEffect
        <5> QED
          BY <3>3, <5>2
      <4>2. ASSUME NEW t \in Threads, OnP2pPeerDisconnected(t)
            PROVE  devConnectionMap'[d] # NoEntry
        BY <3>3, <4>1, <4>2, Typed DEF OnP2pPeerDisconnected
      <4>3. ASSUME NEW t \in Threads, OnP2pPeerConnected(t)
            PROVE  devConnectionMap'[d] # NoEntry
        <5>1. job[t].dev \in Devices
          BY <1>0, <4>3 DEF OnP2pPeerConnected, JobsOK, JobFits
        <5>2. \A b \in AgentIds : [agentId |-> b, isRunning |-> FALSE] # NoEntry
          BY Typed DEF NoEntry
        <5>3. CASE UNCHANGED devConnectionMap
          BY <3>3, <5>3
        <5>4. CASE CreateSinkAgentLocked(job[t].dev)
          <6>1. PICK b \in AgentIds :
                    \A x \in Devices : devConnectionMap'[x] = IF x = job[t].dev THEN [agentId |-> b, isRunning |-> FALSE]
                                                              ELSE devConnectionMap[x]
            BY <1>0, <5>1, <5>4, CreateEffect
          <6> QED
            BY <2>2, <3>3, <5>2, <6>1
        <5> QED
          BY <4>3, <5>3, <5>4 DEF OnP2pPeerConnected
      <4>4. ASSUME NEW t \in Threads, NEW x \in Devices, HandlePlay(t, x)
            PROVE  devConnectionMap'[d] # NoEntry
        BY <1>0, <2>2, <3>2, <4>4 DEF HandlePlay, MapTypes, EntryType, NoEntry
      <4> QED
        BY <2>5, <2>8, <3>3, <4>1, <4>2, <4>3, <4>4, WhoChangesDevices DEF WfdP2pStop, HandleClose, Release
    <3>5. devConnectionMap'[d].agentId = devConnectionMap[d].agentId
      BY <2>2, <3>2, <3>4, EntriesStay
    <3> QED
      BY <2>1, <3>2, <3>5
  <2> QED
    BY <2>7, <2>8
<1> QED
  BY <1>3, <1>4

\* A device comes to play only by HandlePlay, which leaves the rest of it to its thread.
LEMMA PlayBegins ==
    ASSUME SceneInv, [Next]_vars, NEW d \in Devices, NEW a,
           devConnectionMap'[d] = [agentId |-> a, isRunning |-> TRUE], devConnectionMap'[d] # devConnectionMap[d]
    PROVE  \E t \in Threads : job'[t].op = "play" /\ job'[t].agent = a
<1>0. MapTypes /\ JobsOK
  BY Typed DEF SceneInv
<1>1. devConnectionMap'[d] # NoEntry /\ devConnectionMap'[d].agentId = a /\ devConnectionMap'[d].isRunning
  BY DEF NoEntry
<1>2. ~ClearAll
  BY <1>0, <1>1, ClearAllEffect
<1>3. ASSUME NEW x \in Devices, Disconnect(x)
      PROVE  FALSE
  BY <1>0, <1>1, <1>3, DisconnectEffect
<1>4. ASSUME NEW t \in Threads, OnP2pPeerDisconnected(t)
      PROVE  FALSE
  BY <1>3, <1>4, Typed DEF OnP2pPeerDisconnected
<1>5. ASSUME NEW t \in Threads, OnP2pPeerConnected(t)
      PROVE  FALSE
  <2>1. job[t].dev \in Devices
    BY <1>0, <1>5 DEF OnP2pPeerConnected, JobsOK, JobFits
  <2>2. CreateSinkAgentLocked(job[t].dev)
    BY <1>5 DEF OnP2pPeerConnected
  <2>3. PICK b \in AgentIds :
            \A x \in Devices : devConnectionMap'[x] = IF x = job[t].dev THEN [agentId |-> b, isRunning |-> FALSE]
                                                      ELSE devConnectionMap[x]
    BY <1>0, <2>1, <2>2, CreateEffect
  <2>4. devConnectionMap'[d] = [agentId |-> b, isRunning |-> FALSE]
    BY <2>3
  <2> QED
    BY <1>1, <2>4
<1>6. ASSUME NEW t \in Threads, OnInnerDestroyRest(t)
      PROVE  FALSE
  BY <1>0, <1>1, <1>6, RestEffect DEF Erased, MapTypes
<1>7. PICK t \in Threads, x \in Devices : HandlePlay(t, x)
  BY <1>2, <1>3, <1>4, <1>5, <1>6, WhoChangesDevices DEF WfdP2pStop, HandleClose, Release
<1>8. /\ devConnectionMap' = [devConnectionMap EXCEPT ![x] = [devConnectionMap[x] EXCEPT !.isRunning = TRUE]]
      /\ job' = [job EXCEPT ![t] = Job("play", x, devConnectionMap[x].agentId, FALSE)]
  BY <1>7 DEF HandlePlay, Then
<1>9. x = d /\ devConnectionMap[d].agentId = a
  BY <1>0, <1>1, <1>8 DEF MapTypes, EntryType
<1> QED
  BY <1>0, <1>8, <1>9 DEF JobsOK, Job

\* A surface that comes while its device plays is sent at once; one that was there before is
\* sent by HandlePlay, whose job is known by its agent.
LEMMA ShownStep ==
    ASSUME SceneInv, [Next]_vars
    PROVE  PlayingIsShown'
<1>0. MapTypes /\ MapsOK /\ JobsOK /\ JobsOK' /\ PlayingIsShown
  BY Typed, JobsStep DEF SceneInv
<1> DEFINE d(s) == devSurfaceItemMap[s].deviceId
           a(s) == devSurfaceItemMap[s].agentId
           Plays(s) == devConnectionMap[d(s)] = [agentId |-> a(s), isRunning |-> TRUE]
           Quiet(s) == \A t \in Threads : job[t].op = "play" => job[t].agent # a(s)
<1>1. SUFFICES ASSUME NEW s \in Usable', Plays(s)', Quiet(s)'
               PROVE  devSurfaceItemMap'[s].shown
  BY DEF PlayingIsShown
<1>2. s \in Surfaces
  BY DEF Usable, Items
<1>3. ASSUME NEW t \in Threads, NEW x \in Devices, HandleAppendSurface(t, x, s)
      PROVE  devSurfaceItemMap'[s].shown
  <2>1. /\ devSurfaceItemMap'[s].deviceId = x /\ devSurfaceItemMap'[s].shown = devConnectionMap[x].isRunning
        /\ devConnectionMap' = devConnectionMap
    BY <1>2, <1>3, AppendEffect
  <2> QED
    BY <1>1, <2>1
<1>4. CASE ~\E t \in Threads, x \in Devices : HandleAppendSurface(t, x, s)
  <2>1. /\ s \in Usable /\ d(s)' = d(s) /\ a(s)' = a(s)
        /\ devSurfaceItemMap[s].shown => devSurfaceItemMap'[s].shown
    BY <1>4, UsableStay
  <2>2. d(s) \in Devices /\ a(s) \in AgentIds
    BY <1>0, <2>1, Typed DEF MapsOK
  <2>3. Plays(s)
    BY <1>1, <2>1, <2>2, PlayBegins
  <2>4. CASE Quiet(s)
    BY <1>0, <2>1, <2>3, <2>4 DEF PlayingIsShown
  <2>5. ASSUME NEW t \in Threads, job[t].op = "play", job[t].agent = a(s)
        PROVE  devSurfaceItemMap'[s].shown
    <3>1. job'[t] # job[t] /\ job[t] # Idle
      BY <1>1, <2>1, <2>5 DEF Idle, Job
    <3>2. GoOn(t)
      BY <3>1, JobsGoOn
    <3>3. HandlePlayRest(t)
      BY <2>5, <3>2, RestEffect DEF GoOn, WfdP2pStop, DestroyAgent, OnP2pPeerDisconnected, OnP2pPeerConnected
    <3>4. devConnectionMap[d(s)].agentId = a(s)
      BY <2>3
    <3>5. agents[a(s)].dev = d(s)
      BY <2>2, <3>4, Typed
    <3>6. job[t].dev = d(s)
      BY <1>0, <2>5, <3>5 DEF JobsOK, JobFits
    <3>7. devSurfaceItemMap'[s] = [devSurfaceItemMap[s] EXCEPT !.shown = TRUE]
      BY <1>2, <2>1, <2>5, <3>3, <3>6 DEF HandlePlayRest, ToSend
    <3> QED
      BY <1>0, <1>2, <3>7 DEF MapTypes, ItemType
  <2> QED
    BY <2>4, <2>5
<1> QED
  BY <1>3, <1>4

\* An event leaves the queue only by the worker that handles it.
LEMMA EventStays ==
    ASSUME SceneInv, [Next]_vars, NEW e \in events
    PROVE  e \in events' \/ \E t \in Threads : HandleEvent(t, e)
<1>1. ASSUME NEW t \in Threads, GoOn(t)
      PROVE  e \in events'
  BY <1>1, RestEffect DEF GoOn, WfdP2pStop, HandlePlayRest, DestroyAgent, OnP2pPeerDisconnected, OnP2pPeerConnected
<1>2. ASSUME NEW t \in Threads, Request(t)
      PROVE  e \in events'
  BY <1>2 DEF Request, HandleStart, HandleStop, HandleAppendSurface, HandleRemoveSurface, HandleSetSceneType,
              HandlePlay, HandleClose
<1>3. ASSUME NEW t \in Threads, NEW f \in events, HandleEvent(t, f), f # e
      PROVE  e \in events'
  BY <1>3 DEF HandleEvent
<1>4. ASSUME Wifi \/ Release \/ UNCHANGED vars
      PROVE  e \in events'
  BY <1>4 DEF Wifi, OnP2pDisconnected, OnP2pGcJoinGroup, Release, vars
<1>5. ASSUME NEW a \in AgentIds, AgentReports(a) \/ AgentDestroyed(a)
      PROVE  e \in events'
  BY <1>5 DEF AgentReports, AgentDestroyed
<1> QED
  BY <1>1, <1>2, <1>3, <1>4, <1>5 DEF Next

\* An agent lives, or is gone, since it did before, or by the step of its own that makes it so.
LEMMA StatesBegin ==
    ASSUME SceneInv, [Next]_vars, NEW a \in AgentIds
    PROVE  /\ agents'[a].state = "alive" => agents[a].state = "alive" \/ \E d \in Devices : devConnectionMap'[d].agentId = a
           /\ agents'[a].state = "gone" => agents[a].state = "gone" \/ AgentDestroyed(a)
<1> DEFINE Goal == /\ agents'[a].state = "alive" => agents[a].state = "alive" \/ \E d \in Devices : devConnectionMap'[d].agentId = a
                   /\ agents'[a].state = "gone" => agents[a].state = "gone" \/ AgentDestroyed(a)
<1>0. MapTypes /\ JobsOK
  BY Typed DEF SceneInv
<1>1. CASE UNCHANGED agents
  BY <1>1
<1>2. CASE ClearAll
  BY <1>0, <1>2, ClearAllEffect
<1>3. ASSUME NEW t \in Threads, DestroyAgent(t)
      PROVE  Goal
  BY <1>0, <1>3, DestroyEffect DEF DestroyAgent
<1>4. ASSUME NEW t \in Threads, OnP2pPeerConnected(t)
      PROVE  Goal
  <2>1. job[t].dev \in Devices
    BY <1>0, <1>4 DEF OnP2pPeerConnected, JobsOK, JobFits
  <2>2. CASE CreateSinkAgentLocked(job[t].dev)
    <3>1. PICK b \in AgentIds :
              /\ \A x \in AgentIds : agents'[x] = IF x = b THEN [dev |-> job[t].dev, state |-> "alive"] ELSE agents[x]
              /\ \A x \in Devices : devConnectionMap'[x] = IF x = job[t].dev THEN [agentId |-> b, isRunning |-> FALSE]
                                                          ELSE devConnectionMap[x]
      BY <1>0, <2>1, <2>2, CreateEffect
    <3>2. devConnectionMap'[job[t].dev].agentId = b
      BY <2>1, <3>1
    <3> QED
      BY <2>1, <3>1, <3>2
  <2> QED
    BY <1>1, <1>4, <2>2 DEF OnP2pPeerConnected
<1>5. ASSUME NEW b \in AgentIds, AgentDestroyed(b)
      PROVE  Goal
  <2>1. CASE a = b
    BY <1>0, <1>5, <2>1 DEF AgentDestroyed, MapTypes, AgentType
  <2>2. CASE a # b
    BY <1>0, <1>5, <2>2 DEF AgentDestroyed, MapTypes
  <2> QED
    BY <2>1, <2>2
<1> QED
  BY <1>1, <1>2, <1>3, <1>4, <1>5, WhoChangesAgents DEF WfdP2pStop, Release

\* Whoever takes a device out of the map has its agent to destroy, or has destroyed it, or it is torn.
LEMMA LeavesWithJob ==
    ASSUME SceneInv, [Next]_vars, NEW d \in Connected, devConnectionMap'[d] = NoEntry
    PROVE  LET a == devConnectionMap[d].agentId
           IN  \/ agents'[a].state # "alive"
               \/ a \in torn'
               \/ \E t \in Threads : job'[t].agent = a /\ job'[t].op = "DestroyAgent"
<1> DEFINE a == devConnectionMap[d].agentId
           Goal == \/ agents'[a].state # "alive"
                   \/ a \in torn'
                   \/ \E t \in Threads : job'[t].agent = a /\ job'[t].op = "DestroyAgent"
<1>0. MapTypes /\ JobsOK /\ d \in Devices /\ a \in AgentIds /\ a # INVALID_ID /\ devConnectionMap[d] # NoEntry
  BY Typed DEF SceneInv, NoEntry
<1>1. CASE ClearAll
  BY <1>0, <1>1, ClearAllEffect
<1>2. ASSUME NEW t \in Threads, NEW x \in Connected, Disconnect(x), Then(t, DestroyJob(devConnectionMap[x].agentId))
      PROVE  Goal
  <2>1. x = d
    <3>1. x \in Devices
      BY Typed
    <3>2. x # d => devConnectionMap'[d] = devConnectionMap[d]
      BY <1>0, <1>2, <3>1, DisconnectEffect
    <3> QED
      BY <1>0, <3>2
  <2>2. job'[t] = DestroyJob(a)
    BY <1>0, <1>2, <2>1 DEF Then, JobsOK
  <2> QED
    BY <2>2 DEF DestroyJob, Job
<1>3. ASSUME NEW t \in Threads, OnP2pPeerDisconnected(t)
      PROVE  Goal
  BY <1>0, <1>2, <1>3 DEF OnP2pPeerDisconnected
<1>4. ASSUME NEW t \in Threads, NEW x \in Devices, HandleClose(t, x)
      PROVE  Goal
  BY <1>2, <1>4 DEF HandleClose
<1>5. ASSUME NEW t \in Threads, OnInnerDestroyRest(t)
      PROVE  Goal
  <2>1. /\ devConnectionMap' = Erased(job[t].dev) /\ job[t].flag
        /\ job' = [job EXCEPT ![t] = DestroyJob(job[t].agent)]
        /\ devConnectionMap[job[t].dev].agentId \notin {job[t].agent, INVALID_ID}
              => devConnectionMap[job[t].dev].agentId \in torn'
    BY <1>0, <1>5, RestEffect DEF JobsOK, JobFits
  <2>2. job[t].dev = d
    BY <1>0, <2>1 DEF Erased, MapTypes
  <2>3. CASE job[t].agent = a
    BY <1>0, <2>1, <2>3 DEF JobsOK, DestroyJob, Job
  <2>4. CASE job[t].agent # a
    BY <1>0, <2>1, <2>2, <2>4
  <2> QED
    BY <2>3, <2>4
<1>6. ASSUME NEW t \in Threads, OnP2pPeerConnected(t)
      PROVE  FALSE
  <2>1. job[t].dev \in Devices
    BY <1>0, <1>6 DEF OnP2pPeerConnected, JobsOK, JobFits
  <2>2. CreateSinkAgentLocked(job[t].dev)
    BY <1>0, <1>6 DEF OnP2pPeerConnected
  <2>3. PICK b \in AgentIds :
            \A x \in Devices : devConnectionMap'[x] = IF x = job[t].dev THEN [agentId |-> b, isRunning |-> FALSE]
                                                      ELSE devConnectionMap[x]
    BY <1>0, <2>1, <2>2, CreateEffect
  <2>4. [agentId |-> b, isRunning |-> FALSE] # NoEntry
    BY Typed DEF NoEntry
  <2> QED
    BY <1>0, <2>3, <2>4
<1>7. ASSUME NEW t \in Threads, NEW x \in Devices, HandlePlay(t, x)
      PROVE  FALSE
  BY <1>0, <1>7 DEF HandlePlay, MapTypes, EntryType, NoEntry
<1> QED
  BY <1>0, <1>1, <1>3, <1>4, <1>5, <1>6, <1>7, WhoChangesDevices DEF WfdP2pStop, Release

\* From a step to the next an agent is not forgotten: its entry, the job of a thread or its
\* event stands for it.
LEMMA BehindStep ==
    ASSUME SceneInv, [Next]_vars
    PROVE  NothingLeftBehind'
<1>0. MapTypes /\ JobsOK /\ EventsOK /\ ServedByLiving /\ NothingLeftBehind /\ INVALID_ID \notin AgentIds
  BY Typed DEF SceneInv
<1>1. SUFFICES ASSUME NEW a \in AgentIds, \A d \in Devices : devConnectionMap'[d].agentId # a
               PROVE  /\ agents'[a].state = "alive"
                            => a \in torn' \/ \E t \in Threads : /\ job'[t].agent = a
                                                                 /\ job'[t].op = "DestroyAgent" \/ job'[t].flag
                      /\ agents'[a].state = "gone" /\ (\E s \in Surfaces : devSurfaceItemMap'[s].agentId = a)
                            => \E e \in events' : e.type = "AGENT_DESTROYED" /\ e.agent = a
  BY DEF NothingLeftBehind
<1>2. ASSUME agents'[a].state = "alive"
      PROVE  a \in torn' \/ \E t \in Threads : /\ job'[t].agent = a
                                               /\ job'[t].op = "DestroyAgent" \/ job'[t].flag
  <2>1. agents[a].state = "alive"
    BY <1>1, <1>2, StatesBegin
  <2>2. CASE \E d \in Devices : devConnectionMap[d].agentId = a
    <3>1. PICK d \in Connected : devConnectionMap[d].agentId = a
      BY <1>0, <2>2, Typed
    <3>2. d \in Devices /\ devConnectionMap'[d].agentId # a /\ devConnectionMap[d].agentId # INVALID_ID
      BY <1>0, <1>1, <3>1, Typed
    <3>3. devConnectionMap'[d] = NoEntry
      BY <3>1, <3>2, EntriesStay
    <3> QED
      BY <1>2, <3>1, <3>3, LeavesWithJob
  <2>3. CASE ~\E d \in Devices : devConnectionMap[d].agentId = a
    <3>1. a \in torn \/ \E t \in Threads : job[t].agent = a /\ (job[t].op = "DestroyAgent" \/ job[t].flag)
      BY <1>0, <2>1, <2>3 DEF NothingLeftBehind
    <3>2. CASE a \in torn
      BY <3>2, TornStays, RestEffect
    <3>3. ASSUME NEW t \in Threads, job[t].agent = a, job[t].op = "DestroyAgent" \/ job[t].flag, job'[t] # job[t]
          PROVE  job'[t].agent = a /\ job'[t].op = "DestroyAgent"
      <4>1. job[t] # Idle
        BY <1>0, <3>3 DEF Idle, Job
      <4>2. GoOn(t)
        BY <3>3, <4>1, JobsGoOn
      <4>3. job[t].op \in {"DestroyAgent", "OnInnerDestroy"}
        BY <1>0, <3>3 DEF JobsOK, JobFits
      <4>4. ~DestroyAgent(t)
        BY <1>0, <1>2, <2>1, <3>3, DestroyEffect DEF DestroyAgent
      <4>5. OnInnerDestroyRest(t)
        BY <4>2, <4>3, <4>4 DEF GoOn, WfdP2pStop, HandlePlayRest, OnP2pPeerDisconnected, OnP2pPeerConnected
      <4>6. job[t].flag /\ job' = [job EXCEPT ![t] = IF job[t].flag THEN DestroyJob(job[t].agent) ELSE Idle]
        BY <1>0, <4>5, RestEffect DEF JobsOK, JobFits
      <4> QED
        BY <1>0, <3>3, <4>6 DEF JobsOK, DestroyJob, Job
    <3> QED
      BY <3>1, <3>2, <3>3
  <2> QED
    BY <2>2, <2>3
<1>3. ASSUME agents'[a].state = "gone", NEW s \in Surfaces, devSurfaceItemMap'[s].agentId = a
      PROVE  \E e \in events' : e.type = "AGENT_DESTROYED" /\ e.agent = a
  <2>1. CASE AgentDestroyed(a)
    <3>1. [type |-> "AGENT_DESTROYED", agent |-> a, arg |-> NoDevice] \in events'
      BY <2>1 DEF AgentDestroyed
    <3> QED
      BY <3>1
  <2>2. CASE agents[a].state = "gone"
    <3>1. \A d \in Devices : devConnectionMap[d].agentId # a
      BY <1>0, <2>2, Typed DEF ServedByLiving
    <3>2. \A t \in Threads, d \in Devices : ~HandleAppendSurface(t, d, s)
      BY <1>3, <3>1, AppendEffect
    <3>3. devSurfaceItemMap'[s] # NoItem
      BY <1>0, <1>3 DEF NoItem
    <3>4. devSurfaceItemMap[s].agentId = a
      BY <1>3, <3>2, <3>3, SurfacesStay
    <3>5. PICK e \in events : e.type = "AGENT_DESTROYED" /\ e.agent = a
      BY <1>0, <2>2, <3>1, <3>4 DEF NothingLeftBehind
    <3>6. ASSUME NEW t \in Threads, HandleEvent(t, e)
          PROVE  FALSE
      <4>1. OnInnerDestroy(t, a, FALSE)
        BY <3>5, <3>6 DEF HandleEvent
      <4> QED
        BY <3>3, <3>4, <4>1 DEF OnInnerDestroy
    <3> QED
      BY <3>5, <3>6, EventStays
  <2> QED
    BY <1>3, <2>1, <2>2, StatesBegin
<1> QED
  BY <1>2, <1>3

-----------------------------------------------------------------------------
(* The theorems                                                            *)

\* The scene as it is created.
LEMMA InitHolds == Init => SceneInv
<1> SUFFICES ASSUME Init
             PROVE  SceneInv
  OBVIOUS
<1> USE SceneAssumption DEF SceneAssumption, Init
<1>1. TypeOK
  <2>1. NoEntry \in EntryType /\ NoItem \in ItemType
    BY DEF EntryType, ItemType, NoEntry, NoItem
  <2>2. agents \in [AgentIds -> [dev : Devices \cup {NoDevice}, state : {"none", "alive", "dying", "gone"}]]
    OBVIOUS
  <2>3. troubles \in 0..MaxTrouble /\ Connected = {}
    BY DEF Connected
  <2> QED
    BY <2>1, <2>2, <2>3 DEF TypeOK
<1>2. JobsOK
  BY DEF JobsOK, JobFits, JobType, Ops, Idle, Job, INVALID_ID
<1>3. Connected = {} /\ Items = {} /\ Usable = {} /\ Foreground = {}
  BY DEF Connected, Items, Usable, Foreground
<1>4. EventsOK /\ ServedByLiving /\ StoppedIsEmpty /\ SurfacesHaveDevice /\ PlayingIsShown
  BY <1>3 DEF EventsOK, ServedByLiving, StoppedIsEmpty, SurfacesHaveDevice, PlayingIsShown, Idle, Job
<1>5. MapsOK /\ WithinLimits
  BY <1>3, FS_EmptySet DEF MapsOK, WithinLimits
<1>6. NothingLeftBehind
  BY DEF NothingLeftBehind
<1> QED
  BY <1>1, <1>2, <1>4, <1>5, <1>6 DEF SceneInv

\* The step of TypeOK.
LEMMA TypeStep ==
    ASSUME SceneInv, [Next]_vars
    PROVE  TypeOK'
<1>0. MapTypes /\ MapTypes' /\ JobsOK /\ TypeOK
  BY Typed, MapTypeStep DEF SceneInv
<1>1. \A d \in Connected' : /\ devConnectionMap'[d].agentId \in AgentIds
                            /\ agents'[devConnectionMap'[d].agentId].dev = d
  BY ServedStep DEF Connected
<1> DEFINE Rest == isSinkRunning \in BOOLEAN /\ released \in BOOLEAN /\ troubles \in 0..MaxTrouble
<1>2. torn' \subseteq AgentIds
  <2>1. ASSUME NEW t \in Threads, OnInnerDestroyRest(t)
        PROVE  torn' \subseteq AgentIds
    <3>1. job[t].agent \in AgentIds /\ job[t].dev \in Devices
      BY <1>0, <2>1, RestEffect DEF JobsOK, JobFits
    <3>2. devConnectionMap[job[t].dev].agentId \in AgentIds \cup {INVALID_ID}
      BY <1>0, <3>1 DEF MapTypes, EntryType
    <3> QED
      BY <1>0, <2>1, <3>1, <3>2, RestEffect DEF TypeOK
  <2> QED
    BY <1>0, <2>1, TornStays DEF TypeOK
<1>3. Rest'
  <2>0. Rest
    BY <1>0 DEF TypeOK
  <2>1. ASSUME NEW t \in Threads, GoOn(t)
        PROVE  Rest'
    BY <2>0, <2>1, RestEffect DEF GoOn, WfdP2pStop, HandlePlayRest, DestroyAgent, OnP2pPeerDisconnected,
                                  OnP2pPeerConnected
  <2>2. ASSUME NEW t \in Threads, Request(t)
        PROVE  Rest'
    BY <2>0, <2>2 DEF Request, HandleStart, HandleStop, HandleAppendSurface, HandleRemoveSurface,
                      HandleSetSceneType, HandlePlay, HandleClose
  <2>3. ASSUME NEW t \in Threads, NEW e \in events, HandleEvent(t, e)
        PROVE  Rest'
    BY <2>0, <2>3 DEF HandleEvent
  <2>5. ASSUME NEW a \in AgentIds, AgentReports(a) \/ AgentDestroyed(a)
        PROVE  Rest'
    BY <2>0, <2>5, SceneAssumption DEF AgentReports, AgentDestroyed, SceneAssumption
  <2>4. ASSUME Wifi \/ Release \/ UNCHANGED vars
        PROVE  Rest'
    BY <2>0, <2>4 DEF Wifi, OnP2pDisconnected, OnP2pGcJoinGroup, Release, vars
  <2> QED
    BY <2>1, <2>2, <2>3, <2>5, <2>4 DEF Next
<1> QED
  BY <1>0, <1>1, <1>2, <1>3 DEF TypeOK, MapTypes, AgentType

\* All the clauses together.
LEMMA SceneStep == SceneInv /\ [Next]_vars => SceneInv'
<1> SUFFICES ASSUME SceneInv, [Next]_vars
             PROVE  SceneInv'
  OBVIOUS
<1> QED
  BY TypeStep, JobsStep, EventsStep, ServedStep, MapsStep, StoppedStep, LimitsStep, HaveDeviceStep,
     ShownStep, BehindStep DEF SceneInv

\* SceneInv is inductive, so it holds throughout.
LEMMA SceneInvariant == Spec => []SceneInv
BY InitHolds, SceneStep, PTL DEF Spec

\* Types, and each device in devConnectionMap_ has an agent of its own, made for it.
THEOREM TypeCorrect == Spec => []TypeOK
BY SceneInvariant, PTL DEF SceneInv

\* A sink that is stopped is empty once WfdP2pStop has run: since OnP2pPeerConnected asks
\* isSinkRunning_ again under mutex_, no peer that is being accepted comes in behind it.
THEOREM StoppedSinkIsEmpty == Spec => []StoppedIsEmpty
BY SceneInvariant, PTL DEF SceneInv

\* The limits of accessDevMaximum_, surfaceMaximum_ and foregroundMaximum_ hold, for any
\* values of theirs and any number of threads.
THEOREM LimitsHold == Spec => []WithinLimits
BY SceneInvariant, PTL DEF SceneInv

\* A surface in use belongs to a device of devConnectionMap_ and to the agent that serves it now.
THEOREM SurfacesBelong == Spec => []SurfacesHaveDevice
BY SceneInvariant, PTL DEF SceneInv

\* HandlePlay and HandleAppendSurface together send each surface of a playing device to its agent.
THEOREM PlayedIsShown == Spec => []PlayingIsShown
BY SceneInvariant, PTL DEF SceneInv

\* However a device goes, its agent is destroyed and its surfaces are erased with it.
THEOREM NoAgentForgotten == Spec => []NothingLeftBehind
BY SceneInvariant, PTL DEF SceneInv
=============================================================================
