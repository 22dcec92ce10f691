----------------------------- MODULE WfdSourceScene -----------------------------
(***************************************************************************)
(* The scene of a source (services/source/impl/scene/wfd/                  *)
(* wfd_source_scene.cpp) with its interaction, over the contexts and       *)
(* agents of module Contexts and a Wi-Fi P2P module.                       *)
(*                                                                         *)
(* Four kinds of thread enter the scene: the client's calls (ipc), the     *)
(* callbacks of Wi-Fi (one after the other), the timer and the workers     *)
(* that bring what agents report.  mutex_ is held over the synchronous     *)
(* creation of an agent; a callback that connects a device takes and       *)
(* leaves it three times, and those sections are steps.                    *)
(***************************************************************************)
EXTENDS Contexts

CONSTANTS Macs,       \* devices that can be connected
          NoMac,      \* no device
          MaxLinks,   \* bound on the links that Wi-Fi sets up
          MaxCalls,   \* bound on the calls of the client
          Allowed     \* what may happen besides, one set of Disturbances for each behaviour

\* "fault": an agent fails, or the user turns Wi-Fi off (bounded by MaxFaults).
\* "overlap": a call of the client while a Wi-Fi callback is under way.
\* "flap": a link set up before everything of the earlier one is gone.
\* "slow": a synchronous creation that takes longer than PushSyncEvent waits.
\* "ports": no pair of UDP ports for a cast.
\* "capture": the consumer that captures the screen fails.
Disturbances == {"fault", "overlap", "flap", "slow", "ports", "capture"}

ASSUME SceneAssumption == /\ NoMac \notin Macs
                          /\ {MaxLinks, MaxCalls} \subseteq Nat
                          /\ Allowed \subseteq SUBSET Disturbances

VARIABLES p2p,       \* Wi-Fi: on ("started" or "closed"), the link, and the device to connect to
          notices,   \* Wi-Fi: callbacks that have not run yet
          links,     \* Wi-Fi: links set up so far (bounded by MaxLinks)
          scene,     \* the scene's members
          mutex,     \* mutex_: "free" or "wifi"
          wifi,      \* where the callback thread is, and the device it connects
          calls,     \* calls of the client so far (bounded by MaxCalls)
          allow      \* what may happen besides; never changes

sceneVars == <<scene, mutex, wifi, calls, allow>>
p2pVars == <<p2p, notices, links>>
vars == <<contextVars, p2pVars, sceneVars>>

NoDev == [mac |-> NoMac, state |-> "NONE", ctx |-> InvalidId, agent |-> InvalidId]

Init == /\ InitContexts
        /\ p2p = [on |-> TRUE, link |-> NoMac, want |-> NoMac]
        /\ notices = <<>>
        /\ links = 0
        /\ scene = [exists    |-> TRUE,       \* scene_ of the interaction
                    running   |-> FALSE,      \* isSourceRunning_
                    dev       |-> NoDev,      \* connDev_
                    contextId |-> InvalidId,  \* contextId_
                    agentId   |-> InvalidId]  \* agentId_, the agent that captures the screen
        /\ mutex = "free"
        /\ wifi = [at |-> "idle", mac |-> NoMac]
        /\ calls = 0
        /\ allow \in Allowed

-----------------------------------------------------------------------------
(* The Wi-Fi service *)

\* RemoveGroup: the link goes, and this device has changed.
RemoveGroup(p, n) ==
    /\ p2p' = [p EXCEPT !.link = NoMac, !.want = NoMac]
    /\ notices' = IF p.link # NoMac THEN Append(n, "thisDevice") ELSE n

Quiet == /\ notices = <<>> /\ wifi.at = "idle" /\ events = EmptyBag
         /\ \A a \in DOMAIN agents : ~Registered(a)

LinkUp ==
    /\ p2p.on /\ p2p.link = NoMac /\ p2p.want # NoMac
    /\ "flap" \in allow \/ Quiet
    /\ links < MaxLinks /\ links' = links + 1
    /\ p2p' = [p2p EXCEPT !.link = p2p.want, !.want = NoMac]
    /\ notices' = Append(notices, "connected")
    /\ UNCHANGED <<contextVars, sceneVars>>

LinkDown ==
    /\ p2p.link # NoMac
    /\ RemoveGroup(p2p, notices)
    /\ UNCHANGED <<contextVars, sceneVars, links>>

\* The user turns Wi-Fi off.
ModuleStops ==
    /\ p2p.on /\ "fault" \in allow
    /\ faults < MaxFaults /\ faults' = faults + 1
    /\ RemoveGroup([p2p EXCEPT !.on = FALSE], Append(notices, "closed"))
    /\ UNCHANGED <<contexts, destroying, members, agents, channels, events, reply, sceneVars, links>>

-----------------------------------------------------------------------------
(* The calls of the client *)

Call == scene.exists /\ (wifi.at = "idle" \/ "overlap" \in allow)
Counted == calls < MaxCalls /\ calls' = calls + 1

\* HandleStartDiscovery: EnableP2p when the module is off.
HandleStartDiscovery ==
    /\ Call /\ ~scene.running
    /\ scene' = [scene EXCEPT !.running = TRUE]
    /\ IF p2p.on THEN RemoveGroup(p2p, notices)
       ELSE p2p' = [p2p EXCEPT !.on = TRUE] /\ notices' = Append(notices, "started")
    /\ UNCHANGED <<contextVars, links, mutex, wifi, calls, allow>>

\* HandleAddDevice: P2pConnect.
HandleAddDevice(mac) ==
    /\ Call /\ Counted
    /\ scene.running
    /\ p2p.on
    /\ p2p' = [p2p EXCEPT !.want = mac]
    /\ UNCHANGED <<contextVars, notices, links, scene, mutex, wifi, allow>>

DestroyAgent(ctx, agent) == One(Event("DESTROY", ctx, agent))
Capture == DestroyAgent(scene.contextId, scene.agentId)
CaptureKnown == scene.contextId # InvalidId /\ scene.agentId # InvalidId

\* HandleRemoveDevice: only a device in state CONNECTED.  The TEARDOWN it forwards has no case
\* in the session of a source.
HandleRemoveDevice ==
    /\ Call /\ mutex = "free"
    /\ scene.dev.state = "CONNECTED"
    /\ scene' = [scene EXCEPT !.dev = NoDev]
    /\ Send(Capture)
    /\ RemoveGroup(p2p, notices)
    /\ Counted
    /\ UNCHANGED <<contexts, destroying, members, agents, channels, reply, faults, links, mutex, wifi, allow>>

\* HandleDestroyScreenCapture does not take mutex_.
HandleDestroyScreenCapture ==
    /\ Call /\ CaptureKnown
    /\ Send(Capture)
    /\ Counted
    /\ UNCHANGED <<contexts, destroying, members, agents, channels, reply, faults, p2pVars, scene, mutex, wifi, allow>>

\* The client dies: Interaction::Destroy drops the scene, whose destructor calls Release.
\* A callback that is under way keeps the scene until it returns.
Release ==
    /\ scene.exists /\ wifi.at = "idle"
    /\ scene' = [scene EXCEPT !.exists = FALSE]
    /\ IF scene.dev.ctx # InvalidId /\ scene.dev.agent # InvalidId
       THEN Send(DestroyAgent(scene.dev.ctx, scene.dev.agent) (+) (IF CaptureKnown THEN Capture ELSE EmptyBag))
       ELSE UNCHANGED events
    /\ RemoveGroup(p2p, notices)
    /\ UNCHANGED <<contexts, destroying, members, agents, channels, reply, faults, links, mutex, wifi, calls, allow>>

-----------------------------------------------------------------------------
(* The callbacks of Wi-Fi *)

Notice(n) == notices # <<>> /\ Head(notices) = n /\ wifi.at = "idle"
Ignored == p2p' = p2p /\ notices' = Tail(notices) /\ UNCHANGED <<contextVars, links, sceneVars>>

\* P2P_STATE_STARTED: WfdP2pStart.
OnP2pStarted ==
    /\ Notice("started")
    /\ IF scene.exists /\ scene.running
       THEN RemoveGroup(p2p, Tail(notices)) /\ UNCHANGED <<contextVars, links, sceneVars>>
       ELSE Ignored

\* P2P_STATE_CLOSED: WfdP2pStop ends the agents and keeps connDev_.
OnP2pClosed ==
    /\ Notice("closed")
    /\ IF scene.exists /\ scene.running
       THEN /\ mutex = "free"
            /\ scene' = [scene EXCEPT !.running = FALSE]
            /\ Send(IF CaptureKnown THEN Capture ELSE EmptyBag)
            /\ RemoveGroup(p2p, Tail(notices))
            /\ UNCHANGED <<contexts, destroying, members, agents, channels, reply, faults, links, mutex, wifi, calls, allow>>
       ELSE Ignored

\* OnP2pThisDeviceChanged asks Wi-Fi for the link as it is now; OnP2pPeerDisconnected.
OnP2pThisDeviceChanged ==
    /\ Notice("thisDevice")
    /\ IF scene.exists /\ p2p.link = NoMac /\ scene.dev # NoDev
       THEN /\ mutex = "free"
            /\ scene' = [scene EXCEPT !.dev = NoDev]
            /\ Send(IF CaptureKnown THEN Capture ELSE EmptyBag)
            /\ RemoveGroup(p2p, Tail(notices))
            /\ UNCHANGED <<contexts, destroying, members, agents, channels, reply, faults, links, mutex, wifi, calls, allow>>
       ELSE Ignored

\* OnP2pConnectionChanged takes the device from the group as it is now, if there is one.
GroupOwner == p2p.link

\* OnP2pPeerConnected: a device that connDev_ names already is left as it is; another one
\* takes its place.
OnP2pPeerConnected ==
    /\ Notice("connected")
    /\ IF scene.exists /\ GroupOwner # NoMac /\ scene.running /\ scene.dev.mac # GroupOwner
       THEN /\ mutex = "free"
            /\ scene' = [scene EXCEPT !.dev = [NoDev EXCEPT !.mac = GroupOwner, !.state = "CONNECTED"]]
            /\ wifi' = [at |-> "tell", mac |-> GroupOwner]
            /\ notices' = Tail(notices)
            /\ UNCHANGED <<contextVars, p2p, links, mutex, calls, allow>>
       ELSE Ignored

\* OnConnectionChanged tells the client and resets the timer, then CreateScreenCapture takes
\* mutex_ and creates the SINK agent.
CreateScreenCapture ==
    /\ wifi.at = "tell" /\ mutex = "free"
    /\ mutex' = "wifi"
    /\ wifi' = [wifi EXCEPT !.at = "capture"]
    /\ Send(One(CreateEvent("SINK", scene.contextId, scene.agentId)))
    /\ UNCHANGED <<contexts, destroying, members, agents, channels, reply, faults, p2pVars, scene, calls, allow>>

\* What Interaction::CreateAgent makes of the answer; without one nothing is assigned.
CreatedAgent(old) == IF reply.agent = old THEN InvalidId ELSE reply.agent
TimesOut == "slow" \in allow /\ ~reply.come
Answered == reply.come \/ TimesOut

ScreenCaptureCreated ==
    /\ wifi.at = "capture" /\ Answered
    /\ mutex' = "free"
    /\ reply' = NoReply
    /\ LET ctx == IF reply.come THEN reply.ctx ELSE scene.contextId
           agent == IF reply.come THEN CreatedAgent(scene.agentId) ELSE scene.agentId
           made == ctx # InvalidId /\ agent # InvalidId
       IN  /\ scene' = [scene EXCEPT !.contextId = ctx, !.agentId = agent]
           /\ wifi' = IF made THEN [wifi EXCEPT !.at = "append"] ELSE [at |-> "idle", mac |-> NoMac]
    /\ UNCHANGED <<contexts, destroying, members, agents, channels, events, faults, p2pVars, calls, allow>>

Return == wifi' = [at |-> "idle", mac |-> NoMac]

\* AppendCast: the SRC agent that serves the device, in the context of the capture.
AppendCast ==
    /\ wifi.at = "append" /\ mutex = "free"
    /\ \/ /\ scene.dev.mac = wifi.mac
          /\ mutex' = "wifi"
          /\ wifi' = [wifi EXCEPT !.at = "cast"]
          /\ Send(One(CreateEvent("SRC", scene.contextId, scene.agentId)))
       \/ /\ scene.dev.mac # wifi.mac \/ "ports" \in allow
          /\ Return
          /\ UNCHANGED <<mutex, events>>
    /\ UNCHANGED <<contexts, destroying, members, agents, channels, reply, faults, p2pVars, scene, calls, allow>>

CastAppended ==
    /\ wifi.at = "cast" /\ Answered
    /\ mutex' = "free"
    /\ reply' = NoReply
    /\ LET ctx == IF reply.come THEN reply.ctx ELSE scene.contextId
           agent == IF reply.come THEN CreatedAgent(scene.agentId) ELSE scene.agentId
           made == ctx # InvalidId /\ agent # InvalidId
       IN  /\ scene' = IF made THEN [scene EXCEPT !.dev.ctx = ctx, !.dev.agent = agent] ELSE scene
    /\ Return
    /\ UNCHANGED <<contexts, destroying, members, agents, channels, events, faults, p2pVars, calls, allow>>

-----------------------------------------------------------------------------
(* Interaction::HandleEvent, on a worker *)

\* Variant with a fault: any agent of the context counts.
AnyIsOwn(dev, ev) == ev.ctx = dev.ctx

\* OnInnerDestroy: the end of the cast, or of the capture, of the connected device.
IsOwn(dev, ev) == ev.ctx = dev.ctx /\ ev.agent \in {dev.agent, scene.agentId}

OnInnerDestroy(ev) ==
    scene' = IF scene.exists /\ scene.dev # NoDev /\ IsOwn(scene.dev, ev)
             THEN [scene EXCEPT !.dev.state = "DISCONNECTED"] ELSE scene

HandleAgentDestroyed(ev) ==
    /\ Ready(ev, "AGENT_DESTROYED", "new")
    /\ mutex = "free" \/ ~scene.exists
    /\ OnInnerDestroy(ev)
    /\ Consume(ev, EmptyBag)
    /\ UNCHANGED <<contexts, destroying, members, agents, channels, reply, faults, p2pVars, mutex, wifi, calls, allow>>

\* An error that ends the connection: the client is told, then the agent is destroyed.
HandleError(ev) ==
    /\ Ready(ev, "MSG_ERROR", "new")
    /\ mutex = "free" \/ ~scene.exists
    /\ OnInnerDestroy(ev)
    /\ Consume(ev, IF scene.exists THEN DestroyAgent(ev.ctx, ev.agent) ELSE EmptyBag)
    /\ UNCHANGED <<contexts, destroying, members, agents, channels, reply, faults, p2pVars, mutex, wifi, calls, allow>>

-----------------------------------------------------------------------------
Workers == \/ HandleContextEvent /\ UNCHANGED <<p2pVars, sceneVars>>
           \/ AgentRuns /\ UNCHANGED <<p2pVars, sceneVars>>
           \/ \E ev \in BagToSet(events) : HandleAgentDestroyed(ev) \/ HandleError(ev)

Callbacks == \/ OnP2pStarted \/ OnP2pClosed \/ OnP2pThisDeviceChanged \/ OnP2pPeerConnected
             \/ CreateScreenCapture \/ ScreenCaptureCreated \/ AppendCast \/ CastAppended

Client == \/ HandleStartDiscovery \/ HandleRemoveDevice \/ HandleDestroyScreenCapture \/ Release
          \/ \E mac \in Macs : HandleAddDevice(mac)

Peers == /\ \E a \in DOMAIN agents : \/ AgentStarts(a)
                                     \/ SessionFails(a) /\ "fault" \in allow
                                     \/ ProsumerFails(a) /\ "fault" \in allow
                                        /\ (agents[a].kind = "SRC" \/ "capture" \in allow)
         /\ UNCHANGED <<p2pVars, sceneVars>>

Next == Workers \/ Callbacks \/ Client \/ Peers \/ LinkUp \/ LinkDown \/ ModuleStops

\* Workers handle their events and Wi-Fi delivers its callbacks.  Nothing is assumed of the
\* client, of the devices and of the user.
Spec == Init /\ [][Next]_vars /\ WF_vars(Workers) /\ WF_vars(Callbacks)

-----------------------------------------------------------------------------
(* Properties *)

Live == {a \in DOMAIN agents : Registered(a) /\ agents[a].life # "gone"}

\* An agent in a context has its media channel: a SINK agent and its channel go only after
\* the SRC agents that share it, however connects, failures and destroys interleave.
SharedChannelLives == \A a \in Live : agents[a].channel \in channels

\* The client is told that its device is disconnected only after an agent of this very
\* connection has ended or failed; the late end of an agent of an earlier connection,
\* possibly in the same context, is not mistaken for it.
OnlyOwnEnd == [][scene.dev.state = "CONNECTED" /\ scene'.dev.state = "DISCONNECTED"
                 => \E a \in {scene.dev.agent, scene.agentId} : agents[a].life \in {"failed", "doomed", "gone"}]_vars

\* An agent that was interrupted while it was starting, or the SINK agent that waits for it.
Held(a) == \/ agents[a].life = "interrupted"
           \/ \E b \in Live : agents[b].sink = a /\ agents[b].life = "interrupted"
Released == /\ \A a \in Live : Held(a)
            /\ channels \subseteq Live
            /\ contexts \subseteq {agents[a].ctx : a \in Live}

\* Once the device is gone, or the client is, its agents, their channel and their context go
\* too, unless an agent was still starting when it was destroyed.  Of behaviours in which
\* calls and callbacks do not overlap, links come one after the other and ports are there.
EndsClean == (allow \subseteq {"fault"} /\ (scene.dev = NoDev \/ ~scene.exists) /\ wifi.at = "idle") ~> (Released \/ wifi.at # "idle")
=============================================================================
