------------------------------- MODULE ClientIpc -------------------------------
(***************************************************************************)
(* The way from an application to its scene and back: the client library   *)
(* (frameworks/innerkitsimpl/native/wfd, ClientFactory, InterIpcClient),   *)
(* the stubs of the service (services/interaction/interprocess) and the    *)
(* tables of InteractionManager.                                           *)
(*                                                                         *)
(* An application is started several times, one process after the other.   *)
(* Processes and the service die at any moment; whoever holds a death      *)
(* recipient is told later.  A remote object is named by the process that  *)
(* owns it, or by the interaction whose stub it is: a stub leads to the    *)
(* adapter of its own interaction, and the adapter to its scene, for as    *)
(* long as these live.  What a scene does is in WfdSinkScene and           *)
(* WfdSourceScene.                                                         *)
(***************************************************************************)
EXTENDS Naturals, FiniteSets, Functions

CONSTANTS Apps,       \* applications
          Sources,    \* those that ask for a source; the others ask for a sink
          SharedKey,  \* all give the same key, as users of MiracastFactory do
          Asks,       \* the requests that users of a sink make
          Waits,      \* an application is started again only when the service is done with it
          MaxLives,   \* bound on the processes of an application
          MaxMade,    \* bound on the interactions
          MaxCrashes  \* bound on the crashes of the service

ASSUME ClientAssumption == /\ Sources \subseteq Apps
                           /\ {SharedKey, Waits} \subseteq BOOLEAN /\ Asks \subseteq STRING
                           /\ {MaxLives, MaxMade, MaxCrashes} \subseteq Nat

VARIABLES service,      \* the service: up or not, and how often it was started
          proc,         \* the process of each application
          interactions, \* interactions_: what each interaction holds
          made,         \* interactions made so far (bounded by MaxMade)
          keys,         \* interactionKeys_
          rootPeers,    \* peerProxys_ of the service's stub, by token
          recipients,   \* death recipients that the stubs of scenes have added
          obits,        \* deaths not told yet
          events        \* events of InteractionManager that workers hold or will take

vars == <<service, proc, interactions, made, keys, rootPeers, recipients, obits, events>>
tables == <<interactions, made, keys>>

Nobody == <<"nobody">>
None == 0
KeyOf(a) == IF SharedKey THEN "WFD_SINK" ELSE a
Me(a) == <<a, proc[a].life>>

\* domainProxy_ of the root client by the start of the service it leads to, the stub that
\* the implementation uses, deviceAdded_, and what the implementation was asked.
NewProcess(n) == [life |-> n, alive |-> TRUE, at |-> "new", root |-> None, sub |-> None,
                  added |-> FALSE, asked |-> "nothing"]

Init == /\ service = [up |-> TRUE, start |-> 1]
        /\ proc = [a \in Apps |-> NewProcess(1)]
        /\ interactions = << >> /\ made = 0 /\ keys = << >>
        /\ rootPeers = [a \in Apps |-> Nobody]
        /\ recipients = {} /\ obits = {} /\ events = {}

\* A transaction reaches the service that the proxy was got from; else it ends with an error.
Reaches(a) == service.up /\ proc[a].root = service.start

Running(a, at) == proc[a].alive /\ proc[a].at = at
Set(a, p) == proc' = [proc EXCEPT ![a] = p]

-----------------------------------------------------------------------------
(* CreateSource and CreateSink *)

\* The proxy of the service, with a death recipient, if there is a service now.
GetSharingProxy == IF service.up THEN service.start ELSE None

\* What the service's stub keeps of a root client, by its token.
RootListener(a) == IF service.up THEN [rootPeers EXCEPT ![a] = Me(a)] ELSE rootPeers

\* The constructor of ClientFactory, once in a process.
ConnectRoot(a) ==
    /\ Running(a, "new")
    /\ Set(a, [proc[a] EXCEPT !.at = "connected", !.root = GetSharingProxy])
    /\ rootPeers' = RootListener(a)
    /\ UNCHANGED <<service, tables, recipients, obits, events>>

\* A process has one sink, and a source for every call.
CreateSink(a) == a \notin Sources /\ Running(a, "connected")
CreateSource(a) == a \in Sources /\ (Running(a, "connected") \/ Running(a, "ready"))

\* CreateScene, and the adapter that is not connected to a listener yet.
NewInteraction(a) == [key |-> KeyOf(a), maker |-> Me(a), scene |-> TRUE, peer |-> Nobody,
                      asked |-> "nothing", device |-> FALSE]
CreateInteraction(a, id) == [i \in DOMAIN interactions \cup {id} |->
                               IF i = id THEN NewInteraction(a) ELSE interactions[i]]

\* Variant with a fault: an earlier interaction keeps the key.
KeepInteractionKey(key) == keys

DelInteractionKey(key) == Restrict(keys, DOMAIN keys \ {key})

\* CreateSubService asks the service for a stub, which makes the interaction and begins
\* AddInteractionKey.  Without a proxy, or without the service, the caller gets nullptr.
GetSubSystemAbility(a) ==
    /\ CreateSink(a) \/ CreateSource(a)
    /\ made < MaxMade
    /\ Reaches(a)
    /\ made' = made + 1
    /\ interactions' = CreateInteraction(a, made')
    /\ keys' = DelInteractionKey(KeyOf(a))
    /\ Set(a, [proc[a] EXCEPT !.at = "naming", !.sub = made', !.added = FALSE, !.asked = "nothing"])
    /\ UNCHANGED <<service, rootPeers, recipients, obits, events>>

\* The rest of AddInteractionKey, under a lock of its own: emplace keeps what is there.
AddInteractionKey(a) ==
    /\ Running(a, "naming")
    /\ keys' = IF ~Reaches(a) \/ KeyOf(a) \in DOMAIN keys THEN keys
               ELSE [k \in DOMAIN keys \cup {KeyOf(a)} |-> IF k = KeyOf(a) THEN proc[a].sub ELSE keys[k]]
    /\ Set(a, [proc[a] EXCEPT !.at = "made"])
    /\ UNCHANGED <<service, interactions, made, rootPeers, recipients, obits, events>>

\* GetInteraction(key): through both tables.
GetInteraction(key) == IF key \in DOMAIN keys /\ keys[key] \in DOMAIN interactions THEN {keys[key]} ELSE {}

\* SetListenerObject of the stub: the listener goes to the interaction that the key names, the
\* death recipient to the stub itself.  The client ignores the answer (Initialize).
SetPeerProxy(found, peer) == [i \in DOMAIN interactions |->
                                IF i \in found THEN [interactions[i] EXCEPT !.peer = peer] ELSE interactions[i]]
SetListenerObject(a) ==
    /\ Running(a, "made")
    /\ LET found == IF Reaches(a) THEN GetInteraction(KeyOf(a)) ELSE {}
       IN  /\ interactions' = SetPeerProxy(found, Me(a))
           /\ recipients' = IF found = {} THEN recipients ELSE recipients \cup {<<proc[a].sub, Me(a)>>}
    /\ Set(a, [proc[a] EXCEPT !.at = "ready"])
    /\ UNCHANGED <<service, made, keys, rootPeers, obits, events>>

-----------------------------------------------------------------------------
(* Requests *)

\* The stub finds its adapter and the adapter its scene.
DoIpcCommand(a) == IF Reaches(a) /\ proc[a].sub \in DOMAIN interactions /\ interactions[proc[a].sub].scene
                   THEN {proc[a].sub} ELSE {}

\* The requests of the client library.
SwitchRequests == {"Start", "Stop"}
SurfaceRequests == {"AppendSurface", "RemoveSurface"}
DeviceRequests == {"SetMediaFormat", "Play", "Pause", "Close", "SetSceneType", "Mute", "UnMute"}

\* What a scene of a sink has been asked, or whether one of a source was asked for a device.
\* SendRequest answers 0 whether a scene was reached or not.
SendRequest(a, request, device) ==
    interactions' = [i \in DOMAIN interactions |->
                       IF i \in DoIpcCommand(a)
                       THEN [interactions[i] EXCEPT !.asked = request, !.device = device]
                       ELSE interactions[i]]

\* A request for which the library keeps nothing; a bound allows one of them in a process.
Ask(a, requests) ==
    \E request \in requests \cap Asks :
        /\ proc[a].asked = "nothing"
        /\ SendRequest(a, request, FALSE)
        /\ Set(a, [proc[a] EXCEPT !.asked = request])
        /\ UNCHANGED <<service, made, keys, rootPeers, recipients, obits, events>>

HasSource(a) == Running(a, "ready") /\ a \in Sources

AddDevice(a) ==
    /\ HasSource(a)
    /\ SendRequest(a, "nothing", TRUE)
    /\ Set(a, [proc[a] EXCEPT !.added = TRUE])
    /\ UNCHANGED <<service, made, keys, rootPeers, recipients, obits, events>>

\* RemoveDevice asks only if a device was added.
RemoveDevice(a) ==
    /\ HasSource(a)
    /\ proc[a].added
    /\ SendRequest(a, "nothing", FALSE)
    /\ Set(a, [proc[a] EXCEPT !.added = FALSE])
    /\ UNCHANGED <<service, made, keys, rootPeers, recipients, obits, events>>

\* A method of WifiDisplay does nothing without a sink.
HasSink(a) == Running(a, "ready") /\ a \notin Sources
Switch(a) == HasSink(a) /\ Ask(a, SwitchRequests)
AskForSurface(a) == HasSink(a) /\ Ask(a, SurfaceRequests)
AskForDevice(a) == HasSink(a) /\ Ask(a, DeviceRequests)

-----------------------------------------------------------------------------
(* The death of a process *)

\* The death recipients of the stubs and of the service's stub are called later.
Obit(to, id, a) == [to |-> to, id |-> id, who |-> Me(a)]

ProcessDies(a) ==
    /\ proc[a].alive
    /\ Set(a, [NewProcess(proc[a].life) EXCEPT !.alive = FALSE])
    /\ obits' = obits \cup {Obit("stub", r[1], a) : r \in {x \in recipients : x[2] = Me(a)}}
                      \cup (IF rootPeers[a] = Me(a) THEN {Obit("service", None, a)} ELSE {})
    /\ UNCHANGED <<service, tables, rootPeers, recipients, events>>

\* A scene whose client died asks for its interaction to be destroyed.
ReleaseScene(id) == IF id \in DOMAIN interactions /\ interactions[id].scene THEN {<<"DESTROY", id>>} ELSE {}

\* InterIpcSubStub::OnRemoteDied: through the adapter to the scene.
OnRemoteDied(o) ==
    /\ o.to = "stub"
    /\ obits' = obits \ {o}
    /\ events' = events \cup ReleaseScene(o.id)
    /\ UNCHANGED <<service, proc, tables, rootPeers, recipients>>

\* InterIpcServiceStub::DelPeerProxy: whatever process the token stands for by now.
DelPeerProxy(o) ==
    /\ o.to = "service"
    /\ obits' = obits \ {o}
    /\ rootPeers' = [rootPeers EXCEPT ![o.who[1]] = Nobody]
    /\ UNCHANGED <<service, proc, tables, recipients, events>>

\* Variant with a fault: the scene that goes does not tell its interaction.
SilentNotifyDestroyed(id) == {}

\* The destructor of a scene asks for its interaction to be removed.
OnSceneNotifyDestroyed(id) == IF id \in DOMAIN interactions /\ interactions[id].scene THEN {<<"REMOVE", id>>} ELSE {}

\* Interaction::Destroy drops the scene.
Destroy(id) == [i \in DOMAIN interactions |->
                  IF i = id THEN [interactions[i] EXCEPT !.scene = FALSE] ELSE interactions[i]]

DestroyInteraction(id) ==
    /\ interactions' = Destroy(id)
    /\ events' = (events \ {<<"DESTROY", id>>}) \cup OnSceneNotifyDestroyed(id)

\* The interaction goes with its adapter and its stub, and with its key, even if a later interaction has taken that key.
RemoveInteraction(id) ==
    /\ interactions' = Restrict(interactions, DOMAIN interactions \ {id})
    /\ keys' = IF id \in DOMAIN interactions
               THEN DelInteractionKey(interactions[id].key) ELSE keys
    /\ recipients' = {r \in recipients : r[1] # id}

\* InteractionManager::HandleEvent, on a worker; the tables are under its mutex_.
HandleEvent(e) ==
    /\ \/ e[1] = "DESTROY" /\ DestroyInteraction(e[2]) /\ UNCHANGED <<keys, recipients>>
       \/ e[1] = "REMOVE" /\ RemoveInteraction(e[2]) /\ events' = events \ {e}
    /\ UNCHANGED <<service, proc, made, rootPeers, obits>>

\* The user starts the application again.
Done(a) == /\ \A o \in obits : o.who # Me(a)
           /\ \A e \in events : e[2] \in DOMAIN interactions => interactions[e[2]].maker # Me(a)
StartAgain(a) ==
    /\ ~proc[a].alive /\ proc[a].life < MaxLives
    /\ Waits => Done(a)
    /\ Set(a, NewProcess(proc[a].life + 1))
    /\ UNCHANGED <<service, tables, rootPeers, recipients, obits, events>>

-----------------------------------------------------------------------------
(* The death of the service *)

ServiceDies ==
    /\ service.up /\ service.start <= MaxCrashes
    /\ service' = [service EXCEPT !.up = FALSE]
    /\ interactions' = << >> /\ keys' = << >> /\ recipients' = {} /\ events' = {}
    /\ rootPeers' = [a \in Apps |-> Nobody]
    /\ obits' = {Obit("client", None, a) : a \in {b \in Apps : proc[b].alive /\ Reaches(b)}}
    /\ UNCHANGED <<proc, made>>

\* The system starts it again, with empty tables (InterIpcService::OnStart).
ServiceStarts ==
    /\ ~service.up
    /\ service' = [up |-> TRUE, start |-> service.start + 1]
    /\ UNCHANGED <<proc, tables, rootPeers, recipients, obits, events>>

\* InterIpcClient::OnRemoteDied of the root client: its proxy goes for good.  The adapter it
\* tells has no listener, so that the implementation does not hear of it.
OnServiceDied(o) ==
    /\ o.to = "client"
    /\ obits' = obits \ {o}
    /\ LET a == o.who[1]
       IN  Set(a, IF Me(a) = o.who THEN [proc[a] EXCEPT !.root = None] ELSE proc[a])
    /\ UNCHANGED <<service, tables, rootPeers, recipients, events>>

-----------------------------------------------------------------------------
Deliver == \E o \in obits : OnRemoteDied(o) \/ DelPeerProxy(o) \/ OnServiceDied(o)
Work == \E e \in events : HandleEvent(e)

Next == \/ Deliver \/ Work \/ ServiceDies \/ ServiceStarts
        \/ \E a \in Apps : \/ ConnectRoot(a) \/ GetSubSystemAbility(a) \/ AddInteractionKey(a)
                           \/ SetListenerObject(a) \/ AddDevice(a) \/ RemoveDevice(a)
                           \/ Switch(a) \/ AskForSurface(a) \/ AskForDevice(a)
                           \/ ProcessDies(a) \/ StartAgain(a)

\* The system tells of deaths, and workers handle their events.
Spec == Init /\ [][Next]_vars /\ WF_vars(Deliver) /\ WF_vars(Work)

-----------------------------------------------------------------------------
(* Properties *)

Settled(a) == Running(a, "ready") /\ Reaches(a)

\* What the service keeps for an application that has got its implementation: the interaction
\* behind its stub is there with its scene, tells this process and no other, will be told of
\* this process's death, and is what its key names, whatever was left of earlier processes;
\* and the scene has got the requests of this process.
ClientsAreHeard ==
    \A a \in Apps : Settled(a) =>
        LET i == proc[a].sub
        IN  /\ i \in DOMAIN interactions /\ interactions[i].scene
            /\ interactions[i].peer = Me(a)
            /\ <<i, Me(a)>> \in recipients
            /\ GetInteraction(KeyOf(a)) = {i}
            /\ interactions[i].asked = proc[a].asked /\ interactions[i].device = proc[a].added

\* Once a process is dead, every interaction that listened for its death is removed with its
\* scene and its key, unless the service died with them.
DeadClientsGo ==
    \A a \in Apps, n \in 1..MaxLives :
        LET left == {r \in recipients : r[2] = <<a, n>> /\ r[1] \in DOMAIN interactions}
        IN  (proc[a].life > n \/ (proc[a].life = n /\ ~proc[a].alive)) ~> (left = {})
=============================================================================
