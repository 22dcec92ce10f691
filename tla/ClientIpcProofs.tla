---------------------------- MODULE ClientIpcProofs ----------------------------
(***************************************************************************)
(* Whatever the applications do and however often they and the service   *)
(* die, a request goes to the scene that was made for its process.  That   *)
(* the process is told what happens there, and its death noticed, needs    *)
(* keys of its own and a service that is done with the process before.     *)
(***************************************************************************)
EXTENDS ClientIpc, TLAPS

ProcFields == {"life", "alive", "at", "root", "sub", "added", "asked"}
InteractionFields == {"key", "maker", "scene", "peer", "asked", "device"}
IsProc(p) == p = [x \in ProcFields |-> p[x]]
IsInteraction(i) == i = [x \in InteractionFields |-> i[x]]

Typed ==
    /\ service = [x \in {"up", "start"} |-> service[x]]
    /\ service.up \in BOOLEAN /\ service.start \in Nat \ {0}
    /\ proc = [a \in Apps |-> proc[a]]
    /\ \A a \in Apps : IsProc(proc[a])
    /\ \A a \in Apps : proc[a].alive \in BOOLEAN
    /\ \A a \in Apps : proc[a].life \in Nat
    /\ \A a \in Apps : proc[a].root \in 0..service.start
    /\ \A i \in DOMAIN interactions : IsInteraction(interactions[i])
    /\ made \in Nat
    /\ DOMAIN interactions \subseteq 1..made

\* Interactions, keys and death recipients name each other and the process they are for.
Owned ==
    /\ \A i \in DOMAIN interactions : /\ interactions[i].maker = <<interactions[i].maker[1], interactions[i].maker[2]>>
                                      /\ interactions[i].maker[1] \in Apps
                                      /\ interactions[i].key = KeyOf(interactions[i].maker[1])
    /\ \A k \in DOMAIN keys : keys[k] \in 1..made
    /\ \A k \in DOMAIN keys : keys[k] \in DOMAIN interactions => interactions[keys[k]].key = k
    /\ \A r \in recipients : r[1] \in DOMAIN interactions /\ interactions[r[1]].maker = r[2]

\* What the client asks for: no application has the key of another, and none is started again
\* before the service is done with its last process.
KeysApart == \A a, b \in Apps : KeyOf(a) = KeyOf(b) => a = b
Apart == KeysApart /\ Waits

\* Deaths not told yet, and events that take an interaction away, are of processes that are dead.
Past(a, n) == /\ n < proc[a].life \/ (n = proc[a].life /\ ~proc[a].alive)
              /\ Waits => n = proc[a].life
Dead(who) == \E a \in Apps, n \in Nat : who = <<a, n>> /\ Past(a, n)
OfTheDead ==
    /\ \A o \in obits : o.to = "stub" => /\ Dead(o.who) /\ o.id \in 1..made
                                         /\ o.id \in DOMAIN interactions => interactions[o.id].maker = o.who
    /\ \A e \in events : /\ e[2] \in 1..made
                         /\ e[2] \in DOMAIN interactions => Dead(interactions[e[2]].maker)

\* From the moment it has got its stub a process has its interaction, which remembers what it
\* was asked; if applications keep apart, the key names that interaction once it is in the
\* table, and the interaction listens once the implementation is initialised.
Has(a) == proc[a].alive /\ proc[a].at \in {"naming", "made", "ready"} /\ Reaches(a)
OwnsKey(a) ==
    /\ proc[a].at = "naming" => KeyOf(a) \notin DOMAIN keys
    /\ proc[a].at # "naming" => KeyOf(a) \in DOMAIN keys /\ keys[KeyOf(a)] = proc[a].sub
    /\ proc[a].at = "ready" => /\ interactions[proc[a].sub].peer = Me(a)
                               /\ <<proc[a].sub, Me(a)>> \in recipients
Owns(a) ==
    /\ proc[a].sub \in DOMAIN interactions /\ interactions[proc[a].sub].scene
    /\ interactions[proc[a].sub].maker = Me(a)
    /\ interactions[proc[a].sub].asked = proc[a].asked
    /\ interactions[proc[a].sub].device = proc[a].added
    /\ Apart => OwnsKey(a)
OwnInteraction == \A a \in Apps : Has(a) => Owns(a)

\* A source keeps no request, a sink no device.
Kinds == \A a \in Apps : /\ a \in Sources => proc[a].asked = "nothing"
                         /\ a \notin Sources => proc[a].added = FALSE

IpcInv == Typed /\ Owned /\ OfTheDead /\ OwnInteraction /\ Kinds

-----------------------------------------------------------------------------
(* The first steps and the requests of a process                           *)

\* The service begins with empty tables and processes that have asked for nothing.
LEMMA InitInv == Init => IpcInv
<1> SUFFICES ASSUME Init
             PROVE  IpcInv
  OBVIOUS
<1>0. DOMAIN interactions = {} /\ DOMAIN keys = {}
  BY DEF Init
<1>1. Typed
  <2>1. \A a \in Apps : proc[a] = NewProcess(1)
    BY DEF Init
  <2>8. \A a \in Apps : proc[a].alive = TRUE
    BY <2>1 DEF NewProcess
  <2>9. \A a \in Apps : proc[a].alive \in BOOLEAN
    BY <2>8, Zenon
  <2>2. \A a \in Apps : IsProc(proc[a]) /\ proc[a].root = 0 /\ proc[a].life = 1
    BY <2>1 DEF NewProcess, IsProc, ProcFields, None
  <2>3. service = [x \in {"up", "start"} |-> service[x]] /\ service.up \in BOOLEAN /\ service.start = 1
    BY DEF Init
  <2>4. proc = [a \in Apps |-> proc[a]] /\ made = 0
    BY DEF Init
  <2>5. /\ \A a \in Apps : IsProc(proc[a])
        /\ \A a \in Apps : proc[a].alive \in BOOLEAN
        /\ \A a \in Apps : proc[a].life \in Nat
    BY <2>2, <2>9
  <2>6. \A a \in Apps : proc[a].root \in 0..service.start
    BY <2>2, <2>3
  <2>7. DOMAIN interactions \subseteq 1..made
    BY <1>0
  <2> QED
    BY <1>0, <2>3, <2>4, <2>5, <2>6, <2>7 DEF Typed
<1>2. Owned /\ OfTheDead
  BY <1>0 DEF Init, Owned, OfTheDead
<1>3. OwnInteraction /\ Kinds
  BY <1>0 DEF Init, OwnInteraction, Kinds, Has, NewProcess
<1> QED
  BY <1>1, <1>2, <1>3 DEF IpcInv

\* A living process is not among the dead.
LEMMA LivingIsNotDead ==
    ASSUME Typed, NEW a \in Apps, proc[a].alive
    PROVE  ~Dead(Me(a))
<1> SUFFICES ASSUME Dead(Me(a))
             PROVE  FALSE
  OBVIOUS
<1>1. PICK b \in Apps, n \in Nat : Me(a) = <<b, n>> /\ Past(b, n)
  BY DEF Dead
<1>2. b = a /\ n = proc[a].life /\ proc[a].life \in Nat
  BY <1>1 DEF Me, Typed
<1> QED
  BY <1>1, <1>2 DEF Past

\* A step that gives an application another process leaves the others as they are.
LEMMA OneProcess ==
    ASSUME Typed, NEW a \in Apps, NEW p, Set(a, p)
    PROVE  /\ proc'[a] = p
           /\ \A b \in Apps : b # a => proc'[b] = proc[b]
           /\ proc' = [b \in Apps |-> proc'[b]]
  BY DEF Typed, Set

\* A client that gets the proxy of the service keeps nothing there yet.
LEMMA ConnectRootStep ==
    ASSUME IpcInv, NEW a \in Apps, ConnectRoot(a)
    PROVE  IpcInv'
<1> DEFINE p == [proc[a] EXCEPT !.at = "connected", !.root = GetSharingProxy]
<1>1. /\ Set(a, p) /\ proc[a].alive
      /\ UNCHANGED <<service, interactions, made, keys, recipients, obits, events>>
  BY DEF ConnectRoot, Running, tables
<1>0. proc[a] = [x \in ProcFields |-> proc[a][x]] /\ GetSharingProxy \in 0..service.start
  BY DEF IpcInv, Typed, IsProc, GetSharingProxy, None
<1>2. /\ p.life = proc[a].life /\ p.alive = proc[a].alive /\ p.at = "connected"
      /\ p.root = GetSharingProxy /\ IsProc(p)
      /\ p.added = proc[a].added /\ p.asked = proc[a].asked
  BY <1>0 DEF IsProc, ProcFields
<1> HIDE DEF p
<1>3. /\ proc'[a] = p
      /\ \A b \in Apps : b # a => proc'[b] = proc[b]
      /\ proc' = [b \in Apps |-> proc'[b]]
  BY <1>1, OneProcess DEF IpcInv
<1>4. Typed'
  BY <1>0, <1>1, <1>2, <1>3 DEF IpcInv, Typed
<1>5. Owned'
  BY <1>1 DEF IpcInv, Owned, KeyOf
<1>6. OfTheDead'
  BY <1>1, <1>2, <1>3 DEF IpcInv, OfTheDead, Dead, Past, Me
<1>7. OwnInteraction'
  BY <1>1, <1>2, <1>3 DEF IpcInv, OwnInteraction, Owns, OwnsKey, Has, Reaches, Me, KeyOf
<1>8. Kinds'
  BY <1>2, <1>3 DEF IpcInv, Kinds
<1> QED
  BY <1>4, <1>5, <1>6, <1>7, <1>8 DEF IpcInv

\* A stub comes with an interaction of its own; its key is free until the second half.
LEMMA GetSubSystemAbilityStep ==
    ASSUME IpcInv, NEW a \in Apps, GetSubSystemAbility(a)
    PROVE  IpcInv'
<1> DEFINE p == [proc[a] EXCEPT !.at = "naming", !.sub = made + 1, !.added = FALSE, !.asked = "nothing"]
           n == NewInteraction(a)
<1>1. /\ Set(a, p) /\ proc[a].alive /\ Reaches(a)
      /\ made' = made + 1
      /\ interactions' = CreateInteraction(a, made + 1)
      /\ keys' = DelInteractionKey(KeyOf(a))
      /\ UNCHANGED <<service, recipients, obits, events>>
  BY DEF GetSubSystemAbility, Running, CreateSink, CreateSource
<1>0. proc[a] = [x \in ProcFields |-> proc[a][x]]
  BY DEF IpcInv, Typed, IsProc
<1>2. /\ p.life = proc[a].life /\ p.alive = proc[a].alive /\ p.at = "naming"
      /\ p.root = proc[a].root /\ IsProc(p)
      /\ p.added = FALSE /\ p.asked = "nothing" /\ p.sub = made + 1
  BY <1>0 DEF IsProc, ProcFields
<1> HIDE DEF p
<1>3. /\ proc'[a] = p
      /\ \A b \in Apps : b # a => proc'[b] = proc[b]
      /\ proc' = [b \in Apps |-> proc'[b]]
  BY <1>1, OneProcess DEF IpcInv
<1>4. /\ IsInteraction(n) /\ n.key = KeyOf(a) /\ n.maker = Me(a) /\ n.scene
      /\ n.asked = "nothing" /\ n.device = FALSE
  BY DEF NewInteraction, IsInteraction, InteractionFields
<1> HIDE DEF n
<1>5. /\ made \in Nat /\ made + 1 \notin DOMAIN interactions
      /\ DOMAIN interactions' = DOMAIN interactions \cup {made + 1}
      /\ interactions'[made + 1] = n
      /\ \A i \in DOMAIN interactions : interactions'[i] = interactions[i]
  BY <1>1 DEF IpcInv, Typed, CreateInteraction, n
<1>6. /\ DOMAIN keys' = DOMAIN keys \ {KeyOf(a)}
      /\ \A k \in DOMAIN keys' : keys'[k] = keys[k]
  BY <1>1 DEF DelInteractionKey, Restrict
<1>7. Typed'
  <2>1. /\ \A i \in DOMAIN interactions' : IsInteraction(interactions'[i])
        /\ DOMAIN interactions' \subseteq 1..made'
    BY <1>1, <1>4, <1>5 DEF IpcInv, Typed
  <2> QED
    BY <1>1, <1>2, <1>3, <1>5, <2>1 DEF IpcInv, Typed
<1>8. Owned'
  <2>1. Me(a) = <<Me(a)[1], Me(a)[2]>> /\ Me(a)[1] = a
    BY DEF Me
  <2>2. \A k \in DOMAIN keys : keys[k] \in 1..made /\ keys[k] # made + 1
    BY <1>5 DEF IpcInv, Owned
  <2> QED
    BY <1>1, <1>4, <1>5, <1>6, <2>1, <2>2 DEF IpcInv, Owned, KeyOf
<1>9. OfTheDead'
  <2>1. \A who : Dead(who) => Dead(who)'
    BY <1>1, <1>2, <1>3 DEF Dead, Past
  <2>2. \A e \in events : e[2] \in DOMAIN interactions' => e[2] \in DOMAIN interactions
    BY <1>5 DEF IpcInv, OfTheDead
  <2>3. \A o \in obits : o.to = "stub" /\ o.id \in DOMAIN interactions' => o.id \in DOMAIN interactions
    BY <1>5 DEF IpcInv, OfTheDead
  <2> QED
    BY <1>1, <1>5, <2>1, <2>2, <2>3 DEF IpcInv, OfTheDead
<1>10. OwnInteraction'
  <2> SUFFICES ASSUME NEW b \in Apps, Has(b)'
               PROVE  Owns(b)'
    BY DEF OwnInteraction
  <2>1. CASE b = a
    BY <2>1, <1>1, <1>2, <1>3, <1>4, <1>5, <1>6 DEF Owns, OwnsKey, Me, KeyOf
  <2>2. CASE b # a
    <3>1. Has(b) /\ proc'[b] = proc[b]
      BY <2>2, <1>1, <1>3 DEF Has, Reaches
    <3>2. Owns(b)
      BY <3>1 DEF IpcInv, OwnInteraction
    <3>3. Apart => KeyOf(b) # KeyOf(a)
      BY <2>2 DEF Apart, KeysApart
    <3> QED
      BY <3>1, <3>2, <3>3, <1>1, <1>5, <1>6 DEF Owns, OwnsKey, Me, KeyOf
  <2> QED
    BY <2>1, <2>2
<1>11. Kinds'
  BY <1>2, <1>3 DEF IpcInv, Kinds
<1> QED
  BY <1>7, <1>8, <1>9, <1>10, <1>11 DEF IpcInv

\* The key is free when the process names its interaction, so that emplace takes it.
LEMMA AddInteractionKeyStep ==
    ASSUME IpcInv, NEW a \in Apps, AddInteractionKey(a)
    PROVE  IpcInv'
<1> DEFINE p == [proc[a] EXCEPT !.at = "made"]
           full == ~Reaches(a) \/ KeyOf(a) \in DOMAIN keys
<1>1. /\ Set(a, p) /\ proc[a].alive /\ proc[a].at = "naming"
      /\ keys' = IF full THEN keys
                 ELSE [k \in DOMAIN keys \cup {KeyOf(a)} |-> IF k = KeyOf(a) THEN proc[a].sub ELSE keys[k]]
      /\ UNCHANGED <<service, interactions, made, recipients, obits, events>>
  BY DEF AddInteractionKey, Running
<1>0. proc[a] = [x \in ProcFields |-> proc[a][x]]
  BY DEF IpcInv, Typed, IsProc
<1>2. /\ p.life = proc[a].life /\ p.alive = proc[a].alive /\ p.at = "made"
      /\ p.root = proc[a].root /\ IsProc(p) /\ p.sub = proc[a].sub
      /\ p.added = proc[a].added /\ p.asked = proc[a].asked
  BY <1>0 DEF IsProc, ProcFields
<1> HIDE DEF p
<1>3. /\ proc'[a] = p
      /\ \A b \in Apps : b # a => proc'[b] = proc[b]
      /\ proc' = [b \in Apps |-> proc'[b]]
  BY <1>1, OneProcess DEF IpcInv
<1>4. Typed'
  BY <1>0, <1>1, <1>2, <1>3 DEF IpcInv, Typed
<1>5. Reaches(a) => Owns(a)
  BY <1>1 DEF IpcInv, OwnInteraction, Has
<1>6. ~full => /\ DOMAIN keys' = DOMAIN keys \cup {KeyOf(a)} /\ keys'[KeyOf(a)] = proc[a].sub
               /\ \A k \in DOMAIN keys : keys'[k] = keys[k]
  BY <1>1
<1>7. ~full => Owns(a) /\ proc[a].sub \in DOMAIN interactions /\ interactions[proc[a].sub].maker = Me(a)
  BY <1>5 DEF Owns
<1>8. full => keys' = keys
  BY <1>1
<1>9. full /\ Apart => ~Reaches(a)
  BY <1>1, <1>5 DEF Owns, OwnsKey
<1> HIDE DEF full
<1>10. Owned'
  <2>1. CASE full
    BY <2>1, <1>8, <1>1 DEF IpcInv, Owned, KeyOf
  <2>2. CASE ~full
    <3>1. /\ proc[a].sub \in 1..made
          /\ interactions[proc[a].sub].key = KeyOf(a)
      BY <2>2, <1>7 DEF IpcInv, Typed, Owned, Me
    <3> QED
      BY <2>2, <3>1, <1>6, <1>1 DEF IpcInv, Owned, KeyOf
  <2> QED
    BY <2>1, <2>2
<1>11. OfTheDead'
  BY <1>1, <1>2, <1>3 DEF IpcInv, OfTheDead, Dead, Past, Me
<1>12. OwnInteraction'
  <2> SUFFICES ASSUME NEW b \in Apps, Has(b)'
               PROVE  Owns(b)'
    BY DEF OwnInteraction
  <2>1. CASE b = a
    <3>1. Reaches(a) /\ (Apart => ~full)
      BY <2>1, <1>1, <1>2, <1>3, <1>9 DEF Has, Reaches
    <3>2. Owns(a)
      BY <3>1, <1>5
    <3> QED
      BY <2>1, <3>1, <3>2, <1>1, <1>2, <1>3, <1>6 DEF Owns, OwnsKey, Me, KeyOf
  <2>2. CASE b # a
    <3>1. Has(b) /\ proc'[b] = proc[b]
      BY <2>2, <1>1, <1>3 DEF Has, Reaches
    <3>2. Owns(b)
      BY <3>1 DEF IpcInv, OwnInteraction
    <3>3. Apart => KeyOf(b) # KeyOf(a)
      BY <2>2 DEF Apart, KeysApart
    <3> QED
      BY <3>1, <3>2, <3>3, <1>1, <1>6, <1>8 DEF Owns, OwnsKey, Me, KeyOf
  <2> QED
    BY <2>1, <2>2
<1>13. Kinds'
  BY <1>2, <1>3 DEF IpcInv, Kinds
<1> QED
  BY <1>4, <1>10, <1>11, <1>12, <1>13 DEF IpcInv

\* The key leads to the interaction of the process itself, which listens to it from now on.
LEMMA SetListenerObjectStep ==
    ASSUME IpcInv, NEW a \in Apps, SetListenerObject(a)
    PROVE  IpcInv'
<1> DEFINE p == [proc[a] EXCEPT !.at = "ready"]
           found == IF Reaches(a) THEN GetInteraction(KeyOf(a)) ELSE {}
<1>1. /\ Set(a, p) /\ proc[a].alive /\ proc[a].at = "made"
      /\ interactions' = SetPeerProxy(found, Me(a))
      /\ recipients' = IF found = {} THEN recipients ELSE recipients \cup {<<proc[a].sub, Me(a)>>}
      /\ UNCHANGED <<service, made, keys, obits, events>>
  BY DEF SetListenerObject, Running
<1>0. proc[a] = [x \in ProcFields |-> proc[a][x]]
  BY DEF IpcInv, Typed, IsProc
<1>2. /\ p.life = proc[a].life /\ p.alive = proc[a].alive /\ p.at = "ready"
      /\ p.root = proc[a].root /\ IsProc(p) /\ p.sub = proc[a].sub
      /\ p.added = proc[a].added /\ p.asked = proc[a].asked
  BY <1>0 DEF IsProc, ProcFields
<1> HIDE DEF p
<1>3. /\ proc'[a] = p
      /\ \A b \in Apps : b # a => proc'[b] = proc[b]
      /\ proc' = [b \in Apps |-> proc'[b]]
  BY <1>1, OneProcess DEF IpcInv
<1>5. Reaches(a) => Owns(a)
  BY <1>1 DEF IpcInv, OwnInteraction, Has
<1>6. Reaches(a) /\ Apart => found = {proc[a].sub}
  BY <1>1, <1>5 DEF Owns, OwnsKey, GetInteraction
<1>7. ~Reaches(a) => found = {}
  OBVIOUS
<1> HIDE DEF found
<1>8. /\ DOMAIN interactions' = DOMAIN interactions
      /\ \A i \in DOMAIN interactions : i \notin found => interactions'[i] = interactions[i]
      /\ \A i \in DOMAIN interactions : i \in found => interactions'[i] = [interactions[i] EXCEPT !.peer = Me(a)]
  BY <1>1 DEF SetPeerProxy
<1>9. \A i \in DOMAIN interactions :
        /\ IsInteraction(interactions'[i])
        /\ interactions'[i].maker = interactions[i].maker /\ interactions'[i].key = interactions[i].key
        /\ interactions'[i].scene = interactions[i].scene /\ interactions'[i].asked = interactions[i].asked
        /\ interactions'[i].device = interactions[i].device
        /\ i \in found => interactions'[i].peer = Me(a)
  <2> SUFFICES ASSUME NEW i \in DOMAIN interactions
               PROVE  /\ IsInteraction(interactions'[i])
                      /\ interactions'[i].maker = interactions[i].maker /\ interactions'[i].key = interactions[i].key
                      /\ interactions'[i].scene = interactions[i].scene /\ interactions'[i].asked = interactions[i].asked
                      /\ interactions'[i].device = interactions[i].device
                      /\ i \in found => interactions'[i].peer = Me(a)
    OBVIOUS
  <2>1. interactions[i] = [x \in InteractionFields |-> interactions[i][x]]
    BY DEF IpcInv, Typed, IsInteraction
  <2> QED
    BY <2>1, <1>8 DEF IsInteraction, InteractionFields
<1>4. Typed'
  <2>1. /\ \A i \in DOMAIN interactions' : IsInteraction(interactions'[i])
        /\ DOMAIN interactions' \subseteq 1..made'
    BY <1>1, <1>8, <1>9 DEF IpcInv, Typed
  <2> QED
    BY <1>1, <1>2, <1>3, <2>1 DEF IpcInv, Typed
<1>10. Owned'
  <2>1. \A r \in recipients' : r \in recipients \/ (r = <<proc[a].sub, Me(a)>> /\ Reaches(a))
    BY <1>1, <1>7
  <2>2. \A r \in recipients' : r[1] \in DOMAIN interactions /\ interactions[r[1]].maker = r[2]
    BY <2>1, <1>5 DEF IpcInv, Owned, Owns
  <2> QED
    BY <2>2, <1>1, <1>8, <1>9 DEF IpcInv, Owned, KeyOf
<1>11. OfTheDead'
  <2>1. \A who : Dead(who) => Dead(who)'
    BY <1>1, <1>2, <1>3 DEF Dead, Past, Me
  <2> QED
    BY <2>1, <1>1, <1>8, <1>9 DEF IpcInv, OfTheDead
<1>12. OwnInteraction'
  <2> SUFFICES ASSUME NEW b \in Apps, Has(b)'
               PROVE  Owns(b)'
    BY DEF OwnInteraction
  <2>1. CASE b = a
    <3>1. Reaches(a)
      BY <2>1, <1>1, <1>2, <1>3 DEF Has, Reaches
    <3>2. Apart => <<proc[a].sub, Me(a)>> \in recipients' /\ proc[a].sub \in found
      BY <3>1, <1>1, <1>6
    <3> QED
      BY <2>1, <3>1, <3>2, <1>1, <1>2, <1>3, <1>5, <1>6, <1>8, <1>9 DEF Owns, OwnsKey, Me, KeyOf
  <2>2. CASE b # a
    <3>1. Has(b) /\ proc'[b] = proc[b]
      BY <2>2, <1>1, <1>3 DEF Has, Reaches
    <3>2. Owns(b)
      BY <3>1 DEF IpcInv, OwnInteraction
    <3>3. Apart => proc[b].sub \notin found
      BY <2>2, <3>2, <1>5, <1>6, <1>7 DEF Owns, Me
    <3>4. Apart => interactions'[proc[b].sub].peer = interactions[proc[b].sub].peer
      BY <3>2, <3>3, <1>8 DEF Owns
    <3>5. recipients \subseteq recipients'
      BY <1>1
    <3> QED
      BY <3>1, <3>2, <3>4, <3>5, <1>1, <1>8, <1>9 DEF Owns, OwnsKey, Me, KeyOf
  <2> QED
    BY <2>1, <2>2
<1>13. Kinds'
  BY <1>2, <1>3 DEF IpcInv, Kinds
<1> QED
  BY <1>4, <1>10, <1>11, <1>12, <1>13 DEF IpcInv

\* The process of a after a request: what the library keeps is what was asked.
Requested(a, p, request, device) ==
    /\ IsProc(p) /\ p.life = proc[a].life /\ p.alive = proc[a].alive /\ p.at = proc[a].at /\ p.root = proc[a].root
    /\ p.sub = proc[a].sub /\ p.asked = request /\ p.added = device
    /\ a \in Sources => p.asked = "nothing"
    /\ a \notin Sources => p.added = FALSE

\* A request reaches the scene of the process itself, if any, and both remember the same.
LEMMA RequestStep ==
    ASSUME IpcInv, NEW a \in Apps, Running(a, "ready"), NEW request, NEW dev,
           SendRequest(a, request, dev), NEW p, Set(a, p), Requested(a, p, request, dev),
           UNCHANGED <<service, made, keys, rootPeers, recipients, obits, events>>
    PROVE  IpcInv'
<1>2. /\ IsProc(p) /\ p.life = proc[a].life /\ p.alive = proc[a].alive /\ p.at = proc[a].at /\ p.root = proc[a].root
      /\ p.sub = proc[a].sub
  BY DEF Requested
<1>14. /\ p.asked = request /\ p.added = dev
       /\ a \in Sources => p.asked = "nothing"
       /\ a \notin Sources => p.added = FALSE
  BY DEF Requested
<1> DEFINE reached == DoIpcCommand(a)
<1>1. UNCHANGED <<service, made, keys, recipients, obits, events>> /\ proc[a].alive /\ proc[a].at = "ready"
  BY DEF Running
<1>3. /\ proc'[a] = p
      /\ \A b \in Apps : b # a => proc'[b] = proc[b]
      /\ proc' = [b \in Apps |-> proc'[b]]
  BY OneProcess DEF IpcInv
<1>5. Reaches(a) => Owns(a)
  BY <1>1 DEF IpcInv, OwnInteraction, Has
<1>6. Reaches(a) => reached = {proc[a].sub}
  BY <1>5 DEF Owns, DoIpcCommand
<1>7. ~Reaches(a) => reached = {}
  BY DEF DoIpcCommand
<1>8. /\ DOMAIN interactions' = DOMAIN interactions
      /\ \A i \in DOMAIN interactions : i \notin reached => interactions'[i] = interactions[i]
      /\ \A i \in DOMAIN interactions : i \in reached =>
            interactions'[i] = [interactions[i] EXCEPT !.asked = request, !.device = dev]
  BY DEF SendRequest
<1> HIDE DEF reached
<1>9. \A i \in DOMAIN interactions :
        /\ IsInteraction(interactions'[i])
        /\ interactions'[i].maker = interactions[i].maker /\ interactions'[i].key = interactions[i].key
        /\ interactions'[i].scene = interactions[i].scene /\ interactions'[i].peer = interactions[i].peer
        /\ i \in reached => interactions'[i].asked = request /\ interactions'[i].device = dev
  <2> SUFFICES ASSUME NEW i \in DOMAIN interactions
               PROVE  /\ IsInteraction(interactions'[i])
                      /\ interactions'[i].maker = interactions[i].maker /\ interactions'[i].key = interactions[i].key
                      /\ interactions'[i].scene = interactions[i].scene /\ interactions'[i].peer = interactions[i].peer
                      /\ i \in reached => interactions'[i].asked = request /\ interactions'[i].device = dev
    OBVIOUS
  <2>1. interactions[i] = [x \in InteractionFields |-> interactions[i][x]]
    BY DEF IpcInv, Typed, IsInteraction
  <2> QED
    BY <2>1, <1>8 DEF IsInteraction, InteractionFields
<1>15. DOMAIN interactions' = DOMAIN interactions
  BY <1>8
<1>4. Typed'
  <2>1. /\ \A i \in DOMAIN interactions' : IsInteraction(interactions'[i])
        /\ DOMAIN interactions' \subseteq 1..made'
    BY <1>1, <1>8, <1>9 DEF IpcInv, Typed
  <2> QED
    BY <1>1, <1>2, <1>3, <2>1 DEF IpcInv, Typed
<1>10. Owned'
  <2>1. \A r \in recipients : r[1] \in DOMAIN interactions /\ interactions[r[1]].maker = r[2]
    BY DEF IpcInv, Owned
  <2>2. \A i \in DOMAIN interactions : /\ interactions[i].maker = <<interactions[i].maker[1], interactions[i].maker[2]>>
                                       /\ interactions[i].maker[1] \in Apps
                                       /\ interactions[i].key = KeyOf(interactions[i].maker[1])
    BY DEF IpcInv, Owned
  <2>3. \A k \in DOMAIN keys : /\ keys[k] \in 1..made
                               /\ keys[k] \in DOMAIN interactions => interactions[keys[k]].key = k
    BY DEF IpcInv, Owned
  <2>4. \A i \in DOMAIN interactions : interactions'[i].maker = interactions[i].maker /\ interactions'[i].key = interactions[i].key
    BY <1>9
  <2> QED
    BY <2>1, <2>2, <2>3, <2>4, <1>1, <1>15 DEF Owned, KeyOf
<1>11. OfTheDead'
  <2>1. \A who : Dead(who) => Dead(who)'
    BY <1>1, <1>2, <1>3 DEF Dead, Past, Me
  <2> QED
    BY <2>1, <1>1, <1>8, <1>9 DEF IpcInv, OfTheDead
<1>12. OwnInteraction'
  <2> SUFFICES ASSUME NEW b \in Apps, Has(b)'
               PROVE  Owns(b)'
    BY DEF OwnInteraction
  <2>1. CASE b = a
    <3>1. Reaches(a)
      BY <2>1, <1>1, <1>2, <1>3 DEF Has, Reaches
    <3>2. proc[a].sub \in DOMAIN interactions /\ proc[a].sub \in reached /\ proc'[a].sub = proc[a].sub
      BY <3>1, <1>2, <1>3, <1>5, <1>6 DEF Owns
    <3>3. /\ interactions'[proc[a].sub].asked = proc'[a].asked
          /\ interactions'[proc[a].sub].device = proc'[a].added
      BY <3>2, <1>3, <1>9, <1>14
    <3>4. UNCHANGED <<KeyOf(a), Me(a), keys, recipients>> /\ proc'[a].at = "ready"
      BY <1>1, <1>2, <1>3 DEF Me, KeyOf
    <3>5. /\ interactions'[proc[a].sub].scene = interactions[proc[a].sub].scene
          /\ interactions'[proc[a].sub].maker = interactions[proc[a].sub].maker
          /\ interactions'[proc[a].sub].peer = interactions[proc[a].sub].peer
      BY <3>2, <1>9
    <3> QED
      BY <2>1, <3>1, <3>2, <3>3, <3>4, <3>5, <1>1, <1>5, <1>15 DEF Owns, OwnsKey
  <2>2. CASE b # a
    <3>1. Has(b) /\ proc'[b] = proc[b]
      BY <2>2, <1>1, <1>3 DEF Has, Reaches
    <3>2. Owns(b)
      BY <3>1 DEF IpcInv, OwnInteraction
    <3>3. proc[b].sub \notin reached
      BY <2>2, <3>2, <1>5, <1>6, <1>7 DEF Owns, Me
    <3>4. interactions'[proc[b].sub] = interactions[proc[b].sub]
      BY <3>2, <3>3, <1>8 DEF Owns
    <3> QED
      BY <3>1, <3>2, <3>4, <1>1, <1>8 DEF Owns, OwnsKey, Me, KeyOf
  <2> QED
    BY <2>1, <2>2
<1>13. Kinds'
  BY <1>3, <1>14 DEF IpcInv, Kinds
<1> QED
  BY <1>4, <1>10, <1>11, <1>12, <1>13 DEF IpcInv

\* A source asks for its device to be added or removed.
LEMMA DeviceStep ==
    ASSUME IpcInv, NEW a \in Apps, AddDevice(a) \/ RemoveDevice(a)
    PROVE  IpcInv'
<1>0. proc[a] = [x \in ProcFields |-> proc[a][x]] /\ (a \in Sources => proc[a].asked = "nothing")
  BY DEF IpcInv, Typed, IsProc, Kinds
<1>1. PICK device \in BOOLEAN : /\ Running(a, "ready") /\ a \in Sources /\ SendRequest(a, "nothing", device)
                                /\ Set(a, [proc[a] EXCEPT !.added = device])
                                /\ UNCHANGED <<service, made, keys, rootPeers, recipients, obits, events>>
  BY DEF AddDevice, RemoveDevice, HasSource
<1> DEFINE p == [proc[a] EXCEPT !.added = device]
<1>2. /\ IsProc(p) /\ p.life = proc[a].life /\ p.alive = proc[a].alive /\ p.at = proc[a].at /\ p.root = proc[a].root
      /\ p.sub = proc[a].sub /\ p.asked = proc[a].asked /\ p.added = device
  BY <1>0 DEF IsProc, ProcFields
<1>3. Set(a, p)
  BY <1>1
<1> HIDE DEF p
<1>4. Requested(a, p, "nothing", device)
  BY <1>0, <1>1, <1>2 DEF Requested
<1> QED
  BY <1>1, <1>3, <1>4, RequestStep

\* A sink is asked for something that the library does not keep.
LEMMA AskStep ==
    ASSUME IpcInv, NEW a \in Apps, Switch(a) \/ AskForSurface(a) \/ AskForDevice(a)
    PROVE  IpcInv'
<1>0. proc[a] = [x \in ProcFields |-> proc[a][x]] /\ (a \notin Sources => proc[a].added = FALSE)
  BY DEF IpcInv, Typed, IsProc, Kinds
<1>1. PICK request : /\ Running(a, "ready") /\ a \notin Sources /\ SendRequest(a, request, FALSE)
                     /\ Set(a, [proc[a] EXCEPT !.asked = request])
                     /\ UNCHANGED <<service, made, keys, rootPeers, recipients, obits, events>>
  BY DEF Switch, AskForSurface, AskForDevice, Ask, HasSink
<1> DEFINE p == [proc[a] EXCEPT !.asked = request]
<1>2. /\ IsProc(p) /\ p.life = proc[a].life /\ p.alive = proc[a].alive /\ p.at = proc[a].at /\ p.root = proc[a].root
      /\ p.sub = proc[a].sub /\ p.asked = request /\ p.added = proc[a].added
  BY <1>0 DEF IsProc, ProcFields
<1>3. Set(a, p)
  BY <1>1
<1> HIDE DEF p
<1>4. Requested(a, p, request, FALSE)
  BY <1>0, <1>1, <1>2 DEF Requested
<1> QED
  BY <1>1, <1>3, <1>4, RequestStep

-----------------------------------------------------------------------------
(* Deaths                                                                  *)

\* Every interaction that listened for a process that dies will be told so.
LEMMA ProcessDiesStep ==
    ASSUME IpcInv, NEW a \in Apps, ProcessDies(a)
    PROVE  IpcInv'
<1> DEFINE p == [NewProcess(proc[a].life) EXCEPT !.alive = FALSE]
<1>1. /\ Set(a, p) /\ proc[a].alive
      /\ \A o \in obits' : o \in obits \/ o.to = "service"
             \/ \E r \in recipients : o = Obit("stub", r[1], a) /\ r[2] = Me(a)
      /\ UNCHANGED <<service, interactions, made, keys, recipients, events>>
  BY DEF ProcessDies, Obit, tables
<1>2. p.life = proc[a].life /\ p.alive = FALSE /\ p.root = 0 /\ IsProc(p) /\ p.added = FALSE /\ p.asked = "nothing"
  BY DEF NewProcess, None, IsProc, ProcFields
<1>3. p.alive \in BOOLEAN
  BY <1>2, Zenon
<1> HIDE DEF p
<1>4. /\ proc'[a] = p
      /\ \A b \in Apps : b # a => proc'[b] = proc[b]
      /\ proc' = [b \in Apps |-> proc'[b]]
  BY <1>1, OneProcess DEF IpcInv
<1>5. Typed'
  BY <1>1, <1>2, <1>3, <1>4 DEF IpcInv, Typed
<1>6. Owned'
  BY <1>1 DEF IpcInv, Owned, KeyOf
<1>7. OfTheDead'
  <2>1. Dead(Me(a))' /\ Me(a)' = Me(a)
    <3>1. Past(a, proc[a].life)' /\ proc[a].life \in Nat
      BY <1>2, <1>4 DEF Past, IpcInv, Typed
    <3> QED
      BY <3>1, <1>2, <1>4 DEF Dead, Me
  <2>2. \A who : Dead(who) => Dead(who)'
    <3>1. \A b \in Apps : \A n \in Nat : Past(b, n) => Past(b, n)'
      BY <1>2, <1>4 DEF Past
    <3> QED
      BY <3>1 DEF Dead
  <2>3. \A r \in recipients : r[1] \in DOMAIN interactions /\ interactions[r[1]].maker = r[2] /\ r[1] \in 1..made
    BY DEF IpcInv, Owned, Typed
  <2>4. ASSUME NEW o \in obits', o.to = "stub"
        PROVE  /\ Dead(o.who)' /\ o.id \in 1..made
               /\ o.id \in DOMAIN interactions => interactions[o.id].maker = o.who
    <3>1. CASE o \in obits
      BY <3>1, <2>2, <2>4 DEF IpcInv, OfTheDead
    <3>2. CASE \E r \in recipients : o = Obit("stub", r[1], a) /\ r[2] = Me(a)
      <4>1. PICK r \in recipients : o = Obit("stub", r[1], a) /\ r[2] = Me(a)
        BY <3>2
      <4>2. o.id = r[1] /\ o.who = Me(a)
        BY <4>1 DEF Obit
      <4> QED
        BY <4>1, <4>2, <2>1, <2>3
    <3> QED
      BY <3>1, <3>2, <2>4, <1>1
  <2> QED
    BY <1>1, <2>2, <2>4 DEF IpcInv, OfTheDead
<1>8. OwnInteraction'
  BY <1>1, <1>2, <1>4 DEF IpcInv, OwnInteraction, Owns, OwnsKey, Has, Reaches, Me, KeyOf
<1>9. Kinds'
  BY <1>2, <1>4 DEF IpcInv, Kinds
<1> QED
  BY <1>5, <1>6, <1>7, <1>8, <1>9 DEF IpcInv

\* The scene of a dead process asks for its interaction to go; what the service's stub kept of
\* the process is nothing that the invariant is about.
LEMMA DeathIsToldStep ==
    ASSUME IpcInv, NEW o \in obits, OnRemoteDied(o) \/ DelPeerProxy(o)
    PROVE  IpcInv'
<1>1. /\ obits' = obits \ {o}
      /\ UNCHANGED <<service, proc, interactions, made, keys, recipients>>
  BY DEF OnRemoteDied, DelPeerProxy, tables
<1>2. \A e \in events' : e \in events \/ (o.to = "stub" /\ e[2] = o.id)
  <2>1. CASE OnRemoteDied(o)
    <3>1. o.to = "stub" /\ events' = events \cup ReleaseScene(o.id)
      BY <2>1 DEF OnRemoteDied
    <3>2. \A e \in ReleaseScene(o.id) : e[2] = o.id
      BY DEF ReleaseScene
    <3> QED
      BY <3>1, <3>2
  <2>2. CASE DelPeerProxy(o)
    BY <2>2 DEF DelPeerProxy
  <2> QED
    BY <2>1, <2>2
<1>3. \A who : Dead(who) <=> Dead(who)'
  BY <1>1 DEF Dead, Past, Me
<1>4. Typed'
  BY <1>1 DEF IpcInv, Typed
<1>5. Owned'
  BY <1>1 DEF IpcInv, Owned, KeyOf
<1>6. OfTheDead'
  <2>1. o.to = "stub" => /\ Dead(o.who) /\ o.id \in 1..made
                         /\ o.id \in DOMAIN interactions => interactions[o.id].maker = o.who
    BY DEF IpcInv, OfTheDead
  <2>2. \A e \in events' : /\ e[2] \in 1..made
                           /\ e[2] \in DOMAIN interactions => Dead(interactions[e[2]].maker)
    BY <1>2, <2>1 DEF IpcInv, OfTheDead
  <2> QED
    BY <1>1, <1>3, <2>2 DEF IpcInv, OfTheDead
<1>7. OwnInteraction'
  BY <1>1 DEF IpcInv, OwnInteraction, Owns, OwnsKey, Has, Reaches, Me, KeyOf
<1>8. Kinds'
  BY <1>1 DEF IpcInv, Kinds
<1> QED
  BY <1>4, <1>5, <1>6, <1>7, <1>8 DEF IpcInv

\* A process that hears of the death of the service leads to it no longer.
LEMMA OnServiceDiedStep ==
    ASSUME IpcInv, NEW o \in obits, OnServiceDied(o)
    PROVE  IpcInv'
<1> DEFINE a == o.who[1]
           p == IF Me(a) = o.who THEN [proc[a] EXCEPT !.root = None] ELSE proc[a]
<1>1. /\ o.to = "client" /\ obits' = obits \ {o} /\ Set(a, p)
      /\ UNCHANGED <<service, interactions, made, keys, recipients, events>>
  BY DEF OnServiceDied, tables
<1>2. CASE a \notin Apps
  <2>1. proc' = proc
    BY <1>1, <1>2 DEF Set, IpcInv, Typed
  <2> QED
    BY <1>1, <2>1 DEF IpcInv, Typed, Owned, OfTheDead, OwnInteraction, Owns, OwnsKey, Has, Reaches, Kinds, Dead, Past, Me, KeyOf
<1>3. CASE a \in Apps
  <2>0. proc[a] = [x \in ProcFields |-> proc[a][x]]
    BY <1>3 DEF IpcInv, Typed, IsProc
  <2>1. /\ p.life = proc[a].life /\ p.alive = proc[a].alive /\ p.at = proc[a].at
        /\ p.root \in {0, proc[a].root} /\ IsProc(p) /\ p.sub = proc[a].sub
        /\ p.added = proc[a].added /\ p.asked = proc[a].asked
    BY <2>0 DEF IsProc, ProcFields, None
  <2> HIDE DEF p
  <2>2. /\ proc'[a] = p
        /\ \A b \in Apps : b # a => proc'[b] = proc[b]
        /\ proc' = [b \in Apps |-> proc'[b]]
    BY <1>1, <1>3, OneProcess DEF IpcInv
  <2> HIDE DEF a
  <2>3. Typed'
    BY <1>1, <1>3, <2>1, <2>2 DEF IpcInv, Typed
  <2>4. Owned'
    BY <1>1 DEF IpcInv, Owned, KeyOf
  <2>5. OfTheDead'
    BY <1>1, <1>3, <2>1, <2>2 DEF IpcInv, OfTheDead, Dead, Past, Me
  <2>6. OwnInteraction'
    <3> SUFFICES ASSUME NEW b \in Apps, Has(b)'
                 PROVE  Owns(b)'
      BY DEF OwnInteraction
    <3>1. Has(b)
      BY <1>1, <1>3, <2>1, <2>2 DEF Has, Reaches, IpcInv, Typed
    <3>2. Owns(b)
      BY <3>1 DEF IpcInv, OwnInteraction
    <3>3. /\ proc'[b].life = proc[b].life /\ proc'[b].at = proc[b].at /\ proc'[b].sub = proc[b].sub
          /\ proc'[b].added = proc[b].added /\ proc'[b].asked = proc[b].asked
      BY <2>1, <2>2
    <3> QED
      BY <3>2, <3>3, <1>1 DEF Owns, OwnsKey, Me, KeyOf
  <2>7. Kinds'
    BY <1>3, <2>1, <2>2 DEF IpcInv, Kinds
  <2> QED
    BY <2>3, <2>4, <2>5, <2>6, <2>7 DEF IpcInv
<1> QED
  BY <1>2, <1>3

\* Interaction::Destroy: the scene of a dead process goes.
LEMMA DestroyInteractionStep ==
    ASSUME IpcInv, NEW e \in events, HandleEvent(e), e[1] = "DESTROY"
    PROVE  IpcInv'
<1>1. /\ interactions' = Destroy(e[2])
      /\ events' = (events \ {<<"DESTROY", e[2]>>}) \cup OnSceneNotifyDestroyed(e[2])
      /\ UNCHANGED <<service, proc, made, keys, recipients, obits>>
  BY DEF HandleEvent, DestroyInteraction
<1>2. /\ DOMAIN interactions' = DOMAIN interactions
      /\ \A i \in DOMAIN interactions : i # e[2] => interactions'[i] = interactions[i]
      /\ \A i \in DOMAIN interactions : i = e[2] => interactions'[i] = [interactions[i] EXCEPT !.scene = FALSE]
  BY <1>1 DEF Destroy
<1>3. \A i \in DOMAIN interactions : /\ IsInteraction(interactions'[i])
                                     /\ interactions'[i].maker = interactions[i].maker
                                     /\ interactions'[i].key = interactions[i].key
  <2> SUFFICES ASSUME NEW i \in DOMAIN interactions
               PROVE  /\ IsInteraction(interactions'[i])
                      /\ interactions'[i].maker = interactions[i].maker
                      /\ interactions'[i].key = interactions[i].key
    OBVIOUS
  <2>1. interactions[i] = [x \in InteractionFields |-> interactions[i][x]]
    BY DEF IpcInv, Typed, IsInteraction
  <2> QED
    BY <2>1, <1>2 DEF IsInteraction, InteractionFields
<1>4. \A x \in events' : x \in events \/ x[2] = e[2]
  BY <1>1 DEF OnSceneNotifyDestroyed
<1>5. Typed'
  <2>1. /\ \A i \in DOMAIN interactions' : IsInteraction(interactions'[i])
        /\ DOMAIN interactions' \subseteq 1..made'
    BY <1>1, <1>2, <1>3 DEF IpcInv, Typed
  <2> QED
    BY <1>1, <2>1 DEF IpcInv, Typed
<1>12. DOMAIN interactions' = DOMAIN interactions
  BY <1>2
<1>6. Owned'
  BY <1>1, <1>12, <1>3 DEF IpcInv, Owned, KeyOf
<1>7. OfTheDead'
  <2>1. \A who : Dead(who) <=> Dead(who)'
    BY <1>1 DEF Dead, Past, Me
  <2>2. \A x \in events' : /\ x[2] \in 1..made
                           /\ x[2] \in DOMAIN interactions => Dead(interactions[x[2]].maker)
    BY <1>4 DEF IpcInv, OfTheDead
  <2> QED
    BY <2>1, <2>2, <1>1, <1>12, <1>3 DEF IpcInv, OfTheDead
<1>8. OwnInteraction'
  <2> SUFFICES ASSUME NEW b \in Apps, Has(b)'
               PROVE  Owns(b)'
    BY DEF OwnInteraction
  <2>1. Has(b) /\ Owns(b) /\ proc[b].alive
    BY <1>1 DEF IpcInv, OwnInteraction, Has, Reaches
  <2>2. ~Dead(Me(b))
    BY <2>1, LivingIsNotDead DEF IpcInv
  <2>3. proc[b].sub # e[2]
    BY <2>1, <2>2 DEF IpcInv, OfTheDead, Owns
  <2>4. interactions'[proc[b].sub] = interactions[proc[b].sub]
    BY <2>1, <2>3, <1>2 DEF Owns
  <2> QED
    BY <2>1, <2>4, <1>1, <1>12 DEF Owns, OwnsKey, Me, KeyOf
<1>9. Kinds'
  BY <1>1 DEF IpcInv, Kinds
<1> QED
  BY <1>5, <1>6, <1>7, <1>8, <1>9 DEF IpcInv

\* The interaction of a dead process goes with its key, which no living process of the same
\* key has taken: the application is not started again before.
LEMMA RemoveInteractionStep ==
    ASSUME IpcInv, NEW e \in events, HandleEvent(e), e[1] = "REMOVE"
    PROVE  IpcInv'
<1> DEFINE id == e[2]
           known == id \in DOMAIN interactions
           gone == interactions[id].key
<1>1. /\ interactions' = Restrict(interactions, DOMAIN interactions \ {id})
      /\ keys' = IF known THEN DelInteractionKey(gone) ELSE keys
      /\ recipients' = {r \in recipients : r[1] # id}
      /\ events' = events \ {e}
      /\ UNCHANGED <<service, proc, made, obits>>
  BY DEF HandleEvent, RemoveInteraction
<1>2. /\ DOMAIN interactions' = DOMAIN interactions \ {id}
      /\ \A i \in DOMAIN interactions' : i \in DOMAIN interactions /\ interactions'[i] = interactions[i]
  BY <1>1 DEF Restrict
<1>3. /\ DOMAIN keys' \subseteq DOMAIN keys
      /\ \A k \in DOMAIN keys' : keys'[k] = keys[k]
      /\ \A k \in DOMAIN keys : ~known \/ k # gone => k \in DOMAIN keys'
  BY <1>1 DEF DelInteractionKey, Restrict
<1>4. known => Dead(interactions[id].maker) /\ gone = KeyOf(interactions[id].maker[1])
  BY DEF IpcInv, Owned, OfTheDead
<1>5. Typed'
  <2>1. /\ \A i \in DOMAIN interactions' : IsInteraction(interactions'[i])
        /\ DOMAIN interactions' \subseteq 1..made'
    BY <1>1, <1>2 DEF IpcInv, Typed
  <2> QED
    BY <1>1, <2>1 DEF IpcInv, Typed
<1>6. Owned'
  <2>1. \A i \in DOMAIN interactions' : /\ interactions'[i].maker = <<interactions'[i].maker[1], interactions'[i].maker[2]>>
                                        /\ interactions'[i].maker[1] \in Apps
                                        /\ interactions'[i].key = KeyOf(interactions'[i].maker[1])
    BY <1>2 DEF IpcInv, Owned
  <2>2. \A k \in DOMAIN keys' : /\ keys'[k] \in 1..made
                                /\ keys'[k] \in DOMAIN interactions' => interactions'[keys'[k]].key = k
    BY <1>2, <1>3 DEF IpcInv, Owned
  <2>3. \A r \in recipients' : r[1] \in DOMAIN interactions' /\ interactions'[r[1]].maker = r[2]
    <3>1. \A r \in recipients : r[1] \in DOMAIN interactions /\ interactions[r[1]].maker = r[2]
      BY DEF IpcInv, Owned
    <3>2. \A r \in recipients' : r \in recipients /\ r[1] # id
      BY <1>1
    <3> HIDE DEF id
    <3> QED
      BY <3>1, <3>2, <1>2
  <2> QED
    BY <2>1, <2>2, <2>3, <1>1 DEF Owned, KeyOf
<1>7. OfTheDead'
  <2>1. \A who : Dead(who) <=> Dead(who)'
    BY <1>1 DEF Dead, Past, Me
  <2> QED
    BY <2>1, <1>1, <1>2 DEF IpcInv, OfTheDead
<1>8. OwnInteraction'
  <2> SUFFICES ASSUME NEW b \in Apps, Has(b)'
               PROVE  Owns(b)'
    BY DEF OwnInteraction
  <2>1. Has(b) /\ Owns(b) /\ proc[b].alive
    BY <1>1 DEF IpcInv, OwnInteraction, Has, Reaches
  <2>2. ~Dead(Me(b))
    BY <2>1, LivingIsNotDead DEF IpcInv
  <2>3. proc[b].sub # id
    BY <2>1, <2>2 DEF IpcInv, OfTheDead, Owns
  <2>4. /\ interactions'[proc[b].sub] = interactions[proc[b].sub] /\ proc[b].sub \in DOMAIN interactions'
        /\ <<proc[b].sub, Me(b)>> \in recipients => <<proc[b].sub, Me(b)>> \in recipients'
    BY <2>1, <2>3, <1>1, <1>2 DEF Owns
  <2>5. known /\ Apart => gone # KeyOf(b)
    <3> SUFFICES ASSUME known, Apart
                 PROVE  gone # KeyOf(b)
      OBVIOUS
    <3>1. PICK a \in Apps : interactions[id].maker = <<a, proc[a].life>> /\ ~proc[a].alive
      <4>1. PICK a \in Apps, n \in Nat : interactions[id].maker = <<a, n>> /\ Past(a, n)
        BY <1>4 DEF Dead
      <4>2. proc[a].life \in Nat /\ n = proc[a].life /\ ~proc[a].alive
        BY <4>1 DEF Apart, Past, IpcInv, Typed
      <4> QED
        BY <4>1, <4>2
    <3>2. gone = KeyOf(a) /\ a # b
      BY <3>1, <2>1, <1>4
    <3> QED
      BY <3>2 DEF Apart, KeysApart
  <2>6. Apart => /\ KeyOf(b) \in DOMAIN keys => KeyOf(b) \in DOMAIN keys' /\ keys'[KeyOf(b)] = keys[KeyOf(b)]
                 /\ KeyOf(b) \notin DOMAIN keys => KeyOf(b) \notin DOMAIN keys'
    BY <2>5, <1>3
  <2> HIDE DEF known, gone, id
  <2> QED
    BY <2>1, <2>4, <2>6, <1>1 DEF Owns, OwnsKey, Me, KeyOf
<1>9. Kinds'
  BY <1>1 DEF IpcInv, Kinds
<1> QED
  BY <1>5, <1>6, <1>7, <1>8, <1>9 DEF IpcInv

\* The application is started again once nothing of its earlier process is left to be told.
LEMMA StartAgainStep ==
    ASSUME IpcInv, NEW a \in Apps, StartAgain(a)
    PROVE  IpcInv'
<1> DEFINE p == NewProcess(proc[a].life + 1)
<1>1. /\ Set(a, p) /\ ~proc[a].alive /\ (Waits => Done(a))
      /\ UNCHANGED <<service, interactions, made, keys, recipients, obits, events>>
  BY DEF StartAgain, tables
<1>2. p.life = proc[a].life + 1 /\ p.alive = TRUE /\ p.at = "new" /\ p.root = 0 /\ IsProc(p) /\ p.added = FALSE /\ p.asked = "nothing"
  BY DEF NewProcess, None, IsProc, ProcFields
<1>3. p.alive \in BOOLEAN
  BY <1>2, Zenon
<1> HIDE DEF p
<1>4. /\ proc'[a] = p
      /\ \A b \in Apps : b # a => proc'[b] = proc[b]
      /\ proc' = [b \in Apps |-> proc'[b]]
  BY <1>1, OneProcess DEF IpcInv
<1>5. Typed'
  BY <1>1, <1>2, <1>3, <1>4 DEF IpcInv, Typed
<1>6. Owned'
  BY <1>1 DEF IpcInv, Owned, KeyOf
<1>7. OfTheDead'
  <2>1. \A who : Dead(who) /\ (Waits => who # Me(a)) => Dead(who)'
    <3> SUFFICES ASSUME NEW who, Dead(who), Waits => who # Me(a)
                 PROVE  Dead(who)'
      OBVIOUS
    <3>1. PICK b \in Apps, n \in Nat : who = <<b, n>> /\ Past(b, n)
      BY DEF Dead
    <3>2. CASE b = a
      <4>1. ~Waits
        BY <3>1, <3>2 DEF Past, Me
      <4>2. n < proc[a].life + 1
        BY <3>1, <3>2 DEF Past, IpcInv, Typed
      <4> QED
        BY <3>1, <3>2, <4>1, <4>2, <1>2, <1>4 DEF Dead, Past
    <3>3. CASE b # a
      BY <3>1, <3>3, <1>4 DEF Dead, Past
    <3> QED
      BY <3>2, <3>3
  <2>2. Waits => \A o \in obits : o.who # Me(a)
    BY <1>1 DEF Done
  <2>3. Waits => \A e \in events : e[2] \in DOMAIN interactions => interactions[e[2]].maker # Me(a)
    BY <1>1 DEF Done
  <2> QED
    BY <2>1, <2>2, <2>3, <1>1 DEF IpcInv, OfTheDead
<1>8. OwnInteraction'
  BY <1>1, <1>2, <1>4 DEF IpcInv, OwnInteraction, Owns, OwnsKey, Has, Reaches, Me, KeyOf
<1>9. Kinds'
  BY <1>2, <1>4 DEF IpcInv, Kinds
<1> QED
  BY <1>5, <1>6, <1>7, <1>8, <1>9 DEF IpcInv

\* With the service its tables go, and every process that led to it leads nowhere.
LEMMA ServiceStep ==
    ASSUME IpcInv, ServiceDies \/ ServiceStarts
    PROVE  IpcInv'
<1>1. CASE ServiceDies
  <2>1. /\ service' = [service EXCEPT !.up = FALSE]
        /\ DOMAIN interactions' = {} /\ DOMAIN keys' = {} /\ recipients' = {} /\ events' = {}
        /\ \A o \in obits' : o.to = "client"
        /\ UNCHANGED <<proc, made>>
    BY <1>1 DEF ServiceDies, Obit
  <2>2. service = [x \in {"up", "start"} |-> service[x]]
    BY DEF IpcInv, Typed
  <2>3. service' = [x \in {"up", "start"} |-> service'[x]] /\ service'.up = FALSE /\ service'.start = service.start
    BY <2>1, <2>2
  <2>4. service'.up \in BOOLEAN
    BY <2>3, Zenon
  <2>5. Typed'
    BY <2>1, <2>3, <2>4 DEF IpcInv, Typed
  <2>6. Owned' /\ OfTheDead'
    BY <2>1 DEF Owned, OfTheDead
  <2>7. OwnInteraction'
    BY <2>3 DEF OwnInteraction, Has, Reaches
  <2>8. Kinds'
    BY <2>1 DEF IpcInv, Kinds
  <2> QED
    BY <2>5, <2>6, <2>7, <2>8 DEF IpcInv
<1>2. CASE ServiceStarts
  <2>1. /\ service' = [up |-> TRUE, start |-> service.start + 1]
        /\ UNCHANGED <<proc, interactions, made, keys, recipients, obits, events>>
    BY <1>2 DEF ServiceStarts, tables
  <2>2. service' = [x \in {"up", "start"} |-> service'[x]] /\ service'.up = TRUE /\ service'.start = service.start + 1
    BY <2>1
  <2>3. service'.up \in BOOLEAN
    BY <2>2, Zenon
  <2>4. service.start \in Nat \ {0} /\ \A a \in Apps : proc[a].root \in 0..service.start
    BY DEF IpcInv, Typed
  <2>5. Typed'
    BY <2>1, <2>2, <2>3, <2>4 DEF IpcInv, Typed
  <2>6. Owned' /\ OfTheDead'
    BY <2>1 DEF IpcInv, Owned, OfTheDead, Dead, Past, Me, KeyOf
  <2>7. OwnInteraction'
    BY <2>1, <2>2, <2>4 DEF OwnInteraction, Has, Reaches
  <2>8. Kinds'
    BY <2>1 DEF IpcInv, Kinds
  <2> QED
    BY <2>5, <2>6, <2>7, <2>8 DEF IpcInv
<1> QED
  BY <1>1, <1>2

-----------------------------------------------------------------------------
(* The specification                                                       *)

\* Every step keeps the invariant.
LEMMA IpcStep == IpcInv /\ [Next]_vars => IpcInv'
<1> SUFFICES ASSUME IpcInv, [Next]_vars
             PROVE  IpcInv'
  OBVIOUS
<1>1. CASE Deliver
  BY <1>1, DeathIsToldStep, OnServiceDiedStep DEF Deliver
<1>2. CASE Work
  <2>1. PICK e \in events : HandleEvent(e)
    BY <1>2 DEF Work
  <2>2. CASE e[1] = "DESTROY"
    BY <2>1, <2>2, DestroyInteractionStep
  <2>3. CASE e[1] = "REMOVE"
    BY <2>1, <2>3, RemoveInteractionStep
  <2> QED
    BY <2>1, <2>2, <2>3 DEF HandleEvent
<1>3. CASE ServiceDies \/ ServiceStarts
  BY <1>3, ServiceStep
<1>4. ASSUME NEW a \in Apps,
             \/ ConnectRoot(a) \/ GetSubSystemAbility(a) \/ AddInteractionKey(a)
             \/ SetListenerObject(a) \/ AddDevice(a) \/ RemoveDevice(a)
             \/ Switch(a) \/ AskForSurface(a) \/ AskForDevice(a)
             \/ ProcessDies(a) \/ StartAgain(a)
      PROVE  IpcInv'
  <2>1. CASE ConnectRoot(a)
    BY <2>1, ConnectRootStep
  <2>2. CASE GetSubSystemAbility(a)
    BY <2>2, GetSubSystemAbilityStep
  <2>3. CASE AddInteractionKey(a)
    BY <2>3, AddInteractionKeyStep
  <2>4. CASE SetListenerObject(a)
    BY <2>4, SetListenerObjectStep
  <2>5. CASE AddDevice(a) \/ RemoveDevice(a)
    BY <2>5, DeviceStep
  <2>6. CASE Switch(a) \/ AskForSurface(a) \/ AskForDevice(a)
    BY <2>6, AskStep
  <2>7. CASE ProcessDies(a)
    BY <2>7, ProcessDiesStep
  <2>8. CASE StartAgain(a)
    BY <2>8, StartAgainStep
  <2> QED
    BY <1>4, <2>1, <2>2, <2>3, <2>4, <2>5, <2>6, <2>7, <2>8
<1>5. CASE UNCHANGED vars
  <2>1. UNCHANGED <<service, proc, interactions, made, keys, recipients, obits, events>>
    BY <1>5 DEF vars, tables
  <2> QED
    BY <2>1 DEF IpcInv, Typed, Owned, OfTheDead, OwnInteraction, Owns, OwnsKey, Has, Reaches, Kinds, Dead, Past, Me, KeyOf
<1> QED
  BY <1>1, <1>2, <1>3, <1>4, <1>5 DEF Next

\* So the invariant holds throughout.
LEMMA IpcCorrect == Spec => []IpcInv
<1>1. Init => IpcInv
  BY InitInv
<1>2. IpcInv /\ [Next]_vars => IpcInv'
  BY IpcStep
<1> QED
  BY <1>1, <1>2, PTL DEF Spec

\* The stub of a process leads to an interaction that was made for it, with its scene and the
\* requests of this process and no other: whatever keys applications use and whenever they
\* are started again.
RequestsArrive ==
    \A a \in Apps : Settled(a) =>
        LET i == proc[a].sub
        IN  /\ i \in DOMAIN interactions /\ interactions[i].scene
            /\ interactions[i].maker = Me(a)
            /\ interactions[i].asked = proc[a].asked /\ interactions[i].device = proc[a].added

\* A request goes to the scene of the process that makes it.
THEOREM RequestsGoHome == Spec => []RequestsArrive
<1>1. IpcInv => RequestsArrive
  BY DEF IpcInv, OwnInteraction, Owns, Has, RequestsArrive, Settled, Running
<1> QED
  BY <1>1, IpcCorrect, PTL

\* A client that has got its implementation is told what happens and will be missed: for any
\* applications whose keys differ, as long as the service is done with a dead process before
\* its application is started again.
THEOREM ClientsStayHeard ==
    ASSUME KeysApart, Waits
    PROVE  Spec => []ClientsAreHeard
<1>1. IpcInv => ClientsAreHeard
  <2> SUFFICES ASSUME IpcInv, NEW a \in Apps, Settled(a)
               PROVE  LET i == proc[a].sub
                      IN  /\ i \in DOMAIN interactions /\ interactions[i].scene
                          /\ interactions[i].peer = Me(a)
                          /\ <<i, Me(a)>> \in recipients
                          /\ GetInteraction(KeyOf(a)) = {i}
                          /\ interactions[i].asked = proc[a].asked /\ interactions[i].device = proc[a].added
    BY DEF ClientsAreHeard
  <2>1. Owns(a) /\ OwnsKey(a) /\ proc[a].at = "ready"
    BY DEF IpcInv, OwnInteraction, Owns, Has, Settled, Running, Apart
  <2>2. GetInteraction(KeyOf(a)) = {proc[a].sub}
    BY <2>1 DEF Owns, OwnsKey, GetInteraction
  <2> QED
    BY <2>1, <2>2 DEF Owns, OwnsKey
<1> QED
  BY <1>1, IpcCorrect, PTL
=============================================================================
