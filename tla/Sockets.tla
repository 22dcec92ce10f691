-------------------------------- MODULE Sockets --------------------------------
(***************************************************************************)
(* Descriptors and the event handler: services/network/socket and          *)
(* services/network/eventhandler.                                          *)
(*                                                                         *)
(* A socket is whether its descriptor is open, whether the event handler   *)
(* manager knows it, and whether its events are listened to.  Its options, *)
(* buffers and addresses are left out.                                     *)
(***************************************************************************)
EXTENDS Naturals

Closed == [fd |-> FALSE, known |-> FALSE, heard |-> FALSE]

\* `fail' is the step that fails; "listener" is AddFileDescriptorListener of the event handler.
CreateSocket(fail) == [Closed EXCEPT !.fd = fail # "create"]
BindSocket(s, fail) == s.fd /\ fail # "bind"
ConnectSocket(s, fail) == s.fd /\ fail # "connect"
CloseSocket(s) == [s EXCEPT !.fd = FALSE]

\* The maps of the manager are filled before the event handler may refuse.
AddEventHandler(s) == [s EXCEPT !.known = TRUE]
AddFdListener(s, fail) == [AddEventHandler(s) EXCEPT !.heard = fail # "listener"]

\* Nothing is removed for a descriptor the manager does not know.
DelEventHandler(s) == [s EXCEPT !.known = FALSE]
RemoveFdListener(s) == IF s.known THEN DelEventHandler([s EXCEPT !.heard = FALSE]) ELSE s

-----------------------------------------------------------------------------
(* Ports of UDP sockets that are about to be opened; `taken' are in use.     *)

MinPort == 6700
MaxPort == 7000

IsUdpPortAvailable(port, taken) == port \notin taken

\* The first pair of free ports; 0 if there is none, which no caller at the sink looks at.
UdpPortPairIn(lo, hi, taken) ==
    LET Free(p) == IsUdpPortAvailable(p, taken) /\ IsUdpPortAvailable(p + 1, taken)
        pairs == {p \in lo..(hi - 1) : (p - lo) % 2 = 0 /\ Free(p)}
    IN  IF pairs = {} THEN 0 ELSE CHOOSE p \in pairs : \A q \in pairs : p <= q

\* The search begins where the last one ended and wraps once.
GetAvailableUdpPortPair(last, taken) ==
    LET from == IF last >= MaxPort THEN MinPort ELSE last
        port == UdpPortPairIn(from, MaxPort, taken)
    IN  IF port # 0 THEN port ELSE UdpPortPairIn(MinPort, from, taken)
=============================================================================
