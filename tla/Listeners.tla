----------------------------- MODULE Listeners -----------------------------
(***************************************************************************)
(* listener_list of adb.cpp: the ports the server listens on.  The port of *)
(* the smart socket is there from the start; the others are forwards to a  *)
(* service of a transport, and hang on the disconnect list of their        *)
(* transport until they are removed or it goes away.  A connection to a    *)
(* listener is a new asocket, the subject of AdbSockets.                   *)
(***************************************************************************)
EXTENDS Devices

CONSTANTS
    Names,       \* local names, "tcp:5037" among them
    SmartName,   \* the one of the smart socket
    Dests,       \* services to forward to
    Star         \* "*smartsocket*"

ASSUME ListenersAssumption == 
    SmartName \in Names /\ Star \notin Dests /\ Star # None

VARIABLES
    lis,      \* the listener of each name, with connect_to and transport
    disc,     \* t->disconnects, the listeners in it
    bound     \* names with a listening socket of this server

listeners == <<lis, disc, bound>>

NoListener == [to |-> None, trans |-> None]
Used == {n \in Names : lis[n] # NoListener}

ListenersType ==
    /\ lis \in [Names -> [to : Dests \cup {Star, None}, trans : Transports \cup {None}]]
    /\ disc \in [Transports -> Seq(Names)] /\ bound \subseteq Names

ListenersInit ==
    /\ lis = [n \in Names |-> IF n = SmartName THEN [to |-> Star, trans |-> None]
                              ELSE NoListener]
    /\ disc = [t \in Transports |-> << >>] /\ bound = {SmartName}

\* A mutant of FreeListeners: the listening socket is left open.
FreeListeners_LeakSocket(ns) ==
    /\ lis' = [n \in Names |-> IF n \in ns THEN NoListener ELSE lis[n]]
    /\ disc' = [t \in Transports |->
                  Keep(disc[t], {n \in Names : n \notin ns \/ lis[n].trans # t})]
    /\ UNCHANGED bound
\* free_listener: out of the list, its socket closed, off the disconnects of its transport.
FreeListeners(ns) ==
    /\ lis' = [n \in Names |-> IF n \in ns THEN NoListener ELSE lis[n]]
    /\ disc' = [t \in Transports |->
                  Keep(disc[t], {n \in Names : n \notin ns \/ lis[n].trans # t})]
    /\ bound' = bound \ ns

\* run_transport_disconnects, whose functions here are listener_disconnect.
RunDisconnects(t) == FreeListeners(ToSet(disc[t]))

\* A mutant of Rebind: the listener stays on the disconnect list of its old transport.
Rebind_KeepDisconnect(n, to, t) ==
    /\ lis[n] # NoListener /\ lis[n].to # Star
    /\ lis' = [lis EXCEPT ![n] = [to |-> to, trans |-> t]]
    /\ UNCHANGED <<disc, bound>>
\* install_listener finds the name: the listener goes to a new service or transport,
\* unless it is the smart socket's.
Rebind(n, to, t) ==
    /\ lis[n] # NoListener /\ lis[n].to # Star
    /\ lis' = [lis EXCEPT ![n] = [to |-> to, trans |-> t]]
    /\ disc' = IF lis[n].trans = t THEN disc
               ELSE [disc EXCEPT ![lis[n].trans] = Without(@, n), ![t] = Append(@, n)]
    /\ UNCHANGED bound

\* install_listener with a new name, when the port can be bound.
Install(n, to, t) ==
    /\ lis[n] = NoListener /\ n \notin bound
    /\ lis' = [lis EXCEPT ![n] = [to |-> to, trans |-> t]]
    /\ bound' = bound \cup {n}
    /\ disc' = [disc EXCEPT ![t] = Append(@, n)]

\* remove_listener: only with the service and the transport it was installed for.
RemoveListener(n, to, t) ==
    /\ lis[n] = [to |-> to, trans |-> t]
    /\ FreeListeners({n})
=============================================================================
