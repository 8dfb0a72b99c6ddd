-------------------------- MODULE LocalTransports --------------------------
(***************************************************************************)
(* local_transports of transport_local.cpp: the table of the emulators     *)
(* that are connected, by which a second connection to one is refused.     *)
(* They are transports beside those of UsbDevices.                         *)
(***************************************************************************)
EXTENDS UsbDevices

CONSTANTS
    Ports,         \* ports of emulators
    MaxLocal       \* ADB_LOCAL_TRANSPORT_MAX

ASSUME LocalAssumption == MaxLocal \in Nat \ {0} /\ None \notin Transports \cup Ports

VARIABLES
    slots,       \* local_transports
    port         \* adb_port, None for a transport that is not an emulator's

local == <<slots, port>>

Slots == 1..MaxLocal

LocalType ==
    /\ slots \in [Slots -> Transports \cup {None}] /\ port \in [Transports -> Ports \cup {None}]

LocalInit ==
    /\ slots = [i \in Slots |-> None] /\ port = [t \in Transports |-> None]

\* find_emulator_transport_by_adb_port_locked, which reads the transports in the table.
OnPort(p) == {i \in Slots : slots[i] # None /\ port[slots[i]] = p}

\* get_available_local_transport_index_locked: the first free slot.
Available == {i \in Slots : slots[i] = None /\ \A j \in Slots : j < i => slots[j] # None}

\* A mutant of InitSocketTransport: the table is not searched for the port.
InitSocketTransport_NoSearch(t, p) ==
    \E i \in Available :
        /\ slots' = [slots EXCEPT ![i] = t] /\ port' = [port EXCEPT ![t] = p]
\* init_socket_transport for an emulator; it fails when the port is in the table or the
\* table is full, and then the socket is closed and the transport freed.
InitSocketTransport(t, p) ==
    /\ OnPort(p) = {}
    /\ \E i \in Available :
         /\ slots' = [slots EXCEPT ![i] = t] /\ port' = [port EXCEPT ![t] = p]

\* A mutant of LocalKick: the slot is cleared by the next connection to the port only.
LocalKick_KeepSlot(t) == UNCHANGED slots
\* remote_kick: the socket is shut down and closed, and the slot is cleared.
LocalKick(t) == slots' = [i \in Slots |-> IF slots[i] = t THEN None ELSE slots[i]]
=============================================================================
