----------------------------- MODULE HostServer -----------------------------
(***************************************************************************)
(* The host requests of the server, on the transports, the listeners and   *)
(* the device trackers: forward, killforward, connect, disconnect,         *)
(* track-devices and wait-for, while devices come, restart and go.         *)
(*                                                                         *)
(* The main thread runs every request, packet and registration to its end, *)
(* so each is one step.  A wait-for has a thread of its own, which looks   *)
(* at transport_list under transport_lock, and at the transport it found   *)
(* after it has released the lock.  Requests that fail change nothing and  *)
(* are left out.  What is said of forwards, trackers and waiting services  *)
(* is said until a removal has damaged transport_list (Devices).           *)
(***************************************************************************)
EXTENDS Listeners, DeviceTracker

CONSTANTS
    Waiters,        \* threads of wait-for services
    Targets         \* what they may wait for

VARIABLES
    wpc,     \* where a thread is in acquire_one_transport
    want,    \* its target
    found    \* the transport it found

waiters == <<wpc, want, found>>
vars == <<devices, listeners, trackers, waiters>>

TypeOK ==
    /\ DevicesType /\ ListenersType /\ TrackerType
    /\ wpc \in [Waiters -> {"none", "scan", "check", "sleep", "okay", "fail"}]
    /\ want \in [Waiters -> Targets \cup {None}]
    /\ found \in [Waiters -> Transports \cup {None}]

Init ==
    /\ DevicesInit /\ ListenersInit /\ TrackerInit
    /\ wpc = [w \in Waiters |-> "none"] /\ want = [w \in Waiters |-> None]
    /\ found = [w \in Waiters |-> None]

-----------------------------------------------------------------------------
(* Devices come and go *)

\* find_devices, in its thread.
UsbArrives(t) == t \notin Tcp /\ RegisterTransport(t) /\ UNCHANGED <<listeners, trackers, waiters>>

\* transport_registration_func.
MainRegister(t) ==
    /\ StartTransport(t)
    /\ disc' = [disc EXCEPT ![t] = << >>]
    /\ UpdateTransports
    /\ UNCHANGED <<lis, bound, waiters>>

\* A mutant of MainRemove: the disconnects are left to handle_offline.
MainRemove_NoDisconnects(t) ==
    FreeTransport(t) /\ UpdateTransports /\ UNCHANGED <<listeners, waiters>>
\* transport_registration_func: the disconnects are run before the transport is freed.
MainRemove(t) ==
    FreeTransport(t) /\ RunDisconnects(t) /\ UpdateTransports /\ UNCHANGED waiters

\* handle_packet, SYNC(0): handle_offline, and no update_transports.
MainSync0(t) == TakeSync0(t) /\ RunDisconnects(t) /\ UNCHANGED <<trackers, waiters>>

\* A mutant of MainCnxn: parse_banner does not tell the trackers.
MainCnxn_NoUpdate(t, banner) ==
    /\ TakeCnxn(t, banner)
    /\ IF conn[t] # "offline" THEN RunDisconnects(t) ELSE UNCHANGED listeners
    /\ UNCHANGED <<trackers, waiters>>
\* handle_packet, CNXN: handle_offline if the device was on line, and parse_banner.
MainCnxn(t, banner) ==
    /\ TakeCnxn(t, banner)
    /\ IF conn[t] # "offline" THEN RunDisconnects(t) ELSE UNCHANGED listeners
    /\ IF banner \in Known THEN UpdateTransports ELSE UNCHANGED trackers
    /\ UNCHANGED waiters

Others(t) == (Unplug(t) \/ PostSync0(t) \/ ThreadExit(t))
             /\ UNCHANGED <<listeners, trackers, waiters>>

-----------------------------------------------------------------------------
(* Requests, handle_host_request *)

\* connect_device: the address is looked up in transport_list, where a transport that
\* is still being registered is not found.
Connect(t) ==
    /\ t \in Tcp /\ \E S \in Walks : \A u \in S : SerialOf[u] # SerialOf[t]
    /\ RegisterTransport(t)
    /\ UNCHANGED <<listeners, trackers, waiters>>

Disconnect(t) ==
    /\ t \in Tcp /\ \E S \in Walks : FindsTransport(S, SerialOf[t], t)
    /\ Unregister(<<t>>)
    /\ UNCHANGED <<listeners, trackers, waiters>>

\* On a damaged list it is no more than the disconnects of what it finds.
DisconnectAll ==
    /\ ~damaged /\ Listed \cap Tcp # {}
    /\ Unregister(Keep(tlist, Tcp))
    /\ UNCHANGED <<listeners, trackers, waiters>>

Forward(n, to, target) ==
    \E S \in Walks :
        LET t == AcquireOne(S, target)
        IN  /\ t # None
            /\ Install(n, to, t) \/ Rebind(n, to, t)
            /\ UNCHANGED <<devices, trackers, waiters>>

KillForward(n, to, target) ==
    \E S \in Walks :
        LET t == AcquireOne(S, target)
        IN  /\ t # None
            /\ RemoveListener(n, to, t)
            /\ UNCHANGED <<devices, trackers, waiters>>

Watch(k) == (Track(k) \/ ClientLeaves(k) \/ TrackerClose(k))
            /\ UNCHANGED <<devices, listeners, waiters>>

-----------------------------------------------------------------------------
(* wait-for: wait_for_state in its thread *)

Wait(w, target) ==
    /\ wpc[w] = "none"
    /\ wpc' = [wpc EXCEPT ![w] = "scan"] /\ want' = [want EXCEPT ![w] = target]
    /\ UNCHANGED <<devices, listeners, trackers, found>>

\* The loop of acquire_one_transport, under transport_lock.  Two matches are an error
\* when no serial number was given.
WaitScan(w) ==
    /\ wpc[w] = "scan"
    /\ \E S \in Walks :
         LET m == Matching(S, want[w])
         IN  IF Cardinality(m) = 1
               THEN /\ found' = [found EXCEPT ![w] = CHOOSE t \in m : TRUE]
                    /\ wpc' = [wpc EXCEPT ![w] = "check"]
               ELSE /\ wpc' = [wpc EXCEPT ![w] =
                         IF m # {} /\ want[w] \in {"any", "usb", "local"}
                           THEN "fail" ELSE "sleep"]
                    /\ UNCHANGED found
    /\ UNCHANGED <<devices, listeners, trackers, want>>

\* The tests of connection_state, without the lock: the transport may be freed, and
\* what is read then is whatever the memory holds.
WaitCheck(w) ==
    /\ wpc[w] = "check"
    /\ \E ok \in BOOLEAN :
         /\ life[found[w]] # "freed" => ok = (conn[found[w]] = "device")
         /\ wpc' = [wpc EXCEPT ![w] = IF ok THEN "okay" ELSE "sleep"]
    /\ UNCHANGED <<devices, listeners, trackers, want, found>>

\* A mutant of WaitRetry: the transport found first is looked at again, not the list.
WaitRetry_Same(w) ==
    /\ wpc[w] = "sleep"
    /\ wpc' = [wpc EXCEPT ![w] = IF found[w] = None THEN "scan" ELSE "check"]
    /\ UNCHANGED <<devices, listeners, trackers, want, found>>
\* retry, a second later, with no result.
WaitRetry(w) ==
    /\ wpc[w] = "sleep"
    /\ wpc' = [wpc EXCEPT ![w] = "scan"] /\ found' = [found EXCEPT ![w] = None]
    /\ UNCHANGED <<devices, listeners, trackers, want>>

WaitStep(w) == WaitScan(w) \/ WaitCheck(w) \/ WaitRetry(w)

-----------------------------------------------------------------------------
Main(t) == MainRegister(t) \/ MainRemove(t) \/ MainSync0(t)

Next ==
    \/ \E t \in Transports : \/ UsbArrives(t) \/ Connect(t) \/ Disconnect(t)
                             \/ Main(t) \/ Others(t)
                             \/ \E b \in Banners : MainCnxn(t, b)
    \/ DisconnectAll
    \/ \E n \in Names, to \in Dests, target \in Targets :
         Forward(n, to, target) \/ KillForward(n, to, target)
    \/ \E k \in Trackers : Watch(k)
    \/ \E w \in Waiters : WaitStep(w) \/ \E target \in Targets : Wait(w, target)

\* The main loop handles what is pending, the threads of a transport run, and so does
\* a waiting service.  Nobody has to plug, connect, ask or unplug.
Fairness ==
    /\ \A t \in Transports :
         /\ WF_vars(Main(t))
         /\ WF_vars(PostSync0(t) /\ UNCHANGED <<listeners, trackers, waiters>>)
         /\ WF_vars(ThreadExit(t) /\ UNCHANGED <<listeners, trackers, waiters>>)
    /\ \A w \in Waiters : WF_vars(WaitStep(w))

Spec == Init /\ [][Next]_vars /\ Fairness

-----------------------------------------------------------------------------
(* Properties *)

\* Every forward leads to a transport that exists and is on line: a connection to its
\* port never uses a freed transport (listener_event_func copies l->transport), nor
\* sends OPEN to one that is off line.  It may be one that was disconnected: its forwards
\* go with its SYNC(0) or its removal.
ForwardsOnline ==
    ~damaged => \A n \in Used \ {SmartName} :
        life[lis[n].trans] = "running" /\ conn[lis[n].trans] # "offline"

\* The listeners of a transport are on its disconnect list once and nothing else is, and
\* a listening socket is open for each listener and for nothing else.
DisconnectsRight ==
    /\ \A t \in Transports : life[t] = "running" =>
         /\ ToSet(disc[t]) = {n \in Names : lis[n].trans = t}
         /\ Len(disc[t]) = Cardinality(ToSet(disc[t]))
    /\ bound = Used

\* What a tracker has been told of a device is so.
Current(k, t) ==
    /\ t \in DOMAIN told[k] <=> t \in Listed
    /\ t \in Listed => told[k][t] = conn[t]

\* A tracker knows every device and its state, but for a device that is going away
\* (update_transports follows its removal) and one with an unknown banner.
TrackersCurrent ==
    ~damaged => \A k \in Trackers, t \in Transports :
        \/ trk[k] # "on" \/ Current(k, t)
        \/ ~up[t] \/ conn[t] = "host"

\* The client of a tracker does not keep a device in its list that is gone.
TrackersCatchUp ==
    \A k \in Trackers, t \in Transports :
        (Running(t) /\ ~up[t]) ~> (trk[k] # "on" \/ t \notin DOMAIN told[k] \/ damaged)

\* A device that is unplugged or disconnected takes its forwards with it.
ForwardsGo ==
    \A t \in Transports :
        (Running(t) /\ ~up[t]) ~> ((\A n \in Names : lis[n].trans # t) \/ damaged)

Waiting(w) == wpc[w] \in {"scan", "check", "sleep"}
DeviceFor(w) ==
    ~damaged /\ \E t \in Transports : Matching(Listed, want[w]) = {t} /\ conn[t] = "device"

\* A wait-for does not go on for ever while the one device it matches is there, although
\* acquire_one_transport may look at a transport that is freed meanwhile.
WaitAnswered == \A w \in Waiters : ~<>[](Waiting(w) /\ DeviceFor(w))

\* Every handler leaves the listeners, their sockets and the disconnect lists consistent.
ServerInv == TypeOK /\ DisconnectsRight

\* A device that is gone is forgotten: by the trackers, and by the forwards
\* (update_transports and run_transport_disconnects in transport_registration_func).
GoneIsForgotten == TrackersCatchUp /\ ForwardsGo
=============================================================================
