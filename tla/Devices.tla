------------------------------ MODULE Devices ------------------------------
(***************************************************************************)
(* The transports as the main thread and the host services see them:       *)
(* transport_list, connection_state, the registration pipe and the steps   *)
(* of a transport's life that reach other parts of the server.  Transport  *)
(* has the same life in detail (kicks, descriptors, links); here the two   *)
(* threads are what they tell the main thread, and the list is a sequence. *)
(* A transport that host:disconnect takes off the list keeps its links and *)
(* is unlinked through them once more when it is removed.  That does       *)
(* nothing while its old neighbours are neighbours; otherwise the list is  *)
(* damaged, and from then on it is left open what a walk over it finds.    *)
(*                                                                         *)
(* Each operator is the part that concerns transports of a handler whose   *)
(* other parts are in Listeners and DeviceTracker; HostServer puts them    *)
(* together.                                                               *)
(***************************************************************************)
EXTENDS Lists, FiniteSets

CONSTANTS
    Transports,     \* atransports; each one lives once
    Tcp,            \* those made by host:connect, the others are USB devices
    SerialOf,       \* their serial numbers: a device that is plugged in again, or
                    \* connected twice, has two transports with one serial number
    Banners,        \* types of device in the banner of a CNXN packet
    MaxCnxn,        \* bound: CNXN packets of one transport
    None            \* no transport; as a link, the head of transport_list

ASSUME DevicesAssumption ==
    /\ Tcp \subseteq Transports /\ None \notin Transports
    /\ DOMAIN SerialOf = Transports /\ MaxCnxn \in Nat

VARIABLES
    life,    \* "none", "registering", "running" or "freed"
    tlist,   \* transport_list, oldest first, while it is not damaged
    links,   \* prev and next that a transport kept when it was taken off the list
    damaged, \* a removal has unlinked through links that did not hold any more
    conn,    \* connection_state
    up,      \* the device answers and nobody has kicked the transport
    sync0,   \* SYNC(0): "no", "sent" by output_thread, "handled" by the main thread
    threads, \* threads that have not dropped their reference
    ref,     \* ref_count
    regq,    \* the registration pipe: transports and actions
    cnxns    \* CNXN packets so far

devices == <<life, tlist, links, damaged, conn, up, sync0, threads, ref, regq, cnxns>>

Listed == ToSet(tlist)

\* The types of a banner that parse_banner knows; any other one is taken for a host.
Known == {"device", "bootloader", "recovery", "sideload"}
States == Known \cup {"offline", "host"}

DevicesType ==
    /\ life \in [Transports -> {"none", "registering", "running", "freed"}]
    /\ tlist \in Seq(Transports) /\ damaged \in BOOLEAN
    /\ links \in [Transports -> (Transports \cup {None}) \X (Transports \cup {None})]
    /\ conn \in [Transports -> States] /\ up \in [Transports -> BOOLEAN]
    /\ sync0 \in [Transports -> {"no", "sent", "handled"}]
    /\ threads \in [Transports -> SUBSET {"out", "in"}]
    /\ ref \in [Transports -> Nat] /\ cnxns \in [Transports -> 0..MaxCnxn]
    /\ regq \in Seq(Transports \X {0, 1})

DevicesInit ==
    /\ life = [t \in Transports |-> "none"] /\ tlist = << >>
    /\ links = [t \in Transports |-> <<None, None>>] /\ damaged = FALSE
    /\ conn = [t \in Transports |-> "offline"] /\ up = [t \in Transports |-> TRUE]
    /\ sync0 = [t \in Transports |-> "no"] /\ threads = [t \in Transports |-> {}]
    /\ ref = [t \in Transports |-> 0] /\ cnxns = [t \in Transports |-> 0]
    /\ regq = << >>

-----------------------------------------------------------------------------
(* Choosing a transport *)

\* What a walk over transport_list may find: what is on it, or, once its links are damaged,
\* any transports that were on it, freed ones among them.
Walks == IF damaged THEN SUBSET {t \in Transports : life[t] \in {"running", "freed"}}
         ELSE {Listed}

\* A target of a request: a serial number, or a type.  CS_NOPERM, which is skipped,
\* does not occur: usb_windows.cpp opens every device for writing.
Matches(t, target) ==
    \/ target = SerialOf[t] \/ target = "any"
    \/ target = "usb" /\ t \notin Tcp
    \/ target = "local" /\ t \in Tcp

Matching(S, target) == {t \in S : Matches(t, target)}

\* acquire_one_transport with CS_ANY, of the transports S that it finds: the only match,
\* unless it is off line.  A freed one reads as any state.
AcquireOne(S, target) ==
    LET online == {t \in Matching(S, target) : conn[t] # "offline" \/ life[t] = "freed"}
    IN  IF Cardinality(Matching(S, target)) = 1 /\ online # {}
          THEN CHOOSE t \in online : TRUE ELSE None

\* find_transport, of the transports S: t is the first with that serial number.
FindsTransport(S, serial, t) ==
    LET same == {u \in S : SerialOf[u] = serial}
    IN  t \in same /\ (~damaged => t = Head(Keep(tlist, same)))

-----------------------------------------------------------------------------
(* Registration and removal *)

\* register_usb_transport, or the end of register_socket_transport.
RegisterTransport(t) ==
    /\ life[t] = "none"
    /\ life' = [life EXCEPT ![t] = "registering"]
    /\ regq' = Append(regq, <<t, 1>>)
    /\ UNCHANGED <<tlist, links, damaged, conn, up, sync0, threads, ref, cnxns>>

\* transport_registration_func, action 1.
StartTransport(t) ==
    /\ regq # << >> /\ Head(regq) = <<t, 1>> /\ regq' = Tail(regq)
    /\ life' = [life EXCEPT ![t] = "running"]
    /\ tlist' = IF damaged THEN tlist ELSE Append(tlist, t)
    /\ threads' = [threads EXCEPT ![t] = {"out", "in"}]
    /\ ref' = [ref EXCEPT ![t] = 2]
    /\ UNCHANGED <<links, damaged, conn, up, sync0, cnxns>>

\* The list with its head at both ends, and the neighbours of t on it.
Ring(list) == <<None>> \o list \o <<None>>
Neighbours(list, t) ==
    LET i == CHOOSE i \in 1..Len(list) : list[i] = t
    IN  <<Ring(list)[i], Ring(list)[i + 2]>>
Adjacent(list, pair) ==
    \E i \in 1..(Len(list) + 1) : pair = <<Ring(list)[i], Ring(list)[i + 1]>>

\* transport_registration_func, action 0: unlinked, whether it is on the list or not, and
\* freed; its fields mean nothing now.
FreeTransport(t) ==
    /\ regq # << >> /\ Head(regq) = <<t, 0>> /\ regq' = Tail(regq)
    /\ life' = [life EXCEPT ![t] = "freed"]
    /\ damaged' = (damaged \/ (t \notin Listed /\ ~Adjacent(tlist, links[t])))
    /\ tlist' = IF damaged' THEN << >> ELSE Without(tlist, t)
    /\ links' = [links EXCEPT ![t] = <<None, None>>]
    /\ conn' = [conn EXCEPT ![t] = "offline"] /\ cnxns' = [cnxns EXCEPT ![t] = 0]
    /\ sync0' = [sync0 EXCEPT ![t] = "no"] /\ threads' = [threads EXCEPT ![t] = {}]
    /\ UNCHANGED <<up, ref>>

\* transport_unref_locked, for each of a sequence: the last reference removes.
Unref(ts) ==
    LET last == Keep(ts, {t \in Transports : ref[t] = 1})
    IN  /\ ref' = [t \in Transports |-> IF t \in ToSet(ts) /\ ref[t] > 0
                                         THEN ref[t] - 1 ELSE ref[t]]
        /\ regq' = regq \o [i \in 1..Len(last) |-> <<last[i], 0>>]

-----------------------------------------------------------------------------
(* What the threads and the device do *)

Running(t) == life[t] = "running"

Unplug(t) ==
    /\ Running(t) /\ up[t]
    /\ up' = [up EXCEPT ![t] = FALSE]
    /\ UNCHANGED <<life, tlist, links, damaged, conn, sync0, threads, ref, regq, cnxns>>

\* output_thread after a failed read.
PostSync0(t) ==
    /\ Running(t) /\ ~up[t] /\ sync0[t] = "no"
    /\ sync0' = [sync0 EXCEPT ![t] = "sent"]
    /\ UNCHANGED <<life, tlist, links, damaged, conn, up, threads, ref, regq, cnxns>>

\* The end of either thread; input_thread ends when SYNC(0) has come back.
ThreadExit(t) ==
    /\ Running(t)
    /\ \E h \in threads[t] :
         /\ sync0[t] = "handled" \/ (h = "out" /\ sync0[t] = "sent")
         /\ threads' = [threads EXCEPT ![t] = @ \ {h}]
    /\ Unref(<<t>>)
    /\ UNCHANGED <<life, tlist, links, damaged, conn, up, sync0, cnxns>>

\* handle_packet: SYNC(0).
TakeSync0(t) ==
    /\ Running(t) /\ sync0[t] = "sent"
    /\ sync0' = [sync0 EXCEPT ![t] = "handled"]
    /\ conn' = [conn EXCEPT ![t] = "offline"]
    /\ UNCHANGED <<life, tlist, links, damaged, up, threads, ref, regq, cnxns>>

\* handle_packet: CNXN, which a device that restarts sends again.
TakeCnxn(t, banner) ==
    /\ Running(t) /\ sync0[t] # "handled" /\ cnxns[t] < MaxCnxn
    /\ cnxns' = [cnxns EXCEPT ![t] = @ + 1]
    /\ conn' = [conn EXCEPT ![t] = IF banner \in Known THEN banner ELSE "host"]
    /\ UNCHANGED <<life, tlist, links, damaged, up, sync0, threads, ref, regq>>

\* The list when the i-th of ts is unlinked: without those before it.
ListAt(ts, i) == Keep(tlist, Transports \ {ts[j] : j \in 1..(i - 1)})

\* unregister_transport and unregister_all_tcp_transports, one transport after the other:
\* off the list with its links as they are, kicked, and a reference dropped that the caller
\* does not hold.
Unregister(ts) ==
    /\ tlist' = Keep(tlist, Transports \ ToSet(ts))
    /\ links' = [t \in Transports |->
                   IF t \in Listed \cap ToSet(ts)
                     THEN Neighbours(ListAt(ts, CHOOSE i \in 1..Len(ts) : ts[i] = t), t)
                     ELSE links[t]]
    /\ up' = [t \in Transports |-> up[t] /\ t \notin ToSet(ts)]
    /\ Unref(ts)
    /\ UNCHANGED <<life, damaged, conn, sync0, threads, cnxns>>
=============================================================================
