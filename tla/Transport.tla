----------------------------- MODULE Transport -----------------------------
(***************************************************************************)
(* The life of a transport (transport.cpp): registration through a message *)
(* to the main thread, the two threads that pump packets between the       *)
(* device and the main thread, the SYNC handshake that starts and stops    *)
(* them, kicking, reference counting, removal and "disconnect".            *)
(*                                                                         *)
(*   device --read_from_remote--> output_thread --toMain--> main thread    *)
(*   device <--write_to_remote--- input_thread <--toInput-- main thread    *)
(*                                                                         *)
(* toMain and toInput are the two directions of the transport's            *)
(* socketpair; what one direction promises is the subject of BipBuffer.    *)
(* Its two ends, transport_socket and fd, are slots of the descriptor      *)
(* table _win32_fhs.  Packets keep what the pumps look at: the command,    *)
(* and for SYNC whether arg0 is 0.  Each region under transport_lock is    *)
(* one step.                                                               *)
(***************************************************************************)
EXTENDS Integers, Sequences, FiniteSets

CONSTANTS
    Transports,     \* the transports that may be registered, once each
    Tcp,            \* those made by register_socket_transport; the others are USB
    MaxDisconnects, \* bound: host:disconnect requests of the user
    WIN32_MAX_FHS,  \* slots of the descriptor table
    FhCounts,       \* values of _win32_fh_count at the start
    MaxIn,          \* bound: packets a device sends
    MaxOut,         \* bound: packets the sockets of the main thread send
    None            \* no transport

ASSUME TransportAssumption ==
    /\ Tcp \subseteq Transports /\ MaxDisconnects \in Nat
    /\ WIN32_MAX_FHS \in Nat /\ FhCounts \subseteq 0..WIN32_MAX_FHS
    /\ MaxIn \in Nat /\ MaxOut \in Nat
    /\ None \notin Transports

Slots == 1..WIN32_MAX_FHS
Nodes == Transports \cup {None}  \* None also stands for the head, &transport_list

VARIABLES
    regq,      \* transport_registration socketpair: <<transport, action>>
    next, prev,\* the links of transport_list
    listed,    \* the transports that should be on transport_list
    freed,     \* free(t) has run
    ref,       \* ref_count
    kicked,    \* t->kicked
    kicks,     \* calls of t->kick
    closed,    \* calls of t->close
    link,      \* the device answers: sfd or the usb handle is usable
    fhs,       \* _win32_fhs: the transport that opened each slot
    fhcount,   \* _win32_fh_count
    sock, fd,  \* t->transport_socket and t->fd, 0 before the registration
    toMain, toInput,
    outpc, inpc,
    active,    \* input_thread's local flag
    online,    \* t->online, with connection_state # CS_OFFLINE
    main,      \* what the main thread is in the middle of: <<where, transport>>
    nin, nout, asked, \* packets and requests counted against the bounds
    ignored    \* packets input_thread dropped because it was not active

list   == <<next, prev, listed>>
counts == <<ref, kicked, kicks, closed>>
table  == <<fhs, fhcount, sock, fd>>
queues == <<toMain, toInput>>
flags  == <<active, online, ignored>>
bounds == <<nin, nout, asked>>
vars == <<regq, list, freed, counts, link, table, queues, outpc, inpc, flags,
          main, bounds>>

Idle  == <<"idle", None>>
Fatal == <<"fatal", None>>

OutPcs == {"unborn", "sync", "pump", "sync0", "kick", "kicking", "unref", "done"}
InPcs  == {"unborn", "read", "close_all", "kick", "kicking", "unref", "done"}

Init ==
    /\ regq = << >>
    /\ next = [n \in Nodes |-> None] /\ prev = [n \in Nodes |-> None]
    /\ listed  = {} /\ freed = {}
    /\ ref     = [t \in Transports |-> 0]
    /\ kicked  = [t \in Transports |-> FALSE]
    /\ kicks   = [t \in Transports |-> 0]
    /\ closed  = [t \in Transports |-> 0]
    /\ link    = [t \in Transports |-> TRUE]
    /\ fhs = [i \in Slots |-> None] /\ fhcount \in FhCounts
    /\ sock    = [t \in Transports |-> 0]
    /\ fd      = [t \in Transports |-> 0]
    /\ toMain  = [t \in Transports |-> << >>]
    /\ toInput = [t \in Transports |-> << >>]
    /\ outpc   = [t \in Transports |-> "unborn"]
    /\ inpc    = [t \in Transports |-> "unborn"]
    /\ active  = [t \in Transports |-> FALSE]
    /\ online  = [t \in Transports |-> FALSE]
    /\ main = Idle
    /\ nin  = [t \in Transports |-> 0]
    /\ nout = [t \in Transports |-> 0]
    /\ ignored = 0 /\ asked = 0

-----------------------------------------------------------------------------
(* The descriptor table *)

\* A mutant of FhAllocs: a slot is taken without the test that it is free.
FhAllocs_NoTest(table_, count, i) == i = IF count < WIN32_MAX_FHS THEN count + 1 ELSE 1

\* _fh_alloc: fresh slots until the table was filled once, then the first free one.
FhAllocs(table_, count, i) ==
    IF count < WIN32_MAX_FHS
      THEN i = count + 1
      ELSE /\ i \in Slots /\ table_[i] = None
           /\ \A j \in 1..(i - 1) : table_[j] # None

\* _win32_fh_count after _fh_alloc.
FhCount(count) == IF count < WIN32_MAX_FHS THEN count + 1 ELSE count

\* adb_close of t->fd or t->transport_socket: whoever owns the slot now loses it.
Closing(table_, S) == [i \in Slots |-> IF i \in S THEN None ELSE table_[i]]

\* The threads' end and the main thread's end of t's socketpair are open.
FdOpen(t)   == fd[t] \in Slots /\ fhs[fd[t]] = t
SockOpen(t) == sock[t] \in Slots /\ fhs[sock[t]] = t

-----------------------------------------------------------------------------
(* Pieces shared by several callers *)

\* A mutant of LastRef: one of the two threads is not counted.
LastRef_OneThread(t) == ref[t] = 2
\* transport_unref_locked drops the last reference.
LastRef(t) == ref[t] = 1

\* transport_unref_locked: the last reference kicks if nobody did, closes, and asks
\* the main thread to remove.  For a tcp transport t->close is adb_close(t->fd).
\* With kickFirst the caller kicks t before, under the same lock.
Unref(t, kickFirst) ==
    LET last == LastRef(t)
        kick == ~kicked[t] /\ (kickFirst \/ last)
    IN  /\ ref'    = [ref EXCEPT ![t] = @ - 1]
        /\ kicked' = [kicked EXCEPT ![t] = @ \/ kick]
        /\ kicks'  = [kicks EXCEPT ![t] = IF kick THEN @ + 1 ELSE @]
        /\ link'   = [link EXCEPT ![t] = @ /\ ~kick]
        /\ closed' = [closed EXCEPT ![t] = IF last THEN @ + 1 ELSE @]
        /\ fhs'    = IF last /\ t \in Tcp THEN Closing(fhs, {fd[t]}) ELSE fhs
        /\ regq'   = IF last THEN Append(regq, <<t, 0>>) ELSE regq
        /\ UNCHANGED <<fhcount, sock, fd>>

\* transport_lock is held over several steps only by unregister_all_tcp_transports.
LockFree == main[1] # "walk"

\* kick_transport: test and set kicked under transport_lock ...
TakeKick(t) == kicked' = [kicked EXCEPT ![t] = TRUE]
\* ... and t->kick(t) after the unlock, by the thread that set it.
Kick(t) == /\ kicks' = [kicks EXCEPT ![t] = @ + 1]
           /\ link'  = [link EXCEPT ![t] = FALSE]

\* t is put at the end of transport_list.
Link(t) ==
    /\ next' = [next EXCEPT ![t] = None, ![prev[None]] = t]
    /\ prev' = [prev EXCEPT ![t] = prev[None], ![None] = t]
    /\ listed' = listed \cup {t}

\* A mutant of Unlink: the neighbours are linked in one direction only.
Unlink_OneWay(t) ==
    /\ next' = [next EXCEPT ![prev[t]] = next[t]]
    /\ prev' = prev
    /\ listed' = listed \ {t}

\* t->next->prev = t->prev; t->prev->next = t->next, whether t is listed or not.
Unlink(t) ==
    /\ prev' = [prev EXCEPT ![next[t]] = prev[t]]
    /\ next' = [next EXCEPT ![prev[t]] = next[t]]
    /\ listed' = listed \ {t}

-----------------------------------------------------------------------------
(* The device and whoever detects it *)

\* register_transport, called by the USB poll thread or a connect service.
Register(t) ==
    /\ outpc[t] = "unborn" /\ \A i \in DOMAIN regq : regq[i][1] # t
    /\ regq' = Append(regq, <<t, 1>>)
    /\ UNCHANGED <<list, freed, counts, link, table, queues, outpc, inpc, flags,
                   main, bounds>>

\* The device is unplugged or stops answering.
Unplug(t) ==
    /\ link[t] /\ outpc[t] # "unborn"
    /\ link' = [link EXCEPT ![t] = FALSE]
    /\ UNCHANGED <<regq, list, freed, counts, table, queues, outpc, inpc, flags,
                   main, bounds>>

-----------------------------------------------------------------------------
(* output_thread *)

OutStep == UNCHANGED <<list, freed, closed, ref, table, toInput, inpc, flags,
                       main, nout, asked>>

\* write_packet to t->fd: it fails once that end is closed.
OutWrite(t, p, ok) ==
    IF FdOpen(t)
      THEN toMain' = [toMain EXCEPT ![t] = Append(@, p)]
           /\ outpc' = [outpc EXCEPT ![t] = ok]
      ELSE UNCHANGED toMain /\ outpc' = [outpc EXCEPT ![t] = "kick"]

OutSync(t) ==
    /\ outpc[t] = "sync"
    /\ OutWrite(t, "SYNC1", "pump")
    /\ OutStep /\ UNCHANGED <<regq, kicked, kicks, link, nin>>

\* read_from_remote succeeds.
OutPump(t) ==
    /\ outpc[t] = "pump" /\ link[t] /\ nin[t] < MaxIn
    /\ \E p \in {"CNXN", "DATA"} : OutWrite(t, p, "pump")
    /\ nin' = [nin EXCEPT ![t] = @ + 1]
    /\ OutStep /\ UNCHANGED <<regq, kicked, kicks, link>>

\* read_from_remote fails.
OutFail(t) ==
    /\ outpc[t] = "pump" /\ ~link[t]
    /\ outpc' = [outpc EXCEPT ![t] = "sync0"]
    /\ OutStep /\ UNCHANGED <<regq, kicked, kicks, link, nin, toMain>>

\* A mutant of OutSync0: the failure is not announced.
OutSync0_Silent(t) ==
    /\ outpc[t] = "sync0"
    /\ outpc' = [outpc EXCEPT ![t] = "kick"]
    /\ OutStep /\ UNCHANGED <<regq, kicked, kicks, link, nin, toMain>>

OutSync0(t) ==
    /\ outpc[t] = "sync0"
    /\ OutWrite(t, "SYNC0", "kick")
    /\ OutStep /\ UNCHANGED <<regq, kicked, kicks, link, nin>>

\* A mutant of OutTakeKick: the test under the lock forgotten.
OutTakeKick_NoRetest(t) ==
    /\ outpc[t] = "kick"
    /\ outpc' = [outpc EXCEPT ![t] = "kicking"]
    /\ TakeKick(t)
    /\ OutStep /\ UNCHANGED <<regq, kicks, link, nin, toMain>>

OutTakeKick(t) ==
    /\ outpc[t] = "kick" /\ (kicked[t] \/ LockFree)
    /\ outpc' = [outpc EXCEPT ![t] = IF kicked[t] THEN "unref" ELSE "kicking"]
    /\ TakeKick(t)
    /\ OutStep /\ UNCHANGED <<regq, kicks, link, nin, toMain>>

OutKick(t) ==
    /\ outpc[t] = "kicking"
    /\ Kick(t)
    /\ outpc' = [outpc EXCEPT ![t] = "unref"]
    /\ OutStep /\ UNCHANGED <<regq, kicked, nin, toMain>>

OutUnref(t) ==
    /\ outpc[t] = "unref"
    /\ LockFree /\ Unref(t, FALSE)
    /\ outpc' = [outpc EXCEPT ![t] = "done"]
    /\ UNCHANGED <<list, freed, queues, inpc, flags, main, bounds>>

-----------------------------------------------------------------------------
(* input_thread *)

InStep == UNCHANGED <<regq, list, freed, closed, ref, table, toMain, outpc, online,
                      main, bounds>>

\* A packet from the main thread: SYNC(0) ends the loop, SYNC(1, token) starts
\* forwarding, anything else is forwarded or dropped.
InRead(t) ==
    /\ inpc[t] = "read" /\ FdOpen(t) /\ toInput[t] # << >>
    /\ toInput' = [toInput EXCEPT ![t] = Tail(@)]
    /\ LET p == Head(toInput[t]) IN
         /\ inpc' = [inpc EXCEPT ![t] = IF p = "SYNC0" THEN "close_all" ELSE "read"]
         /\ active' = [active EXCEPT ![t] = @ \/ p = "SYNC1"]
         /\ ignored' = IF p \in {"SYNC0", "SYNC1"} \/ active[t]
                         THEN ignored ELSE ignored + 1
    /\ InStep /\ UNCHANGED <<kicked, kicks, link>>

\* read_packet fails: the socketpair was closed under the thread.
InFail(t) ==
    /\ inpc[t] = "read"
    /\ ~FdOpen(t) \/ (~SockOpen(t) /\ toInput[t] = << >>)
    /\ inpc' = [inpc EXCEPT ![t] = "close_all"]
    /\ InStep /\ UNCHANGED <<kicked, kicks, link, toInput, active, ignored>>

\* close_all_sockets(t): the sockets are the subject of AdbSockets.
InCloseAll(t) ==
    /\ inpc[t] = "close_all"
    /\ inpc' = [inpc EXCEPT ![t] = "kick"]
    /\ InStep /\ UNCHANGED <<kicked, kicks, link, toInput, active, ignored>>

InTakeKick(t) ==
    /\ inpc[t] = "kick" /\ (kicked[t] \/ LockFree)
    /\ inpc' = [inpc EXCEPT ![t] = IF kicked[t] THEN "unref" ELSE "kicking"]
    /\ TakeKick(t)
    /\ InStep /\ UNCHANGED <<kicks, link, toInput, active, ignored>>

InKick(t) ==
    /\ inpc[t] = "kicking"
    /\ Kick(t)
    /\ inpc' = [inpc EXCEPT ![t] = "unref"]
    /\ InStep /\ UNCHANGED <<kicked, toInput, active, ignored>>

InUnref(t) ==
    /\ inpc[t] = "unref"
    /\ LockFree /\ Unref(t, FALSE)
    /\ inpc' = [inpc EXCEPT ![t] = "done"]
    /\ UNCHANGED <<list, freed, queues, outpc, flags, main, bounds>>

-----------------------------------------------------------------------------
(* The main thread: one event at a time *)

\* transport_registration_func, action 1: a socketpair, and the two threads, which
\* are the two references.
MainRegister ==
    /\ main = Idle /\ regq # << >> /\ Head(regq)[2] = 1
    /\ LET t == Head(regq)[1] IN
       \E i, j \in Slots :
         LET fhs1 == [fhs EXCEPT ![i] = t] IN
             /\ FhAllocs(fhs, fhcount, i) /\ FhAllocs(fhs1, FhCount(fhcount), j)
             /\ fhs' = [fhs1 EXCEPT ![j] = t]
             /\ fhcount' = FhCount(FhCount(fhcount))
             /\ sock' = [sock EXCEPT ![t] = i] /\ fd' = [fd EXCEPT ![t] = j]
             /\ ref'    = [ref EXCEPT ![t] = 2]
             /\ inpc'   = [inpc EXCEPT ![t] = "read"]
             /\ outpc'  = [outpc EXCEPT ![t] = "sync"]
             /\ Link(t)
    /\ regq' = Tail(regq)
    /\ UNCHANGED <<freed, kicked, kicks, closed, link, queues, flags, main, bounds>>

\* ... with fewer than two free slots adb_socketpair fails and the server exits.
MainRegisterFails ==
    /\ main = Idle /\ regq # << >> /\ Head(regq)[2] = 1
    /\ Cardinality({i \in Slots : fhs[i] = None}) < 2
    /\ main' = Fatal
    /\ UNCHANGED <<regq, list, freed, counts, link, table, queues, outpc, inpc,
                   flags, bounds>>

\* transport_registration_func, action 0: fdevent_remove closes transport_socket,
\* adb_close closes fd, which the close method of a tcp transport closed before.
MainRemove ==
    /\ main = Idle /\ regq # << >> /\ Head(regq)[2] = 0
    /\ LET t == Head(regq)[1] IN
         /\ fhs'    = Closing(fhs, {sock[t], fd[t]})
         /\ Unlink(t)
         /\ freed'  = freed \cup {t}
         /\ toMain' = [toMain EXCEPT ![t] = << >>]
         /\ online' = [online EXCEPT ![t] = FALSE]
    /\ regq' = Tail(regq)
    /\ UNCHANGED <<counts, link, fhcount, sock, fd, toInput, outpc, inpc, active,
                   ignored, main, bounds>>

\* send_packet writes ps to transport_socket, or exits with "cannot enqueue packet
\* on transport socket".
Send(t, ps) ==
    IF ps = << >> \/ SockOpen(t)
      THEN toInput' = [toInput EXCEPT ![t] = @ \o ps] /\ UNCHANGED main
      ELSE main' = Fatal /\ UNCHANGED toInput

\* A mutant of Replies: CNXN sent before SYNC(1) has come back.
Replies_ConnectFirst(p, on) ==
    CASE p = "SYNC1" -> {<<"CNXN", "SYNC1">>}
      [] p = "SYNC0" -> {<<"SYNC0">>}
      [] p = "DATA"  -> IF on THEN {<< >>, <<"DATA">>} ELSE {<< >>}
      [] OTHER       -> {<< >>}

\* What handle_packet may send back for packet p, in order: the sockets of an
\* on-line transport may answer any packet.
Replies(p, on) ==
    CASE p = "SYNC1" -> {<<"SYNC1", "CNXN">>}
      [] p = "SYNC0" -> {<<"SYNC0">>}
      [] p = "DATA"  -> IF on THEN {<< >>, <<"DATA">>} ELSE {<< >>}
      [] OTHER       -> {<< >>}

\* t->online after handle_packet: handle_online for CNXN, handle_offline for SYNC(0).
OnlineAfter(p, on) == p = "CNXN" \/ (on /\ p # "SYNC0")

\* transport_socket_events: handle_packet for the next packet of t.
MainPacket(t) ==
    /\ main = Idle /\ SockOpen(t) /\ toMain[t] # << >>
    /\ LET p == Head(toMain[t]) IN
         /\ toMain' = [toMain EXCEPT ![t] = Tail(@)]
         /\ \E r \in Replies(p, online[t]) : Send(t, r)
         /\ online' = [online EXCEPT ![t] = OnlineAfter(p, @)]
    /\ UNCHANGED <<regq, list, freed, counts, link, table, outpc, inpc, active,
                   ignored, bounds>>

\* A socket bound to an online transport sends a packet.
MainSend(t) ==
    /\ main = Idle /\ online[t] /\ nout[t] < MaxOut
    /\ Send(t, <<"DATA">>)
    /\ nout' = [nout EXCEPT ![t] = @ + 1]
    /\ UNCHANGED <<regq, list, freed, counts, link, table, toMain, outpc, inpc,
                   flags, nin, asked>>

\* host:disconnect:<serial>: find_transport, then unregister_transport unlinks t,
\* kicks it and drops a reference, each under transport_lock on its own.
Disconnect(t) ==
    /\ asked < MaxDisconnects /\ main = Idle /\ t \in listed \cap Tcp
    /\ Unlink(t)
    /\ main' = <<"kick", t>> /\ asked' = asked + 1
    /\ UNCHANGED <<regq, freed, counts, link, table, queues, outpc, inpc, flags,
                   nin, nout>>

MainTakeKick ==
    /\ main[1] = "kick"
    /\ main' = <<IF kicked[main[2]] THEN "unref" ELSE "kicking", main[2]>>
    /\ TakeKick(main[2])
    /\ UNCHANGED <<regq, list, freed, ref, kicks, closed, link, table, queues,
                   outpc, inpc, flags, bounds>>

\* A mutant of MainKick: kicked is set but t->kick is not called.
MainKick_NoCall ==
    /\ main[1] = "kicking"
    /\ main' = <<"unref", main[2]>>
    /\ UNCHANGED <<regq, list, freed, ref, kicked, kicks, closed, link, table,
                   queues, outpc, inpc, flags, bounds>>

MainKick ==
    /\ main[1] = "kicking"
    /\ Kick(main[2])
    /\ main' = <<"unref", main[2]>>
    /\ UNCHANGED <<regq, list, freed, ref, kicked, closed, table, queues, outpc,
                   inpc, flags, bounds>>

MainUnref ==
    /\ main[1] = "unref"
    /\ Unref(main[2], FALSE)
    /\ main' = Idle
    /\ UNCHANGED <<list, freed, queues, outpc, inpc, flags, bounds>>

\* host:disconnect: without a serial: unregister_all_tcp_transports walks the list,
\* holding transport_lock, and unlinks, kicks and unrefs each tcp transport.
DisconnectAll ==
    /\ asked < MaxDisconnects /\ main = Idle /\ next[None] # None
    /\ main' = <<"walk", next[None]>> /\ asked' = asked + 1
    /\ UNCHANGED <<regq, list, freed, counts, link, table, queues, outpc, inpc,
                   flags, nin, nout>>

MainWalk ==
    /\ main[1] = "walk"
    /\ LET t == main[2] IN
         /\ main' = IF next[t] = None THEN Idle ELSE <<"walk", next[t]>>
         /\ IF t \in Tcp
              THEN Unlink(t) /\ Unref(t, TRUE)
              ELSE UNCHANGED <<regq, list, counts, link, table>>
    /\ UNCHANGED <<freed, queues, outpc, inpc, flags, bounds>>

-----------------------------------------------------------------------------
Output(t) == \/ OutSync(t) \/ OutFail(t) \/ OutSync0(t)
             \/ OutTakeKick(t) \/ OutKick(t) \/ OutUnref(t)
Input(t) == \/ InRead(t) \/ InFail(t) \/ InCloseAll(t)
            \/ InTakeKick(t) \/ InKick(t) \/ InUnref(t)
MainCall == MainTakeKick \/ MainKick \/ MainUnref \/ MainWalk
MainReg  == MainRegister \/ MainRegisterFails \/ MainRemove

\* Nothing is said of a thread that goes on with a transport after free(t).
ThreadStep(t) == t \notin freed /\ (OutPump(t) \/ Output(t) \/ Input(t))

Next == /\ main # Fatal
        /\ \/ MainReg \/ MainCall \/ DisconnectAll
           \/ \E t \in Transports :
                \/ Register(t) \/ Unplug(t) \/ ThreadStep(t)
                \/ MainPacket(t) \/ MainSend(t) \/ Disconnect(t)

Spec == Init /\ [][Next]_vars

\* The threads are scheduled, and fdevent_loop gets to every ready descriptor.
\* Devices need not send, users need not ask.
Fairness ==
    /\ WF_vars(main # Fatal /\ MainReg) /\ WF_vars(main # Fatal /\ MainCall)
    /\ \A t \in Transports :
         /\ WF_vars(main # Fatal /\ t \notin freed /\ Output(t))
         /\ WF_vars(main # Fatal /\ t \notin freed /\ Input(t))
         /\ WF_vars(main # Fatal /\ MainPacket(t))

FairSpec == Spec /\ Fairness

-----------------------------------------------------------------------------
(* Properties *)

Packets == {"SYNC0", "SYNC1", "CNXN", "DATA"}

\* The shape of every variable, atransport's fields included.
TypeOK ==
    /\ regq \in Seq(Transports \X {0, 1})
    /\ next \in [Nodes -> Nodes] /\ prev \in [Nodes -> Nodes]
    /\ listed \subseteq Transports /\ freed \subseteq Transports
    /\ kicked \in [Transports -> BOOLEAN] /\ link \in [Transports -> BOOLEAN]
    /\ active \in [Transports -> BOOLEAN] /\ online \in [Transports -> BOOLEAN]
    /\ ref \in [Transports -> Int]
    /\ kicks \in [Transports -> Nat] /\ closed \in [Transports -> Nat]
    /\ fhs \in [Slots -> Nodes] /\ fhcount \in 0..WIN32_MAX_FHS
    /\ sock \in [Transports -> 0..WIN32_MAX_FHS]
    /\ fd \in [Transports -> 0..WIN32_MAX_FHS]
    /\ toMain \in [Transports -> Seq(Packets)]
    /\ toInput \in [Transports -> Seq(Packets)]
    /\ outpc \in [Transports -> OutPcs] /\ inpc \in [Transports -> InPcs]
    /\ main \in {Idle, Fatal} \cup {"kick", "kicking", "unref", "walk"} \X Transports
    /\ nin \in [Transports -> Nat] /\ nout \in [Transports -> Nat]
    /\ asked \in Nat /\ ignored \in Nat

\* "The transport will not actually be closed until both threads exit"
\* (comment above output_thread), and it is freed only after that: no thread
\* still has a step to take on a closed transport.
ClosedAfterThreads ==
    \A t \in Transports :
        closed[t] > 0 \/ t \in freed => outpc[t] = "done" /\ inpc[t] = "done"

\* However many threads find the transport broken at once, t->kick and t->close
\* run at most once each.
KickedOnce == \A t \in Transports : kicks[t] <= 1 /\ closed[t] <= 1

\* t->close never overtakes t->kick: a closed transport was kicked, and no thread
\* is about to kick it.
KickBeforeClose ==
    \A t \in Transports :
        closed[t] = 1 => /\ kicks[t] = 1
                         /\ outpc[t] # "kicking" /\ inpc[t] # "kicking"

\* transport_list is a doubly linked ring of the registered transports: what
\* find_transport and acquire_one_transport walk.
ListIntact ==
    LET ring == listed \cup {None} IN
    \A n \in ring : /\ next[n] \in ring /\ prev[n] \in ring
                    /\ prev[next[n]] = n /\ next[prev[n]] = n

\* "The remove closes one half of the socket pair. The close closes the other
\* half" (comment in transport_registration_func): no close takes a descriptor of
\* another transport, whose threads and whose events still use it.
DescriptorsIntact ==
    \A t \in listed : /\ SockOpen(t)
                      /\ inpc[t] # "done" => FdOpen(t)

\* input_thread forwards all that the main thread sends: "transport ignoring
\* packet while offline" does not happen, because SYNC(1) comes first.
NothingIgnored == ignored = 0

\* The main thread has put a transport off-line before input_thread closes its
\* sockets (close_all_sockets), and no packet arrives from it after SYNC(0).
OfflineLast ==
    \A t \in Transports :
        /\ inpc[t] \notin {"unborn", "read"} => ~online[t]
        /\ \A i \in DOMAIN toMain[t] : toMain[t][i] = "SYNC0" => i = Len(toMain[t])

\* Once the device is gone the transport is taken down: both threads exit, and the
\* main thread removes and frees it.
GoneIsFreed == \A t \in Transports :
    outpc[t] # "unborn" /\ ~link[t] ~> t \in freed

\* A transport that the user disconnected is freed in the end, unless the registration
\* of another one finds the descriptor table full and ends the program.
DisconnectedIsFreed == \A t \in Transports :
    main = <<"kick", t>> ~> t \in freed \/ main = Fatal

\* The fields of the transports, the order of kick and close, and the links of
\* transport_list, at every point of registration and removal.
TransportInv == TypeOK /\ KickBeforeClose /\ ListIntact

\* The SYNC handshake of handle_packet and the two threads: SYNC(1) before all other
\* packets, and SYNC(0) after them.
Handshake == NothingIgnored /\ OfflineLast
=============================================================================
