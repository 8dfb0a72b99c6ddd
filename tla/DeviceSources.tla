--------------------------- MODULE DeviceSources ---------------------------
(***************************************************************************)
(* Where transports come from and how they give back what they hold: the   *)
(* USB device that is plugged in and out, and the emulators that announce  *)
(* themselves, with the two threads of each transport that kick and close  *)
(* it (Transport has these in detail).  A transport is removed by the last *)
(* of its threads: host:disconnect, which appends a port to the name it    *)
(* is given, finds neither the device nor an emulator.                     *)
(***************************************************************************)
EXTENDS LocalTransports

VARIABLES
    life,     \* "none", "handle", "registering" or "running"
    broken,   \* transports whose connection is lost (external)
    out, in,  \* output_thread and input_thread
    ref,      \* ref_count
    kicked    \* t->kicked

threads == <<out, in, ref, kicked>>
vars == <<usb, local, life, broken, threads>>

Pcs == {"none", "run", "ended", "kicking", "unref", "done"}

TypeOK ==
    /\ UsbType /\ LocalType
    /\ life \in [Transports -> {"none", "handle", "registering", "running", "closed"}]
    /\ broken \subseteq Transports
    /\ out \in [Transports -> Pcs] /\ in \in [Transports -> Pcs]
    /\ ref \in [Transports -> 0..2] /\ kicked \subseteq Transports

Init ==
    /\ UsbInit /\ LocalInit
    /\ life = [t \in Transports |-> "none"]
    /\ broken = {} /\ kicked = {}
    /\ out = [t \in Transports |-> "none"] /\ in = out /\ ref = [t \in Transports |-> 0]

-----------------------------------------------------------------------------
(* The outside *)

Plug ==
    /\ ~present /\ present' = TRUE
    /\ UNCHANGED <<poll, cur, halloc, opened, hlist, local, life, broken, threads>>

\* An open handle is of no use any more, nor when the device is plugged in again.
Unplug ==
    /\ present /\ present' = FALSE
    /\ broken' = broken \cup opened
    /\ UNCHANGED <<poll, cur, halloc, opened, hlist, local, life, threads>>

\* An emulator ends, or a packet has a bad header or check sum.
Breaks(t) ==
    /\ out[t] = "run" /\ t \notin broken /\ broken' = broken \cup {t}
    /\ UNCHANGED <<usb, local, life, threads>>

-----------------------------------------------------------------------------
(* New transports *)

\* One pass of find_devices up to the handle that is on the list.
FindDevices ==
    \/ PollKnown /\ UNCHANGED <<local, life, broken, threads>>
    \/ PollRegister /\ UNCHANGED <<local, life, broken, threads>>
    \/ \E t \in Transports :
         /\ t \in Usb /\ life[t] = "none" /\ PollOpen(t)
         /\ life' = [life EXCEPT ![t] = IF poll' = "register" THEN "handle" ELSE @]
         /\ UNCHANGED <<local, broken, threads>>

\* register_usb_transport.
Announce ==
    /\ poll = "announce" /\ poll' = "idle" /\ cur' = None
    /\ life' = [life EXCEPT ![cur] = "registering"]
    /\ UNCHANGED <<present, halloc, opened, hlist, local, broken, threads>>

\* host:emulator: local_connect and register_socket_transport, in the main thread,
\* when an emulator listens on the port.
LocalConnect(t, p) ==
    /\ t \notin Usb /\ life[t] = "none"
    /\ InitSocketTransport(t, p)
    /\ life' = [life EXCEPT ![t] = "registering"]
    /\ UNCHANGED <<usb, broken, threads>>

\* transport_registration_func, action 1.
Start(t) ==
    /\ life[t] = "registering"
    /\ life' = [life EXCEPT ![t] = "running"]
    /\ out' = [out EXCEPT ![t] = "run"] /\ in' = [in EXCEPT ![t] = "run"]
    /\ ref' = [ref EXCEPT ![t] = 2]
    /\ UNCHANGED <<usb, local, broken, kicked>>

\* transport_registration_func, action 0: the transport is freed.
Free(t) ==
    /\ life[t] = "closed"
    /\ life' = [life EXCEPT ![t] = "none"]
    /\ broken' = broken \ {t} /\ kicked' = kicked \ {t}
    /\ out' = [out EXCEPT ![t] = "none"] /\ in' = [in EXCEPT ![t] = "none"]
    /\ port' = [port EXCEPT ![t] = None]
    /\ UNCHANGED <<usb, slots, ref>>

-----------------------------------------------------------------------------
(* The threads *)

\* t->kick: remote_kick of transport_usb.cpp or of transport_local.cpp.
KickRemote(t) ==
    IF t \in Usb
      THEN UsbKick(t) /\ UNCHANGED <<present, poll, cur, halloc, local>>
      ELSE LocalKick(t) /\ UNCHANGED <<usb, port>>

\* kick_transport: the thread that finds kicked clear sets it, under transport_lock, and
\* will call t->kick.
AfterTest(t) == IF t \in kicked THEN "unref" ELSE "kicking"

\* A mutant of ReadFails: output_thread reads again until the handle is kicked.
ReadFails_Again(t) ==
    /\ out[t] = "run" /\ IF t \in Usb THEN t \notin opened ELSE t \in broken
    /\ out' = [out EXCEPT ![t] = "ended"]
    /\ UNCHANGED <<usb, local, life, broken, in, ref, kicked>>
\* A read that fails ends the loop of output_thread, which posts SYNC(0); usb_read may
\* have kicked the handle, and not the transport.
ReadFails(t) ==
    /\ out[t] = "run" /\ (t \in broken \/ (t \in Usb /\ t \notin opened))
    /\ out' = [out EXCEPT ![t] = "ended"]
    /\ \/ UNCHANGED usb
       \/ t \in Usb /\ UsbKick(t) /\ UNCHANGED <<present, poll, cur, halloc>>
    /\ UNCHANGED <<local, life, broken, in, ref, kicked>>

\* kick_transport of output_thread, before that of input_thread or after it.
OutputEnds(t) ==
    /\ out[t] = "ended"
    /\ out' = [out EXCEPT ![t] = AfterTest(t)] /\ kicked' = kicked \cup {t}
    /\ UNCHANGED <<usb, local, life, broken, in, ref>>

\* A write that fails may kick the handle as well, and input_thread goes on.
WriteFails(t) ==
    /\ in[t] = "run" /\ t \in Usb /\ t \in broken \cap opened
    /\ UsbKick(t)
    /\ UNCHANGED <<present, poll, cur, halloc, local, life, broken, threads>>

\* SYNC(0) has come from output_thread by way of the main thread.
InputEnds(t) ==
    /\ in[t] = "run" /\ out[t] \notin {"none", "run"}
    /\ in' = [in EXCEPT ![t] = AfterTest(t)] /\ kicked' = kicked \cup {t}
    /\ UNCHANGED <<usb, local, life, broken, out, ref>>

\* t->kick is called without transport_lock.
Kick(t) ==
    /\ \/ out[t] = "kicking" /\ out' = [out EXCEPT ![t] = "unref"] /\ UNCHANGED in
       \/ in[t] = "kicking" /\ in' = [in EXCEPT ![t] = "unref"] /\ UNCHANGED out
    /\ KickRemote(t)
    /\ UNCHANGED <<life, broken, ref, kicked>>

\* transport_unref: the last reference closes the transport and asks for its removal.
\* Each thread has kicked it before, or has seen that it was kicked.
Unref(t) ==
    /\ \/ out[t] = "unref" /\ out' = [out EXCEPT ![t] = "done"] /\ UNCHANGED in
       \/ in[t] = "unref" /\ in' = [in EXCEPT ![t] = "done"] /\ UNCHANGED out
    /\ ref' = [ref EXCEPT ![t] = @ - 1]
    /\ IF ref[t] = 1
         THEN /\ life' = [life EXCEPT ![t] = "closed"]
              /\ IF t \in Usb THEN UsbClose(t) /\ UNCHANGED <<present, poll, cur>>
                 ELSE UNCHANGED usb
         ELSE UNCHANGED <<life, usb>>
    /\ UNCHANGED <<local, broken, kicked>>

Threads(t) == ReadFails(t) \/ OutputEnds(t) \/ InputEnds(t) \/ Kick(t) \/ Unref(t)

-----------------------------------------------------------------------------
Next ==
    \/ Plug \/ Unplug \/ FindDevices \/ Announce
    \/ \E t \in Transports, p \in Ports : LocalConnect(t, p)
    \/ \E t \in Transports : Start(t) \/ Free(t) \/ Breaks(t) \/ WriteFails(t) \/ Threads(t)

\* The polling thread, the main loop and the threads of a transport run; the driver and
\* the network report a connection that is lost.
Fairness ==
    /\ WF_vars(FindDevices) /\ WF_vars(Announce)
    /\ \A t \in Transports : WF_vars(Start(t)) /\ WF_vars(Free(t)) /\ WF_vars(Threads(t))

Spec == Init /\ [][Next]_vars /\ Fairness

-----------------------------------------------------------------------------
(* Properties *)

\* However often the device comes and goes, at most one handle that is not kicked is on
\* handle_list, so at most one transport reads from the device; and no handle that is
\* open is forgotten.
OneHandle ==
    /\ Cardinality(hlist \cap opened) <= 1
    /\ opened \subseteq hlist \cup {cur}

\* Nobody can reach a freed handle: none is on the list that known_device walks, and a
\* thread that will read, write or kick still has one.
HandlesAlive ==
    /\ hlist \subseteq halloc
    /\ \A t \in Transports :
         t \in Usb /\ {out[t], in[t]} \cap {"run", "ended", "kicking"} # {} => t \in halloc

\* No two transports of the table are for one emulator, every one of them is allocated
\* (find_emulator_transport_by_adb_port reads their ports), and an emulator's transport
\* is in the table once until it is kicked and not afterwards.
TableRight ==
    /\ \A p \in Ports : Cardinality(OnPort(p)) <= 1
    /\ \A i \in Slots : slots[i] # None => life[slots[i]] \in {"registering", "running"}
    /\ \A t \in Transports : t \notin Usb /\ life[t] \in {"registering", "running"} =>
         Cardinality({i \in Slots : slots[i] = t})
           = IF t \notin kicked \/ "kicking" \in {out[t], in[t]} THEN 1 ELSE 0

UsbWorks == \E t \in Transports : t \in Usb /\ out[t] = "run" /\ t \notin broken

\* A device that stays plugged in gets a transport that works, again and again if its
\* transport breaks: nothing that a lost connection leaves behind keeps it out.
UsbReturns == <>[]present => []<>UsbWorks

\* When an emulator has gone no slot is left to it, so that it can be connected anew:
\* every slot is free or another emulator's.
SlotsFreed ==
    \A p \in Ports :
        (\E i \in OnPort(p) : slots[i] \in broken)
          ~> (\A i \in Slots : slots[i] # None => port[slots[i]] \in Ports \ {p})

\* However poll, kick, close and registration interleave, handle_list is sound.
SourcesInv == TypeOK /\ OneHandle /\ HandlesAlive
=============================================================================
