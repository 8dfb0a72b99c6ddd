------------------------ MODULE DeviceSources_proofs ------------------------
(***************************************************************************)
(* Proofs about DeviceSources, for any transports of both kinds, any ports *)
(* and a table of any size.                                                *)
(***************************************************************************)
EXTENDS DeviceSources, FiniteSetTheorems, TLAPS

\* The poll: at most one handle is open, and one that is not announced yet is open and
\* known to the poll alone.
PollInv ==
    /\ \A t, u \in opened : t = u
    /\ poll \in {"idle", "open"} => cur = None
    /\ poll \in {"register", "announce"} => cur \in opened /\ life[cur] = "handle"
    /\ \A t \in Transports : life[t] = "handle" =>
         poll \in {"register", "announce"} /\ cur = t

\* The handle of a transport is allocated from the open to the close, and on the list
\* from its registration to the close; an emulator has none.
HandleOf(t) ==
    /\ t \in halloc <=> t \in Usb /\ life[t] \in {"handle", "registering", "running"}
    /\ t \in hlist <=> \/ t \in Usb /\ life[t] \in {"registering", "running"}
                       \/ poll = "announce" /\ cur = t
    /\ t \in opened => t \in halloc
HandleInv == \A t \in Transports : HandleOf(t)

\* The threads of a transport hold its references; kicked is set by the first of them that
\* leaves its loop, and that one alone kicks.
ThreadsOf(t) ==
    /\ life[t] \in {"none", "handle", "registering"} =>
         out[t] = "none" /\ in[t] = "none" /\ ref[t] = 0 /\ t \notin kicked
    /\ life[t] = "running" =>
         /\ out[t] # "none" /\ in[t] # "none" /\ (out[t] # "done" \/ in[t] # "done")
         /\ ref[t] = (IF out[t] = "done" THEN 0 ELSE 1) + (IF in[t] = "done" THEN 0 ELSE 1)
         /\ out[t] = "run" => in[t] = "run"
         /\ in[t] # "ended"
         /\ t \notin kicked <=> out[t] \in {"run", "ended"} /\ in[t] = "run"
         /\ ~(out[t] = "kicking" /\ in[t] = "kicking")
    /\ life[t] = "closed" => out[t] = "done" /\ in[t] = "done" /\ ref[t] = 0
ThreadsInv == \A t \in Transports : ThreadsOf(t)

\* The table: an emulator's transport is there until it is kicked, and no port twice.
InTable(t) == \E i \in Slots : slots[i] = t
TableOf(t) ==
    InTable(t) <=> /\ t \notin Usb /\ life[t] \in {"registering", "running"}
                   /\ t \notin kicked \/ "kicking" \in {out[t], in[t]}
PortsInv ==
    \A i, j \in Slots : slots[i] # None /\ slots[j] # None /\ port[slots[i]] = port[slots[j]]
                          => i = j
TableInv == PortsInv /\ \A t \in Transports : TableOf(t)

IInv == TypeOK /\ PollInv /\ HandleInv /\ ThreadsInv /\ TableInv

-----------------------------------------------------------------------------
(* What a step leaves alone *)

\* Whatever does not touch a transport nor its slot keeps what is said of its slot.
LEMMA SameTable ==
    ASSUME TableInv, NEW u \in Transports, InTable(u)' <=> InTable(u),
           life'[u] = life[u], out'[u] = out[u], in'[u] = in[u],
           u \in kicked' <=> u \in kicked
    PROVE  TableOf(u)'
  BY DEF TableInv, TableOf

\* A step that leaves the table, the lives and the threads alone keeps TableInv.
LEMMA TableKept ==
    ASSUME TableInv, UNCHANGED <<local, life, threads>>
    PROVE  TableInv'
  BY DEF TableInv, TableOf, PortsInv, InTable, local, threads

LEMMA ThreadsKept ==
    ASSUME ThreadsInv, UNCHANGED <<life, threads>>
    PROVE  ThreadsInv'
  BY DEF ThreadsInv, ThreadsOf, threads

LEMMA InitInv == Init => IInv
<1> SUFFICES ASSUME Init PROVE IInv
  OBVIOUS
<1> USE DEF Init, UsbInit, LocalInit
<1>1. TypeOK
  BY DEF TypeOK, UsbType, LocalType, Pcs
<1>2. PollInv /\ HandleInv /\ ThreadsInv
  BY DEF PollInv, HandleInv, HandleOf, ThreadsInv, ThreadsOf
<1>3. TableInv
  BY LocalAssumption DEF TableInv, TableOf, PortsInv, InTable
<1> QED
  BY <1>1, <1>2, <1>3 DEF IInv

-----------------------------------------------------------------------------
(* The device and the poll *)

LEMMA OutsideInv == ASSUME IInv, Plug \/ Unplug PROVE IInv'
<1>1. UNCHANGED <<poll, cur, halloc, opened, hlist, local, life, threads>>
  BY DEF Plug, Unplug
<1>2. TypeOK'
  BY <1>1 DEF Plug, Unplug, IInv, TypeOK, UsbType, LocalType, local, threads
<1>3. PollInv' /\ HandleInv'
  BY <1>1 DEF IInv, PollInv, HandleInv, HandleOf
<1> QED
  BY <1>1, <1>2, <1>3, TableKept, ThreadsKept DEF IInv

LEMMA PollKnownInv ==
    ASSUME IInv, PollKnown, UNCHANGED <<local, life, broken, threads>>
    PROVE  IInv'
<1>1. TypeOK'
  BY DEF PollKnown, IInv, TypeOK, UsbType, LocalType, local, threads
<1>2. PollInv' /\ HandleInv'
  BY DEF PollKnown, IInv, PollInv, HandleInv, HandleOf
<1> QED
  BY <1>1, <1>2, TableKept, ThreadsKept DEF IInv

\* A handle is opened while no other is.
LEMMA PollOpenInv ==
    ASSUME IInv, NEW t \in Transports, t \in Usb, life[t] = "none", PollOpen(t),
           life' = [life EXCEPT ![t] = IF poll' = "register" THEN "handle" ELSE @],
           UNCHANGED <<local, broken, threads>>
    PROVE  IInv'
<1>1. TypeOK'
  BY DEF PollOpen, IInv, TypeOK, UsbType, LocalType, local, threads
<1>2. CASE present /\ opened = {}
  <2>1. /\ poll = "open" /\ poll' = "register" /\ cur' = t /\ hlist' = hlist
        /\ halloc' = halloc \cup {t} /\ opened' = {t} /\ life' = [life EXCEPT ![t] = "handle"]
    BY <1>2 DEF PollOpen
  <2>2. /\ life'[t] = "handle"
        /\ \A u \in Transports \ {t} : life'[u] = life[u]
    BY <2>1 DEF IInv, TypeOK
  <2>3. PollInv'
    BY <2>1, <2>2 DEF IInv, PollInv
  <2>4. HandleInv'
    BY <2>1, <2>2 DEF IInv, PollInv, HandleInv, HandleOf
  <2>5. ThreadsInv'
    BY <2>2 DEF IInv, ThreadsInv, ThreadsOf, threads
  <2>6. TableInv'
    BY <2>2 DEF IInv, TableInv, TableOf, PortsInv, InTable, threads, local
  <2> QED
    BY <1>1, <2>3, <2>4, <2>5, <2>6 DEF IInv
<1>3. CASE ~(present /\ opened = {})
  <2>1. poll = "open" /\ poll' = "idle" /\ UNCHANGED <<cur, halloc, opened, hlist, life>>
    BY <1>3 DEF PollOpen, IInv, TypeOK
  <2>2. PollInv' /\ HandleInv'
    BY <2>1 DEF IInv, PollInv, HandleInv, HandleOf
  <2> QED
    BY <1>1, <2>1, <2>2, TableKept, ThreadsKept DEF IInv
<1> QED
  BY <1>2, <1>3

\* No handle on the list is open when the poll has opened one, so that its own is added.
LEMMA PollRegisterInv ==
    ASSUME IInv, PollRegister, UNCHANGED <<local, life, broken, threads>>
    PROVE  IInv'
<1>1. /\ poll = "register" /\ cur \in opened /\ cur \in Transports /\ life[cur] = "handle"
      /\ \A t \in Transports : life[t] = "handle" => cur = t
  BY DEF PollRegister, IInv, PollInv, TypeOK, UsbType
<1>2. cur \notin hlist
  BY <1>1 DEF IInv, HandleInv, HandleOf
<1>3. ~KnownDevice
  BY <1>1, <1>2 DEF IInv, PollInv, KnownDevice
<1>4. poll' = "announce" /\ hlist' = hlist \cup {cur} /\ UNCHANGED <<present, cur, halloc, opened>>
  BY <1>3 DEF PollRegister
<1>5. TypeOK'
  BY <1>1, <1>4 DEF IInv, TypeOK, UsbType, LocalType, local, threads
<1>6. PollInv'
  BY <1>1, <1>4 DEF IInv, PollInv
<1>7. HandleInv'
  BY <1>1, <1>4 DEF IInv, HandleInv, HandleOf
<1> QED
  BY <1>5, <1>6, <1>7, TableKept, ThreadsKept DEF IInv

LEMMA AnnounceInv == ASSUME IInv, Announce PROVE IInv'
<1>1. /\ poll = "announce" /\ cur \in opened /\ cur \in Transports /\ life[cur] = "handle"
      /\ \A t \in Transports : life[t] = "handle" => cur = t
  BY DEF Announce, IInv, PollInv, TypeOK, UsbType
<1>2. PICK t \in Transports : t = cur
  BY <1>1
<1>3. /\ life' = [life EXCEPT ![t] = "registering"] /\ poll' = "idle" /\ cur' = None
      /\ UNCHANGED <<present, halloc, opened, hlist, local, broken, threads>>
  BY <1>2 DEF Announce
<1>4. life'[t] = "registering" /\ \A u \in Transports \ {t} : life'[u] = life[u]
  BY <1>3 DEF IInv, TypeOK
<1>5. TypeOK'
  BY <1>3 DEF IInv, TypeOK, UsbType, LocalType, local, threads
<1>6. PollInv'
  BY <1>1, <1>2, <1>3, <1>4 DEF IInv, PollInv
<1>7. t \in Usb /\ t \in halloc
  BY <1>1, <1>2 DEF IInv, HandleInv, HandleOf
<1>8. HandleInv'
  BY <1>1, <1>2, <1>3, <1>4, <1>7, LocalAssumption DEF IInv, HandleInv, HandleOf
<1>9. ThreadsInv'
  BY <1>1, <1>2, <1>3, <1>4 DEF IInv, ThreadsInv, ThreadsOf, threads
<1>10. TableInv'
  BY <1>1, <1>2, <1>3, <1>4, <1>7 DEF IInv, TableInv, TableOf, PortsInv, InTable, threads, local
<1> QED
  BY <1>5, <1>6, <1>8, <1>9, <1>10 DEF IInv

-----------------------------------------------------------------------------
(* Registration and removal *)

\* An emulator takes a free slot for a port that is not in the table.
LEMMA LocalConnectInv ==
    ASSUME IInv, NEW t \in Transports, NEW p \in Ports, LocalConnect(t, p)
    PROVE  IInv'
<1>1. PICK i \in Available : slots' = [slots EXCEPT ![i] = t] /\ port' = [port EXCEPT ![t] = p]
  BY DEF LocalConnect, InitSocketTransport
<1>2. i \in Slots /\ slots[i] = None
  BY <1>1 DEF Available
<1>3. /\ t \notin Usb /\ life[t] = "none" /\ OnPort(p) = {}
      /\ life' = [life EXCEPT ![t] = "registering"] /\ UNCHANGED <<usb, broken, threads>>
  BY DEF LocalConnect, InitSocketTransport
<1>4. /\ life'[t] = "registering" /\ port'[t] = p /\ slots'[i] = t
      /\ \A u \in Transports \ {t} : life'[u] = life[u] /\ port'[u] = port[u]
      /\ \A j \in Slots \ {i} : slots'[j] = slots[j]
  BY <1>1, <1>2, <1>3 DEF IInv, TypeOK, LocalType
<1>5. ~InTable(t)
  BY <1>3 DEF IInv, TableInv, TableOf
<1>6. TypeOK'
  BY <1>1, <1>2, <1>3 DEF IInv, TypeOK, UsbType, LocalType, usb, threads
<1>7. PollInv' /\ HandleInv'
  BY <1>3, <1>4 DEF IInv, PollInv, HandleInv, HandleOf, usb
<1>8. ThreadsInv'
  BY <1>3, <1>4 DEF IInv, ThreadsInv, ThreadsOf, threads
<1>9. \A j \in Slots \ {i} : slots[j] # None =>
        slots[j] \in Transports \ {t} /\ port[slots[j]] # p
  BY <1>3, <1>5 DEF OnPort, InTable, IInv, TypeOK, LocalType
<1>10. PortsInv'
  BY <1>2, <1>4, <1>9 DEF IInv, TableInv, PortsInv
<1>11. TableInv'
  <2>1. TableOf(t)'
    BY <1>2, <1>3, <1>4 DEF TableOf, InTable, IInv, ThreadsInv, ThreadsOf, threads
  <2>2. ASSUME NEW u \in Transports \ {t} PROVE TableOf(u)'
    <3>1. InTable(u)' <=> InTable(u)
      BY <1>2, <1>4, LocalAssumption DEF InTable
    <3> QED
      BY <1>3, <1>4, <3>1, SameTable DEF IInv, threads
  <2> QED
    BY <1>10, <2>1, <2>2 DEF TableInv
<1> QED
  BY <1>6, <1>7, <1>8, <1>11 DEF IInv

LEMMA StartInv == ASSUME IInv, NEW t \in Transports, Start(t) PROVE IInv'
<1>1. /\ life[t] = "registering" /\ life' = [life EXCEPT ![t] = "running"]
      /\ out' = [out EXCEPT ![t] = "run"] /\ in' = [in EXCEPT ![t] = "run"]
      /\ ref' = [ref EXCEPT ![t] = 2] /\ UNCHANGED <<usb, local, broken, kicked>>
  BY DEF Start
<1>2. /\ life'[t] = "running" /\ out'[t] = "run" /\ in'[t] = "run" /\ ref'[t] = 2
      /\ \A u \in Transports \ {t} : /\ life'[u] = life[u] /\ out'[u] = out[u]
                                       /\ in'[u] = in[u] /\ ref'[u] = ref[u]
  BY <1>1 DEF IInv, TypeOK
<1>3. TypeOK'
  BY <1>1 DEF IInv, TypeOK, UsbType, LocalType, usb, local, Pcs
<1>4. PollInv' /\ HandleInv'
  BY <1>1, <1>2 DEF IInv, PollInv, HandleInv, HandleOf, usb
<1>5. ThreadsInv'
  BY <1>1, <1>2 DEF IInv, ThreadsInv, ThreadsOf
<1>6. TableInv'
  <2>1. t \notin kicked
    BY <1>1 DEF IInv, ThreadsInv, ThreadsOf
  <2> QED
    BY <1>1, <1>2, <2>1 DEF IInv, TableInv, TableOf, PortsInv, InTable, local
<1> QED
  BY <1>3, <1>4, <1>5, <1>6 DEF IInv

LEMMA FreeInv == ASSUME IInv, NEW t \in Transports, Free(t) PROVE IInv'
<1>1. /\ life[t] = "closed" /\ life' = [life EXCEPT ![t] = "none"]
      /\ out' = [out EXCEPT ![t] = "none"] /\ in' = [in EXCEPT ![t] = "none"]
      /\ kicked' = kicked \ {t} /\ broken' = broken \ {t}
      /\ port' = [port EXCEPT ![t] = None] /\ UNCHANGED <<usb, slots, ref>>
  BY DEF Free
<1>2. /\ life'[t] = "none" /\ out'[t] = "none" /\ in'[t] = "none" /\ ref[t] = 0
      /\ \A u \in Transports \ {t} : /\ life'[u] = life[u] /\ out'[u] = out[u]
                                       /\ in'[u] = in[u] /\ port'[u] = port[u]
  BY <1>1 DEF IInv, TypeOK, LocalType, ThreadsInv, ThreadsOf
<1>3. ~InTable(t)
  BY <1>1 DEF IInv, TableInv, TableOf
<1>4. TypeOK'
  BY <1>1 DEF IInv, TypeOK, UsbType, LocalType, usb, Pcs
<1>5. PollInv' /\ HandleInv'
  BY <1>1, <1>2 DEF IInv, PollInv, HandleInv, HandleOf, usb
<1>6. ThreadsInv'
  BY <1>1, <1>2 DEF IInv, ThreadsInv, ThreadsOf
<1>7. \A i \in Slots : slots[i] # None => slots[i] \in Transports \ {t}
  BY <1>3 DEF InTable, IInv, TypeOK, LocalType
<1>8. PortsInv'
  BY <1>1, <1>2, <1>7 DEF IInv, TableInv, PortsInv
<1>9. TableInv'
  BY <1>1, <1>2, <1>8 DEF IInv, TableInv, TableOf, InTable
<1> QED
  BY <1>4, <1>5, <1>6, <1>9 DEF IInv

-----------------------------------------------------------------------------
(* The threads *)

LEMMA BreaksInv == ASSUME IInv, NEW t \in Transports, Breaks(t) PROVE IInv'
<1>1. UNCHANGED <<usb, local, life, threads>> /\ broken' \subseteq Transports
  BY DEF Breaks, IInv, TypeOK
<1>2. TypeOK'
  BY <1>1 DEF IInv, TypeOK, UsbType, LocalType, usb, local, threads
<1>3. PollInv' /\ HandleInv'
  BY <1>1 DEF IInv, PollInv, HandleInv, HandleOf, usb
<1> QED
  BY <1>1, <1>2, <1>3, TableKept, ThreadsKept DEF IInv

\* A handle that is kicked is closed, stays allocated and stays on the list.
LEMMA KickedHandle ==
    ASSUME IInv, NEW t \in Transports, life[t] = "running", UsbKick(t),
           UNCHANGED <<poll, cur, halloc, life>>
    PROVE  PollInv' /\ HandleInv' /\ opened' \subseteq Transports /\ hlist' = hlist
<1>1. opened' = opened \ {t} /\ hlist' = hlist
  BY DEF UsbKick
<1>2. PollInv'
  BY <1>1 DEF IInv, PollInv
<1>3. HandleInv'
  BY <1>1 DEF IInv, HandleInv, HandleOf
<1> QED
  BY <1>1, <1>2, <1>3 DEF IInv, TypeOK, UsbType

\* A thread in its loop, or about to kick or to drop its reference, is that of a running
\* transport.
LEMMA BusyIsRunning ==
    ASSUME IInv, NEW t \in Transports,
           \/ out[t] \in {"run", "ended", "kicking", "unref"}
           \/ in[t] \in {"run", "kicking", "unref"}
    PROVE  life[t] = "running"
  BY DEF IInv, TypeOK, ThreadsInv, ThreadsOf

LEMMA WriteFailsInv == ASSUME IInv, NEW t \in Transports, WriteFails(t) PROVE IInv'
<1>1. life[t] = "running"
  BY BusyIsRunning DEF WriteFails
<1>2. UNCHANGED <<present, poll, cur, halloc, local, life, broken, threads>> /\ UsbKick(t)
  BY DEF WriteFails
<1>3. PollInv' /\ HandleInv' /\ opened' \subseteq Transports /\ hlist' = hlist
  BY <1>1, <1>2, KickedHandle
<1>4. TypeOK'
  BY <1>2, <1>3 DEF IInv, TypeOK, UsbType, LocalType, local, threads
<1> QED
  BY <1>2, <1>3, <1>4, TableKept, ThreadsKept DEF IInv

\* output_thread leaves its loop; a handle that usb_read kicks stays allocated.
LEMMA ReadFailsInv == ASSUME IInv, NEW t \in Transports, ReadFails(t) PROVE IInv'
<1>1. /\ out[t] = "run" /\ out' = [out EXCEPT ![t] = "ended"]
      /\ UNCHANGED <<local, life, broken, in, ref, kicked>>
  BY DEF ReadFails
<1>2. life[t] = "running"
  BY <1>1, BusyIsRunning
<1>3. /\ PollInv' /\ HandleInv' /\ opened' \subseteq Transports /\ hlist' = hlist
      /\ UNCHANGED <<present, poll, cur, halloc>>
  <2>1. CASE UNCHANGED usb
    BY <1>1, <2>1 DEF IInv, PollInv, HandleInv, HandleOf, usb, TypeOK, UsbType
  <2>2. CASE UsbKick(t) /\ UNCHANGED <<present, poll, cur, halloc>>
    BY <1>1, <1>2, <2>2, KickedHandle
  <2> QED
    BY <2>1, <2>2 DEF ReadFails
<1>4. out'[t] = "ended" /\ \A u \in Transports \ {t} : out'[u] = out[u]
  BY <1>1 DEF IInv, TypeOK
<1>5. TypeOK'
  BY <1>1, <1>3 DEF IInv, TypeOK, UsbType, LocalType, local, Pcs
<1>6. ThreadsInv'
  BY <1>1, <1>2, <1>4 DEF IInv, ThreadsInv, ThreadsOf
<1>7. TableInv'
  <2>1. ("kicking" \in {out[t], in[t]})' <=> "kicking" \in {out[t], in[t]}
    BY <1>1, <1>4
  <2> QED
    BY <1>1, <1>4, <2>1 DEF IInv, TableInv, TableOf, PortsInv, InTable, local
<1> QED
  BY <1>3, <1>5, <1>6, <1>7 DEF IInv

\* A thread that has left its loop sets kicked; it kicks if it is the first.
LEMMA FirstKicks ==
    ASSUME IInv, NEW t \in Transports, out[t] # "run",
           \/ out[t] = "ended" /\ out' = [out EXCEPT ![t] = AfterTest(t)] /\ UNCHANGED in
           \/ in[t] = "run" /\ in' = [in EXCEPT ![t] = AfterTest(t)] /\ UNCHANGED out,
           kicked' = kicked \cup {t}, UNCHANGED <<usb, local, life, broken, ref>>
    PROVE  IInv'
<1>1. life[t] = "running"
  BY BusyIsRunning
<1>2. /\ AfterTest(t) \in {"kicking", "unref"}
      /\ AfterTest(t) = "kicking" <=> t \notin kicked
      /\ \A u \in Transports \ {t} : out'[u] = out[u] /\ in'[u] = in[u]
      /\ \/ out[t] = "ended" /\ out'[t] = AfterTest(t) /\ in'[t] = in[t]
         \/ in[t] = "run" /\ in'[t] = AfterTest(t) /\ out'[t] = out[t]
  BY DEF AfterTest, IInv, TypeOK
<1>3. /\ out[t] # "none" /\ in[t] # "none" /\ in[t] # "ended"
      /\ t \notin kicked <=> out[t] = "ended" /\ in[t] = "run"
      /\ ~(out[t] = "kicking" /\ in[t] = "kicking")
  BY <1>1 DEF IInv, ThreadsInv, ThreadsOf
<1>4. out' \in [Transports -> Pcs] /\ in' \in [Transports -> Pcs]
  BY <1>2 DEF IInv, TypeOK, Pcs
<1>5. TypeOK'
  BY <1>4 DEF IInv, TypeOK, UsbType, LocalType, usb, local
<1>6. PollInv' /\ HandleInv'
  BY DEF IInv, PollInv, HandleInv, HandleOf, usb
<1>7. ThreadsOf(t)'
  BY <1>1, <1>2, <1>3 DEF IInv, ThreadsInv, ThreadsOf
<1>8. ThreadsInv'
  BY <1>2, <1>7 DEF IInv, ThreadsInv, ThreadsOf
<1>9. t \in kicked' /\ (t \notin kicked \/ "kicking" \in {out[t], in[t]}
                         <=> ("kicking" \in {out[t], in[t]})')
  BY <1>2, <1>3
<1>10. TableInv'
  BY <1>2, <1>9 DEF IInv, TableInv, TableOf, PortsInv, InTable, local
<1> QED
  BY <1>5, <1>6, <1>8, <1>10 DEF IInv

LEMMA EndsInv == ASSUME IInv, NEW t \in Transports, OutputEnds(t) \/ InputEnds(t) PROVE IInv'
<1>1. CASE OutputEnds(t)
  BY <1>1, FirstKicks DEF OutputEnds
<1>2. CASE InputEnds(t)
  BY <1>2, FirstKicks DEF InputEnds
<1> QED
  BY <1>1, <1>2

\* The kick takes the emulator out of the table.
LEMMA KickInv == ASSUME IInv, NEW t \in Transports, Kick(t) PROVE IInv'
<1>1. UNCHANGED <<life, broken, ref, kicked>> /\ KickRemote(t)
  BY DEF Kick
<1>2. /\ life[t] = "running" /\ t \in kicked
      /\ out[t] \in {"ended", "kicking", "unref", "done"} /\ "kicking" \in {out[t], in[t]}
      /\ ~(out[t] = "kicking" /\ in[t] = "kicking")
  <2>1. out[t] = "kicking" \/ in[t] = "kicking"
    BY DEF Kick
  <2>2. life[t] = "running"
    BY <2>1, BusyIsRunning
  <2> QED
    BY <2>1, <2>2 DEF IInv, ThreadsInv, ThreadsOf, TypeOK, Pcs
<1>3. /\ out'[t] = (IF out[t] = "kicking" THEN "unref" ELSE out[t])
      /\ in'[t] = (IF in[t] = "kicking" THEN "unref" ELSE in[t])
      /\ \A u \in Transports \ {t} : out'[u] = out[u] /\ in'[u] = in[u]
      /\ out' \in [Transports -> Pcs] /\ in' \in [Transports -> Pcs]
  BY <1>2 DEF Kick, IInv, TypeOK, Pcs
<1>4. ThreadsInv'
  BY <1>1, <1>2, <1>3 DEF IInv, ThreadsInv, ThreadsOf
<1>5. CASE t \in Usb
  <2>1. UsbKick(t) /\ UNCHANGED <<present, poll, cur, halloc, local>>
    BY <1>1, <1>5 DEF KickRemote
  <2>2. PollInv' /\ HandleInv' /\ opened' \subseteq Transports /\ hlist' = hlist
    BY <1>1, <1>2, <2>1, KickedHandle
  <2>3. TypeOK'
    BY <1>1, <1>3, <2>1, <2>2 DEF IInv, TypeOK, UsbType, LocalType, local
  <2>4. TableInv'
    BY <1>1, <1>3, <1>5, <2>1 DEF IInv, TableInv, TableOf, PortsInv, InTable, local
  <2> QED
    BY <1>4, <2>2, <2>3, <2>4 DEF IInv
<1>6. CASE t \notin Usb
  <2>1. /\ slots' = [i \in Slots |-> IF slots[i] = t THEN None ELSE slots[i]]
        /\ UNCHANGED <<usb, port>>
    BY <1>1, <1>6 DEF KickRemote, LocalKick
  <2>2. PollInv' /\ HandleInv'
    BY <1>1, <2>1 DEF IInv, PollInv, HandleInv, HandleOf, usb
  <2>3. TypeOK'
    BY <1>1, <1>3, <2>1 DEF IInv, TypeOK, UsbType, LocalType, usb
  <2>4. PortsInv'
    BY <2>1 DEF IInv, TableInv, PortsInv
  <2>5. TableOf(t)'
    BY <1>1, <1>2, <1>3, <2>1, LocalAssumption DEF TableOf, InTable
  <2>6. ASSUME NEW u \in Transports \ {t} PROVE TableOf(u)'
    <3>1. InTable(u)' <=> InTable(u)
      BY <2>1, LocalAssumption DEF InTable
    <3> QED
      BY <1>1, <1>3, <3>1, SameTable DEF IInv
  <2> QED
    BY <1>4, <2>2, <2>3, <2>4, <2>5, <2>6 DEF IInv, TableInv
<1> QED
  BY <1>5, <1>6

\* The last reference closes the handle.
LEMMA UnrefInv == ASSUME IInv, NEW t \in Transports, Unref(t) PROVE IInv'
<1>1. UNCHANGED <<local, broken, kicked>> /\ ref' = [ref EXCEPT ![t] = ref[t] - 1]
  BY DEF Unref
<1>2. out[t] = "unref" \/ in[t] = "unref"
  BY DEF Unref
<1>3. life[t] = "running"
  BY <1>2, BusyIsRunning
<1>4. /\ t \in kicked /\ out[t] \in {"ended", "kicking", "unref", "done"} /\ in[t] # "none"
      /\ ref[t] = (IF out[t] = "done" THEN 0 ELSE 1) + (IF in[t] = "done" THEN 0 ELSE 1)
      /\ ~(out[t] = "kicking" /\ in[t] = "kicking")
  BY <1>2, <1>3 DEF IInv, ThreadsInv, ThreadsOf, TypeOK, Pcs
<1>5. /\ out' \in [Transports -> Pcs] /\ in' \in [Transports -> Pcs]
      /\ \A u \in Transports \ {t} : out'[u] = out[u] /\ in'[u] = in[u] /\ ref'[u] = ref[u]
      /\ \/ out[t] = "unref" /\ out'[t] = "done" /\ in'[t] = in[t]
         \/ in[t] = "unref" /\ in'[t] = "done" /\ out'[t] = out[t]
  BY <1>1 DEF Unref, IInv, TypeOK, Pcs
<1>6. ref[t] \in 1..2 /\ ref'[t] = ref[t] - 1 /\ ref' \in [Transports -> 0..2]
  BY <1>1, <1>2, <1>4 DEF IInv, TypeOK
<1>7. CASE ref[t] = 1
  <2>1. /\ life' = [life EXCEPT ![t] = "closed"]
        /\ IF t \in Usb THEN UsbClose(t) /\ UNCHANGED <<present, poll, cur>> ELSE UNCHANGED usb
    BY <1>7 DEF Unref
  <2>2. life'[t] = "closed" /\ \A u \in Transports \ {t} : life'[u] = life[u]
    BY <2>1 DEF IInv, TypeOK
  <2>3. /\ hlist' = hlist \ {t} /\ halloc' = halloc \ {t} /\ opened' = opened \ {t}
        /\ UNCHANGED <<present, poll, cur>>
    <3>1. CASE t \in Usb
      BY <2>1, <3>1 DEF UsbClose
    <3>2. CASE t \notin Usb
      <4>1. t \notin hlist /\ t \notin halloc /\ t \notin opened
        BY <1>3, <3>2 DEF IInv, HandleInv, HandleOf, PollInv
      <4> QED
        BY <2>1, <3>2, <4>1 DEF usb
    <3> QED
      BY <3>1, <3>2
  <2>4. TypeOK'
    BY <1>1, <1>5, <1>6, <2>1, <2>3 DEF IInv, TypeOK, UsbType, LocalType, local
  <2>5. PollInv'
    BY <1>3, <2>2, <2>3, LocalAssumption DEF IInv, PollInv, TypeOK, UsbType
  <2>6. HandleInv'
    BY <1>3, <2>2, <2>3 DEF IInv, HandleInv, HandleOf, PollInv
  <2>7. out'[t] = "done" /\ in'[t] = "done" /\ ref'[t] = 0
    BY <1>4, <1>5, <1>6, <1>7
  <2>8. ThreadsInv'
    BY <1>1, <1>5, <2>2, <2>7 DEF IInv, ThreadsInv, ThreadsOf
  <2>9. TableInv'
    <3>1. TableOf(t) /\ "kicking" \notin {out[t], in[t]}
      BY <1>4, <1>5, <1>7 DEF IInv, TableInv
    <3>2. TableOf(t)'
      BY <1>1, <1>4, <2>2, <3>1 DEF TableOf, InTable, local
    <3> QED
      BY <1>1, <1>5, <2>2, <3>2 DEF IInv, TableInv, TableOf, PortsInv, InTable, local
  <2> QED
    BY <2>4, <2>5, <2>6, <2>8, <2>9 DEF IInv
<1>8. CASE ref[t] # 1
  <2>1. UNCHANGED <<life, usb>>
    BY <1>8 DEF Unref
  <2>2. ref[t] = 2
    BY <1>6, <1>8
  <2>3. TypeOK'
    BY <1>1, <1>5, <1>6, <2>1 DEF IInv, TypeOK, UsbType, LocalType, local, usb
  <2>4. PollInv' /\ HandleInv'
    BY <2>1 DEF IInv, PollInv, HandleInv, HandleOf, usb
  <2>5. ThreadsOf(t)'
    BY <1>1, <1>3, <1>4, <1>5, <1>6, <2>1, <2>2 DEF ThreadsOf, IInv, ThreadsInv
  <2>6. ThreadsInv'
    BY <1>1, <1>5, <2>1, <2>5 DEF IInv, ThreadsInv, ThreadsOf
  <2>7. ("kicking" \in {out[t], in[t]})' <=> "kicking" \in {out[t], in[t]}
    BY <1>5
  <2>8. TableInv'
    BY <1>1, <1>5, <2>1, <2>7 DEF IInv, TableInv, TableOf, PortsInv, InTable, local
  <2> QED
    BY <2>3, <2>4, <2>6, <2>8 DEF IInv
<1> QED
  BY <1>7, <1>8

-----------------------------------------------------------------------------
LEMMA NextInv == IInv /\ [Next]_vars => IInv'
<1> SUFFICES ASSUME IInv, [Next]_vars PROVE IInv'
  OBVIOUS
<1>1. CASE FindDevices
  BY <1>1, PollKnownInv, PollRegisterInv, PollOpenInv DEF FindDevices
<1>2. CASE Plug \/ Unplug \/ Announce
  BY <1>2, OutsideInv, AnnounceInv
<1>3. CASE \E t \in Transports, p \in Ports : LocalConnect(t, p)
  BY <1>3, LocalConnectInv
<1>4. CASE \E t \in Transports : Start(t) \/ Free(t) \/ Breaks(t) \/ WriteFails(t)
  BY <1>4, StartInv, FreeInv, BreaksInv, WriteFailsInv
<1>5. CASE \E t \in Transports : Threads(t)
  BY <1>5, ReadFailsInv, EndsInv, KickInv, UnrefInv DEF Threads
<1>6. CASE UNCHANGED vars
  <2>1. UNCHANGED <<usb, local, life, broken, threads>>
    BY <1>6 DEF vars
  <2>2. TypeOK' /\ PollInv' /\ HandleInv'
    BY <2>1 DEF IInv, TypeOK, UsbType, LocalType, PollInv, HandleInv, HandleOf, usb, local, threads
  <2> QED
    BY <2>1, <2>2, TableKept, ThreadsKept DEF IInv
<1> QED
  BY <1>1, <1>2, <1>3, <1>4, <1>5, <1>6 DEF Next

LEMMA Invariant == Spec => []IInv
  BY InitInv, NextInv, PTL DEF Spec

\* A set with at most one element has at most that cardinality.
LEMMA AtMostOne == ASSUME NEW S, \A x, y \in S : x = y
                   PROVE  IsFiniteSet(S) /\ Cardinality(S) <= 1
                          /\ (S # {} => Cardinality(S) = 1) /\ (S = {} => Cardinality(S) = 0)
<1>1. CASE S = {}
  BY <1>1, FS_EmptySet
<1>2. CASE S # {}
  <2>1. PICK x : S = {x}
    BY <1>2
  <2> QED
    BY <1>2, <2>1, FS_Singleton
<1> QED
  BY <1>1, <1>2

\* However poll, kick, close and registration interleave, at most one handle on
\* handle_list is open, none that is open is forgotten, none on the list is freed, and a
\* thread that will read, write or kick still has its handle.
THEOREM SourcesCorrect == Spec => []SourcesInv
<1>1. IInv => SourcesInv
  <2> SUFFICES ASSUME IInv PROVE SourcesInv
    OBVIOUS
  <2>1. Cardinality(hlist \cap opened) <= 1
    BY AtMostOne DEF IInv, PollInv
  <2>2. opened \subseteq hlist \cup {cur}
    BY DEF IInv, TypeOK, UsbType, PollInv, HandleInv, HandleOf
  <2>3. hlist \subseteq halloc
    BY DEF IInv, TypeOK, UsbType, PollInv, HandleInv, HandleOf
  <2>4. ASSUME NEW t \in Transports, t \in Usb, {out[t], in[t]} \cap {"run", "ended", "kicking"} # {}
        PROVE  t \in halloc
    <3>1. life[t] = "running"
      BY <2>4, BusyIsRunning DEF IInv, ThreadsInv, ThreadsOf, TypeOK, Pcs
    <3> QED
      BY <2>4, <3>1 DEF IInv, HandleInv, HandleOf
  <2> QED
    BY <2>1, <2>2, <2>3, <2>4 DEF IInv, SourcesInv, OneHandle, HandlesAlive
<1> QED
  BY <1>1, Invariant, PTL

\* local_transports never has two entries for one emulator nor one for a transport that is
\* freed, and an emulator's transport is in it exactly once until it is kicked.
THEOREM TableCorrect == Spec => []TableRight
<1>1. IInv => TableRight
  <2> SUFFICES ASSUME IInv PROVE TableRight
    OBVIOUS
  <2>1. ASSUME NEW p \in Ports PROVE Cardinality(OnPort(p)) <= 1
    <3>1. \A i, j \in OnPort(p) : i = j
      BY DEF OnPort, IInv, TableInv, PortsInv
    <3> QED
      BY <3>1, AtMostOne
  <2>2. ASSUME NEW i \in Slots, slots[i] # None
        PROVE  life[slots[i]] \in {"registering", "running"}
    <3>1. slots[i] \in Transports /\ InTable(slots[i])
      BY <2>2 DEF IInv, TypeOK, LocalType, InTable
    <3> QED
      BY <3>1 DEF IInv, TableInv, TableOf
  <2>3. ASSUME NEW t \in Transports, t \notin Usb, life[t] \in {"registering", "running"}
        PROVE  Cardinality({i \in Slots : slots[i] = t})
                 = IF t \notin kicked \/ "kicking" \in {out[t], in[t]} THEN 1 ELSE 0
    <3> DEFINE S == {i \in Slots : slots[i] = t}
    <3>1. \A i, j \in S : i = j
      BY LocalAssumption DEF IInv, TableInv, PortsInv
    <3>2. S # {} <=> t \notin kicked \/ "kicking" \in {out[t], in[t]}
      BY <2>3 DEF IInv, TableInv, TableOf, InTable
    <3> HIDE DEF S
    <3>3. Cardinality(S) = IF t \notin kicked \/ "kicking" \in {out[t], in[t]} THEN 1 ELSE 0
      BY <3>1, <3>2, AtMostOne
    <3> QED
      BY <3>3 DEF S
  <2> QED
    BY <2>1, <2>2, <2>3 DEF TableRight
<1> QED
  BY <1>1, Invariant, PTL
=============================================================================
