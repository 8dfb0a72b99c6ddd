-------------------------- MODULE Transport_proofs --------------------------
(***************************************************************************)
(* Proofs about Transport, for any number of transports of both kinds, any *)
(* size of the descriptor table and any traffic: the shape of the state,   *)
(* and, as long as the user does not ask for host:disconnect, that         *)
(* transport_list is a ring, that a transport is closed and freed only     *)
(* after both its threads have exited, and that it is kicked once, before. *)
(***************************************************************************)
EXTENDS Transport, SequenceTheorems, TLAPS

\* The assumptions on the constants, as the provers use them.
LEMMA Constants == /\ None \notin Transports /\ WIN32_MAX_FHS \in Nat
                   /\ Tcp \subseteq Transports
  BY TransportAssumption

-----------------------------------------------------------------------------
(* Type correctness, action by action *)

LEMMA InitType == Init => TypeOK
<1> SUFFICES ASSUME Init PROVE TypeOK
  OBVIOUS
<1>1. fhcount \in 0..WIN32_MAX_FHS
  BY TransportAssumption DEF Init
<1>2. \A S : << >> \in Seq(S)
  BY EmptySeq
<1>3. main \in {Idle, Fatal}
  BY DEF Init
<1> QED
  BY <1>1, <1>2, <1>3, Constants DEF Init, TypeOK, Nodes, OutPcs, InPcs, Packets

\* A queue with one more record, and one with its first record gone.
LEMMA Grown == ASSUME NEW S, NEW q \in Seq(S), NEW e \in S
               PROVE  Append(q, e) \in Seq(S)
  BY AppendProperties

LEMMA Shrunk == ASSUME NEW S, NEW q \in Seq(S), q # << >>
                PROVE  Head(q) \in S /\ Tail(q) \in Seq(S)
  BY HeadTailProperties

\* A counter of one transport is incremented.
LEMMA Counted == ASSUME NEW S, NEW f \in [S -> Nat], NEW x \in S
                 PROVE  [f EXCEPT ![x] = @ + 1] \in [S -> Nat]
<1>1. f[x] \in Nat
  OBVIOUS
<1>2. f[x] + 1 \in Nat
  BY <1>1
<1> QED
  BY <1>2, Zenon

\* Dropping a reference keeps the shape of what it touches.
LEMMA UnrefType ==
    ASSUME TypeOK, NEW t \in Transports, NEW k \in BOOLEAN, Unref(t, k)
    PROVE  /\ regq' \in Seq(Transports \X {0, 1})
           /\ kicked' \in [Transports -> BOOLEAN] /\ link' \in [Transports -> BOOLEAN]
           /\ ref' \in [Transports -> Int]
           /\ kicks' \in [Transports -> Nat] /\ closed' \in [Transports -> Nat]
           /\ fhs' \in [Slots -> Nodes]
           /\ UNCHANGED <<fhcount, sock, fd>>
<1>1. regq' \in Seq(Transports \X {0, 1})
  <2>1. <<t, 0>> \in Transports \X {0, 1}
    OBVIOUS
  <2>2. Append(regq, <<t, 0>>) \in Seq(Transports \X {0, 1})
    BY <2>1, Grown DEF TypeOK
  <2> QED
    BY <2>2 DEF Unref, TypeOK
<1>2. fhs' \in [Slots -> Nodes]
  BY DEF Unref, TypeOK, Closing, Nodes
<1>3. /\ kicked' \in [Transports -> BOOLEAN] /\ link' \in [Transports -> BOOLEAN]
  BY DEF Unref, TypeOK
<1>4. ref' \in [Transports -> Int]
  <2>1. ref[t] - 1 \in Int
    BY DEF TypeOK
  <2> QED
    BY <2>1 DEF Unref, TypeOK
<1>5. kicks[t] + 1 \in Nat /\ closed[t] + 1 \in Nat
  <2>1. kicks[t] \in Nat /\ closed[t] \in Nat
    BY DEF TypeOK
  <2> QED
    BY <2>1
<1>6. kicks' \in [Transports -> Nat] /\ closed' \in [Transports -> Nat]
  BY <1>5, Zenon DEF Unref, TypeOK
<1> QED
  BY <1>1, <1>2, <1>3, <1>4, <1>6 DEF Unref

\* The record at the head of the registration queue names a transport.
LEMMA HeadRecord == ASSUME TypeOK, regq # << >>
                    PROVE  /\ Head(regq)[1] \in Transports /\ Head(regq)[2] \in {0, 1}
                           /\ Tail(regq) \in Seq(Transports \X {0, 1})
<1>1. Head(regq) \in Transports \X {0, 1} /\ Tail(regq) \in Seq(Transports \X {0, 1})
  BY Shrunk DEF TypeOK
<1> QED
  BY <1>1

\* A packet sent by output_thread keeps the shape of what it touches.
LEMMA OutWriteType ==
    ASSUME TypeOK, NEW t \in Transports, NEW p \in Packets, NEW ok \in OutPcs,
           OutWrite(t, p, ok)
    PROVE  toMain' \in [Transports -> Seq(Packets)] /\ outpc' \in [Transports -> OutPcs]
<1>1. Append(toMain[t], p) \in Seq(Packets)
  BY Grown DEF TypeOK
<1>2. toMain' \in [Transports -> Seq(Packets)]
  <2>1. toMain \in [Transports -> Seq(Packets)]
    BY DEF TypeOK
  <2>2. toMain' = [toMain EXCEPT ![t] = Append(toMain[t], p)] \/ toMain' = toMain
    BY DEF OutWrite
  <2> QED
    BY <1>1, <2>1, <2>2
<1>3. outpc' \in [Transports -> OutPcs]
  <2>1. outpc \in [Transports -> OutPcs] /\ "kick" \in OutPcs
    BY DEF TypeOK, OutPcs
  <2>2. outpc' = [outpc EXCEPT ![t] = ok] \/ outpc' = [outpc EXCEPT ![t] = "kick"]
    BY DEF OutWrite
  <2> QED
    BY <2>1, <2>2
<1> QED
  BY <1>2, <1>3

\* What the main thread sends keeps the shape of what it touches.
LEMMA SendType ==
    ASSUME TypeOK, NEW t \in Transports, NEW ps \in Seq(Packets), Send(t, ps)
    PROVE  /\ toInput' \in [Transports -> Seq(Packets)]
           /\ main' = main \/ main' = Fatal
<1>1. toInput[t] \o ps \in Seq(Packets)
  BY ConcatProperties DEF TypeOK
<1> QED
  BY <1>1 DEF Send, TypeOK

\* Unlinking keeps the shape of transport_list.
LEMMA UnlinkType ==
    ASSUME TypeOK, NEW t \in Transports, Unlink(t)
    PROVE  /\ next' \in [Nodes -> Nodes] /\ prev' \in [Nodes -> Nodes]
           /\ listed' \subseteq Transports
<1>1. t \in Nodes
  BY DEF Nodes
<1> QED
  BY <1>1 DEF TypeOK, Unlink

LEMMA OutputType ==
    ASSUME TypeOK, NEW t \in Transports, OutPump(t) \/ Output(t)
    PROVE  TypeOK'
<1> USE DEF OutStep, list, counts, table, queues, flags, bounds
<1> "SYNC1" \in Packets /\ "SYNC0" \in Packets /\ "CNXN" \in Packets /\ "DATA" \in Packets
  BY DEF Packets
<1> "pump" \in OutPcs /\ "kick" \in OutPcs
  BY DEF OutPcs
<1>1. CASE OutSync(t)
  <2>1. toMain' \in [Transports -> Seq(Packets)] /\ outpc' \in [Transports -> OutPcs]
    BY <1>1, OutWriteType DEF OutSync
  <2> QED
    BY <1>1, <2>1 DEF OutSync, TypeOK
<1>2. CASE OutPump(t)
  <2>1. toMain' \in [Transports -> Seq(Packets)] /\ outpc' \in [Transports -> OutPcs]
    BY <1>2, OutWriteType DEF OutPump
  <2>3. nin' \in [Transports -> Nat]
    BY <1>2, Counted DEF OutPump, TypeOK
  <2> QED
    BY <1>2, <2>1, <2>3 DEF OutPump, TypeOK
<1>3. CASE OutFail(t)
  BY <1>3 DEF OutFail, TypeOK, OutPcs
<1>4. CASE OutSync0(t)
  <2>1. toMain' \in [Transports -> Seq(Packets)] /\ outpc' \in [Transports -> OutPcs]
    BY <1>4, OutWriteType DEF OutSync0
  <2> QED
    BY <1>4, <2>1 DEF OutSync0, TypeOK
<1>5. CASE OutTakeKick(t)
  <2>1. outpc' \in [Transports -> OutPcs] /\ kicked' \in [Transports -> BOOLEAN]
    BY <1>5 DEF OutTakeKick, TakeKick, TypeOK, OutPcs
  <2> QED
    BY <1>5, <2>1 DEF OutTakeKick, TypeOK
<1>6. CASE OutKick(t)
  <2>1. kicks' \in [Transports -> Nat]
    BY <1>6, Counted DEF OutKick, Kick, TypeOK
  <2>2. link' \in [Transports -> BOOLEAN]
    BY <1>6 DEF OutKick, Kick, TypeOK
  <2>3. outpc' \in [Transports -> OutPcs]
    BY <1>6 DEF OutKick, TypeOK, OutPcs
  <2> QED
    BY <1>6, <2>1, <2>2, <2>3 DEF OutKick, TypeOK
<1>7. CASE OutUnref(t)
  <2>1. outpc' \in [Transports -> OutPcs]
    BY <1>7 DEF OutUnref, TypeOK, OutPcs
  <2>2. Unref(t, FALSE)
    BY <1>7 DEF OutUnref
  <2> QED
    BY <1>7, <2>1, <2>2, UnrefType DEF OutUnref, TypeOK
<1> QED
  BY <1>1, <1>2, <1>3, <1>4, <1>5, <1>6, <1>7 DEF Output

LEMMA InputType ==
    ASSUME TypeOK, NEW t \in Transports, Input(t)
    PROVE  TypeOK'
<1> USE DEF InStep, list, counts, table, queues, flags, bounds
<1>1. CASE InRead(t)
  <2>1. Tail(toInput[t]) \in Seq(Packets)
    BY <1>1, Shrunk DEF InRead, TypeOK
  <2>2. toInput' \in [Transports -> Seq(Packets)]
    BY <1>1, <2>1 DEF InRead, TypeOK
  <2>3. inpc' \in [Transports -> InPcs] /\ active' \in [Transports -> BOOLEAN]
    BY <1>1 DEF InRead, TypeOK, InPcs
  <2>4. ignored' \in Nat
    BY <1>1 DEF InRead, TypeOK
  <2> QED
    BY <1>1, <2>2, <2>3, <2>4 DEF InRead, TypeOK
<1>2. CASE InFail(t)
  BY <1>2 DEF InFail, TypeOK, InPcs
<1>3. CASE InCloseAll(t)
  BY <1>3 DEF InCloseAll, TypeOK, InPcs
<1>4. CASE InTakeKick(t)
  <2>1. inpc' \in [Transports -> InPcs] /\ kicked' \in [Transports -> BOOLEAN]
    BY <1>4 DEF InTakeKick, TakeKick, TypeOK, InPcs
  <2> QED
    BY <1>4, <2>1 DEF InTakeKick, TypeOK
<1>5. CASE InKick(t)
  <2>1. kicks' \in [Transports -> Nat]
    BY <1>5, Counted DEF InKick, Kick, TypeOK
  <2>2. link' \in [Transports -> BOOLEAN]
    BY <1>5 DEF InKick, Kick, TypeOK
  <2>3. inpc' \in [Transports -> InPcs]
    BY <1>5 DEF InKick, TypeOK, InPcs
  <2> QED
    BY <1>5, <2>1, <2>2, <2>3 DEF InKick, TypeOK
<1>6. CASE InUnref(t)
  <2>1. inpc' \in [Transports -> InPcs]
    BY <1>6 DEF InUnref, TypeOK, InPcs
  <2>2. Unref(t, FALSE)
    BY <1>6 DEF InUnref
  <2> QED
    BY <1>6, <2>1, <2>2, UnrefType DEF InUnref, TypeOK
<1> QED
  BY <1>1, <1>2, <1>3, <1>4, <1>5, <1>6 DEF Input


LEMMA MainRegType ==
    ASSUME TypeOK, MainReg
    PROVE  TypeOK'
<1> USE DEF list, counts, table, queues, flags, bounds
<1> DEFINE h == Head(regq)[1]
<1>0. h \in Transports /\ Tail(regq) \in Seq(Transports \X {0, 1}) /\ h \in Nodes
      /\ None \in Nodes
  BY HeadRecord DEF MainReg, MainRegister, MainRegisterFails, MainRemove, Nodes
<1> HIDE DEF h
<1>1. CASE MainRegister
  <2>1. PICK i, j \in Slots :
          /\ fhs' = [[fhs EXCEPT ![i] = h] EXCEPT ![j] = h]
          /\ fhcount' = FhCount(FhCount(fhcount))
          /\ sock' = [sock EXCEPT ![h] = i] /\ fd' = [fd EXCEPT ![h] = j]
          /\ ref' = [ref EXCEPT ![h] = 2]
          /\ inpc' = [inpc EXCEPT ![h] = "read"] /\ outpc' = [outpc EXCEPT ![h] = "sync"]
          /\ Link(h)
    BY <1>1 DEF MainRegister, h
  <2>2. fhcount' \in 0..WIN32_MAX_FHS
    BY <2>1, Constants DEF TypeOK, FhCount
  <2>3. fhs' \in [Slots -> Nodes]
    BY <2>1, <1>0 DEF TypeOK
  <2>4. sock' \in [Transports -> 0..WIN32_MAX_FHS] /\ fd' \in [Transports -> 0..WIN32_MAX_FHS]
    <3>1. i \in 0..WIN32_MAX_FHS /\ j \in 0..WIN32_MAX_FHS
      BY Constants DEF Slots
    <3> QED
      BY <2>1, <1>0, <3>1 DEF TypeOK
  <2>5. inpc' \in [Transports -> InPcs] /\ outpc' \in [Transports -> OutPcs]
    BY <2>1, <1>0 DEF TypeOK, InPcs, OutPcs
  <2>6. next' \in [Nodes -> Nodes] /\ prev' \in [Nodes -> Nodes] /\ listed' \subseteq Transports
    BY <2>1, <1>0 DEF TypeOK, Link
  <2>7. ref' \in [Transports -> Int]
    BY <2>1, <1>0 DEF TypeOK
  <2> QED
    BY <1>0, <1>1, <2>2, <2>3, <2>4, <2>5, <2>6, <2>7 DEF MainRegister, TypeOK
<1>2. CASE MainRegisterFails
  BY <1>2 DEF MainRegisterFails, TypeOK
<1>3. CASE MainRemove
  <2>1. /\ fhs' = Closing(fhs, {sock[h], fd[h]}) /\ Unlink(h)
        /\ freed' = freed \cup {h} /\ toMain' = [toMain EXCEPT ![h] = << >>]
        /\ online' = [online EXCEPT ![h] = FALSE]
    BY <1>3 DEF MainRemove, h
  <2>2. fhs' \in [Slots -> Nodes]
    BY <2>1, <1>0 DEF TypeOK, Closing
  <2>3. next' \in [Nodes -> Nodes] /\ prev' \in [Nodes -> Nodes] /\ listed' \subseteq Transports
    BY <2>1, <1>0, UnlinkType
  <2>4. << >> \in Seq(Packets)
    BY EmptySeq
  <2>5. toMain' \in [Transports -> Seq(Packets)]
    BY <2>1, <2>4, <1>0 DEF TypeOK
  <2>6. online' \in [Transports -> BOOLEAN] /\ freed' \subseteq Transports
    BY <2>1, <1>0 DEF TypeOK
  <2> QED
    BY <1>0, <1>3, <2>2, <2>3, <2>5, <2>6 DEF MainRemove, TypeOK
<1> QED
  BY <1>1, <1>2, <1>3 DEF MainReg

LEMMA MainCallType ==
    ASSUME TypeOK, MainCall
    PROVE  TypeOK'
<1> USE DEF list, counts, table, queues, flags, bounds
<1> DEFINE m == main[2]
<1>0. main \in {"kick", "kicking", "unref", "walk"} \X Transports
  <2>1. main[1] \in {"kick", "kicking", "unref", "walk"}
    BY DEF MainCall, MainTakeKick, MainKick, MainUnref, MainWalk
  <2>2. main # Idle /\ main # Fatal
    BY <2>1 DEF Idle, Fatal
  <2> QED
    BY <2>2 DEF TypeOK
<1>1. m \in Transports
  BY <1>0
<1> HIDE DEF m
<1>2. CASE MainTakeKick
  <2>1. main' = <<"unref", m>> \/ main' = <<"kicking", m>>
    BY <1>2 DEF MainTakeKick, m
  <2>2. kicked' \in [Transports -> BOOLEAN]
    BY <1>1, <1>2 DEF MainTakeKick, TakeKick, m, TypeOK
  <2> QED
    BY <1>1, <1>2, <2>1, <2>2 DEF MainTakeKick, TypeOK
<1>3. CASE MainKick
  <2>1. main' = <<"unref", m>>
    BY <1>3 DEF MainKick, m
  <2>2. kicks' \in [Transports -> Nat]
    BY <1>1, <1>3, Counted DEF MainKick, Kick, m, TypeOK
  <2>3. link' \in [Transports -> BOOLEAN]
    BY <1>1, <1>3 DEF MainKick, Kick, m, TypeOK
  <2>4. main' \in {"kick", "kicking", "unref", "walk"} \X Transports
    BY <1>1, <2>1
  <2> QED
    BY <1>3, <2>2, <2>3, <2>4 DEF MainKick, TypeOK
<1>4. CASE MainUnref
  <2>1. Unref(m, FALSE)
    BY <1>4 DEF MainUnref, m
  <2> QED
    BY <1>1, <1>4, <2>1, UnrefType DEF MainUnref, TypeOK
<1>5. CASE MainWalk
  <2>1. main' \in {Idle} \cup {"kick", "kicking", "unref", "walk"} \X Transports
    BY <1>1, <1>5 DEF MainWalk, m, TypeOK, Nodes
  <2>2. CASE m \in Tcp
    <3>1. Unlink(m) /\ Unref(m, TRUE)
      BY <1>5, <2>2 DEF MainWalk, m
    <3> QED
      BY <1>1, <1>5, <2>1, <3>1, UnlinkType, UnrefType DEF MainWalk, TypeOK
  <2>3. CASE m \notin Tcp
    BY <1>5, <2>1, <2>3 DEF MainWalk, m, TypeOK
  <2> QED
    BY <2>2, <2>3
<1> QED
  BY <1>2, <1>3, <1>4, <1>5 DEF MainCall


LEMMA MainPacketType ==
    ASSUME TypeOK, NEW t \in Transports, MainPacket(t)
    PROVE  TypeOK'
<1> USE DEF list, counts, table, queues, flags, bounds
<1> DEFINE p == Head(toMain[t])
<1>1. toMain[t] \in Seq(Packets) /\ toMain[t] # << >>
  BY DEF MainPacket, TypeOK
<1>2. Tail(toMain[t]) \in Seq(Packets) /\ p \in Packets
  BY <1>1, Shrunk
<1>3. toMain' \in [Transports -> Seq(Packets)]
  BY <1>2 DEF MainPacket, TypeOK
<1>4. /\ << >> \in Seq(Packets) /\ <<"DATA">> \in Seq(Packets) /\ <<"SYNC0">> \in Seq(Packets)
      /\ <<"SYNC1", "CNXN">> \in Seq(Packets)
  BY DEF Packets
<1> HIDE DEF p
<1>5. PICK r \in Replies(p, online[t]) : Send(t, r)
  BY DEF MainPacket, p
<1>6. r \in Seq(Packets)
  BY <1>2, <1>4 DEF Replies, Packets
<1>7. toInput' \in [Transports -> Seq(Packets)] /\ (main' = main \/ main' = Fatal)
  BY <1>5, <1>6, SendType
<1>8. online' \in [Transports -> BOOLEAN]
  BY DEF MainPacket, OnlineAfter, TypeOK
<1> QED
  BY <1>3, <1>7, <1>8 DEF MainPacket, TypeOK

LEMMA MainSendType ==
    ASSUME TypeOK, NEW t \in Transports, MainSend(t)
    PROVE  TypeOK'
<1> USE DEF list, counts, table, queues, flags, bounds
<1>1. <<"DATA">> \in Seq(Packets)
  BY DEF Packets
<1>2. toInput' \in [Transports -> Seq(Packets)] /\ (main' = main \/ main' = Fatal)
  BY <1>1, SendType DEF MainSend
<1>3. nout' \in [Transports -> Nat]
  BY Counted DEF MainSend, TypeOK
<1> QED
  BY <1>2, <1>3 DEF MainSend, TypeOK

LEMMA RequestType ==
    ASSUME TypeOK,
           DisconnectAll \/ \E t \in Transports : Register(t) \/ Unplug(t) \/ Disconnect(t)
    PROVE  TypeOK'
<1> USE DEF list, counts, table, queues, flags, bounds
<1>0. asked + 1 \in Nat
  BY DEF TypeOK
<1>1. CASE DisconnectAll
  <2>1. next[None] \in Transports
    BY <1>1 DEF DisconnectAll, TypeOK, Nodes
  <2>2. main' \in {"kick", "kicking", "unref", "walk"} \X Transports
    BY <1>1, <2>1 DEF DisconnectAll
  <2> QED
    BY <1>0, <1>1, <2>2 DEF DisconnectAll, TypeOK
<1>2. ASSUME NEW t \in Transports, Register(t) PROVE TypeOK'
  <2>1. <<t, 1>> \in Transports \X {0, 1}
    OBVIOUS
  <2>2. regq' \in Seq(Transports \X {0, 1})
    BY <1>2, <2>1, Grown DEF Register, TypeOK
  <2> QED
    BY <1>2, <2>2 DEF Register, TypeOK
<1>3. ASSUME NEW t \in Transports, Unplug(t) PROVE TypeOK'
  BY <1>3 DEF Unplug, TypeOK
<1>4. ASSUME NEW t \in Transports, Disconnect(t) PROVE TypeOK'
  <2>1. /\ next' \in [Nodes -> Nodes] /\ prev' \in [Nodes -> Nodes]
        /\ listed' \subseteq Transports
    BY <1>4, UnlinkType DEF Disconnect
  <2>2. main' \in {"kick", "kicking", "unref", "walk"} \X Transports
    BY <1>4 DEF Disconnect
  <2> QED
    BY <1>0, <1>4, <2>1, <2>2 DEF Disconnect, TypeOK
<1> QED
  BY <1>1, <1>2, <1>3, <1>4

LEMMA TypeStep == TypeOK /\ [Next]_vars => TypeOK'
<1> SUFFICES ASSUME TypeOK, [Next]_vars PROVE TypeOK'
  OBVIOUS
<1>1. CASE UNCHANGED vars
  BY <1>1 DEF vars, list, counts, table, queues, flags, bounds, TypeOK
<1>2. CASE Next
  BY <1>2, OutputType, InputType, MainRegType, MainCallType, MainPacketType, MainSendType,
     RequestType, Zenon DEF Next, ThreadStep
<1> QED
  BY <1>1, <1>2

\* The state keeps its shape for any transports, table size and traffic: the
\* sequences of packets, the links of transport_list, the slots of the table.
THEOREM TypeCorrect == Spec => []TypeOK
<1> QED
  BY InitType, TypeStep, PTL DEF Spec


-----------------------------------------------------------------------------
(* Reference counting, kicking and the list, while nobody disconnects *)

Born(t)     == outpc[t] # "unborn"
Finished(t) == outpc[t] = "done" /\ inpc[t] = "done"

\* The main thread is never inside host:disconnect.
QuietMain == main \in {Idle, Fatal}

\* The references of a transport are its threads; the last one to leave closes it.
RefOf(t) ==
    /\ Born(t) <=> inpc[t] # "unborn"
    /\ Born(t) => ref[t] = (IF outpc[t] = "done" THEN 0 ELSE 1)
                           + (IF inpc[t] = "done" THEN 0 ELSE 1)
    /\ closed[t] = IF Finished(t) THEN 1 ELSE 0
    /\ t \in freed => Finished(t)
    /\ t \in listed <=> Born(t) /\ t \notin freed
RefInv == \A t \in Transports : RefOf(t)

\* Whoever set kicked either has called t->kick or is about to.
KickOf(t) ==
    /\ ~kicked[t] => /\ kicks[t] = 0
                     /\ outpc[t] \notin {"kicking", "unref", "done"}
                     /\ inpc[t] \notin {"kicking", "unref", "done"}
    /\ kicked[t] => \/ kicks[t] = 1 /\ outpc[t] # "kicking" /\ inpc[t] # "kicking"
                    \/ kicks[t] = 0 /\ outpc[t] = "kicking" /\ inpc[t] # "kicking"
                    \/ kicks[t] = 0 /\ outpc[t] # "kicking" /\ inpc[t] = "kicking"
KickInv == \A t \in Transports : KickOf(t)

\* A registration record waits for a transport without threads, a removal record
\* for one whose threads are done, and no transport has two records.
RecordOK(t, a) == IF a = 1 THEN ~Born(t) ELSE Finished(t) /\ t \notin freed
RegInv ==
    /\ \A i \in 1..Len(regq) : RecordOK(regq[i][1], regq[i][2])
    /\ \A i, j \in 1..Len(regq) : regq[i][1] = regq[j][1] => i = j

IInv == TypeOK /\ QuietMain /\ RefInv /\ KickInv /\ RegInv /\ ListIntact

LEMMA InitInv == Init => IInv
<1> SUFFICES ASSUME Init PROVE IInv
  OBVIOUS
<1>1. TypeOK
  BY InitType
<1>2. QuietMain /\ RefInv /\ KickInv
  BY DEF Init, QuietMain, RefInv, RefOf, KickInv, KickOf, Born, Finished
<1>3. Len(regq) = 0
  BY DEF Init
<1>4. RegInv
  BY <1>3 DEF RegInv
<1>5. ListIntact
  BY DEF Init, ListIntact, Nodes
<1> QED
  BY <1>1, <1>2, <1>4, <1>5 DEF IInv

\* A step of a thread that has not been the last to leave disturbs no record.
LEMMA RecordsKept ==
    ASSUME TypeOK, RegInv, NEW t \in Transports, Born(t), ~Finished(t),
           regq' = regq, freed' = freed,
           \A u \in Transports \ {t} : outpc'[u] = outpc[u] /\ inpc'[u] = inpc[u]
    PROVE  RegInv'
<1>1. ASSUME NEW i \in 1..Len(regq) PROVE RecordOK(regq[i][1], regq[i][2])'
  <2>1. regq[i] \in Transports \X {0, 1}
    BY ElementOfSeq DEF TypeOK
  <2>2. RecordOK(regq[i][1], regq[i][2])
    BY DEF RegInv
  <2>3. regq[i][1] # t
    BY <2>2 DEF RecordOK
  <2> QED
    BY <2>1, <2>2, <2>3 DEF RecordOK, Born, Finished
<1> QED
  BY <1>1 DEF RegInv

\* A step that leaves links and membership alone keeps the ring.
LEMMA ListKept == ASSUME ListIntact, UNCHANGED list PROVE ListIntact'
  BY DEF ListIntact, list

\* A thread that moves on without ending disturbs no reference.
LEMMA RefKept ==
    ASSUME RefInv, NEW t \in Transports,
           UNCHANGED <<ref, closed, freed, listed>>,
           \A u \in Transports \ {t} : outpc'[u] = outpc[u] /\ inpc'[u] = inpc[u],
           \A x \in {"unborn", "done"} : /\ (outpc'[t] = x) <=> (outpc[t] = x)
                                         /\ (inpc'[t] = x) <=> (inpc[t] = x)
    PROVE  RefInv'
<1> SUFFICES ASSUME NEW u \in Transports PROVE RefOf(u)'
  BY DEF RefInv
<1>1. RefOf(u)
  BY DEF RefInv
<1>2. \A x \in {"unborn", "done"} : /\ (outpc'[u] = x) <=> (outpc[u] = x)
                                    /\ (inpc'[u] = x) <=> (inpc[u] = x)
  OBVIOUS
<1>3. /\ (outpc'[u] = "unborn") <=> (outpc[u] = "unborn")
      /\ (outpc'[u] = "done") <=> (outpc[u] = "done")
      /\ (inpc'[u] = "unborn") <=> (inpc[u] = "unborn")
      /\ (inpc'[u] = "done") <=> (inpc[u] = "done")
  BY <1>2
<1> QED
  BY <1>1, <1>3 DEF RefOf, Born, Finished

\* A step that touches one transport leaves the kicks of the others alone.
LEMMA KickElsewhere ==
    ASSUME KickInv, NEW t \in Transports, KickOf(t)',
           \A u \in Transports \ {t} : /\ outpc'[u] = outpc[u] /\ inpc'[u] = inpc[u]
                                       /\ kicked'[u] = kicked[u] /\ kicks'[u] = kicks[u]
    PROVE  KickInv'
<1> SUFFICES ASSUME NEW u \in Transports \ {t} PROVE KickOf(u)'
  BY DEF KickInv
<1>1. KickOf(u)
  BY DEF KickInv
<1> QED
  BY <1>1 DEF KickOf

\* The steps of output_thread before it drops its reference.
LEMMA OutputInv ==
    ASSUME IInv, TypeOK', NEW t \in Transports, OutPump(t) \/ Output(t), ~OutUnref(t)
    PROVE  IInv'
<1> USE DEF OutStep, list, counts, table, queues, flags, bounds
<1>0. /\ UNCHANGED <<regq, next, prev, listed, freed, closed, ref, inpc, main>>
      /\ outpc[t] \in OutPcs \ {"unborn", "unref", "done"}
      /\ outpc' = [outpc EXCEPT ![t] = outpc'[t]]
      /\ outpc'[t] \in OutPcs \ {"unborn", "done"}
  <2> USE DEF OutPcs
  <2>0. outpc \in [Transports -> OutPcs]
    BY DEF IInv, TypeOK
  <2>1. CASE OutPump(t)
    <3>1. outpc[t] = "pump"
          /\ UNCHANGED <<regq, next, prev, listed, freed, closed, ref, inpc, main>>
      BY <2>1 DEF OutPump
    <3>2. \E q \in {"pump", "kick"} : outpc' = [outpc EXCEPT ![t] = q]
      BY <2>1 DEF OutPump, OutWrite
    <3> QED
      BY <2>0, <3>1, <3>2
  <2>2. CASE OutSync(t)
    <3>1. outpc[t] = "sync"
          /\ UNCHANGED <<regq, next, prev, listed, freed, closed, ref, inpc, main>>
      BY <2>2 DEF OutSync
    <3>2. \E q \in {"pump", "kick"} : outpc' = [outpc EXCEPT ![t] = q]
      BY <2>2 DEF OutSync, OutWrite
    <3> QED
      BY <2>0, <3>1, <3>2
  <2>3. CASE OutFail(t)
    BY <2>3 DEF OutFail, IInv, TypeOK
  <2>4. CASE OutSync0(t)
    BY <2>4 DEF OutSync0, OutWrite, IInv, TypeOK
  <2>5. CASE OutTakeKick(t)
    BY <2>5 DEF OutTakeKick, IInv, TypeOK
  <2>6. CASE OutKick(t)
    BY <2>6 DEF OutKick, IInv, TypeOK
  <2> QED
    BY <2>1, <2>2, <2>3, <2>4, <2>5, <2>6 DEF Output
<1>1. QuietMain' /\ ListIntact'
  BY <1>0, ListKept DEF IInv, QuietMain
<1>2. RefInv'
  <2>1. \A u \in Transports \ {t} : outpc'[u] = outpc[u] /\ inpc'[u] = inpc[u]
    BY <1>0 DEF IInv, TypeOK
  <2>2. \A x \in {"unborn", "done"} : /\ (outpc'[t] = x) <=> (outpc[t] = x)
                                      /\ (inpc'[t] = x) <=> (inpc[t] = x)
    BY <1>0
  <2> QED
    BY <1>0, <2>1, <2>2, RefKept DEF IInv
<1>3. RegInv'
  BY <1>0, RecordsKept DEF IInv, Born, Finished, TypeOK
<1>4. KickInv'
  <2>0. /\ KickOf(t)
        /\ \A u \in Transports \ {t} : outpc'[u] = outpc[u] /\ inpc'[u] = inpc[u]
    BY <1>0 DEF IInv, KickInv, TypeOK
  <2>1. CASE OutTakeKick(t)
    <3>1. /\ outpc[t] = "kick" /\ outpc'[t] = IF kicked[t] THEN "unref" ELSE "kicking"
          /\ kicked' = [kicked EXCEPT ![t] = TRUE] /\ UNCHANGED <<kicks, inpc>>
      BY <2>1 DEF OutTakeKick, TakeKick, IInv, TypeOK
    <3>2. kicked'[t] /\ \A u \in Transports \ {t} : kicked'[u] = kicked[u]
      BY <3>1 DEF IInv, TypeOK
    <3>3. KickOf(t)'
      BY <2>0, <3>1, <3>2 DEF KickOf
    <3> QED
      BY <2>0, <3>1, <3>2, <3>3, KickElsewhere DEF IInv
  <2>2. CASE OutKick(t)
    <3>1. kicked[t] /\ kicks[t] = 0 /\ inpc[t] # "kicking"
      BY <2>0, <2>2 DEF OutKick, KickOf
    <3>2. kicks'[t] = 1 /\ outpc'[t] = "unref" /\ \A u \in Transports \ {t} : kicks'[u] = kicks[u]
      BY <2>2, <3>1 DEF OutKick, Kick, IInv, TypeOK
    <3>3. UNCHANGED <<kicked, inpc>>
      BY <2>2 DEF OutKick
    <3>4. KickOf(t)'
      BY <3>1, <3>2, <3>3 DEF KickOf
    <3> QED
      BY <2>0, <3>2, <3>3, <3>4, KickElsewhere DEF IInv
  <2>3. CASE ~OutTakeKick(t) /\ ~OutKick(t)
    <3>1. UNCHANGED <<kicked, kicks>>
      BY <2>3 DEF Output, OutPump, OutSync, OutFail, OutSync0
    <3>2. outpc[t] \in {"sync", "pump", "sync0"}
      BY <2>3 DEF Output, OutPump, OutSync, OutFail, OutSync0
    <3>3. outpc'[t] \in {"pump", "sync0", "kick"}
      <4>1. CASE OutFail(t)
        BY <4>1 DEF OutFail, IInv, TypeOK
      <4>2. CASE ~OutFail(t)
        <5>1. \E p \in Packets, q \in {"pump", "kick"} : OutWrite(t, p, q)
          BY <2>3, <4>2 DEF Output, OutPump, OutSync, OutSync0, Packets
        <5>2. \E q \in {"pump", "kick"} : outpc' = [outpc EXCEPT ![t] = q]
          BY <5>1 DEF OutWrite
        <5> QED
          BY <5>2 DEF IInv, TypeOK
      <4> QED
        BY <4>1, <4>2
    <3>4. KickOf(t)'
      BY <1>0, <2>0, <3>1, <3>2, <3>3 DEF KickOf
    <3> QED
      BY <2>0, <3>1, <3>4, KickElsewhere DEF IInv
  <2> QED
    BY <2>1, <2>2, <2>3
<1> QED
  BY <1>1, <1>2, <1>3, <1>4 DEF IInv


\* The steps of input_thread before it drops its reference.
LEMMA InputInv ==
    ASSUME IInv, TypeOK', NEW t \in Transports, Input(t), ~InUnref(t)
    PROVE  IInv'
<1> USE DEF InStep, list, counts, table, queues, flags, bounds
<1>0. /\ UNCHANGED <<regq, next, prev, listed, freed, closed, ref, outpc, main>>
      /\ inpc[t] \in InPcs \ {"unborn", "unref", "done"}
      /\ inpc' = [inpc EXCEPT ![t] = inpc'[t]]
      /\ inpc'[t] \in InPcs \ {"unborn", "done"}
  <2> USE DEF InPcs
  <2>1. CASE InRead(t)
    BY <2>1 DEF InRead, IInv, TypeOK
  <2>2. CASE InFail(t)
    BY <2>2 DEF InFail, IInv, TypeOK
  <2>3. CASE InCloseAll(t)
    BY <2>3 DEF InCloseAll, IInv, TypeOK
  <2>4. CASE InTakeKick(t)
    BY <2>4 DEF InTakeKick, IInv, TypeOK
  <2>5. CASE InKick(t)
    BY <2>5 DEF InKick, IInv, TypeOK
  <2> QED
    BY <2>1, <2>2, <2>3, <2>4, <2>5 DEF Input
<1>1. QuietMain' /\ ListIntact'
  BY <1>0, ListKept DEF IInv, QuietMain
<1>2. RefInv'
  <2>1. \A u \in Transports \ {t} : outpc'[u] = outpc[u] /\ inpc'[u] = inpc[u]
    BY <1>0 DEF IInv, TypeOK
  <2>2. \A x \in {"unborn", "done"} : /\ (outpc'[t] = x) <=> (outpc[t] = x)
                                      /\ (inpc'[t] = x) <=> (inpc[t] = x)
    BY <1>0
  <2> QED
    BY <1>0, <2>1, <2>2, RefKept DEF IInv
<1>3. Born(t) /\ ~Finished(t)
  BY <1>0 DEF IInv, RefInv, RefOf, Finished
<1>4. RegInv'
  BY <1>0, <1>3, RecordsKept DEF IInv, TypeOK
<1>5. KickInv'
  <2>0. /\ KickOf(t)
        /\ \A u \in Transports \ {t} : outpc'[u] = outpc[u] /\ inpc'[u] = inpc[u]
    BY <1>0 DEF IInv, KickInv, TypeOK
  <2>1. CASE InTakeKick(t)
    <3>1. /\ inpc[t] = "kick" /\ inpc'[t] = IF kicked[t] THEN "unref" ELSE "kicking"
          /\ kicked' = [kicked EXCEPT ![t] = TRUE] /\ UNCHANGED <<kicks, outpc>>
      BY <2>1 DEF InTakeKick, TakeKick, IInv, TypeOK
    <3>2. kicked'[t] /\ \A u \in Transports \ {t} : kicked'[u] = kicked[u]
      BY <3>1 DEF IInv, TypeOK
    <3>3. KickOf(t)'
      BY <2>0, <3>1, <3>2 DEF KickOf
    <3> QED
      BY <2>0, <3>1, <3>2, <3>3, KickElsewhere DEF IInv
  <2>2. CASE InKick(t)
    <3>1. kicked[t] /\ kicks[t] = 0 /\ outpc[t] # "kicking"
      BY <2>0, <2>2 DEF InKick, KickOf
    <3>2. kicks'[t] = 1 /\ inpc'[t] = "unref" /\ \A u \in Transports \ {t} : kicks'[u] = kicks[u]
      BY <2>2, <3>1 DEF InKick, Kick, IInv, TypeOK
    <3>3. UNCHANGED <<kicked, outpc>>
      BY <2>2 DEF InKick
    <3>4. KickOf(t)'
      BY <3>1, <3>2, <3>3 DEF KickOf
    <3> QED
      BY <2>0, <3>2, <3>3, <3>4, KickElsewhere DEF IInv
  <2>3. CASE ~InTakeKick(t) /\ ~InKick(t)
    <3>1. UNCHANGED <<kicked, kicks>>
      BY <2>3 DEF Input, InRead, InFail, InCloseAll
    <3>2. inpc[t] \in {"read", "close_all"}
      BY <2>3 DEF Input, InRead, InFail, InCloseAll
    <3>3. inpc'[t] \in {"read", "close_all", "kick"}
      BY <2>3 DEF Input, InRead, InFail, InCloseAll, IInv, TypeOK
    <3>4. KickOf(t)'
      BY <1>0, <2>0, <3>1, <3>2, <3>3 DEF KickOf
    <3> QED
      BY <2>0, <3>1, <3>4, KickElsewhere DEF IInv
  <2> QED
    BY <2>1, <2>2, <2>3
<1> QED
  BY <1>1, <1>2, <1>4, <1>5 DEF IInv

\* One more record, about a transport that had none.
LEMMA RecordAdded ==
    ASSUME TypeOK, RegInv, NEW t \in Transports, NEW a \in {0, 1},
           \A i \in 1..Len(regq) : regq[i][1] # t,
           regq' = Append(regq, <<t, a>>), freed' = freed,
           \A u \in Transports \ {t} : outpc'[u] = outpc[u] /\ inpc'[u] = inpc[u],
           RecordOK(t, a)'
    PROVE  RegInv'
<1>0. <<t, a>> \in Transports \X {0, 1}
  OBVIOUS
<1>1. /\ Len(regq') = Len(regq) + 1 /\ Len(regq) \in Nat
      /\ \A i \in 1..Len(regq) : regq'[i] = regq[i]
      /\ regq'[Len(regq) + 1] = <<t, a>>
  <2>1. Len(regq) \in Nat
    BY LenProperties DEF TypeOK
  <2>2. regq \in Seq(Transports \X {0, 1})
    BY DEF TypeOK
  <2> QED
    BY <1>0, <2>1, <2>2, AppendProperties
<1>2. ASSUME NEW i \in 1..Len(regq') PROVE RecordOK(regq[i][1], regq[i][2])'
  <2>1. CASE i \in 1..Len(regq)
    <3>1. regq[i] \in Transports \X {0, 1} /\ regq'[i] = regq[i] /\ regq[i][1] # t
      BY <1>1, <2>1, ElementOfSeq DEF TypeOK
    <3>2. RecordOK(regq[i][1], regq[i][2])
      BY <2>1 DEF RegInv
    <3> QED
      BY <3>1, <3>2 DEF RecordOK, Born, Finished
  <2>2. CASE i = Len(regq) + 1
    BY <1>1, <2>2
  <2> QED
    BY <1>1, <2>1, <2>2
<1>3. ASSUME NEW i \in 1..Len(regq'), NEW j \in 1..Len(regq'), regq'[i][1] = regq'[j][1]
      PROVE  i = j
  <2>1. i \in 1..Len(regq) \/ i = Len(regq) + 1
    BY <1>1
  <2>2. j \in 1..Len(regq) \/ j = Len(regq) + 1
    BY <1>1
  <2> QED
    BY <1>1, <1>3, <2>1, <2>2 DEF RegInv
<1> QED
  BY <1>2, <1>3 DEF RegInv

\* A transport whose threads run has no record.
LEMMA NoRecord ==
    ASSUME TypeOK, RegInv, NEW t \in Transports, Born(t), ~Finished(t)
    PROVE  \A i \in 1..Len(regq) : regq[i][1] # t
  BY DEF RegInv, RecordOK

\* A thread drops its reference: the other one holds the second, or is done too and
\* then t is kicked, closed and sent to its removal.
LEMMA UnrefInv ==
    ASSUME IInv, TypeOK', NEW t \in Transports, OutUnref(t) \/ InUnref(t)
    PROVE  IInv'
<1> USE DEF list, counts, table, queues, flags, bounds
<1>0. /\ UNCHANGED <<next, prev, listed, freed, main>>
      /\ Unref(t, FALSE)
      /\ \/ outpc[t] = "unref" /\ outpc' = [outpc EXCEPT ![t] = "done"] /\ inpc' = inpc
         \/ inpc[t] = "unref" /\ inpc' = [inpc EXCEPT ![t] = "done"] /\ outpc' = outpc
  BY DEF OutUnref, InUnref
<1>1. QuietMain' /\ ListIntact'
  BY <1>0, ListKept DEF IInv, QuietMain
<1>2. Born(t) /\ ~Finished(t) /\ kicked[t] /\ ref[t] \in Int /\ closed[t] = 0
  BY <1>0 DEF IInv, RefInv, RefOf, KickInv, KickOf, Born, Finished, TypeOK
<1>3. LastRef(t) <=> Finished(t)'
  <2>1. Finished(t)' <=> outpc[t] = "done" \/ inpc[t] = "done"
    BY <1>0 DEF Finished, IInv, TypeOK
  <2>2. ref[t] = (IF outpc[t] = "done" THEN 0 ELSE 1) + (IF inpc[t] = "done" THEN 0 ELSE 1)
    BY <1>2 DEF IInv, RefInv, RefOf
  <2> QED
    BY <1>2, <2>1, <2>2 DEF LastRef, Finished
<1>4. /\ kicked' = kicked /\ kicks' = kicks
      /\ ref'[t] = ref[t] - 1
      /\ closed'[t] = IF Finished(t)' THEN 1 ELSE 0
      /\ \A u \in Transports \ {t} : ref'[u] = ref[u] /\ closed'[u] = closed[u]
      /\ regq' = IF Finished(t)' THEN Append(regq, <<t, 0>>) ELSE regq
  <2>1. kicked' = kicked
    <3>1. kicked[t] = TRUE /\ kicked \in [Transports -> BOOLEAN]
      BY <1>2 DEF IInv, TypeOK
    <3>2. kicked' = [kicked EXCEPT ![t] = TRUE]
      BY <1>0, <3>1, Zenon DEF Unref
    <3> QED
      BY <3>1, <3>2
  <2>2. kicks' = kicks
    BY <1>0, <1>2 DEF Unref, IInv, TypeOK
  <2>3. ref'[t] = ref[t] - 1 /\ \A u \in Transports \ {t} : ref'[u] = ref[u]
    BY <1>0 DEF Unref, IInv, TypeOK
  <2>4. closed' = [closed EXCEPT ![t] = IF Finished(t)' THEN closed[t] + 1 ELSE closed[t]]
    BY <1>0, <1>3 DEF Unref
  <2>5. /\ closed'[t] = IF Finished(t)' THEN 1 ELSE 0
        /\ \A u \in Transports \ {t} : closed'[u] = closed[u]
    BY <1>2, <2>4 DEF IInv, TypeOK
  <2>6. regq' = IF Finished(t)' THEN Append(regq, <<t, 0>>) ELSE regq
    BY <1>0, <1>3 DEF Unref
  <2> QED
    BY <2>1, <2>2, <2>3, <2>5, <2>6
<1>5. RefInv'
  <2>1. ASSUME NEW u \in Transports, u # t PROVE RefOf(u)'
    <3>1. RefOf(u)
      BY DEF IInv, RefInv
    <3>2. outpc'[u] = outpc[u] /\ inpc'[u] = inpc[u]
      BY <1>0, <2>1 DEF IInv, TypeOK
    <3> QED
      BY <1>0, <1>4, <2>1, <3>1, <3>2 DEF RefOf, Born, Finished
  <2>2. RefOf(t)'
    <3>1. RefOf(t)
      BY DEF IInv, RefInv
    <3>2. \/ outpc[t] = "unref" /\ outpc'[t] = "done" /\ inpc'[t] = inpc[t]
          \/ inpc[t] = "unref" /\ inpc'[t] = "done" /\ outpc'[t] = outpc[t]
      BY <1>0 DEF IInv, TypeOK
    <3>3. ref'[t] = (IF outpc'[t] = "done" THEN 0 ELSE 1) + (IF inpc'[t] = "done" THEN 0 ELSE 1)
      BY <1>2, <1>4, <3>1, <3>2 DEF RefOf
    <3> QED
      BY <1>0, <1>2, <1>4, <3>1, <3>2, <3>3 DEF RefOf, Born, Finished
  <2> QED
    BY <2>1, <2>2 DEF RefInv
<1>6. KickInv'
  <2>1. CASE outpc[t] = "unref" /\ outpc' = [outpc EXCEPT ![t] = "done"] /\ inpc' = inpc
    BY <1>2, <1>4, <2>1 DEF IInv, KickInv, KickOf, TypeOK
  <2>2. CASE inpc[t] = "unref" /\ inpc' = [inpc EXCEPT ![t] = "done"] /\ outpc' = outpc
    BY <1>2, <1>4, <2>2 DEF IInv, KickInv, KickOf, TypeOK
  <2> QED
    BY <1>0, <2>1, <2>2
<1>7. RegInv'
  <2>1. \A u \in Transports \ {t} : outpc'[u] = outpc[u] /\ inpc'[u] = inpc[u]
    BY <1>0 DEF IInv, TypeOK
  <2>2. t \notin freed
    BY <1>2 DEF IInv, RefInv, RefOf
  <2>3. CASE Finished(t)'
    <3>1. \A i \in 1..Len(regq) : regq[i][1] # t
      BY <1>2, NoRecord DEF IInv
    <3>2. RecordOK(t, 0)'
      BY <1>0, <2>2, <2>3 DEF RecordOK
    <3> QED
      BY <1>0, <1>4, <2>1, <2>3, <3>1, <3>2, RecordAdded DEF IInv
  <2>4. CASE ~Finished(t)'
    BY <1>0, <1>2, <1>4, <2>1, <2>4, RecordsKept DEF IInv
  <2> QED
    BY <2>3, <2>4
<1> QED
  BY <1>1, <1>5, <1>6, <1>7 DEF IInv


\* Linking a transport that is off the list keeps the ring.
LEMMA LinkRing ==
    ASSUME TypeOK, ListIntact, NEW t \in Transports, t \notin listed, Link(t)
    PROVE  ListIntact'
<1> DEFINE ring == listed \cup {None}
<1>1. /\ ring \subseteq Nodes /\ None \in ring /\ t \in Nodes /\ t \notin ring
      /\ next \in [Nodes -> Nodes] /\ prev \in [Nodes -> Nodes]
  BY Constants DEF TypeOK, Nodes
<1>2. \A n \in ring : /\ next[n] \in ring /\ prev[n] \in ring
                      /\ prev[next[n]] = n /\ next[prev[n]] = n
  BY DEF ListIntact
<1>3. listed' \cup {None} = ring \cup {t}
  BY DEF Link
<1> HIDE DEF ring
<1>4. \A n \in Nodes : next'[n] = IF n = prev[None] THEN t ELSE IF n = t THEN None ELSE next[n]
  BY <1>1, <1>2 DEF Link
<1>5. \A n \in Nodes : prev'[n] = IF n = None THEN t ELSE IF n = t THEN prev[None] ELSE prev[n]
  BY <1>1, <1>2 DEF Link
<1>6. ASSUME NEW n \in ring \cup {t}
      PROVE  /\ next'[n] \in ring \cup {t} /\ prev'[n] \in ring \cup {t}
             /\ prev'[next'[n]] = n /\ next'[prev'[n]] = n
  BY <1>1, <1>2, <1>4, <1>5
<1> QED
  BY <1>3, <1>6 DEF ListIntact

\* Unlinking a transport that is on the list keeps the ring.
LEMMA UnlinkRing ==
    ASSUME TypeOK, ListIntact, NEW t \in Transports, t \in listed, Unlink(t)
    PROVE  ListIntact'
<1> DEFINE ring == listed \cup {None}
<1>1. /\ ring \subseteq Nodes /\ None \in ring /\ t \in ring /\ t # None
      /\ next \in [Nodes -> Nodes] /\ prev \in [Nodes -> Nodes]
  BY Constants DEF TypeOK, Nodes
<1>2. \A n \in ring : /\ next[n] \in ring /\ prev[n] \in ring
                      /\ prev[next[n]] = n /\ next[prev[n]] = n
  BY DEF ListIntact
<1>3. listed' \cup {None} = ring \ {t}
  BY <1>1 DEF Unlink
<1> HIDE DEF ring
<1>4. \A n \in Nodes : next'[n] = IF n = prev[t] THEN next[t] ELSE next[n]
  BY <1>1, <1>2 DEF Unlink
<1>5. \A n \in Nodes : prev'[n] = IF n = next[t] THEN prev[t] ELSE prev[n]
  BY <1>1, <1>2 DEF Unlink
<1>6. ASSUME NEW n \in ring \ {t}
      PROVE  /\ next'[n] \in ring \ {t} /\ prev'[n] \in ring \ {t}
             /\ prev'[next'[n]] = n /\ next'[prev'[n]] = n
  BY <1>1, <1>2, <1>4, <1>5
<1> QED
  BY <1>3, <1>6 DEF ListIntact

\* The first record is taken; the others stay valid, none of them about the same
\* transport.
LEMMA RecordTaken ==
    ASSUME TypeOK, RegInv, regq # << >>, NEW t, t = Head(regq)[1], regq' = Tail(regq),
           \A u \in Transports \ {t} : /\ outpc'[u] = outpc[u] /\ inpc'[u] = inpc[u]
                                       /\ u \in freed' <=> u \in freed
    PROVE  RegInv'
<1>1. /\ regq \in Seq(Transports \X {0, 1}) /\ Len(regq) \in Nat \ {0}
  BY EmptySeq DEF TypeOK
<1>2. /\ Len(regq') = Len(regq) - 1
      /\ \A i \in 1..Len(regq') : regq'[i] = regq[i + 1]
  BY <1>1, HeadTailProperties
<1>3. t = regq[1][1]
  BY <1>1
<1>4. \A i \in 1..Len(regq') : i + 1 \in 1..Len(regq) /\ i + 1 # 1
  BY <1>1, <1>2
<1>5. \A i \in 1..Len(regq') : regq'[i][1] # t
  BY <1>1, <1>2, <1>3, <1>4 DEF RegInv
<1>6. ASSUME NEW i \in 1..Len(regq') PROVE RecordOK(regq[i][1], regq[i][2])'
  <2>1. RecordOK(regq[i + 1][1], regq[i + 1][2])
    BY <1>4 DEF RegInv
  <2>2. regq[i + 1] \in Transports \X {0, 1}
    BY <1>1, <1>4, ElementOfSeq
  <2>3. regq'[i] = regq[i + 1] /\ regq'[i][1] # t
    BY <1>2, <1>5
  <2> QED
    BY <2>1, <2>2, <2>3 DEF RecordOK, Born, Finished
<1>7. ASSUME NEW i \in 1..Len(regq'), NEW j \in 1..Len(regq'), regq'[i][1] = regq'[j][1]
      PROVE  i = j
  <2>1. regq[i + 1][1] = regq[j + 1][1]
    BY <1>2, <1>7
  <2>2. i + 1 = j + 1
    BY <1>4, <2>1 DEF RegInv
  <2> QED
    BY <1>1, <1>2, <2>2
<1> QED
  BY <1>6, <1>7 DEF RegInv


\* The record at the head is valid.
LEMMA HeadOK == ASSUME TypeOK, RegInv, regq # << >>
                PROVE  RecordOK(Head(regq)[1], Head(regq)[2])
<1>1. Len(regq) \in Nat \ {0}
  BY EmptySeq DEF TypeOK
<1> QED
  BY <1>1 DEF RegInv

\* A transport gets its two threads and its place on the list.
LEMMA MainRegisterInv ==
    ASSUME IInv, TypeOK', MainRegister
    PROVE  IInv'
<1> USE DEF list, counts, table, queues, flags, bounds
<1> DEFINE h == Head(regq)[1]
<1>0. h \in Transports /\ regq # << >> /\ Head(regq)[2] = 1 /\ ~Born(h)
  BY HeadRecord, HeadOK DEF MainRegister, IInv, RecordOK
<1>1. /\ ref' = [ref EXCEPT ![h] = 2] /\ inpc' = [inpc EXCEPT ![h] = "read"]
      /\ outpc' = [outpc EXCEPT ![h] = "sync"] /\ Link(h)
      /\ regq' = Tail(regq)
      /\ UNCHANGED <<freed, kicked, kicks, closed, main>>
  BY DEF MainRegister
<1> HIDE DEF h
<1>2. h \notin listed /\ h \notin freed /\ closed[h] = 0 /\ inpc[h] = "unborn" /\ outpc[h] = "unborn"
  BY <1>0 DEF IInv, RefInv, RefOf, Born, Finished
<1>3. QuietMain' /\ ListIntact'
  BY <1>0, <1>1, <1>2, LinkRing DEF IInv, QuietMain
<1>4. RefInv'
  <2>1. /\ outpc'[h] = "sync" /\ inpc'[h] = "read" /\ ref'[h] = 2
        /\ \A u \in Transports \ {h} :
             outpc'[u] = outpc[u] /\ inpc'[u] = inpc[u] /\ ref'[u] = ref[u]
    BY <1>0, <1>1 DEF IInv, TypeOK
  <2>2. listed' = listed \cup {h}
    BY <1>1 DEF Link
  <2> QED
    BY <1>0, <1>1, <1>2, <2>1, <2>2 DEF IInv, RefInv, RefOf, Born, Finished
<1>5. KickInv'
  <2>0. PICK k \in Transports : k = h
    BY <1>0
  <2>1. KickOf(k)
    BY DEF IInv, KickInv
  <2>2. /\ outpc[k] = "unborn" /\ outpc'[k] = "sync" /\ inpc'[k] = "read"
        /\ \A u \in Transports \ {k} : outpc'[u] = outpc[u] /\ inpc'[u] = inpc[u]
    BY <1>1, <1>2, <2>0 DEF IInv, TypeOK
  <2>3. inpc[k] = "unborn" /\ UNCHANGED <<kicked, kicks>>
    BY <1>1, <1>2, <2>0
  <2>4. KickOf(k)'
    BY <2>1, <2>2, <2>3 DEF KickOf
  <2> QED
    BY <2>2, <2>3, <2>4, KickElsewhere DEF IInv
<1>6. \A u \in Transports \ {h} : outpc'[u] = outpc[u] /\ inpc'[u] = inpc[u]
  BY <1>1 DEF IInv, TypeOK
<1>7. h = Head(regq)[1]
  BY DEF h
<1>8. RegInv'
  BY <1>0, <1>1, <1>6, <1>7, RecordTaken DEF IInv
<1> QED
  BY <1>3, <1>4, <1>5, <1>8 DEF IInv

\* A transport whose threads are done is unlinked and freed.
LEMMA MainRemoveInv ==
    ASSUME IInv, TypeOK', MainRemove
    PROVE  IInv'
<1> USE DEF list, counts, table, queues, flags, bounds
<1> DEFINE h == Head(regq)[1]
<1>0. h \in Transports /\ regq # << >> /\ Head(regq)[2] = 0 /\ Finished(h) /\ h \notin freed
  BY HeadRecord, HeadOK DEF MainRemove, IInv, RecordOK
<1>1. /\ Unlink(h) /\ freed' = freed \cup {h} /\ regq' = Tail(regq)
      /\ UNCHANGED <<ref, kicked, kicks, closed, outpc, inpc, main>>
  BY DEF MainRemove
<1>2. h = Head(regq)[1]
  OBVIOUS
<1> HIDE DEF h
<1>3. h \in listed
  BY <1>0 DEF IInv, RefInv, RefOf, Born, Finished
<1>4. QuietMain' /\ ListIntact'
  BY <1>0, <1>1, <1>3, UnlinkRing DEF IInv, QuietMain
<1>5. RefInv'
  BY <1>0, <1>1 DEF IInv, RefInv, RefOf, Born, Finished, Unlink
<1>6. KickInv'
  BY <1>1 DEF IInv, KickInv, KickOf
<1>7. RegInv'
  BY <1>0, <1>1, <1>2, RecordTaken DEF IInv
<1> QED
  BY <1>4, <1>5, <1>6, <1>7 DEF IInv

\* A registration record for a transport that has none.
LEMMA RegisterInv ==
    ASSUME IInv, TypeOK', NEW t \in Transports, Register(t)
    PROVE  IInv'
<1> USE DEF list, counts, table, queues, flags, bounds
<1>1. \A i \in 1..Len(regq) : regq[i][1] # t
  <2>1. DOMAIN regq = 1..Len(regq)
    BY LenProperties DEF IInv, TypeOK
  <2> QED
    BY <2>1 DEF Register
<1>2. /\ regq' = Append(regq, <<t, 1>>) /\ outpc[t] = "unborn"
      /\ UNCHANGED <<next, prev, listed, freed, ref, kicked, kicks, closed, outpc, inpc, main>>
  BY DEF Register
<1>3. QuietMain' /\ ListIntact' /\ RefInv' /\ KickInv'
  BY <1>2 DEF IInv, QuietMain, ListIntact, RefInv, RefOf, KickInv, KickOf, Born, Finished
<1>4. RecordOK(t, 1)'
  BY <1>2 DEF RecordOK, Born
<1>5. RegInv'
  BY <1>1, <1>2, <1>4, RecordAdded DEF IInv
<1> QED
  BY <1>3, <1>5 DEF IInv

\* A step that touches none of what the invariant speaks of.
LEMMA OtherInv ==
    ASSUME IInv, TypeOK', QuietMain',
           UNCHANGED <<regq, next, prev, listed, freed, ref, kicked, kicks, closed, outpc, inpc>>
    PROVE  IInv'
  BY DEF IInv, ListIntact, RefInv, RefOf, KickInv, KickOf, RegInv, RecordOK, Born, Finished

LEMMA StepInv == ASSUME MaxDisconnects = 0 PROVE IInv /\ [Next]_vars => IInv'
<1> SUFFICES ASSUME IInv, [Next]_vars PROVE IInv'
  OBVIOUS
<1> USE DEF list, counts, table, queues, flags, bounds
<1>0. TypeOK'
  BY TypeStep DEF IInv
<1>1. asked \in Nat /\ ~(asked < MaxDisconnects)
  BY DEF IInv, TypeOK
<1>2. ~MainCall
  <2>1. main[1] = "idle" \/ main[1] = "fatal"
    BY DEF IInv, QuietMain, Idle, Fatal
  <2> QED
    BY <2>1 DEF MainCall, MainTakeKick, MainKick, MainUnref, MainWalk
<1>3. CASE UNCHANGED vars
  BY <1>0, <1>3, OtherInv DEF vars, IInv, QuietMain
<1>4. CASE MainReg
  <2>1. CASE MainRegisterFails
    BY <1>0, <2>1, OtherInv DEF MainRegisterFails, QuietMain
  <2> QED
    BY <1>0, <1>4, <2>1, MainRegisterInv, MainRemoveInv DEF MainReg
<1>5. CASE DisconnectAll
  BY <1>1, <1>5 DEF DisconnectAll
<1>6. ASSUME NEW t \in Transports, Register(t) PROVE IInv'
  BY <1>0, <1>6, RegisterInv
<1>7. ASSUME NEW t \in Transports, Unplug(t) PROVE IInv'
  BY <1>0, <1>7, OtherInv DEF Unplug, IInv, QuietMain
<1>8. ASSUME NEW t \in Transports, ThreadStep(t) PROVE IInv'
  BY <1>0, <1>8, OutputInv, InputInv, UnrefInv, Zenon DEF ThreadStep
<1>9. ASSUME NEW t \in Transports, MainPacket(t) PROVE IInv'
  <2>1. QuietMain'
    BY <1>9 DEF MainPacket, Send, IInv, QuietMain
  <2> QED
    BY <1>0, <1>9, <2>1, OtherInv DEF MainPacket
<1>10. ASSUME NEW t \in Transports, MainSend(t) PROVE IInv'
  <2>1. QuietMain'
    BY <1>10 DEF MainSend, Send, IInv, QuietMain
  <2> QED
    BY <1>0, <1>10, <2>1, OtherInv DEF MainSend
<1>11. ASSUME NEW t \in Transports, Disconnect(t) PROVE IInv'
  BY <1>1, <1>11 DEF Disconnect
<1> QED
  BY <1>2, <1>3, <1>4, <1>5, <1>6, <1>7, <1>8, <1>9, <1>10, <1>11, Zenon DEF Next

LEMMA Invariance == ASSUME MaxDisconnects = 0 PROVE Spec => []IInv
<1>1. IInv /\ [Next]_vars => IInv'
  BY StepInv
<1> QED
  BY <1>1, InitInv, PTL DEF Spec

\* "The transport will not actually be closed until both threads exit", and it is
\* freed only after that, for any number of transports: the reference count is the
\* number of threads that have not left, and a removal record is queued only when it
\* is zero.  This needs that nobody asks for host:disconnect.
THEOREM ClosedLast == ASSUME MaxDisconnects = 0 PROVE Spec => []ClosedAfterThreads
<1>1. IInv => ClosedAfterThreads
  BY DEF IInv, RefInv, RefOf, Finished, ClosedAfterThreads
<1> QED
  BY <1>1, Invariance, PTL

\* t->kick and t->close run once each, the kick first, although output_thread,
\* input_thread and the last dereference may all kick.
THEOREM KickedThenClosed ==
    ASSUME MaxDisconnects = 0 PROVE Spec => [](KickedOnce /\ KickBeforeClose)
<1>1. IInv => KickedOnce /\ KickBeforeClose
  <2> SUFFICES ASSUME IInv, NEW t \in Transports
               PROVE  /\ kicks[t] <= 1 /\ closed[t] <= 1
                      /\ closed[t] = 1 => /\ kicks[t] = 1
                                          /\ outpc[t] # "kicking" /\ inpc[t] # "kicking"
    BY DEF KickedOnce, KickBeforeClose
  <2>1. kicks[t] \in {0, 1} /\ closed[t] \in {0, 1}
    BY DEF IInv, KickInv, KickOf, RefInv, RefOf, TypeOK
  <2>2. closed[t] = 1 => Finished(t)
    BY DEF IInv, RefInv, RefOf
  <2>3. Finished(t) => kicks[t] = 1
    BY DEF IInv, KickInv, KickOf, TypeOK, Finished
  <2> QED
    BY <2>1, <2>2, <2>3 DEF Finished
<1> QED
  BY <1>1, Invariance, PTL

\* transport_list is a doubly linked ring of exactly the transports that were
\* registered and not yet removed, whatever the order of arrivals and removals.
THEOREM ListIsRing == ASSUME MaxDisconnects = 0 PROVE Spec => []ListIntact
<1>1. IInv => ListIntact
  BY DEF IInv
<1> QED
  BY <1>1, Invariance, PTL

\* What a run checks of the transports at each step, for any transports, table and traffic.
THEOREM TransportCorrect == ASSUME MaxDisconnects = 0 PROVE Spec => []TransportInv
<1> QED
  BY TypeCorrect, KickedThenClosed, ListIsRing, PTL DEF TransportInv

-----------------------------------------------------------------------------
(* The descriptor table and the SYNC handshake of USB transports *)

\* Slots above _win32_fh_count were never used, the two descriptors of a registered
\* transport are its own, and nobody else has a slot.
TableInv ==
    /\ \A i \in Slots : i > fhcount => fhs[i] = None
    /\ \A t \in listed : /\ sock[t] \in Slots /\ fd[t] \in Slots
                         /\ fhs[sock[t]] = t /\ fhs[fd[t]] = t
    /\ \A i \in Slots : fhs[i] # None => /\ fhs[i] \in listed
                                         /\ i = sock[fhs[i]] \/ i = fd[fhs[i]]

Has(q, p) == \E i \in 1..Len(q) : q[i] = p
EndsWithSync0(q) == \A i \in 1..Len(q) : q[i] = "SYNC0" => i = Len(q)

\* output_thread has not announced its end.
Pumping(t) == outpc[t] \in {"unborn", "sync", "pump", "sync0"}
\* The main thread has not handled SYNC(1).
Fresh(t) == ~active[t] /\ toInput[t] = << >>

\* SYNC(1) goes first through both directions of the socketpair, and SYNC(0) last.
ShakeOf(t) ==
    /\ Fresh(t) => /\ ~online[t]
                   /\ IF outpc[t] \in {"unborn", "sync"} THEN toMain[t] = << >>
                      ELSE toMain[t] # << >> /\ toMain[t][1] = "SYNC1"
    /\ outpc[t] \in {"unborn", "sync"} => Fresh(t)
    /\ ~active[t] /\ toInput[t] # << >> => toInput[t][1] = "SYNC1"
    /\ ~active[t] => inpc[t] \in {"unborn", "read"}
    /\ Pumping(t) => ~Has(toMain[t], "SYNC0")
    /\ EndsWithSync0(toMain[t])
    /\ Has(toInput[t], "SYNC0") \/ inpc[t] \notin {"unborn", "read"} =>
         ~online[t] /\ toMain[t] = << >> /\ ~Pumping(t)
ShakeInv == ignored = 0 /\ \A t \in Transports : ShakeOf(t)

\* A registered transport's descriptors are open.
LEMMA OpenIfListed == ASSUME TableInv, NEW t \in listed PROVE SockOpen(t) /\ FdOpen(t)
  BY DEF TableInv, SockOpen, FdOpen

LEMMA TableKept == ASSUME TableInv, UNCHANGED <<fhs, fhcount, sock, fd, listed>> PROVE TableInv'
  BY DEF TableInv

\* _fh_alloc finds a slot that is free.
LEMMA AllocFree ==
    ASSUME NEW f \in [Slots -> Nodes], NEW c \in 0..WIN32_MAX_FHS, NEW i \in Slots,
           \A k \in Slots : k > c => f[k] = None, FhAllocs(f, c, i), NEW h \in Nodes
    PROVE  /\ f[i] = None /\ FhCount(c) \in 0..WIN32_MAX_FHS
           /\ [f EXCEPT ![i] = h] \in [Slots -> Nodes]
           /\ \A k \in Slots : k > FhCount(c) => [f EXCEPT ![i] = h][k] = None
<1>0. WIN32_MAX_FHS \in Nat
  BY Constants
<1>1. CASE c < WIN32_MAX_FHS
  <2>1. i = c + 1 /\ FhCount(c) = c + 1
    BY <1>1 DEF FhAllocs, FhCount
  <2> QED
    BY <1>0, <1>1, <2>1 DEF Slots
<1>2. CASE ~(c < WIN32_MAX_FHS)
  <2>1. f[i] = None /\ FhCount(c) = c
    BY <1>2 DEF FhAllocs, FhCount
  <2> QED
    BY <1>0, <1>2, <2>1 DEF Slots
<1> QED
  BY <1>1, <1>2

LEMMA RegisterTable == ASSUME IInv, TableInv, MainRegister PROVE TableInv'
<1> DEFINE h == Head(regq)[1]
<1>0. h \in Transports /\ h # None /\ h \in Nodes /\ ~Born(h)
  BY HeadRecord, HeadOK, Constants DEF MainRegister, IInv, RecordOK, Nodes
<1>1. h \notin listed
  BY <1>0 DEF IInv, RefInv, RefOf
<1>2. PICK i, j \in Slots :
        /\ FhAllocs(fhs, fhcount, i) /\ FhAllocs([fhs EXCEPT ![i] = h], FhCount(fhcount), j)
        /\ fhs' = [[fhs EXCEPT ![i] = h] EXCEPT ![j] = h]
        /\ fhcount' = FhCount(FhCount(fhcount))
        /\ sock' = [sock EXCEPT ![h] = i] /\ fd' = [fd EXCEPT ![h] = j] /\ Link(h)
  BY DEF MainRegister
<1> HIDE DEF h
<1>3. listed' = listed \cup {h}
  BY <1>2 DEF Link
<1>4. /\ fhs \in [Slots -> Nodes] /\ fhcount \in 0..WIN32_MAX_FHS /\ listed \subseteq Transports
      /\ sock \in [Transports -> 0..WIN32_MAX_FHS] /\ fd \in [Transports -> 0..WIN32_MAX_FHS]
  BY DEF IInv, TypeOK
<1> DEFINE fhs1 == [fhs EXCEPT ![i] = h]
           c1 == FhCount(fhcount)
<1>5. /\ fhs[i] = None /\ c1 \in 0..WIN32_MAX_FHS /\ fhs1 \in [Slots -> Nodes]
      /\ \A k \in Slots : k > c1 => fhs1[k] = None
  BY <1>0, <1>2, <1>4, AllocFree DEF TableInv
<1>6. FhAllocs(fhs1, c1, j) /\ fhs' = [fhs1 EXCEPT ![j] = h] /\ fhcount' = FhCount(c1)
  BY <1>2
<1> HIDE DEF c1
<1>7. fhs1[j] = None /\ \A k \in Slots : k > fhcount' => fhs'[k] = None
  <2> HIDE DEF fhs1
  <2> QED
    BY <1>0, <1>5, <1>6, AllocFree
<1>8. \A k \in Slots : fhs'[k] = IF k = i \/ k = j THEN h ELSE fhs[k]
  BY <1>4, <1>6
<1>9. fhs[j] = None
  BY <1>0, <1>4, <1>7
<1>10. ASSUME NEW t \in listed'
       PROVE  /\ sock'[t] \in Slots /\ fd'[t] \in Slots /\ fhs'[sock'[t]] = t /\ fhs'[fd'[t]] = t
  <2>1. CASE t = h
    BY <1>0, <1>2, <1>4, <1>8, <2>1
  <2>2. CASE t # h
    <3>1. t \in listed /\ sock'[t] = sock[t] /\ fd'[t] = fd[t] /\ t # None
      BY <1>2, <1>3, <1>4, <2>2, Constants
    <3>2. /\ sock[t] \in Slots /\ fd[t] \in Slots /\ fhs[sock[t]] = t /\ fhs[fd[t]] = t
      BY <3>1 DEF TableInv
    <3>3. sock[t] # i /\ sock[t] # j /\ fd[t] # i /\ fd[t] # j
      BY <1>5, <1>9, <3>1, <3>2
    <3> QED
      BY <1>8, <3>1, <3>2, <3>3
  <2> QED
    BY <2>1, <2>2
<1>11. ASSUME NEW k \in Slots, fhs'[k] # None
       PROVE  fhs'[k] \in listed' /\ (k = sock'[fhs'[k]] \/ k = fd'[fhs'[k]])
  <2>1. CASE k = i \/ k = j
    BY <1>0, <1>2, <1>3, <1>4, <1>8, <2>1
  <2>2. CASE ~(k = i \/ k = j)
    <3>1. fhs'[k] = fhs[k] /\ fhs[k] \in listed /\ (k = sock[fhs[k]] \/ k = fd[fhs[k]])
      BY <1>8, <1>11, <2>2 DEF TableInv
    <3>2. fhs[k] # h
      BY <1>1, <3>1
    <3> QED
      BY <1>2, <1>3, <1>4, <3>1, <3>2
  <2> QED
    BY <2>1, <2>2
<1> QED
  BY <1>7, <1>10, <1>11 DEF TableInv

LEMMA RemoveTable == ASSUME IInv, TableInv, MainRemove PROVE TableInv'
<1> DEFINE h == Head(regq)[1]
<1>0. h \in Transports /\ h # None /\ Finished(h) /\ h \notin freed
  BY HeadRecord, HeadOK, Constants DEF MainRemove, IInv, RecordOK
<1>1. h \in listed
  BY <1>0 DEF IInv, RefInv, RefOf, Born, Finished
<1>2. fhs' = Closing(fhs, {sock[h], fd[h]}) /\ listed' = listed \ {h}
      /\ UNCHANGED <<fhcount, sock, fd>>
  BY DEF MainRemove, Unlink
<1> HIDE DEF h
<1>3. \A k \in Slots : fhs'[k] = IF k = sock[h] \/ k = fd[h] THEN None ELSE fhs[k]
  BY <1>2 DEF Closing
<1>4. ASSUME NEW t \in listed'
      PROVE  /\ sock[t] \in Slots /\ fd[t] \in Slots /\ fhs'[sock[t]] = t /\ fhs'[fd[t]] = t
  <2>1. t \in listed /\ t # h
    BY <1>2
  <2>2. /\ sock[t] \in Slots /\ fd[t] \in Slots /\ fhs[sock[t]] = t /\ fhs[fd[t]] = t
        /\ fhs[sock[h]] = h /\ fhs[fd[h]] = h
    BY <1>1, <2>1 DEF TableInv
  <2> QED
    BY <1>3, <2>1, <2>2
<1>5. ASSUME NEW k \in Slots, fhs'[k] # None
      PROVE  fhs'[k] \in listed' /\ (k = sock[fhs'[k]] \/ k = fd[fhs'[k]])
  <2>1. fhs'[k] = fhs[k] /\ k # sock[h] /\ k # fd[h]
    BY <1>3, <1>5
  <2>2. fhs[k] \in listed /\ (k = sock[fhs[k]] \/ k = fd[fhs[k]])
    BY <1>5, <2>1 DEF TableInv
  <2> QED
    BY <1>2, <2>1, <2>2
<1>6. \A k \in Slots : k > fhcount => fhs'[k] = None
  BY <1>3 DEF TableInv
<1> QED
  BY <1>2, <1>4, <1>5, <1>6 DEF TableInv

\* Without host:disconnect the main thread is never inside it, and a USB transport's
\* close method leaves the table alone.
LEMMA TableStep ==
    ASSUME Tcp = {}, MaxDisconnects = 0, IInv, TableInv, [Next]_vars
    PROVE  TableInv'
<1> USE DEF list, counts, table, queues, flags, bounds
<1>1. asked \in Nat /\ ~(asked < MaxDisconnects)
  BY DEF IInv, TypeOK
<1>2. ~MainCall
  <2>1. main[1] = "idle" \/ main[1] = "fatal"
    BY DEF IInv, QuietMain, Idle, Fatal
  <2> QED
    BY <2>1 DEF MainCall, MainTakeKick, MainKick, MainUnref, MainWalk
<1>3. CASE UNCHANGED vars
  BY <1>3, TableKept DEF vars
<1>4. CASE MainReg
  <2>1. CASE MainRegisterFails
    BY <2>1, TableKept DEF MainRegisterFails
  <2> QED
    BY <1>4, <2>1, RegisterTable, RemoveTable DEF MainReg
<1>5. ~DisconnectAll
  BY <1>1 DEF DisconnectAll
<1>6. ASSUME NEW t \in Transports, Register(t) \/ Unplug(t) \/ MainPacket(t) \/ MainSend(t)
      PROVE  TableInv'
  BY <1>6, TableKept DEF Register, Unplug, MainPacket, MainSend
<1>7. ASSUME NEW t \in Transports, ThreadStep(t) PROVE TableInv'
  <2>1. CASE OutUnref(t) \/ InUnref(t)
    <3>1. Unref(t, FALSE) /\ listed' = listed
      BY <2>1 DEF OutUnref, InUnref
    <3> QED
      BY <3>1, TableKept DEF Unref
  <2>2. CASE ~(OutUnref(t) \/ InUnref(t))
    <3>1. CASE OutStep
      BY <3>1, TableKept DEF OutStep
    <3>2. CASE InStep
      BY <3>2, TableKept DEF InStep
    <3> QED
      BY <1>7, <2>2, <3>1, <3>2 DEF ThreadStep, Output, Input, OutPump, OutSync, OutFail,
         OutSync0, OutTakeKick, OutKick, InRead, InFail, InCloseAll, InTakeKick, InKick
  <2> QED
    BY <2>1, <2>2
<1>8. ASSUME NEW t \in Transports PROVE ~Disconnect(t)
  BY <1>1 DEF Disconnect
<1> QED
  BY <1>2, <1>3, <1>4, <1>5, <1>6, <1>7, <1>8 DEF Next

LEMMA TableInit == Init => TableInv
<1> SUFFICES ASSUME Init PROVE TableInv
  OBVIOUS
<1> QED
  BY DEF Init, TableInv

LEMMA TableHolds == ASSUME Tcp = {}, MaxDisconnects = 0 PROVE Spec => [](IInv /\ TableInv)
<1>1. IInv /\ TableInv /\ [Next]_vars => (IInv /\ TableInv)'
  BY StepInv, TableStep
<1> QED
  BY <1>1, InitInv, TableInit, PTL DEF Spec

\* "The remove closes one half of the socket pair. The close closes the other half": with
\* USB devices no removal takes a descriptor of another transport, whose threads still
\* use it, for a table of any size, used before or full.
THEOREM DescriptorsSafe ==
    ASSUME Tcp = {}, MaxDisconnects = 0 PROVE Spec => []DescriptorsIntact
<1>1. IInv /\ TableInv => DescriptorsIntact
  BY OpenIfListed DEF DescriptorsIntact
<1> QED
  BY <1>1, TableHolds, PTL

-----------------------------------------------------------------------------
(* The handshake *)

\* A queue of packets with one more at its end.
LEMMA QAppend ==
    ASSUME NEW q \in Seq(Packets), NEW p \in Packets
    PROVE  /\ Append(q, p) \in Seq(Packets) /\ Append(q, p) # << >>
           /\ q = << >> => Append(q, p)[1] = p
           /\ q # << >> => Append(q, p)[1] = q[1]
           /\ Has(Append(q, p), "SYNC0") <=> Has(q, "SYNC0") \/ p = "SYNC0"
           /\ ~Has(q, "SYNC0") => EndsWithSync0(Append(q, p))
<1> DEFINE r == Append(q, p)
<1>1. /\ r \in Seq(Packets) /\ Len(r) = Len(q) + 1 /\ r[Len(q) + 1] = p
      /\ \A i \in 1..Len(q) : r[i] = q[i]
  BY AppendProperties
<1>2. Len(q) \in Nat /\ (q = << >> <=> Len(q) = 0) /\ (r = << >> <=> Len(r) = 0)
  BY <1>1, LenProperties, EmptySeq
<1> HIDE DEF r
<1>3. r # << >> /\ (q = << >> => r[1] = p) /\ (q # << >> => r[1] = q[1])
  BY <1>1, <1>2
<1>4. Has(r, "SYNC0") <=> Has(q, "SYNC0") \/ p = "SYNC0"
  BY <1>1, <1>2 DEF Has
<1>5. ~Has(q, "SYNC0") => EndsWithSync0(r)
  BY <1>1, <1>2 DEF Has, EndsWithSync0
<1> QED
  BY <1>1, <1>3, <1>4, <1>5 DEF r

\* A queue of packets without its first.
LEMMA QTail ==
    ASSUME NEW q \in Seq(Packets), q # << >>
    PROVE  /\ Head(q) = q[1] /\ Head(q) \in Packets /\ Tail(q) \in Seq(Packets)
           /\ Has(q, "SYNC0") <=> Head(q) = "SYNC0" \/ Has(Tail(q), "SYNC0")
           /\ EndsWithSync0(q) => EndsWithSync0(Tail(q))
           /\ EndsWithSync0(q) /\ Head(q) = "SYNC0" => Tail(q) = << >>
<1> DEFINE r == Tail(q)
<1>1. /\ Head(q) = q[1] /\ Head(q) \in Packets /\ r \in Seq(Packets) /\ Len(r) = Len(q) - 1
      /\ \A i \in 1..Len(r) : r[i] = q[i + 1]
  BY HeadTailProperties
<1>2. /\ Len(q) \in Nat /\ Len(q) # 0 /\ (r = << >> <=> Len(r) = 0)
  BY <1>1, LenProperties, EmptySeq
<1> HIDE DEF r
<1>3. Has(q, "SYNC0") <=> Head(q) = "SYNC0" \/ Has(r, "SYNC0")
  <2>1. ASSUME NEW i \in 1..Len(q), q[i] = "SYNC0"
        PROVE  Head(q) = "SYNC0" \/ Has(r, "SYNC0")
    <3>1. CASE i = 1
      BY <1>1, <2>1, <3>1
    <3>2. CASE i # 1
      <4>1. i - 1 \in 1..Len(r) /\ r[i - 1] = q[i]
        BY <1>1, <1>2, <3>2
      <4> QED
        BY <2>1, <4>1 DEF Has
    <3> QED
      BY <3>1, <3>2
  <2>2. ASSUME NEW i \in 1..Len(r), r[i] = "SYNC0" PROVE Has(q, "SYNC0")
    <3>1. i + 1 \in 1..Len(q) /\ q[i + 1] = "SYNC0"
      BY <1>1, <1>2, <2>2
    <3> QED
      BY <3>1 DEF Has
  <2>3. Head(q) = "SYNC0" => Has(q, "SYNC0")
    BY <1>1, <1>2 DEF Has
  <2> QED
    BY <2>1, <2>2, <2>3 DEF Has
<1>4. EndsWithSync0(q) => EndsWithSync0(r)
  <2> SUFFICES ASSUME EndsWithSync0(q), NEW i \in 1..Len(r), r[i] = "SYNC0" PROVE i = Len(r)
    BY DEF EndsWithSync0
  <2>1. i + 1 \in 1..Len(q) /\ q[i + 1] = "SYNC0"
    BY <1>1, <1>2
  <2>2. i + 1 = Len(q)
    BY <2>1 DEF EndsWithSync0
  <2> QED
    BY <1>1, <1>2, <2>2
<1>5. EndsWithSync0(q) /\ Head(q) = "SYNC0" => r = << >>
  BY <1>1, <1>2 DEF EndsWithSync0
<1> QED
  BY <1>1, <1>3, <1>4, <1>5 DEF r

\* A queue of packets followed by the answers of the main thread.
LEMMA QConcat ==
    ASSUME NEW q \in Seq(Packets), NEW r \in Seq(Packets)
    PROVE  /\ q \o r \in Seq(Packets)
           /\ q = << >> => q \o r = r
           /\ q # << >> => q \o r # << >> /\ (q \o r)[1] = q[1]
           /\ Has(q \o r, "SYNC0") <=> Has(q, "SYNC0") \/ Has(r, "SYNC0")
<1> DEFINE s == q \o r
<1>1. /\ s \in Seq(Packets) /\ Len(s) = Len(q) + Len(r)
      /\ \A i \in 1..Len(s) : s[i] = IF i <= Len(q) THEN q[i] ELSE r[i - Len(q)]
  BY ConcatProperties
<1>2. /\ Len(q) \in Nat /\ Len(r) \in Nat
      /\ (q = << >> <=> Len(q) = 0) /\ (s = << >> <=> Len(s) = 0)
  BY <1>1, LenProperties, EmptySeq
<1>3. q = << >> => s = r
  BY ConcatEmptySeq
<1> HIDE DEF s
<1>4. q # << >> => s # << >> /\ s[1] = q[1]
  BY <1>1, <1>2
<1>5. ASSUME Has(s, "SYNC0") PROVE Has(q, "SYNC0") \/ Has(r, "SYNC0")
  <2>1. PICK i \in 1..Len(s) : s[i] = "SYNC0"
    BY <1>5 DEF Has
  <2>2. CASE i <= Len(q)
    <3>1. i \in 1..Len(q) /\ q[i] = "SYNC0"
      BY <1>1, <1>2, <2>1, <2>2
    <3> QED
      BY <3>1 DEF Has
  <2>3. CASE ~(i <= Len(q))
    <3>1. i - Len(q) \in 1..Len(r) /\ r[i - Len(q)] = "SYNC0"
      BY <1>1, <1>2, <2>1, <2>3
    <3> QED
      BY <3>1 DEF Has
  <2> QED
    BY <2>2, <2>3
<1>6. ASSUME NEW i \in 1..Len(q), q[i] = "SYNC0" PROVE Has(s, "SYNC0")
  <2>1. i \in 1..Len(s) /\ s[i] = "SYNC0"
    BY <1>1, <1>2, <1>6
  <2> QED
    BY <2>1 DEF Has
<1>7. ASSUME NEW i \in 1..Len(r), r[i] = "SYNC0" PROVE Has(s, "SYNC0")
  <2>1. i + Len(q) \in 1..Len(s) /\ ~(i + Len(q) <= Len(q)) /\ (i + Len(q)) - Len(q) = i
    BY <1>1, <1>2
  <2>2. s[i + Len(q)] = r[(i + Len(q)) - Len(q)]
    BY <1>1, <2>1
  <2> QED
    BY <1>7, <2>1, <2>2 DEF Has
<1>8. Has(s, "SYNC0") <=> Has(q, "SYNC0") \/ Has(r, "SYNC0")
  BY <1>5, <1>6, <1>7 DEF Has
<1> QED
  BY <1>1, <1>3, <1>4, <1>8 DEF s

\* The first answer to SYNC(1) is SYNC(1), and SYNC(0) answers SYNC(0) only.
LEMMA RepliesOK ==
    ASSUME NEW p \in Packets, NEW on \in BOOLEAN, NEW r \in Replies(p, on)
    PROVE  /\ r \in Seq(Packets)
           /\ p = "SYNC1" => r # << >> /\ r[1] = "SYNC1"
           /\ Has(r, "SYNC0") => p = "SYNC0"
           /\ p = "SYNC0" => r = <<"SYNC0">>
           /\ p = "CNXN" => r = << >>
<1>1. CASE p = "SYNC1"
  <2>1. r = <<"SYNC1", "CNXN">>
    BY <1>1 DEF Replies
  <2>2. r \in Seq(Packets) /\ Len(r) = 2 /\ r[1] = "SYNC1" /\ r[2] = "CNXN" /\ r # << >>
    BY <2>1 DEF Packets
  <2> QED
    BY <1>1, <2>2 DEF Has
<1>2. CASE p = "SYNC0"
  <2>1. r = <<"SYNC0">>
    BY <1>2 DEF Replies
  <2> QED
    BY <1>2, <2>1 DEF Packets
<1>3. CASE p \in {"DATA", "CNXN"}
  <2>1. r = << >> \/ (r = <<"DATA">> /\ p = "DATA")
    BY <1>3 DEF Replies
  <2>2. CASE r = << >>
    BY <1>3, <2>2 DEF Has
  <2>3. CASE r = <<"DATA">> /\ p = "DATA"
    <3>1. r \in Seq(Packets) /\ Len(r) = 1 /\ r[1] = "DATA"
      BY <2>3 DEF Packets
    <3> QED
      BY <2>3, <3>1 DEF Has
  <2> QED
    BY <2>1, <2>2, <2>3
<1> QED
  BY <1>1, <1>2, <1>3 DEF Packets

\* A step that touches one transport leaves the handshakes of the others alone.
LEMMA ShakeElsewhere ==
    ASSUME ShakeInv, NEW t \in Transports, ShakeOf(t)', ignored' = 0,
           \A u \in Transports : u # t =>
              /\ outpc'[u] = outpc[u] /\ inpc'[u] = inpc[u] /\ active'[u] = active[u]
              /\ online'[u] = online[u] /\ toMain'[u] = toMain[u] /\ toInput'[u] = toInput[u]
    PROVE  ShakeInv'
<1>1. ASSUME NEW u \in Transports, u # t PROVE ShakeOf(u)'
  <2>1. /\ outpc'[u] = outpc[u] /\ inpc'[u] = inpc[u] /\ active'[u] = active[u]
        /\ online'[u] = online[u] /\ toMain'[u] = toMain[u] /\ toInput'[u] = toInput[u]
    BY <1>1
  <2>2. ShakeOf(u)
    BY DEF ShakeInv
  <2> QED
    BY <2>1, <2>2 DEF ShakeOf, Fresh, Pumping
<1> QED
  BY <1>1 DEF ShakeInv

\* A transport with a thread that has not left is registered.
LEMMA LiveListed ==
    ASSUME IInv, NEW t \in Transports, Born(t), t \notin freed
    PROVE  t \in listed
  BY DEF IInv, RefInv, RefOf

LEMMA OutShake ==
    ASSUME IInv, TableInv, ShakeInv, NEW t \in Transports, t \notin freed,
           OutPump(t) \/ Output(t)
    PROVE  ShakeInv'
<1> USE DEF OutStep, list, counts, table, queues, flags, bounds
<1>0. /\ outpc \in [Transports -> OutPcs] /\ toMain \in [Transports -> Seq(Packets)]
      /\ toMain[t] \in Seq(Packets) /\ ShakeOf(t) /\ ignored = 0
  BY DEF IInv, TypeOK, ShakeInv
<1>1. FdOpen(t)
  <2>1. Born(t)
    BY DEF Born, OutPump, Output, OutSync, OutFail, OutSync0, OutTakeKick, OutKick, OutUnref
  <2> QED
    BY <2>1, LiveListed, OpenIfListed
<1>2. UNCHANGED <<inpc, active, online, toInput, ignored>>
  BY DEF OutPump, Output, OutSync, OutFail, OutSync0, OutTakeKick, OutKick, OutUnref
\* A packet is written.
<1>3. ASSUME NEW p \in Packets, NEW ok \in OutPcs, OutWrite(t, p, ok),
             outpc[t] = "sync" => p = "SYNC1" /\ ok = "pump",
             outpc[t] # "sync" => outpc[t] \in {"pump", "sync0"},
             p = "SYNC0" <=> outpc[t] = "sync0",
             ok = IF outpc[t] = "sync0" THEN "kick" ELSE "pump"
      PROVE  ShakeInv'
  <2>1. /\ toMain' = [toMain EXCEPT ![t] = Append(toMain[t], p)]
        /\ outpc' = [outpc EXCEPT ![t] = ok]
    BY <1>1, <1>3 DEF OutWrite
  <2>2. toMain'[t] = Append(toMain[t], p) /\ outpc'[t] = ok
    BY <1>0, <2>1
  <2>3. /\ toMain'[t] # << >>
        /\ toMain[t] = << >> => toMain'[t][1] = p
        /\ toMain[t] # << >> => toMain'[t][1] = toMain[t][1]
        /\ Has(toMain'[t], "SYNC0") <=> Has(toMain[t], "SYNC0") \/ p = "SYNC0"
        /\ ~Has(toMain[t], "SYNC0") => EndsWithSync0(toMain'[t])
    BY <1>0, <2>2, QAppend
  <2>4. ShakeOf(t)'
    BY <1>0, <1>2, <1>3, <2>2, <2>3 DEF ShakeOf, Fresh, Pumping
  <2> QED
    BY <1>0, <1>2, <2>1, <2>4, ShakeElsewhere
\* A step on the way out.
<1>4. ASSUME toMain' = toMain, NEW pc \in OutPcs, outpc' = [outpc EXCEPT ![t] = pc],
             outpc[t] \notin {"unborn", "sync"}, pc \notin {"unborn", "sync"},
             pc \in {"pump", "sync0"} => outpc[t] \in {"pump", "sync0"}
      PROVE  ShakeInv'
  <2>1. outpc'[t] = pc /\ toMain'[t] = toMain[t]
    BY <1>0, <1>4
  <2>2. ShakeOf(t)'
    BY <1>0, <1>2, <1>4, <2>1 DEF ShakeOf, Fresh, Pumping
  <2> QED
    BY <1>0, <1>2, <1>4, <2>2, ShakeElsewhere
<1>5. CASE OutSync(t)
  BY <1>3, <1>5 DEF OutSync, Packets, OutPcs
<1>6. CASE OutPump(t)
  <2>1. PICK p \in {"CNXN", "DATA"} : OutWrite(t, p, "pump")
    BY <1>6 DEF OutPump
  <2> QED
    BY <1>3, <1>6, <2>1 DEF OutPump, Packets, OutPcs
<1>7. CASE OutSync0(t)
  BY <1>3, <1>7 DEF OutSync0, Packets, OutPcs
<1>8. CASE OutFail(t)
  BY <1>4, <1>8 DEF OutFail, OutPcs
<1>9. CASE OutTakeKick(t) \/ OutKick(t) \/ OutUnref(t)
  BY <1>4, <1>9 DEF OutTakeKick, OutKick, OutUnref, OutPcs
<1> QED
  BY <1>5, <1>6, <1>7, <1>8, <1>9 DEF Output

LEMMA InShake ==
    ASSUME IInv, TableInv, ShakeInv, NEW t \in Transports, t \notin freed, Input(t)
    PROVE  ShakeInv'
<1> USE DEF InStep, list, counts, table, queues, flags, bounds
<1>0. /\ inpc \in [Transports -> InPcs] /\ toInput \in [Transports -> Seq(Packets)]
      /\ active \in [Transports -> BOOLEAN]
      /\ toInput[t] \in Seq(Packets) /\ ShakeOf(t) /\ ignored = 0
  BY DEF IInv, TypeOK, ShakeInv
<1>1. FdOpen(t) /\ SockOpen(t)
  <2>1. Born(t)
    BY DEF Born, IInv, RefInv, RefOf, Input, InRead, InFail, InCloseAll, InTakeKick, InKick, InUnref
  <2> QED
    BY <2>1, LiveListed, OpenIfListed
<1>2. UNCHANGED <<outpc, online, toMain>>
  BY DEF Input, InRead, InFail, InCloseAll, InTakeKick, InKick, InUnref
<1>3. CASE InRead(t)
  <2> DEFINE p == Head(toInput[t])
  <2>1. /\ inpc[t] = "read" /\ toInput[t] # << >>
        /\ toInput' = [toInput EXCEPT ![t] = Tail(toInput[t])]
        /\ inpc' = [inpc EXCEPT ![t] = IF p = "SYNC0" THEN "close_all" ELSE "read"]
        /\ active' = [active EXCEPT ![t] = active[t] \/ p = "SYNC1"]
        /\ ignored' = IF p \in {"SYNC0", "SYNC1"} \/ active[t] THEN ignored ELSE ignored + 1
    BY <1>3 DEF InRead
  <2>2. /\ p = toInput[t][1] /\ Tail(toInput[t]) \in Seq(Packets)
        /\ Has(toInput[t], "SYNC0") <=> p = "SYNC0" \/ Has(Tail(toInput[t]), "SYNC0")
    BY <1>0, <2>1, QTail
  <2> HIDE DEF p
  <2>3. /\ toInput'[t] = Tail(toInput[t]) /\ active'[t] = (active[t] \/ p = "SYNC1")
        /\ inpc'[t] = IF p = "SYNC0" THEN "close_all" ELSE "read"
    BY <1>0, <2>1
  <2>4. active'[t] /\ ignored' = 0
    BY <1>0, <2>1, <2>2, <2>3 DEF ShakeOf, Fresh
  <2>5. ShakeOf(t)'
    BY <1>0, <1>2, <2>1, <2>2, <2>3, <2>4 DEF ShakeOf, Fresh, Pumping
  <2> QED
    BY <1>0, <1>2, <2>1, <2>4, <2>5, ShakeElsewhere
<1>4. ~InFail(t)
  <2>1. CASE toInput[t] = << >>
    BY <1>1 DEF InFail
  <2> QED
    BY <1>1 DEF InFail
<1>5. ASSUME NEW pc \in InPcs, inpc' = [inpc EXCEPT ![t] = pc], pc \notin {"unborn", "read"},
             inpc[t] \notin {"unborn", "read"}, UNCHANGED <<toInput, active, ignored>>
      PROVE  ShakeInv'
  <2>1. inpc'[t] = pc
    BY <1>0, <1>5
  <2>2. ShakeOf(t)'
    BY <1>0, <1>2, <1>5, <2>1 DEF ShakeOf, Fresh, Pumping
  <2> QED
    BY <1>0, <1>2, <1>5, <2>2, ShakeElsewhere
<1>6. CASE InCloseAll(t) \/ InTakeKick(t) \/ InKick(t) \/ InUnref(t)
  BY <1>5, <1>6 DEF InCloseAll, InTakeKick, InKick, InUnref, InPcs
<1> QED
  BY <1>3, <1>4, <1>6 DEF Input

LEMMA EmptyQueue == ~Has(<< >>, "SYNC0") /\ EndsWithSync0(<< >>)
  BY DEF Has, EndsWithSync0

LEMMA PacketShake ==
    ASSUME IInv, TableInv, ShakeInv, NEW t \in Transports, MainPacket(t)
    PROVE  ShakeInv'
<1> USE DEF list, counts, table, queues, flags, bounds
<1> DEFINE p == Head(toMain[t])
<1>0. /\ toMain \in [Transports -> Seq(Packets)] /\ toInput \in [Transports -> Seq(Packets)]
      /\ online \in [Transports -> BOOLEAN] /\ online[t] \in BOOLEAN
      /\ toMain[t] \in Seq(Packets) /\ toInput[t] \in Seq(Packets)
      /\ ShakeOf(t) /\ ignored = 0
  BY DEF IInv, TypeOK, ShakeInv
<1>1. /\ SockOpen(t) /\ toMain[t] # << >> /\ toMain' = [toMain EXCEPT ![t] = Tail(toMain[t])]
      /\ online' = [online EXCEPT ![t] = OnlineAfter(p, online[t])]
      /\ UNCHANGED <<outpc, inpc, active, ignored>>
  BY DEF MainPacket
<1>2. /\ p = toMain[t][1] /\ p \in Packets
      /\ Has(toMain[t], "SYNC0") <=> p = "SYNC0" \/ Has(Tail(toMain[t]), "SYNC0")
      /\ EndsWithSync0(Tail(toMain[t]))
      /\ p = "SYNC0" => Tail(toMain[t]) = << >>
  BY <1>0, <1>1, QTail DEF ShakeOf
<1>3. PICK r \in Replies(p, online[t]) : Send(t, r)
  BY DEF MainPacket
<1> HIDE DEF p
<1>4. toInput' = [toInput EXCEPT ![t] = toInput[t] \o r]
  BY <1>1, <1>3 DEF Send
<1>5. /\ r \in Seq(Packets)
      /\ p = "SYNC1" => r # << >> /\ r[1] = "SYNC1"
      /\ Has(r, "SYNC0") => p = "SYNC0"
  BY <1>0, <1>2, <1>3, RepliesOK
<1>6. /\ toInput[t] = << >> => toInput[t] \o r = r
      /\ toInput[t] # << >> => toInput[t] \o r # << >> /\ (toInput[t] \o r)[1] = toInput[t][1]
      /\ Has(toInput[t] \o r, "SYNC0") <=> Has(toInput[t], "SYNC0") \/ Has(r, "SYNC0")
  BY <1>0, <1>5, QConcat, Zenon
<1>7. /\ toMain'[t] = Tail(toMain[t]) /\ toInput'[t] = toInput[t] \o r
      /\ online'[t] = (p = "CNXN" \/ (online[t] /\ p # "SYNC0"))
  BY <1>0, <1>1, <1>4 DEF OnlineAfter
<1>8. Fresh(t) => p = "SYNC1"
  BY <1>0, <1>1, <1>2 DEF ShakeOf
<1>9. ~Fresh(t)'
  BY <1>1, <1>5, <1>6, <1>7, <1>8 DEF Fresh
<1>10. outpc[t] \notin {"unborn", "sync"} /\ inpc[t] \in {"unborn", "read"}
       /\ ~Has(toInput[t], "SYNC0")
  BY <1>0, <1>1 DEF ShakeOf
<1>11. Has(toInput'[t], "SYNC0") => p = "SYNC0"
  BY <1>5, <1>6, <1>7, <1>10
<1>12. ASSUME ~active'[t] PROVE toInput'[t][1] = "SYNC1"
  <2>1. CASE toInput[t] = << >>
    <3>1. toInput'[t] = r /\ p = "SYNC1"
      BY <1>1, <1>6, <1>7, <1>8, <1>12, <2>1, Zenon DEF Fresh
    <3> QED
      BY <1>5, <3>1, Zenon
  <2>2. CASE toInput[t] # << >>
    <3>1. toInput'[t][1] = toInput[t][1]
      BY <1>6, <1>7, <2>2, Zenon
    <3> QED
      BY <1>0, <1>1, <1>12, <2>2, <3>1 DEF ShakeOf
  <2> QED
    BY <2>1, <2>2
<1>13. ShakeOf(t)'
  BY <1>0, <1>1, <1>2, <1>7, <1>9, <1>10, <1>11, <1>12 DEF ShakeOf, Pumping
<1> QED
  BY <1>0, <1>1, <1>4, <1>13, ShakeElsewhere

LEMMA SendShake ==
    ASSUME IInv, ShakeInv, NEW t \in Transports, MainSend(t)
    PROVE  ShakeInv'
<1> USE DEF list, counts, table, queues, flags, bounds
<1> DEFINE d == <<"DATA">>
<1>0. /\ toInput \in [Transports -> Seq(Packets)] /\ toInput[t] \in Seq(Packets)
      /\ ShakeOf(t) /\ ignored = 0
  BY DEF IInv, TypeOK, ShakeInv
<1>1. /\ online[t] /\ Send(t, d)
      /\ UNCHANGED <<outpc, inpc, active, ignored, online, toMain>>
  BY DEF MainSend
<1>2. d \in Seq(Packets) /\ d # << >> /\ ~Has(d, "SYNC0")
  BY DEF Packets, Has
<1> HIDE DEF d
<1>3. toInput' = toInput \/ toInput' = [toInput EXCEPT ![t] = toInput[t] \o d]
  BY <1>1 DEF Send
<1>4. CASE toInput' = toInput
  BY <1>0, <1>1, <1>4, ShakeElsewhere DEF ShakeOf, Fresh, Pumping
<1>5. CASE toInput' = [toInput EXCEPT ![t] = toInput[t] \o d]
  <2>1. /\ toInput[t] = << >> => toInput[t] \o d = d
        /\ toInput[t] # << >> => toInput[t] \o d # << >> /\ (toInput[t] \o d)[1] = toInput[t][1]
        /\ Has(toInput[t] \o d, "SYNC0") <=> Has(toInput[t], "SYNC0") \/ Has(d, "SYNC0")
    BY <1>0, <1>2, QConcat
  <2>2. toInput'[t] = toInput[t] \o d
    BY <1>0, <1>5
  <2>3. ~Fresh(t) /\ ~Has(toInput[t], "SYNC0") /\ inpc[t] \in {"unborn", "read"}
    BY <1>0, <1>1 DEF ShakeOf
  <2>4. ShakeOf(t)'
    BY <1>0, <1>1, <1>2, <2>1, <2>2, <2>3 DEF ShakeOf, Fresh, Pumping
  <2> QED
    BY <1>0, <1>1, <1>5, <2>4, ShakeElsewhere
<1> QED
  BY <1>3, <1>4, <1>5

LEMMA MainRegShake == ASSUME IInv, ShakeInv, MainReg PROVE ShakeInv'
<1> USE DEF list, counts, table, queues, flags, bounds
<1>0. PICK h \in Transports : h = Head(regq)[1]
  BY HeadRecord DEF MainReg, MainRegister, MainRegisterFails, MainRemove, IInv
<1>1. /\ outpc \in [Transports -> OutPcs] /\ inpc \in [Transports -> InPcs]
      /\ toMain \in [Transports -> Seq(Packets)] /\ online \in [Transports -> BOOLEAN]
      /\ ShakeOf(h) /\ ignored = 0
  BY <1>0 DEF IInv, TypeOK, ShakeInv
<1>2. CASE MainRegister
  <2>1. ~Born(h)
    BY <1>0, <1>2, HeadOK DEF MainRegister, IInv, RecordOK
  <2>2. outpc[h] = "unborn" /\ inpc[h] = "unborn"
    BY <1>0, <2>1 DEF IInv, RefInv, RefOf, Born
  <2>3. /\ outpc' = [outpc EXCEPT ![h] = "sync"] /\ inpc' = [inpc EXCEPT ![h] = "read"]
        /\ UNCHANGED <<active, online, ignored, toMain, toInput>>
    BY <1>0, <1>2 DEF MainRegister
  <2>4. outpc'[h] = "sync" /\ inpc'[h] = "read"
    BY <1>0, <1>1, <2>3
  <2>5. Fresh(h) /\ toMain[h] = << >> /\ ~online[h]
    BY <1>1, <2>2 DEF ShakeOf
  <2>6. ~Has(toInput[h], "SYNC0") /\ ~Has(toMain[h], "SYNC0") /\ EndsWithSync0(toMain[h])
    BY <2>5, EmptyQueue, Zenon DEF Fresh
  <2>7. ShakeOf(h)'
    BY <2>3, <2>4, <2>5, <2>6 DEF ShakeOf, Fresh, Pumping
  <2> QED
    BY <1>0, <1>1, <2>3, <2>7, ShakeElsewhere
<1>3. CASE MainRemove
  <2>1. Finished(h)
    BY <1>0, <1>3, HeadOK DEF MainRemove, IInv, RecordOK
  <2>2. /\ toMain' = [toMain EXCEPT ![h] = << >>] /\ online' = [online EXCEPT ![h] = FALSE]
        /\ UNCHANGED <<active, ignored, outpc, inpc, toInput>>
    BY <1>0, <1>3 DEF MainRemove
  <2>3. toMain'[h] = << >> /\ ~online'[h]
    BY <1>0, <1>1, <2>2
  <2>4. active[h]
    BY <1>1, <2>1 DEF ShakeOf, Finished
  <2>5. EndsWithSync0(toMain'[h])
    BY <2>3, EmptyQueue, Zenon
  <2>6. ShakeOf(h)'
    BY <2>1, <2>2, <2>3, <2>4, <2>5 DEF ShakeOf, Fresh, Pumping, Finished
  <2> QED
    BY <1>0, <1>1, <2>2, <2>6, ShakeElsewhere
<1>4. CASE MainRegisterFails
  BY <1>0, <1>1, <1>4, ShakeElsewhere DEF MainRegisterFails, ShakeOf, Fresh, Pumping
<1> QED
  BY <1>2, <1>3, <1>4 DEF MainReg

LEMMA ShakeStep ==
    ASSUME MaxDisconnects = 0, IInv, TableInv, ShakeInv, [Next]_vars
    PROVE  ShakeInv'
<1> USE DEF list, counts, table, queues, flags, bounds
<1>1. asked \in Nat /\ ~(asked < MaxDisconnects)
  BY DEF IInv, TypeOK
<1>2. ~MainCall
  <2>1. main[1] = "idle" \/ main[1] = "fatal"
    BY DEF IInv, QuietMain, Idle, Fatal
  <2> QED
    BY <2>1 DEF MainCall, MainTakeKick, MainKick, MainUnref, MainWalk
<1>3. ASSUME UNCHANGED <<outpc, inpc, active, online, ignored, toMain, toInput>> PROVE ShakeInv'
  BY <1>3 DEF ShakeInv, ShakeOf, Fresh, Pumping
<1>4. CASE UNCHANGED vars
  BY <1>3, <1>4 DEF vars
<1>5. ~DisconnectAll
  BY <1>1 DEF DisconnectAll
<1>6. ASSUME NEW t \in Transports, Register(t) \/ Unplug(t) PROVE ShakeInv'
  BY <1>3, <1>6 DEF Register, Unplug
<1>7. ASSUME NEW t \in Transports PROVE ~Disconnect(t)
  BY <1>1 DEF Disconnect
<1>8. ASSUME NEW t \in Transports, ThreadStep(t) PROVE ShakeInv'
  BY <1>8, OutShake, InShake DEF ThreadStep
<1> QED
  BY <1>2, <1>4, <1>5, <1>6, <1>7, <1>8, MainRegShake, PacketShake, SendShake, Zenon DEF Next

LEMMA ShakeInit == Init => ShakeInv
<1> SUFFICES ASSUME Init PROVE ShakeInv
  OBVIOUS
<1>1. ignored = 0
  BY DEF Init
<1>2. ASSUME NEW t \in Transports PROVE ShakeOf(t)
  BY EmptyQueue DEF Init, ShakeOf, Fresh, Pumping
<1> QED
  BY <1>1, <1>2 DEF ShakeInv

\* The SYNC handshake with USB devices, for any number of transports and any traffic:
\* input_thread never ignores a packet, because SYNC(1) comes back before all others; and
\* the main thread has put the transport off-line, having read all its packets, before
\* input_thread closes its sockets.
THEOREM HandshakeHolds ==
    ASSUME Tcp = {}, MaxDisconnects = 0 PROVE Spec => []Handshake
<1> DEFINE Inv == IInv /\ TableInv /\ ShakeInv
<1>1. Init => Inv
  BY InitInv, TableInit, ShakeInit
<1>2. Inv /\ [Next]_vars => Inv'
  BY StepInv, TableStep, ShakeStep
<1>3. Inv => Handshake
  <2> SUFFICES ASSUME Inv PROVE NothingIgnored /\ OfflineLast
    BY DEF Handshake
  <2>1. NothingIgnored
    BY DEF ShakeInv, NothingIgnored
  <2>2. ASSUME NEW t \in Transports
        PROVE  /\ inpc[t] \notin {"unborn", "read"} => ~online[t]
               /\ \A i \in DOMAIN toMain[t] : toMain[t][i] = "SYNC0" => i = Len(toMain[t])
    <3>1. ShakeOf(t) /\ toMain[t] \in Seq(Packets)
      BY DEF ShakeInv, IInv, TypeOK
    <3>2. DOMAIN toMain[t] = 1..Len(toMain[t])
      BY <3>1, LenProperties
    <3> QED
      BY <3>1, <3>2 DEF ShakeOf, EndsWithSync0
  <2> QED
    BY <2>1, <2>2 DEF OfflineLast
<1> QED
  BY <1>1, <1>2, <1>3, PTL DEF Spec
=============================================================================
