--------------------------- MODULE Sysdeps_proofs ---------------------------
(***************************************************************************)
(* Proofs about what sysdeps_win32.cpp makes of Windows.  BipBuffer, one   *)
(* direction of a socketpair: for every size of the buffer, every set of   *)
(* lengths and every set of writers and closers allowed by PipeUse.        *)
(* FdEvent, the event loop: for any finite set of descriptors and any      *)
(* traffic.  The calls of a callback work on a record of the state (X), so *)
(* the invariant is stated of such a record, and each call is shown to     *)
(* keep it.  WaitForAll, the wait in the loop: for any number of handles,  *)
(* any chunk size and any split of the handles into sockets and            *)
(* socketpairs.                                                            *)
(***************************************************************************)
EXTENDS BipBuffer, FdEvent, WaitForAll, Lists_proofs

-----------------------------------------------------------------------------
(* Socketpair buffers *)

\* The thread inside the critical section is its owner.
LockInv == \A t \in BipThreads : bpc[t] \in Critical <=> lock = t

\* Shape of the two regions at every moment, inside the critical section too.
RegionInv ==
    /\ b_end <= a_start /\ a_start <= a_end
    /\ b_end > 0 => a_end = BIP_BUFFER_SIZE
    /\ a_start = a_end => a_start = 0 /\ b_end = 0

\* A thread that has asked for bytes asked for at least one.
LenInv == /\ bpc[Reader] \in ReaderPcs \ {"idle"} => len[Reader] \in Lens
          /\ \A w \in Writers : bpc[w] \in WriterPcs \ {"idle"} => len[w] \in Lens

\* The flags never promise too much; they promise too little only between a copy
\* and the label Exit.
FlagInv ==
    /\ can_read => a_start < a_end
    /\ can_write => b_end < a_start \/ a_end < BIP_BUFFER_SIZE
    /\ ~can_read /\ a_start < a_end =>
         \E w \in Writers : bpc[w] \in {"w_reset", "w_exit"}
    /\ ~can_write /\ (b_end < a_start \/ a_end < BIP_BUFFER_SIZE) =>
         bpc[Reader] \in {"r_reset", "r_exit"}
    /\ bpc[Reader] = "r_reset" => ~can_read
    /\ bpc[Reader] \in {"r_reset", "r_exit"} =>
         b_end < a_start \/ a_end < BIP_BUFFER_SIZE
    /\ \A w \in Writers :
         /\ bpc[w] = "w_reset" => ~can_write
         /\ bpc[w] \in {"w_reset", "w_exit"} => a_start < a_end

\* A set flag has its event signalled, or about to be.
EventInv ==
    /\ can_read => evt_read \/ \E w \in Writers : bpc[w] = "w_set"
    /\ can_write => evt_write \/ bpc[Reader] = "r_set"

\* A thread that waits on a closed buffer is about to be woken.
BipWaitInv ==
    /\ closed => Closers # {}
    /\ bpc[Reader] = "r_wait" /\ closed =>
         \/ evt_read
         \/ \E w \in Writers : bpc[w] = "w_set"
         \/ \E c \in Closers : bpc[c] \in {"c_read", "c_setr"}
    /\ \A w \in Writers : bpc[w] = "w_wait" /\ closed =>
         \/ evt_write
         \/ bpc[Reader] = "r_set"
         \/ \E c \in Closers : bpc[c] \in {"c_read", "c_setr", "c_write", "c_setw"}

BipIInv == /\ BipType /\ LockInv /\ RegionInv /\ LenInv /\ FlagInv
        /\ EventInv /\ BipWaitInv /\ InOrder

-----------------------------------------------------------------------------
\* The assumptions on the constants, as the provers use them.
LEMMA Positive == /\ BIP_BUFFER_SIZE \in Nat /\ BIP_BUFFER_SIZE > 0
                  /\ \A n \in Lens : n \in Nat /\ n > 0
BY SizeAssumption

\* What a write adds fits in the room that is left, and is all of it or all
\* that was asked.
LEMMA WriteCount ==
    ASSUME BipType, RegionInv, NEW n \in Lens,
           b_end < a_start \/ a_end < BIP_BUFFER_SIZE
    PROVE  /\ ToA(n) \in Nat /\ ToB(n) \in Nat
           /\ a_end + ToA(n) <= BIP_BUFFER_SIZE
           /\ b_end + ToB(n) <= a_start
           /\ ToB(n) > 0 => a_end + ToA(n) = BIP_BUFFER_SIZE
           /\ ToA(n) + ToB(n) = LesserOf(n, BIP_BUFFER_SIZE - Fill)
           /\ FullAfter(n) <=> a_end + ToA(n) = BIP_BUFFER_SIZE /\ b_end + ToB(n) = a_start
BY Positive DEF BipType, RegionInv, ToA, ToB, LesserOf, Fill, FullAfter

\* What a read takes is all there is, or all that was asked.
LEMMA ReadCount ==
    ASSUME BipType, RegionInv, NEW n \in Lens
    PROVE  /\ FromA(n) \in Nat /\ FromB(n) \in Nat
           /\ a_start + FromA(n) <= a_end
           /\ FromB(n) <= b_end
           /\ FromB(n) > 0 => a_start + FromA(n) = a_end
           /\ FromA(n) + FromB(n) = LesserOf(n, Fill)
BY Positive DEF BipType, RegionInv, FromA, FromB, LesserOf, Fill

\* Only the two copies touch the regions, the buffer and the byte counts.
LEMMA OnlyCopiesMoveBytes ==
    ASSUME [BipNext]_bipVars, ~ReadCopy, \A w \in Writers : ~WriteCopy(w)
    PROVE  UNCHANGED <<regions, stream>>
BY DEF BipNext, bipVars, regions, stream, ReadCall, ReadStep, ReadEmpty, ReadTest,
       ReadWake, ReadWoken, ReadReset, ReadExit, ReadSet, WriteCall, WriteStep,
       WriteFull, WriteTest, WriteWake, WriteWoken, WriteReset, WriteExit, WriteSet,
       Close, CloseStep, CloseTestRead, CloseSetRead, CloseTestWrite, CloseSetWrite

\* What a copy finds: the bytes or the room its flag promises.
LEMMA WriteFinds ==
    ASSUME BipIInv, NEW w \in Writers, WriteCopy(w)
    PROVE  len[w] \in Lens /\ (b_end < a_start \/ a_end < BIP_BUFFER_SIZE)
BY DEF BipIInv, LenInv, FlagInv, WriteCopy, WriterPcs

LEMMA ReadFinds ==
    ASSUME BipIInv, ReadCopy
    PROVE  len[Reader] \in Lens /\ a_start < a_end
BY DEF BipIInv, LenInv, FlagInv, ReadCopy, ReaderPcs

\* The indices, as numbers.
LEMMA Numbers ==
    ASSUME BipIInv
    PROVE  /\ a_start \in Nat /\ a_end \in Nat /\ b_end \in Nat
           /\ a_end <= BIP_BUFFER_SIZE /\ wr \in Nat /\ rd \in Nat
           /\ b_end <= a_start /\ a_start <= a_end
           /\ b_end > 0 => a_end = BIP_BUFFER_SIZE
           /\ a_start = a_end => a_start = 0 /\ b_end = 0
           /\ wr = rd + (a_end - a_start) + b_end
BY Positive DEF BipIInv, BipType, RegionInv, InOrder, Fill

\* A write, in numbers: it adds ToA and then ToB bytes, together at least one.
LEMMA WriteNumbers ==
    ASSUME BipIInv, NEW w \in Writers, WriteCopy(w)
    PROVE  LET x == ToA(len[w])
               y == ToB(len[w])
           IN  /\ x \in Nat /\ y \in Nat /\ x + y > 0
               /\ x + y = LesserOf(len[w], BIP_BUFFER_SIZE - Fill)
               /\ a_end + x <= BIP_BUFFER_SIZE /\ b_end + y <= a_start
               /\ y > 0 => a_end + x = BIP_BUFFER_SIZE
               /\ a_start' = a_start /\ a_end' = a_end + x /\ b_end' = b_end + y
               /\ wr' = wr + x + y /\ rd' = rd
               /\ can_write' <=> ~(a_end' = BIP_BUFFER_SIZE /\ b_end' = a_start)
<1> DEFINE n == len[w]
<1>1. n \in Lens /\ (b_end < a_start \/ a_end < BIP_BUFFER_SIZE)
  BY WriteFinds
<1>2. BipType /\ RegionInv
  BY DEF BipIInv
<1>3. /\ ToA(n) \in Nat /\ ToB(n) \in Nat
      /\ a_end + ToA(n) <= BIP_BUFFER_SIZE
      /\ b_end + ToB(n) <= a_start
      /\ ToB(n) > 0 => a_end + ToA(n) = BIP_BUFFER_SIZE
      /\ ToA(n) + ToB(n) = LesserOf(n, BIP_BUFFER_SIZE - Fill)
      /\ FullAfter(n) <=> a_end + ToA(n) = BIP_BUFFER_SIZE /\ b_end + ToB(n) = a_start
  BY <1>1, <1>2, WriteCount
<1>4. ToA(n) + ToB(n) > 0
  <2>1. n \in Nat /\ n > 0
    BY <1>1, Positive
  <2>2. BIP_BUFFER_SIZE - Fill \in Nat /\ BIP_BUFFER_SIZE - Fill > 0
    BY <1>1, <1>2, Positive DEF BipType, RegionInv, Fill
  <2> QED
    BY <1>3, <2>1, <2>2 DEF LesserOf
<1>5. /\ a_start' = a_start /\ a_end' = a_end + ToA(n) /\ b_end' = b_end + ToB(n)
      /\ wr' = wr + ToA(n) + ToB(n) /\ rd' = rd
      /\ can_write' <=> ~FullAfter(n)
  BY DEF WriteCopy
<1> QED
  BY <1>3, <1>4, <1>5

\* A read, in numbers: it takes FromA and then FromB bytes, together at least
\* one, and leaves the regions in one of three ways.
LEMMA ReadNumbers ==
    ASSUME BipIInv, ReadCopy
    PROVE  LET x == FromA(len[Reader])
               y == FromB(len[Reader])
           IN  /\ x \in Nat /\ y \in Nat /\ x + y > 0
               /\ x + y = LesserOf(len[Reader], Fill)
               /\ a_start + x <= a_end /\ y <= b_end
               /\ \/ /\ a_start + x < a_end /\ y = 0
                     /\ a_start' = a_start + x /\ a_end' = a_end /\ b_end' = b_end
                     /\ can_read' = TRUE
                  \/ /\ a_start + x = a_end /\ y < b_end
                     /\ a_start' = y /\ a_end' = b_end /\ b_end' = 0
                     /\ can_read' = TRUE
                  \/ /\ a_start + x = a_end /\ y = b_end
                     /\ a_start' = 0 /\ a_end' = 0 /\ b_end' = 0
                     /\ can_read' = FALSE
               /\ wr' = wr /\ rd' = rd + x + y
<1> DEFINE n == len[Reader]
<1>1. n \in Lens /\ a_start < a_end
  BY ReadFinds
<1>2. BipType /\ RegionInv
  BY DEF BipIInv
<1>3. /\ FromA(n) \in Nat /\ FromB(n) \in Nat
      /\ a_start + FromA(n) <= a_end
      /\ FromB(n) <= b_end
      /\ FromB(n) > 0 => a_start + FromA(n) = a_end
      /\ FromA(n) + FromB(n) = LesserOf(n, Fill)
  BY <1>1, <1>2, ReadCount
<1>4. FromA(n) + FromB(n) > 0
  <2>1. n \in Nat /\ n > 0
    BY <1>1, Positive
  <2>2. Fill \in Nat /\ Fill > 0
    BY <1>1, <1>2, Positive DEF BipType, RegionInv, Fill
  <2> QED
    BY <1>3, <2>1, <2>2 DEF LesserOf
<1>5. wr' = wr /\ rd' = rd + FromA(n) + FromB(n)
  BY <1>3, Numbers DEF ReadCopy
<1>6. CASE a_start + FromA(n) < a_end
  <2>1. a_start + FromA(n) # a_end /\ FromB(n) = 0
    BY <1>3, <1>6, Numbers
  <2>2. a_start' = a_start + FromA(n) /\ a_end' = a_end /\ b_end' = b_end /\ can_read' = TRUE
    BY <2>1 DEF ReadCopy
  <2> QED
    BY <1>3, <1>4, <1>5, <1>6, <2>1, <2>2
<1>7. CASE a_start + FromA(n) = a_end /\ FromB(n) < b_end
  <2>1. FromB(n) # b_end
    BY <1>3, <1>7, Numbers
  <2>2. a_start' = FromB(n) /\ a_end' = b_end /\ b_end' = 0 /\ can_read' = TRUE
    BY <1>7, <2>1 DEF ReadCopy
  <2> QED
    BY <1>3, <1>4, <1>5, <1>7, <2>2
<1>8. CASE a_start + FromA(n) = a_end /\ FromB(n) = b_end
  <2>1. a_start' = 0 /\ a_end' = 0 /\ b_end' = 0 /\ can_read' = FALSE
    BY <1>8 DEF ReadCopy
  <2> QED
    BY <1>3, <1>4, <1>5, <1>8, <2>1
<1>9. \/ a_start + FromA(n) < a_end
      \/ a_start + FromA(n) = a_end /\ FromB(n) < b_end
      \/ a_start + FromA(n) = a_end /\ FromB(n) = b_end
  BY <1>3, Numbers
<1> QED
  BY <1>6, <1>7, <1>8, <1>9

LEMMA RegionStep == BipIInv /\ [BipNext]_bipVars => RegionInv'
<1> SUFFICES ASSUME BipIInv, [BipNext]_bipVars PROVE RegionInv'
  OBVIOUS
<1>1. ASSUME NEW w \in Writers, WriteCopy(w) PROVE RegionInv'
  <2> DEFINE x == ToA(len[w])
             y == ToB(len[w])
  <2>1. /\ x \in Nat /\ y \in Nat /\ x + y > 0
        /\ a_end + x <= BIP_BUFFER_SIZE /\ b_end + y <= a_start
        /\ y > 0 => a_end + x = BIP_BUFFER_SIZE
        /\ a_start' = a_start /\ a_end' = a_end + x /\ b_end' = b_end + y
    BY <1>1, WriteNumbers
  <2> HIDE DEF x, y
  <2> QED
    BY <2>1, Numbers, Positive DEF RegionInv
<1>2. CASE ReadCopy
  <2> DEFINE x == FromA(len[Reader])
             y == FromB(len[Reader])
  <2>1. /\ x \in Nat /\ y \in Nat
        /\ \/ a_start + x < a_end /\ a_start' = a_start + x /\ a_end' = a_end /\ b_end' = b_end
           \/ y < b_end /\ a_start' = y /\ a_end' = b_end /\ b_end' = 0
           \/ a_start' = 0 /\ a_end' = 0 /\ b_end' = 0
    BY <1>2, ReadNumbers
  <2> HIDE DEF x, y
  <2> QED
    BY <2>1, Numbers, Positive DEF RegionInv
<1>3. CASE ~ReadCopy /\ \A w \in Writers : ~WriteCopy(w)
  BY <1>3, OnlyCopiesMoveBytes DEF BipIInv, RegionInv, regions
<1> QED
  BY <1>1, <1>2, <1>3

\* First in, first out.
LEMMA OrderStep == BipIInv /\ [BipNext]_bipVars => InOrder'
<1> SUFFICES ASSUME BipIInv, [BipNext]_bipVars PROVE InOrder'
  OBVIOUS
<1>0. InOrder
  BY DEF BipIInv
<1>1. ASSUME NEW w \in Writers, WriteCopy(w) PROVE InOrder'
  <2> DEFINE x == ToA(len[w])
             y == ToB(len[w])
  <2>1. /\ x \in Nat /\ y \in Nat
        /\ a_end + x <= BIP_BUFFER_SIZE /\ b_end + y <= a_start
        /\ y > 0 => a_end + x = BIP_BUFFER_SIZE
        /\ a_start' = a_start /\ a_end' = a_end + x /\ b_end' = b_end + y
        /\ wr' = wr + x + y /\ rd' = rd
    BY <1>1, WriteNumbers
  <2>2. \A i \in Index :
          buff'[i] = IF i >= a_end /\ i < a_end + x THEN wr + (i - a_end)
                     ELSE IF i >= b_end /\ i < b_end + y THEN wr + x + (i - b_end)
                     ELSE buff[i]
    BY <1>1 DEF WriteCopy
  <2>3. dst' = dst
    BY <1>1 DEF WriteCopy
  <2> HIDE DEF x, y
  <2>4. wr' = rd' + Fill'
    BY <2>1, Numbers, Positive DEF Fill
  <2>5. ASSUME NEW i \in Index, i >= a_start', i < a_end'
        PROVE  buff'[i] = rd' + (i - a_start')
    <3>0. i \in Nat
      BY Positive DEF Index
    <3>1. CASE i < a_end
      <4>1. ~(i >= a_end /\ i < a_end + x) /\ ~(i >= b_end /\ i < b_end + y)
        BY <2>1, <2>5, <3>0, <3>1, Numbers
      <4>2. buff[i] = rd + (i - a_start)
        BY <1>0, <2>1, <2>5, <3>1 DEF InOrder
      <4> QED
        BY <2>1, <2>2, <4>1, <4>2
    <3>2. CASE ~(i < a_end)
      <4>1. i >= a_end /\ i < a_end + x /\ b_end = 0
        BY <2>1, <2>5, <3>0, <3>2, Numbers, Positive
      <4>2. buff'[i] = wr + (i - a_end)
        BY <2>2, <4>1
      <4> QED
        BY <2>1, <3>0, <4>1, <4>2, Numbers
    <3> QED
      BY <3>1, <3>2
  <2>6. ASSUME NEW i \in Index, i < b_end'
        PROVE  buff'[i] = rd' + (a_end' - a_start') + i
    <3>0. i \in Nat
      BY Positive DEF Index
    <3>1. CASE i < b_end
      <4>1. /\ ~(i >= a_end /\ i < a_end + x) /\ ~(i >= b_end /\ i < b_end + y)
            /\ a_end' = a_end
        BY <2>1, <2>6, <3>0, <3>1, Numbers, Positive
      <4>2. buff[i] = rd + (a_end - a_start) + i
        BY <1>0, <3>1 DEF InOrder
      <4> QED
        BY <2>1, <2>2, <4>1, <4>2
    <3>2. CASE ~(i < b_end)
      <4>1. ~(i >= a_end /\ i < a_end + x) /\ i >= b_end /\ i < b_end + y
        BY <2>1, <2>6, <3>0, <3>2, Numbers, Positive
      <4>2. buff'[i] = wr + x + (i - b_end)
        BY <2>2, <4>1
      <4> QED
        BY <2>1, <3>0, <4>2, Numbers
    <3> QED
      BY <3>1, <3>2
  <2> QED
    BY <1>0, <2>1, <2>3, <2>4, <2>5, <2>6 DEF InOrder
<1>2. CASE ReadCopy
  <2> DEFINE x == FromA(len[Reader])
             y == FromB(len[Reader])
  <2>1. /\ x \in Nat /\ y \in Nat
        /\ a_start + x <= a_end /\ y <= b_end
        /\ \/ /\ a_start + x < a_end /\ y = 0
              /\ a_start' = a_start + x /\ a_end' = a_end /\ b_end' = b_end
           \/ /\ a_start + x = a_end /\ y < b_end
              /\ a_start' = y /\ a_end' = b_end /\ b_end' = 0
           \/ /\ a_start + x = a_end /\ y = b_end
              /\ a_start' = 0 /\ a_end' = 0 /\ b_end' = 0
        /\ wr' = wr /\ rd' = rd + x + y
    BY <1>2, ReadNumbers
  <2>2. /\ buff' = buff
        /\ dst' = [i \in 1 .. x + y |->
                     IF i <= x THEN buff[a_start + i - 1] ELSE buff[i - x - 1]]
    BY <1>2 DEF ReadCopy
  <2> HIDE DEF x, y
  <2>3. wr' = rd' + Fill'
    BY <2>1, Numbers DEF Fill
  <2>4. ASSUME NEW i \in Index, i >= a_start', i < a_end'
        PROVE  buff'[i] = rd' + (i - a_start')
    <3>0. i \in Nat
      BY Positive DEF Index
    <3>1. CASE a_start + x < a_end
      <4>1. i >= a_start /\ i < a_end /\ y = 0 /\ a_start' = a_start + x
        BY <2>1, <2>4, <3>0, <3>1, Numbers
      <4>2. buff[i] = rd + (i - a_start)
        BY <1>0, <4>1 DEF InOrder
      <4> QED
        BY <2>1, <2>2, <3>0, <4>1, <4>2, Numbers, SMTT(30)
    <3>2. CASE a_start + x = a_end
      <4>1. i < b_end /\ a_start' = y
        BY <2>1, <2>4, <3>0, <3>2, Numbers
      <4>2. buff[i] = rd + (a_end - a_start) + i
        BY <1>0, <4>1 DEF InOrder
      <4> QED
        BY <2>1, <2>2, <3>0, <3>2, <4>1, <4>2, Numbers, SMTT(30)
    <3> QED
      BY <2>1, <3>1, <3>2
  <2>5. ASSUME NEW i \in Index, i < b_end'
        PROVE  buff'[i] = rd' + (a_end' - a_start') + i
    <3>0. i \in Nat
      BY Positive DEF Index
    <3>1. /\ y = 0 /\ i < b_end
          /\ a_start' = a_start + x /\ a_end' = a_end
      BY <2>1, <2>5, <3>0, Numbers
    <3>2. buff[i] = rd + (a_end - a_start) + i
      BY <1>0, <3>1 DEF InOrder
    <3> QED
      BY <2>1, <2>2, <3>0, <3>1, <3>2, Numbers
  <2>6. x + y \in 0 .. rd' /\ rd' - (x + y) = rd
    BY <2>1, Numbers
  <2>7. ASSUME NEW i \in 1 .. x + y
        PROVE  (IF i <= x THEN buff[a_start + i - 1] ELSE buff[i - x - 1]) = rd + (i - 1)
    <3>1. CASE i <= x
      <4>1. a_start + i - 1 \in Index /\ a_start + i - 1 >= a_start /\ a_start + i - 1 < a_end
        BY <2>1, <3>1, Numbers, Positive DEF Index
      <4>2. buff[a_start + i - 1] = rd + ((a_start + i - 1) - a_start)
        BY <1>0, <4>1 DEF InOrder
      <4> QED
        BY <3>1, <4>2, Numbers
    <3>2. CASE ~(i <= x)
      <4>1. i - x - 1 \in Index /\ i - x - 1 < b_end /\ a_start + x = a_end
        BY <2>1, <3>2, Numbers, Positive DEF Index
      <4>2. buff[i - x - 1] = rd + (a_end - a_start) + (i - x - 1)
        BY <1>0, <4>1 DEF InOrder
      <4> QED
        BY <2>1, <3>2, <4>1, <4>2, Numbers
    <3> QED
      BY <3>1, <3>2
  <2>8. dst' = [i \in 1 .. x + y |-> (rd' - (x + y)) + (i - 1)]
    BY <2>2, <2>6, <2>7
  <2> QED
    BY <2>3, <2>4, <2>5, <2>6, <2>8 DEF InOrder
<1>3. CASE ~ReadCopy /\ \A w \in Writers : ~WriteCopy(w)
  BY <1>0, <1>3, OnlyCopiesMoveBytes DEF InOrder, Fill, regions, stream
<1> QED
  BY <1>1, <1>2, <1>3

-----------------------------------------------------------------------------
(* Control: who is where, and who owns the critical section *)

Ctl == LockInv /\ LenInv

LEMMA CtlStep == BipIInv /\ [BipNext]_bipVars => Ctl'
<1> SUFFICES ASSUME BipIInv, [BipNext]_bipVars PROVE Ctl'
  OBVIOUS
<1> USE DEF Ctl, LockInv, LenInv, BipThreads, Critical, ReaderPcs, WriterPcs, CloserPcs, Goto
<1>0. /\ bpc \in [BipThreads -> ReaderPcs \cup WriterPcs \cup CloserPcs]
      /\ len \in [BipThreads -> Nat] /\ LockInv /\ LenInv
      /\ bpc[Reader] \in ReaderPcs
      /\ \A w \in Writers : bpc[w] \in WriterPcs
      /\ \A c \in Closers : bpc[c] \in CloserPcs
  BY DEF BipIInv, BipType
<1>1. CASE ReadCall
  BY <1>1, <1>0, ThreadAssumption DEF ReadCall
<1>2. CASE ReadEmpty
  BY <1>2, <1>0, ThreadAssumption DEF ReadEmpty
<1>3. CASE ReadTest
  BY <1>3, <1>0, ThreadAssumption DEF ReadTest
<1>4. CASE ReadWake
  BY <1>4, <1>0, ThreadAssumption DEF ReadWake
<1>5. CASE ReadWoken
  BY <1>5, <1>0, ThreadAssumption DEF ReadWoken
<1>6. CASE ReadReset
  BY <1>6, <1>0, ThreadAssumption DEF ReadReset
<1>7. CASE ReadExit
  BY <1>7, <1>0, ThreadAssumption DEF ReadExit
<1>8. CASE ReadSet
  BY <1>8, <1>0, ThreadAssumption DEF ReadSet
<1>9. CASE ReadCopy
  BY <1>9, <1>0, ThreadAssumption DEF ReadCopy
<1>10. ASSUME NEW w \in Writers, WriteCall(w) PROVE Ctl'
  BY <1>10, <1>0, ThreadAssumption DEF WriteCall
<1>11. ASSUME NEW w \in Writers, WriteFull(w) PROVE Ctl'
  BY <1>11, <1>0, ThreadAssumption DEF WriteFull
<1>12. ASSUME NEW w \in Writers, WriteTest(w) PROVE Ctl'
  BY <1>12, <1>0, ThreadAssumption DEF WriteTest
<1>13. ASSUME NEW w \in Writers, WriteWake(w) PROVE Ctl'
  BY <1>13, <1>0, ThreadAssumption DEF WriteWake
<1>14. ASSUME NEW w \in Writers, WriteWoken(w) PROVE Ctl'
  BY <1>14, <1>0, ThreadAssumption DEF WriteWoken
<1>15. ASSUME NEW w \in Writers, WriteReset(w) PROVE Ctl'
  BY <1>15, <1>0, ThreadAssumption DEF WriteReset
<1>16. ASSUME NEW w \in Writers, WriteExit(w) PROVE Ctl'
  BY <1>16, <1>0, ThreadAssumption DEF WriteExit
<1>17. ASSUME NEW w \in Writers, WriteSet(w) PROVE Ctl'
  BY <1>17, <1>0, ThreadAssumption DEF WriteSet
<1>18. ASSUME NEW w \in Writers, WriteCopy(w) PROVE Ctl'
  BY <1>18, <1>0, ThreadAssumption DEF WriteCopy
<1>19. ASSUME NEW c \in Closers, Close(c) PROVE Ctl'
  BY <1>19, <1>0, ThreadAssumption DEF Close
<1>20. ASSUME NEW c \in Closers, CloseTestRead(c) PROVE Ctl'
  BY <1>20, <1>0, ThreadAssumption DEF CloseTestRead
<1>21. ASSUME NEW c \in Closers, CloseSetRead(c) PROVE Ctl'
  BY <1>21, <1>0, ThreadAssumption DEF CloseSetRead
<1>22. ASSUME NEW c \in Closers, CloseTestWrite(c) PROVE Ctl'
  BY <1>22, <1>0, ThreadAssumption DEF CloseTestWrite
<1>23. ASSUME NEW c \in Closers, CloseSetWrite(c) PROVE Ctl'
  BY <1>23, <1>0, ThreadAssumption DEF CloseSetWrite
<1>24. CASE UNCHANGED bipVars
  BY <1>24, <1>0, ThreadAssumption DEF bipVars
<1> QED
  BY <1>1, <1>2, <1>3, <1>4, <1>5, <1>6, <1>7, <1>8, <1>9, <1>10, <1>11,
     <1>12, <1>13, <1>14, <1>15, <1>16, <1>17, <1>18, <1>19, <1>20, <1>21,
     <1>22, <1>23, <1>24 DEF BipNext, ReadStep, WriteStep, CloseStep

LEMMA TypeStep == BipIInv /\ [BipNext]_bipVars => BipType'
<1> SUFFICES ASSUME BipIInv, [BipNext]_bipVars PROVE BipType'
  OBVIOUS
<1>0. BipType /\ LockInv
  BY DEF BipIInv
<1> USE DEF BipType, BipThreads, ReaderPcs, WriterPcs, CloserPcs, Goto
<1>1. CASE ReadCall
  <2>1. PICK n \in Lens : len' = [len EXCEPT ![Reader] = n]
    BY <1>1 DEF ReadCall
  <2>2. n \in Nat
    BY Positive
  <2> QED
    BY <1>1, <2>1, <2>2, <1>0, ThreadAssumption DEF ReadCall, regions, flags, events, stream
<1>2. CASE ReadEmpty
  BY <1>2, <1>0, ThreadAssumption DEF ReadEmpty, regions, flags, events, stream
<1>3. CASE ReadTest
  BY <1>3, <1>0, ThreadAssumption DEF ReadTest, regions, flags, events, stream
<1>4. CASE ReadWake
  BY <1>4, <1>0, ThreadAssumption DEF ReadWake, regions, flags, events, stream
<1>5. CASE ReadWoken
  BY <1>5, <1>0, ThreadAssumption DEF ReadWoken, regions, flags, events, stream
<1>6. CASE ReadReset
  BY <1>6, <1>0, ThreadAssumption DEF ReadReset, regions, flags, events, stream
<1>7. CASE ReadExit
  BY <1>7, <1>0, ThreadAssumption DEF ReadExit, regions, flags, events, stream
<1>8. CASE ReadSet
  BY <1>8, <1>0, ThreadAssumption DEF ReadSet, regions, flags, events, stream
<1>9. CASE ReadCopy
  <2> DEFINE x == FromA(len[Reader])
             y == FromB(len[Reader])
  <2>1. /\ x \in Nat /\ y \in Nat /\ a_start + x <= a_end /\ y <= b_end
        /\ \/ a_start' = a_start + x /\ a_end' = a_end /\ b_end' = b_end
           \/ y < b_end /\ a_start' = y /\ a_end' = b_end /\ b_end' = 0
           \/ a_start' = 0 /\ a_end' = 0 /\ b_end' = 0
        /\ wr' = wr /\ rd' = rd + x + y
    BY <1>9, ReadNumbers
  <2> HIDE DEF x, y
  <2>2. /\ a_start' \in 0 .. BIP_BUFFER_SIZE /\ a_end' \in 0 .. BIP_BUFFER_SIZE
        /\ b_end' \in 0 .. BIP_BUFFER_SIZE /\ wr' \in Nat /\ rd' \in Nat
    BY <1>0, <2>1, Numbers, Positive
  <2>3. /\ buff' = buff /\ can_write' = can_write /\ evt_read' = evt_read
        /\ evt_write' = evt_write /\ closed' = closed /\ len' = len /\ lock' = Reader
        /\ can_read' \in BOOLEAN
        /\ \/ bpc' = [bpc EXCEPT ![Reader] = "r_reset"]
           \/ bpc' = [bpc EXCEPT ![Reader] = "r_exit"]
    BY <1>9 DEF ReadCopy, events
  <2> QED
    BY <1>0, <2>2, <2>3, ThreadAssumption
<1>10. ASSUME NEW w \in Writers, WriteCall(w) PROVE BipType'
  <2>1. PICK n \in Lens : len' = [len EXCEPT ![w] = n]
    BY <1>10 DEF WriteCall
  <2>2. n \in Nat
    BY Positive
  <2> QED
    BY <1>10, <2>1, <2>2, <1>0, ThreadAssumption DEF WriteCall, regions, flags, events, stream
<1>11. ASSUME NEW w \in Writers, WriteFull(w) PROVE BipType'
  BY <1>11, <1>0, ThreadAssumption DEF WriteFull, regions, flags, events, stream
<1>12. ASSUME NEW w \in Writers, WriteTest(w) PROVE BipType'
  BY <1>12, <1>0, ThreadAssumption DEF WriteTest, regions, flags, events, stream
<1>13. ASSUME NEW w \in Writers, WriteWake(w) PROVE BipType'
  BY <1>13, <1>0, ThreadAssumption DEF WriteWake, regions, flags, events, stream
<1>14. ASSUME NEW w \in Writers, WriteWoken(w) PROVE BipType'
  BY <1>14, <1>0, ThreadAssumption DEF WriteWoken, regions, flags, events, stream
<1>15. ASSUME NEW w \in Writers, WriteReset(w) PROVE BipType'
  BY <1>15, <1>0, ThreadAssumption DEF WriteReset, regions, flags, events, stream
<1>16. ASSUME NEW w \in Writers, WriteExit(w) PROVE BipType'
  BY <1>16, <1>0, ThreadAssumption DEF WriteExit, regions, flags, events, stream
<1>17. ASSUME NEW w \in Writers, WriteSet(w) PROVE BipType'
  BY <1>17, <1>0, ThreadAssumption DEF WriteSet, regions, flags, events, stream
<1>18. ASSUME NEW w \in Writers, WriteCopy(w) PROVE BipType'
  <2> DEFINE x == ToA(len[w])
             y == ToB(len[w])
  <2>1. /\ x \in Nat /\ y \in Nat
        /\ a_end + x <= BIP_BUFFER_SIZE /\ b_end + y <= a_start
        /\ a_start' = a_start /\ a_end' = a_end + x /\ b_end' = b_end + y
        /\ wr' = wr + x + y /\ rd' = rd
    BY <1>18, WriteNumbers
  <2>2. buff' = [i \in Index |->
                   IF i >= a_end /\ i < a_end + x THEN wr + (i - a_end)
                   ELSE IF i >= b_end /\ i < b_end + y THEN wr + x + (i - b_end)
                   ELSE buff[i]]
    BY <1>18 DEF WriteCopy
  <2> HIDE DEF x, y
  <2>3. /\ a_start' \in 0 .. BIP_BUFFER_SIZE /\ a_end' \in 0 .. BIP_BUFFER_SIZE
        /\ b_end' \in 0 .. BIP_BUFFER_SIZE /\ wr' \in Nat /\ rd' \in Nat
    BY <1>0, <2>1, Numbers, Positive
  <2>4. buff' \in [Index -> Nat]
    <3>1. ASSUME NEW i \in Index
          PROVE  (IF i >= a_end /\ i < a_end + x THEN wr + (i - a_end)
                  ELSE IF i >= b_end /\ i < b_end + y THEN wr + x + (i - b_end)
                  ELSE buff[i]) \in Nat
      <4>1. i \in Nat
        BY Positive DEF Index
      <4> QED
        BY <1>0, <2>1, <4>1, Numbers
    <3> QED
      BY <2>2, <3>1
  <2>5. /\ can_read' = can_read /\ evt_read' = evt_read
        /\ evt_write' = evt_write /\ closed' = closed /\ len' = len /\ lock' = w
        /\ can_write' \in BOOLEAN
        /\ \/ bpc' = [bpc EXCEPT ![w] = "w_reset"]
           \/ bpc' = [bpc EXCEPT ![w] = "w_exit"]
    BY <1>18 DEF WriteCopy, events
  <2> QED
    BY <1>0, <2>3, <2>4, <2>5, ThreadAssumption
<1>19. ASSUME NEW c \in Closers, Close(c) PROVE BipType'
  BY <1>19, <1>0, ThreadAssumption DEF Close, regions, flags, events, stream
<1>20. ASSUME NEW c \in Closers, CloseTestRead(c) PROVE BipType'
  BY <1>20, <1>0, ThreadAssumption DEF CloseTestRead, regions, flags, events, stream
<1>21. ASSUME NEW c \in Closers, CloseSetRead(c) PROVE BipType'
  BY <1>21, <1>0, ThreadAssumption DEF CloseSetRead, regions, flags, events, stream
<1>22. ASSUME NEW c \in Closers, CloseTestWrite(c) PROVE BipType'
  BY <1>22, <1>0, ThreadAssumption DEF CloseTestWrite, regions, flags, events, stream
<1>23. ASSUME NEW c \in Closers, CloseSetWrite(c) PROVE BipType'
  BY <1>23, <1>0, ThreadAssumption DEF CloseSetWrite, regions, flags, events, stream
<1>24. CASE UNCHANGED bipVars
  BY <1>24, <1>0, ThreadAssumption DEF bipVars, regions, flags, events, stream
<1> QED
  BY <1>1, <1>2, <1>3, <1>4, <1>5, <1>6, <1>7, <1>8, <1>9, <1>10, <1>11,
     <1>12, <1>13, <1>14, <1>15, <1>16, <1>17, <1>18, <1>19, <1>20, <1>21,
     <1>22, <1>23, <1>24 DEF BipNext, ReadStep, WriteStep, CloseStep

-----------------------------------------------------------------------------
(* Flags, events and waiting *)

LEMMA FlagStep == BipIInv /\ [BipNext]_bipVars => FlagInv'
<1> SUFFICES ASSUME BipIInv, [BipNext]_bipVars PROVE FlagInv'
  OBVIOUS
<1>0. /\ bpc \in [BipThreads -> ReaderPcs \cup WriterPcs \cup CloserPcs]
      /\ bpc[Reader] \in ReaderPcs
      /\ \A w \in Writers : bpc[w] \in WriterPcs
      /\ \A c \in Closers : bpc[c] \in CloserPcs
      /\ LockInv /\ FlagInv
      /\ can_read \in BOOLEAN /\ can_write \in BOOLEAN
  BY DEF BipIInv, BipType
<1> USE DEF FlagInv, LockInv, BipThreads, Critical, ReaderPcs, WriterPcs, CloserPcs, Goto
<1>1. CASE ReadCall
  BY <1>1, <1>0, ThreadAssumption DEF ReadCall, regions, flags
<1>2. CASE ReadEmpty
  BY <1>2, <1>0, ThreadAssumption DEF ReadEmpty, regions, flags
<1>3. CASE ReadTest
  BY <1>3, <1>0, ThreadAssumption DEF ReadTest, regions, flags
<1>4. CASE ReadWake
  BY <1>4, <1>0, ThreadAssumption DEF ReadWake, regions, flags
<1>5. CASE ReadWoken
  BY <1>5, <1>0, ThreadAssumption DEF ReadWoken, regions, flags
<1>6. CASE ReadReset
  BY <1>6, <1>0, ThreadAssumption DEF ReadReset, regions, flags
<1>7. CASE ReadExit
  BY <1>7, <1>0, ThreadAssumption DEF ReadExit, regions, flags
<1>8. CASE ReadSet
  BY <1>8, <1>0, ThreadAssumption DEF ReadSet, regions, flags
<1>9. CASE ReadCopy
  <2>1. \/ can_read' /\ a_start' < a_end'
        \/ ~can_read' /\ ~(a_start' < a_end')
    <3> DEFINE x == FromA(len[Reader])
               y == FromB(len[Reader])
    <3>1. /\ x \in Nat /\ y \in Nat
          /\ \/ a_start + x < a_end /\ a_start' = a_start + x /\ a_end' = a_end /\ can_read' = TRUE
             \/ y < b_end /\ a_start' = y /\ a_end' = b_end /\ can_read' = TRUE
             \/ a_start' = 0 /\ a_end' = 0 /\ can_read' = FALSE
      BY <1>9, ReadNumbers
    <3> HIDE DEF x, y
    <3> QED
      BY <3>1, Numbers
  <2>2. can_write' = can_write
    BY <1>9 DEF ReadCopy
  <2>3. b_end' < a_start' \/ a_end' < BIP_BUFFER_SIZE
    <3> DEFINE x == FromA(len[Reader])
               y == FromB(len[Reader])
    <3>1. /\ x \in Nat /\ y \in Nat /\ x + y > 0
          /\ \/ y = 0 /\ a_start' = a_start + x /\ b_end' = b_end
             \/ a_end' = b_end
             \/ a_end' = 0
      BY <1>9, ReadNumbers
    <3>2. a_start < a_end
      BY <1>9, ReadFinds
    <3> HIDE DEF x, y
    <3> QED
      BY <3>1, <3>2, Numbers, Positive
  <2>4. bpc'[Reader] = IF can_read' THEN "r_exit" ELSE "r_reset"
    BY <1>9, <1>0 DEF ReadCopy
  <2>5. \A w \in Writers : bpc'[w] = bpc[w] /\ bpc[w] \notin {"w_reset", "w_exit"}
    BY <1>9, <1>0, ThreadAssumption DEF ReadCopy
  <2> QED
    BY <2>1, <2>2, <2>3, <2>4, <2>5
<1>10. ASSUME NEW w \in Writers, WriteCall(w) PROVE FlagInv'
  BY <1>10, <1>0, ThreadAssumption DEF WriteCall, regions, flags
<1>11. ASSUME NEW w \in Writers, WriteFull(w) PROVE FlagInv'
  BY <1>11, <1>0, ThreadAssumption DEF WriteFull, regions, flags
<1>12. ASSUME NEW w \in Writers, WriteTest(w) PROVE FlagInv'
  BY <1>12, <1>0, ThreadAssumption DEF WriteTest, regions, flags
<1>13. ASSUME NEW w \in Writers, WriteWake(w) PROVE FlagInv'
  BY <1>13, <1>0, ThreadAssumption DEF WriteWake, regions, flags
<1>14. ASSUME NEW w \in Writers, WriteWoken(w) PROVE FlagInv'
  BY <1>14, <1>0, ThreadAssumption DEF WriteWoken, regions, flags
<1>15. ASSUME NEW w \in Writers, WriteReset(w) PROVE FlagInv'
  BY <1>15, <1>0, ThreadAssumption DEF WriteReset, regions, flags
<1>16. ASSUME NEW w \in Writers, WriteExit(w) PROVE FlagInv'
  BY <1>16, <1>0, ThreadAssumption DEF WriteExit, regions, flags
<1>17. ASSUME NEW w \in Writers, WriteSet(w) PROVE FlagInv'
  BY <1>17, <1>0, ThreadAssumption DEF WriteSet, regions, flags
<1>18. ASSUME NEW w \in Writers, WriteCopy(w) PROVE FlagInv'
  <2>1. /\ can_write' <=> ~(a_end' = BIP_BUFFER_SIZE /\ b_end' = a_start')
        /\ a_start' < a_end'
        /\ a_end' <= BIP_BUFFER_SIZE /\ b_end' <= a_start'
        /\ a_start' \in Nat /\ a_end' \in Nat /\ b_end' \in Nat
    BY <1>18, WriteNumbers, Numbers, Positive
  <2>2. can_read' = can_read
    BY <1>18 DEF WriteCopy
  <2>3. bpc'[w] = IF can_write' THEN "w_exit" ELSE "w_reset"
    BY <1>18, <1>0 DEF WriteCopy
  <2>4. /\ bpc'[Reader] = bpc[Reader] /\ bpc[Reader] \notin {"r_reset", "r_exit"}
        /\ \A v \in Writers \ {w} : bpc'[v] = bpc[v] /\ bpc[v] \notin {"w_reset", "w_exit"}
    BY <1>18, <1>0, ThreadAssumption DEF WriteCopy
  <2>5. can_write' <=> (b_end' < a_start' \/ a_end' < BIP_BUFFER_SIZE)
    BY <2>1, Positive
  <2> QED
    BY <2>1, <2>2, <2>3, <2>4, <2>5
<1>19. ASSUME NEW c \in Closers, Close(c) PROVE FlagInv'
  BY <1>19, <1>0, ThreadAssumption DEF Close, regions, flags
<1>20. ASSUME NEW c \in Closers, CloseTestRead(c) PROVE FlagInv'
  BY <1>20, <1>0, ThreadAssumption DEF CloseTestRead, regions, flags
<1>21. ASSUME NEW c \in Closers, CloseSetRead(c) PROVE FlagInv'
  BY <1>21, <1>0, ThreadAssumption DEF CloseSetRead, regions, flags
<1>22. ASSUME NEW c \in Closers, CloseTestWrite(c) PROVE FlagInv'
  BY <1>22, <1>0, ThreadAssumption DEF CloseTestWrite, regions, flags
<1>23. ASSUME NEW c \in Closers, CloseSetWrite(c) PROVE FlagInv'
  BY <1>23, <1>0, ThreadAssumption DEF CloseSetWrite, regions, flags
<1>24. CASE UNCHANGED bipVars
  BY <1>24, <1>0, ThreadAssumption DEF bipVars, regions, flags
<1> QED
  BY <1>1, <1>2, <1>3, <1>4, <1>5, <1>6, <1>7, <1>8, <1>9, <1>10, <1>11,
     <1>12, <1>13, <1>14, <1>15, <1>16, <1>17, <1>18, <1>19, <1>20, <1>21,
     <1>22, <1>23, <1>24 DEF BipNext, ReadStep, WriteStep, CloseStep

LEMMA EventStep == BipIInv /\ [BipNext]_bipVars => EventInv'
<1> SUFFICES ASSUME BipIInv, [BipNext]_bipVars PROVE EventInv'
  OBVIOUS
<1>0. /\ bpc \in [BipThreads -> ReaderPcs \cup WriterPcs \cup CloserPcs]
      /\ bpc[Reader] \in ReaderPcs
      /\ \A w \in Writers : bpc[w] \in WriterPcs
      /\ \A c \in Closers : bpc[c] \in CloserPcs
      /\ LockInv /\ FlagInv /\ EventInv
      /\ can_read \in BOOLEAN /\ can_write \in BOOLEAN
      /\ evt_read \in BOOLEAN /\ evt_write \in BOOLEAN
  BY DEF BipIInv, BipType
<1> USE DEF EventInv, FlagInv, LockInv, BipThreads, Critical, ReaderPcs, WriterPcs, CloserPcs, Goto
<1>1. CASE ReadCall
  BY <1>1, <1>0, ThreadAssumption DEF ReadCall, flags, events
<1>2. CASE ReadEmpty
  BY <1>2, <1>0, ThreadAssumption DEF ReadEmpty, flags, events
<1>3. CASE ReadTest
  BY <1>3, <1>0, ThreadAssumption DEF ReadTest, flags, events
<1>4. CASE ReadWake
  BY <1>4, <1>0, ThreadAssumption DEF ReadWake, flags, events
<1>5. CASE ReadWoken
  BY <1>5, <1>0, ThreadAssumption DEF ReadWoken, flags, events
<1>6. CASE ReadReset
  BY <1>6, <1>0, ThreadAssumption DEF ReadReset, flags, events
<1>7. CASE ReadExit
  BY <1>7, <1>0, ThreadAssumption DEF ReadExit, flags, events
<1>8. CASE ReadSet
  BY <1>8, <1>0, ThreadAssumption DEF ReadSet, flags, events
<1>9. CASE ReadCopy
  BY <1>9, <1>0, ThreadAssumption DEF ReadCopy, flags, events
<1>10. ASSUME NEW w \in Writers, WriteCall(w) PROVE EventInv'
  BY <1>10, <1>0, ThreadAssumption DEF WriteCall, flags, events
<1>11. ASSUME NEW w \in Writers, WriteFull(w) PROVE EventInv'
  BY <1>11, <1>0, ThreadAssumption DEF WriteFull, flags, events
<1>12. ASSUME NEW w \in Writers, WriteTest(w) PROVE EventInv'
  BY <1>12, <1>0, ThreadAssumption DEF WriteTest, flags, events
<1>13. ASSUME NEW w \in Writers, WriteWake(w) PROVE EventInv'
  BY <1>13, <1>0, ThreadAssumption DEF WriteWake, flags, events
<1>14. ASSUME NEW w \in Writers, WriteWoken(w) PROVE EventInv'
  BY <1>14, <1>0, ThreadAssumption DEF WriteWoken, flags, events
<1>15. ASSUME NEW w \in Writers, WriteReset(w) PROVE EventInv'
  BY <1>15, <1>0, ThreadAssumption DEF WriteReset, flags, events
<1>16. ASSUME NEW w \in Writers, WriteExit(w) PROVE EventInv'
  BY <1>16, <1>0, ThreadAssumption DEF WriteExit, flags, events
<1>17. ASSUME NEW w \in Writers, WriteSet(w) PROVE EventInv'
  BY <1>17, <1>0, ThreadAssumption DEF WriteSet, flags, events
<1>18. ASSUME NEW w \in Writers, WriteCopy(w) PROVE EventInv'
  BY <1>18, <1>0, ThreadAssumption DEF WriteCopy, flags, events
<1>19. ASSUME NEW c \in Closers, Close(c) PROVE EventInv'
  BY <1>19, <1>0, ThreadAssumption DEF Close, flags, events
<1>20. ASSUME NEW c \in Closers, CloseTestRead(c) PROVE EventInv'
  BY <1>20, <1>0, ThreadAssumption DEF CloseTestRead, flags, events
<1>21. ASSUME NEW c \in Closers, CloseSetRead(c) PROVE EventInv'
  BY <1>21, <1>0, ThreadAssumption DEF CloseSetRead, flags, events
<1>22. ASSUME NEW c \in Closers, CloseTestWrite(c) PROVE EventInv'
  BY <1>22, <1>0, ThreadAssumption DEF CloseTestWrite, flags, events
<1>23. ASSUME NEW c \in Closers, CloseSetWrite(c) PROVE EventInv'
  BY <1>23, <1>0, ThreadAssumption DEF CloseSetWrite, flags, events
<1>24. CASE UNCHANGED bipVars
  BY <1>24, <1>0, ThreadAssumption DEF bipVars, flags, events
<1> QED
  BY <1>1, <1>2, <1>3, <1>4, <1>5, <1>6, <1>7, <1>8, <1>9, <1>10, <1>11,
     <1>12, <1>13, <1>14, <1>15, <1>16, <1>17, <1>18, <1>19, <1>20, <1>21,
     <1>22, <1>23, <1>24 DEF BipNext, ReadStep, WriteStep, CloseStep

LEMMA WaitStep == BipIInv /\ [BipNext]_bipVars => BipWaitInv'
<1> SUFFICES ASSUME BipIInv, [BipNext]_bipVars PROVE BipWaitInv'
  OBVIOUS
<1>0. /\ bpc \in [BipThreads -> ReaderPcs \cup WriterPcs \cup CloserPcs]
      /\ bpc[Reader] \in ReaderPcs
      /\ \A w \in Writers : bpc[w] \in WriterPcs
      /\ \A c \in Closers : bpc[c] \in CloserPcs
      /\ LockInv /\ FlagInv /\ EventInv /\ BipWaitInv
      /\ can_read \in BOOLEAN /\ can_write \in BOOLEAN
      /\ evt_read \in BOOLEAN /\ evt_write \in BOOLEAN /\ closed \in BOOLEAN
  BY DEF BipIInv, BipType
<1> USE DEF BipWaitInv, EventInv, BipThreads, ReaderPcs, WriterPcs, CloserPcs, Goto
<1>1. CASE ReadCall
  BY <1>1, <1>0, ThreadAssumption DEF ReadCall, flags, events
<1>2. CASE ReadEmpty
  BY <1>2, <1>0, ThreadAssumption DEF ReadEmpty, flags, events
<1>3. CASE ReadTest
  BY <1>3, <1>0, ThreadAssumption DEF ReadTest, flags, events
<1>4. CASE ReadWake
  BY <1>4, <1>0, ThreadAssumption DEF ReadWake, flags, events
<1>5. CASE ReadWoken
  BY <1>5, <1>0, ThreadAssumption DEF ReadWoken, flags, events
<1>6. CASE ReadReset
  BY <1>6, <1>0, ThreadAssumption DEF ReadReset, flags, events
<1>7. CASE ReadExit
  BY <1>7, <1>0, ThreadAssumption DEF ReadExit, flags, events
<1>8. CASE ReadSet
  BY <1>8, <1>0, ThreadAssumption DEF ReadSet, flags, events
<1>9. CASE ReadCopy
  BY <1>9, <1>0, ThreadAssumption DEF ReadCopy, flags, events
<1>10. ASSUME NEW w \in Writers, WriteCall(w) PROVE BipWaitInv'
  BY <1>10, <1>0, ThreadAssumption DEF WriteCall, flags, events
<1>11. ASSUME NEW w \in Writers, WriteFull(w) PROVE BipWaitInv'
  BY <1>11, <1>0, ThreadAssumption DEF WriteFull, flags, events
<1>12. ASSUME NEW w \in Writers, WriteTest(w) PROVE BipWaitInv'
  BY <1>12, <1>0, ThreadAssumption DEF WriteTest, flags, events
<1>13. ASSUME NEW w \in Writers, WriteWake(w) PROVE BipWaitInv'
  BY <1>13, <1>0, ThreadAssumption DEF WriteWake, flags, events
<1>14. ASSUME NEW w \in Writers, WriteWoken(w) PROVE BipWaitInv'
  BY <1>14, <1>0, ThreadAssumption DEF WriteWoken, flags, events
<1>15. ASSUME NEW w \in Writers, WriteReset(w) PROVE BipWaitInv'
  BY <1>15, <1>0, ThreadAssumption, PipeUse DEF WriteReset, flags, events
<1>16. ASSUME NEW w \in Writers, WriteExit(w) PROVE BipWaitInv'
  BY <1>16, <1>0, ThreadAssumption DEF WriteExit, flags, events
<1>17. ASSUME NEW w \in Writers, WriteSet(w) PROVE BipWaitInv'
  BY <1>17, <1>0, ThreadAssumption DEF WriteSet, flags, events
<1>18. ASSUME NEW w \in Writers, WriteCopy(w) PROVE BipWaitInv'
  BY <1>18, <1>0, ThreadAssumption DEF WriteCopy, flags, events
<1>19. ASSUME NEW c \in Closers, Close(c) PROVE BipWaitInv'
  BY <1>19, <1>0, ThreadAssumption DEF Close, flags, events
<1>20. ASSUME NEW c \in Closers, CloseTestRead(c) PROVE BipWaitInv'
  BY <1>20, <1>0, ThreadAssumption DEF CloseTestRead, flags, events
<1>21. ASSUME NEW c \in Closers, CloseSetRead(c) PROVE BipWaitInv'
  BY <1>21, <1>0, ThreadAssumption DEF CloseSetRead, flags, events
<1>22. ASSUME NEW c \in Closers, CloseTestWrite(c) PROVE BipWaitInv'
  BY <1>22, <1>0, ThreadAssumption DEF CloseTestWrite, flags, events
<1>23. ASSUME NEW c \in Closers, CloseSetWrite(c) PROVE BipWaitInv'
  BY <1>23, <1>0, ThreadAssumption DEF CloseSetWrite, flags, events
<1>24. CASE UNCHANGED bipVars
  BY <1>24, <1>0, ThreadAssumption DEF bipVars, flags, events
<1> QED
  BY <1>1, <1>2, <1>3, <1>4, <1>5, <1>6, <1>7, <1>8, <1>9, <1>10, <1>11,
     <1>12, <1>13, <1>14, <1>15, <1>16, <1>17, <1>18, <1>19, <1>20, <1>21,
     <1>22, <1>23, <1>24 DEF BipNext, ReadStep, WriteStep, CloseStep

-----------------------------------------------------------------------------
(* The theorems *)

LEMMA InitIInv == BipInit => BipIInv
<1> SUFFICES ASSUME BipInit PROVE BipIInv
  OBVIOUS
<1>1. BipType
  <2>1. /\ a_start \in 0 .. BIP_BUFFER_SIZE /\ a_end \in 0 .. BIP_BUFFER_SIZE
        /\ b_end \in 0 .. BIP_BUFFER_SIZE /\ wr \in Nat /\ rd \in Nat
    BY Positive DEF BipInit
  <2>2. buff \in [Index -> Nat] /\ len \in [BipThreads -> Nat]
    BY DEF BipInit
  <2>3. /\ bpc \in [BipThreads -> ReaderPcs \cup WriterPcs \cup CloserPcs]
        /\ bpc[Reader] \in ReaderPcs
        /\ \A w \in Writers : bpc[w] \in WriterPcs
        /\ \A c \in Closers : bpc[c] \in CloserPcs
    BY DEF BipInit, BipThreads, ReaderPcs, WriterPcs, CloserPcs
  <2> QED
    BY <2>1, <2>2, <2>3 DEF BipInit, BipType
<1>2. LockInv /\ RegionInv /\ LenInv
  BY Positive, ThreadAssumption DEF BipInit, LockInv, RegionInv, LenInv, BipThreads, Critical
<1>3. FlagInv /\ EventInv /\ BipWaitInv
  BY Positive, ThreadAssumption DEF BipInit, FlagInv, EventInv, BipWaitInv, BipThreads
<1>4. InOrder
  <2>1. dst = [i \in 1 .. 0 |-> (rd - 0) + (i - 1)]
    BY DEF BipInit
  <2>2. 0 \in 0 .. rd
    BY DEF BipInit
  <2>3. /\ wr = rd + Fill
        /\ \A i \in Index : ~(i >= a_start /\ i < a_end)
        /\ \A i \in Index : ~(i < b_end)
    BY Positive DEF BipInit, Fill, Index
  <2> QED
    BY <2>1, <2>2, <2>3 DEF InOrder
<1> QED
  BY <1>1, <1>2, <1>3, <1>4 DEF BipIInv

\* The inductive invariant: the shape of the regions, the promises of the flags,
\* the state of the events and the order of the bytes hold together or not at all.
THEOREM Invariance == BipSpec => []BipIInv
<1>1. BipInit => BipIInv
  BY InitIInv
<1>2. BipIInv /\ [BipNext]_bipVars => BipIInv'
  BY TypeStep, CtlStep, RegionStep, FlagStep, EventStep, WaitStep, OrderStep DEF BipIInv, Ctl
<1> QED
  BY <1>1, <1>2, PTL DEF BipSpec

\* The indices stay within the buffer and every thread within its call.
THEOREM TypeCorrect == BipSpec => []BipType
<1>1. BipIInv => BipType
  BY DEF BipIInv
<1> QED
  BY <1>1, Invariance, PTL

\* The comment above bip_buffer_init, for every size of the buffer.
THEOREM RegionsCorrect == BipSpec => []RegionsAndFlags
<1>1. BipIInv => RegionsAndFlags
  <2> SUFFICES ASSUME BipIInv PROVE RegionsAndFlags
    OBVIOUS
  <2>1. lock = NoOne => \A t \in BipThreads : bpc[t] \notin Critical
    BY ThreadAssumption DEF BipIInv, LockInv
  <2>2. lock = NoOne => /\ \A w \in Writers : bpc[w] \notin {"w_reset", "w_exit"}
                        /\ bpc[Reader] \notin {"r_reset", "r_exit"}
    BY <2>1 DEF BipThreads, Critical
  <2>3. FlagInv
    BY DEF BipIInv
  <2> QED
    BY <2>2, <2>3, Numbers DEF RegionsAndFlags, FlagInv
<1> QED
  BY <1>1, Invariance, PTL

\* The asserts of bip_buffer_write and bip_buffer_read never fail.
THEOREM AssertsNeverFail == BipSpec => []AssertsHold
<1>1. BipIInv => AssertsHold
  <2> SUFFICES ASSUME BipIInv PROVE AssertsHold
    OBVIOUS
  <2>0. FlagInv /\ BipType /\ RegionInv
    BY DEF BipIInv
  <2>1. ASSUME NEW w \in Writers, bpc[w] = "w_enter", can_write
        PROVE  /\ len[w] > ToA(len[w]) /\ a_start > 0 => a_start - b_end > 0
               /\ ToA(len[w]) + ToB(len[w]) > 0
    <3>1. len[w] \in Lens /\ (b_end < a_start \/ a_end < BIP_BUFFER_SIZE)
      BY <2>0, <2>1 DEF BipIInv, LenInv, FlagInv, WriterPcs
    <3>2. len[w] \in Nat /\ len[w] > 0
      BY <3>1, Positive
    <3>3. a_start - b_end > 0 \/ a_start = 0
      BY <3>1, Numbers, Positive
    <3>4. ToA(len[w]) + ToB(len[w]) = LesserOf(len[w], BIP_BUFFER_SIZE - Fill)
      BY <2>0, <3>1, WriteCount
    <3>5. BIP_BUFFER_SIZE - Fill \in Nat /\ BIP_BUFFER_SIZE - Fill > 0
      BY <3>1, Numbers, Positive DEF Fill
    <3> QED
      BY <3>2, <3>3, <3>4, <3>5, Numbers DEF LesserOf
  <2>2. ASSUME bpc[Reader] = "r_enter", can_read
        PROVE  /\ a_end - a_start > 0
               /\ FromA(len[Reader]) + FromB(len[Reader]) > 0
    <3>1. len[Reader] \in Lens /\ a_start < a_end
      BY <2>0, <2>2 DEF BipIInv, LenInv, FlagInv, ReaderPcs
    <3>2. len[Reader] \in Nat /\ len[Reader] > 0
      BY <3>1, Positive
    <3>3. FromA(len[Reader]) + FromB(len[Reader]) = LesserOf(len[Reader], Fill)
      BY <2>0, <3>1, ReadCount
    <3>4. Fill \in Nat /\ Fill > 0
      BY <3>1, Numbers DEF Fill
    <3> QED
      BY <3>1, <3>2, <3>3, <3>4, Numbers DEF LesserOf
  <2> QED
    BY <2>1, <2>2 DEF AssertsHold
<1> QED
  BY <1>1, Invariance, PTL

\* Bytes come out in the order they went in, none lost, none twice.
THEOREM FirstInFirstOut == BipSpec => []InOrder
<1>1. BipIInv => InOrder
  BY DEF BipIInv
<1> QED
  BY <1>1, Invariance, PTL

\* No reader or writer sleeps through data, room or a close.
THEOREM NoLostWakeups == BipSpec => []NoLostWakeup
<1>1. BipIInv => NoLostWakeup
  BY DEF BipIInv, EventInv, BipWaitInv, NoLostWakeup
<1> QED
  BY <1>1, Invariance, PTL

\* The two-region buffer with its flags, events and unlocked close implements a
\* first-in first-out pipe of BIP_BUFFER_SIZE bytes in which every transfer is as
\* large as it can be.
THEOREM ImplementsPipe == BipSpec => PipeSpec
<1>1. BipInit => Pipe!Init
  BY DEF BipInit, Pipe!Init
<1>2. BipIInv /\ BipIInv' /\ [BipNext]_bipVars => [Pipe!Next]_<<wr, rd, dst, closed>>
  <2> SUFFICES ASSUME BipIInv, BipIInv', [BipNext]_bipVars
               PROVE  [Pipe!Next]_<<wr, rd, dst, closed>>
    OBVIOUS
  <2>0. Fill = wr - rd /\ Fill \in Nat /\ BIP_BUFFER_SIZE - Fill \in Nat
    BY Numbers, Positive DEF Fill
  <2>1. ASSUME NEW w \in Writers, WriteCopy(w) PROVE Pipe!Next
    <3>1. len[w] \in Lens /\ (b_end < a_start \/ a_end < BIP_BUFFER_SIZE)
      BY <2>1, WriteFinds
    <3>2. wr - rd < BIP_BUFFER_SIZE
      BY <3>1, <2>0, Numbers, Positive DEF Fill
    <3>3. ToA(len[w]) + ToB(len[w]) = LesserOf(len[w], BIP_BUFFER_SIZE - (wr - rd))
      BY <2>0, <2>1, WriteNumbers
    <3>4. wr' = wr + (ToA(len[w]) + ToB(len[w]))
      BY <2>1, WriteNumbers, Numbers
    <3>5. UNCHANGED <<rd, dst, closed>>
      BY <2>1 DEF WriteCopy
    <3>6. Pipe!Write(len[w])
      BY <3>2, <3>3, <3>4, <3>5 DEF Pipe!Write, Pipe!Least, LesserOf
    <3> QED
      BY <3>1, <3>6 DEF Pipe!Next
  <2>2. CASE ReadCopy
    <3> DEFINE x == FromA(len[Reader]) + FromB(len[Reader])
    <3>1. len[Reader] \in Lens /\ a_start < a_end
      BY <2>2, ReadFinds
    <3>2. rd < wr
      BY <3>1, Numbers
    <3>3. x = LesserOf(len[Reader], wr - rd) /\ x \in Nat /\ rd' = rd + x
      BY <2>0, <2>2, ReadNumbers, Numbers
    <3>4. UNCHANGED <<wr, closed>>
      BY <2>2 DEF ReadCopy
    <3>5. dst' = [i \in 1 .. rd' - rd |-> rd + i - 1]
      <4>1. DOMAIN dst' = 1 .. x
        BY <2>2 DEF ReadCopy
      <4>2. PICK n \in 0 .. rd' : dst' = [i \in 1 .. n |-> (rd' - n) + (i - 1)]
        BY DEF BipIInv, InOrder
      <4>3. 1 .. n = 1 .. x
        BY <4>1, <4>2
      <4> HIDE DEF x
      <4>4. n \in Nat /\ rd \in Nat
        BY <4>2, <3>3, Numbers
      <4>5. n = x
        <5>1. CASE n < x
          BY <5>1, <4>3, <4>4, <3>3
        <5>2. CASE x < n
          BY <5>2, <4>3, <4>4, <3>3
        <5> QED
          BY <5>1, <5>2, <4>4, <3>3
      <4>6. rd' - rd = x /\ rd' - n = rd
        BY <3>3, <4>4, <4>5
      <4>7. \A i \in 1 .. x : rd + (i - 1) = rd + i - 1
        BY <3>3, <4>4
      <4> QED
        BY <4>2, <4>5, <4>6, <4>7
    <3>6. Pipe!Read(len[Reader])
      BY <3>2, <3>3, <3>4, <3>5 DEF Pipe!Read, Pipe!Least, LesserOf
    <3> QED
      BY <3>1, <3>6 DEF Pipe!Next
  <2>3. ASSUME NEW c \in Closers, Close(c) PROVE Pipe!Next
    BY <2>3 DEF Close, Pipe!Next, Pipe!Close, stream
  <2>4. CASE /\ ~ReadCopy /\ \A w \in Writers : ~WriteCopy(w)
             /\ \A c \in Closers : ~Close(c)
    <3>1. UNCHANGED stream
      BY <2>4, OnlyCopiesMoveBytes
    <3>2. UNCHANGED closed
      BY <2>4 DEF BipNext, bipVars, ReadCall, ReadStep, ReadEmpty, ReadTest,
         ReadWake, ReadWoken, ReadReset, ReadExit, ReadSet, WriteCall, WriteStep,
         WriteFull, WriteTest, WriteWake, WriteWoken, WriteReset, WriteExit, WriteSet,
         CloseStep, CloseTestRead, CloseSetRead, CloseTestWrite, CloseSetWrite
    <3> QED
      BY <3>1, <3>2 DEF stream
  <2> QED
    BY <2>1, <2>2, <2>3, <2>4
<1> QED
  BY <1>1, <1>2, Invariance, PTL DEF BipSpec, PipeSpec, Pipe!Spec

\* What a run checks of the buffer at each step, for every size, length and thread.
THEOREM BufferCorrect == BipSpec => []BufferInv
<1> QED
  BY TypeCorrect, RegionsCorrect, AssertsNeverFail, FirstInFirstOut, PTL DEF BufferInv

-----------------------------------------------------------------------------
(* The event loop *)

Masks == [Fds -> SUBSET Events]
Recorded == [Fds -> SUBSET (Events \cup {"C"})]
Flags == [Fds -> BOOLEAN]

\* The records that the calls work on.
Recs == [live : SUBSET Fds, want : Masks, pend : Masks, plist : Seq(Fds), mask : Masks,
         rec : Recorded, armed : Masks, evt : Flags, readable : Flags, writable : Flags,
         hup : SUBSET Fds, nfill : [Fds -> Nat]]

\* list_pending has the pending fdevents, once each, and none that was removed.
ListOK(x) ==
    /\ IsInjective(x.plist) /\ ToSet(x.plist) \subseteq x.live
    /\ \A f \in Fds : f \in ToSet(x.plist) <=> x.pend[f] # {}

\* A pending fdevent that wants to read is told to read, and a pending write is wanted.
PendOK(x, f) ==
    /\ "W" \in x.pend[f] => "W" \in x.want[f]
    /\ x.pend[f] # {} /\ "R" \in x.want[f] => "R" \in x.pend[f]

\* A descriptor that wants to read, and nothing else, with its mask selected: if there is
\* data or an end the read is recorded or pending, and if not its arrival will be recorded.
ReadOK(x, f) ==
    f \in x.live /\ "R" \in x.want[f] /\ x.want[f] = x.mask[f] /\ "W" \notin x.want[f] =>
        /\ x.readable[f] => "R" \in x.rec[f] \cup x.pend[f] \/ "C" \in x.rec[f]
        /\ ~x.readable[f] => "R" \in x.armed[f] \cup x.rec[f] \cup x.pend[f]

Fd(x, f) == PendOK(x, f) /\ ReadOK(x, f)

Good(x) == x \in Recs /\ ListOK(x) /\ \A f \in Fds : Fd(x, f)

IInv == Good(X) /\ ready \in Masks /\ pc \in {"prepare", "wait", "peek", "calls"}

-----------------------------------------------------------------------------
(* The calls *)

\* All is well but for what a call is about to do with f.
But(x, f) == x \in Recs /\ ListOK(x) /\ \A g \in Fds \ {f} : Fd(x, g)

Agree(x, y, g) ==
    /\ y.want[g] = x.want[g] /\ y.pend[g] = x.pend[g] /\ y.mask[g] = x.mask[g]
    /\ y.rec[g] = x.rec[g] /\ y.armed[g] = x.armed[g] /\ y.readable[g] = x.readable[g]
    /\ g \in y.live => g \in x.live

LEMMA AgreeFd == ASSUME NEW x, NEW y, NEW g, Fd(x, g), Agree(x, y, g) PROVE Fd(y, g)
  BY DEF Fd, PendOK, ReadOK, Agree

LEMMA GoodIsBut == ASSUME NEW x, NEW f \in Fds
                   PROVE  Good(x) <=> But(x, f) /\ Fd(x, f)
  BY DEF Good, But

\* fdevent_plist_remove for an fdevent that is not pending any more.
LEMMA OffListFacts ==
    ASSUME NEW x \in Recs, NEW f \in Fds, NEW y, y = OffList(x, f)
    PROVE  /\ y \in Recs /\ y = [x EXCEPT !.plist = y.plist]
           /\ ToSet(y.plist) = ToSet(x.plist) \ {f}
           /\ IsInjective(x.plist) => IsInjective(y.plist)
<1>1. x.plist \in Seq(Fds)
  BY DEF Recs
<1>2. y = [x EXCEPT !.plist = Without(x.plist, f)]
  BY DEF OffList
<1>3. y.plist = Without(x.plist, f)
  BY <1>2 DEF Recs
<1>4. /\ y.plist \in Seq(Fds) /\ ToSet(y.plist) = ToSet(x.plist) \ {f}
      /\ IsInjective(x.plist) => IsInjective(y.plist)
  BY <1>1, <1>3, WithoutFacts
<1> QED
  BY <1>2, <1>3, <1>4 DEF Recs

\* What _event_socket_start changes.
LEMMA HookStartFacts ==
    ASSUME NEW x \in Recs, NEW f \in Fds, NEW wanted \in SUBSET Events,
           NEW y, y = HookStart(x, f, wanted)
    PROVE  /\ y \in Recs /\ y.mask[f] = wanted
           /\ y.live = x.live /\ y.want = x.want /\ y.pend = x.pend /\ y.plist = x.plist
           /\ y.readable = x.readable
           /\ \A g \in Fds \ {f} : Agree(x, y, g)
<1>1. CASE wanted = x.mask[f]
  <2>1. y = x
    BY <1>1 DEF HookStart
  <2> QED
    BY <1>1, <2>1 DEF Agree
<1>2. CASE wanted # x.mask[f]
  <2> DEFINE now == Holds(x, f) \cap wanted
             all == now \cup Closed(x, f, wanted)
  <2>1. /\ now \in SUBSET Events /\ wanted \ now \in SUBSET Events
        /\ all \in SUBSET (Events \cup {"C"})
    BY DEF Holds, Closed
  <2>2. y = [x EXCEPT !.mask[f] = wanted, !.rec[f] = all, !.armed[f] = wanted \ now,
                      !.evt[f] = @ \/ all # {}]
    BY <1>2 DEF HookStart, Select
  <2> HIDE DEF now, all
  <2>3. /\ y.mask = [x.mask EXCEPT ![f] = wanted] /\ y.rec = [x.rec EXCEPT ![f] = all]
        /\ y.armed = [x.armed EXCEPT ![f] = wanted \ now]
        /\ y.evt = [x.evt EXCEPT ![f] = @ \/ all # {}]
        /\ y.live = x.live /\ y.want = x.want /\ y.pend = x.pend /\ y.plist = x.plist
        /\ y.readable = x.readable /\ y.writable = x.writable /\ y.nfill = x.nfill
    BY <2>2 DEF Recs
  <2>4. y \in Recs
    <3>1. y.mask \in Masks /\ y.rec \in Recorded /\ y.armed \in Masks
      BY <2>1, <2>3 DEF Recs, Masks, Recorded
    <3>2. y.evt \in Flags
      <4>1. x.evt \in Flags
        BY DEF Recs
      <4> QED
        BY <2>3, <4>1, Zenon DEF Flags
    <3>3. y = [x EXCEPT !.mask = y.mask, !.rec = y.rec, !.armed = y.armed, !.evt = y.evt]
      BY <2>2, <2>3 DEF Recs
    <3> QED
      BY <3>1, <3>2, <3>3 DEF Recs
  <2> QED
    BY <2>1, <2>3, <2>4 DEF Agree, Recs, Masks, Recorded
<1> QED
  BY <1>1, <1>2

\* What fdevent_set changes: the mask of f, its pending events and, when a new event is
\* wanted, what is selected for it.
LEMMA FdeSetFacts ==
    ASSUME NEW x, NEW f \in Fds, NEW new \in SUBSET Events, But(x, f),
           NEW y, y = FdeSet(x, f, new)
    PROVE  /\ But(y, f) /\ y.live = x.live /\ y.want[f] = new /\ y.readable = x.readable
           /\ x.want[f] = new => y = x
           /\ x.want[f] # new => y.pend[f] = x.pend[f] \ new
           /\ new \subseteq x.want[f] => /\ y.mask[f] = x.mask[f] /\ y.rec[f] = x.rec[f]
                                        /\ y.armed[f] = x.armed[f]
           /\ ~(new \subseteq x.want[f]) => y.mask[f] = x.want[f] \cap new
<1>0. x \in Recs /\ ListOK(x) /\ x.want[f] \in SUBSET Events /\ x.pend[f] \in SUBSET Events
  BY DEF But, Recs, Masks
<1>1. CASE x.want[f] = new
  <2>1. y = x
    BY <1>1 DEF FdeSet
  <2> QED
    BY <1>1, <2>1
<1>2. CASE x.want[f] # new
  <2> DEFINE x1 == IF new \ x.want[f] = {} THEN x ELSE HookStart(x, f, x.want[f] \cap new)
             x2 == [x1 EXCEPT !.want[f] = new, !.pend[f] = @ \ new]
  <2>1. y = IF x2.pend[f] = {} THEN OffList(x2, f) ELSE x2
    BY <1>2 DEF FdeSet
  <2>2. /\ x1 \in Recs /\ x1.live = x.live /\ x1.want = x.want /\ x1.pend = x.pend
        /\ x1.plist = x.plist /\ x1.readable = x.readable
        /\ \A g \in Fds \ {f} : Agree(x, x1, g)
        /\ new \subseteq x.want[f] => x1 = x
        /\ ~(new \subseteq x.want[f]) => x1.mask[f] = x.want[f] \cap new
    <3>1. CASE new \ x.want[f] = {}
      BY <1>0, <3>1 DEF Agree
    <3>2. CASE new \ x.want[f] # {}
      <4>1. x1 = HookStart(x, f, x.want[f] \cap new)
        BY <3>2
      <4> HIDE DEF x1
      <4> QED
        BY <1>0, <3>2, <4>1, HookStartFacts
    <3> QED
      BY <3>1, <3>2
  <2> HIDE DEF x1
  <2>3. /\ x2.want = [x1.want EXCEPT ![f] = new] /\ x2.pend = [x1.pend EXCEPT ![f] = @ \ new]
        /\ x2.live = x1.live /\ x2.plist = x1.plist /\ x2.readable = x1.readable
        /\ x2.mask = x1.mask /\ x2.rec = x1.rec /\ x2.armed = x1.armed
    BY <2>2 DEF Recs
  <2>4. x2 \in Recs
    <3>1. x2.want \in Masks /\ x2.pend \in Masks
      BY <2>2, <2>3 DEF Recs, Masks
    <3>2. x2 = [x1 EXCEPT !.want = x2.want, !.pend = x2.pend]
      BY <2>2, <2>3 DEF Recs
    <3> QED
      BY <2>2, <3>1, <3>2 DEF Recs
  <2>5. /\ x2.want[f] = new /\ x2.pend[f] = x.pend[f] \ new
        /\ \A g \in Fds \ {f} : Agree(x, x2, g)
    BY <2>2, <2>3 DEF Recs, Masks, Agree
  <2> HIDE DEF x2
  <2>6. /\ y \in Recs /\ y.want = x2.want /\ y.pend = x2.pend /\ y.live = x2.live
        /\ y.readable = x2.readable /\ y.mask = x2.mask /\ y.rec = x2.rec /\ y.armed = x2.armed
        /\ ToSet(y.plist) = IF x2.pend[f] = {} THEN ToSet(x.plist) \ {f} ELSE ToSet(x.plist)
        /\ IsInjective(x.plist) => IsInjective(y.plist)
    <3>1. CASE x2.pend[f] = {}
      <4>1. y = OffList(x2, f)
        BY <2>1, <3>1
      <4>2. /\ y \in Recs /\ y = [x2 EXCEPT !.plist = y.plist]
            /\ ToSet(y.plist) = ToSet(x2.plist) \ {f}
            /\ IsInjective(x2.plist) => IsInjective(y.plist)
        BY <2>4, <4>1, OffListFacts
      <4>3. /\ y.want = x2.want /\ y.pend = x2.pend /\ y.live = x2.live
            /\ y.readable = x2.readable /\ y.mask = x2.mask /\ y.rec = x2.rec /\ y.armed = x2.armed
        BY <2>4, <4>2 DEF Recs
      <4> QED
        BY <2>2, <2>3, <3>1, <4>2, <4>3
    <3>2. CASE x2.pend[f] # {}
      <4>1. y = x2
        BY <2>1, <3>2
      <4> QED
        BY <2>2, <2>3, <2>4, <3>2, <4>1
    <3> QED
      BY <3>1, <3>2
  <2>7. \A g \in Fds \ {f} : Agree(x, y, g)
    BY <2>5, <2>6 DEF Agree
  <2>8. ListOK(y)
    <3>1. y.live = x.live
      BY <2>2, <2>3, <2>6
    <3>2. ToSet(y.plist) \subseteq ToSet(x.plist) /\ IsInjective(y.plist)
      BY <1>0, <2>6 DEF ListOK
    <3>3. f \in ToSet(y.plist) <=> y.pend[f] # {}
      BY <1>0, <2>5, <2>6 DEF ListOK
    <3>4. \A g \in Fds \ {f} : g \in ToSet(y.plist) <=> y.pend[g] # {}
      BY <1>0, <2>6, <2>7 DEF ListOK, Agree
    <3> QED
      BY <1>0, <3>1, <3>2, <3>3, <3>4 DEF ListOK
  <2>9. But(y, f)
    BY <2>6, <2>7, <2>8, AgreeFd DEF But
  <2> QED
    BY <1>2, <2>2, <2>3, <2>5, <2>6, <2>9
<1> QED
  BY <1>1, <1>2

\* fdevent_set with one more event, or with the write alone: the new mask is not selected
\* yet, or there is a write to come.
LEMMA WidenGood ==
    ASSUME NEW x, NEW f \in Fds, But(x, f), PendOK(x, f), NEW new \in SUBSET Events,
           \/ new = x.want[f] \cup {"R"} /\ Fd(x, f)
           \/ new = x.want[f] \cup {"W"}
           \/ new = {"W"} /\ "W" \in x.want[f]
    PROVE  Good(FdeSet(x, f, new))
<1> DEFINE y == FdeSet(x, f, new)
<1>0. x.want[f] \in SUBSET Events /\ x.pend[f] \in SUBSET Events
  BY DEF But, Recs, Masks
<1>1. /\ But(y, f) /\ y.live = x.live /\ y.want[f] = new /\ y.readable = x.readable
      /\ x.want[f] = new => y = x
      /\ x.want[f] # new => y.pend[f] = x.pend[f] \ new
      /\ ~(new \subseteq x.want[f]) => y.mask[f] = x.want[f] \cap new
  BY FdeSetFacts
<1> HIDE DEF y
<1>2. CASE x.want[f] = new
  <2>1. "W" \in new => ReadOK(x, f)
    BY <1>2 DEF ReadOK
  <2>2. Fd(x, f)
    BY <1>2, <2>1 DEF Fd
  <2> QED
    BY <1>1, <1>2, <2>2, GoodIsBut DEF y
<1>3. CASE x.want[f] # new
  <2>1. y.pend[f] = x.pend[f] \ new
    BY <1>1, <1>3
  <2>2. PendOK(y, f)
    BY <1>0, <1>1, <2>1 DEF PendOK, Events
  <2>3. ReadOK(y, f)
    <3>1. CASE "W" \in new
      BY <1>1, <3>1 DEF ReadOK
    <3>2. CASE "W" \notin new
      <4>1. new = x.want[f] \cup {"R"} /\ ~(new \subseteq x.want[f])
        BY <1>0, <1>3, <3>2
      <4>2. y.mask[f] # y.want[f]
        BY <1>1, <4>1
      <4> QED
        BY <4>2 DEF ReadOK
    <3> QED
      BY <3>1, <3>2
  <2> QED
    BY <1>1, <2>2, <2>3, GoodIsBut DEF Fd, y
<1> QED
  BY <1>2, <1>3

\* A send that finds the buffer full.
LEMMA BlockFacts ==
    ASSUME NEW x, NEW f \in Fds, But(x, f), NEW y,
           \/ y = Block(x, f)
           \/ y = [Block(x, f) EXCEPT !.nfill[f] = @ + 1]
    PROVE  /\ But(y, f) /\ y.want = x.want /\ y.pend = x.pend /\ y.live = x.live
           /\ y.mask = x.mask /\ y.rec = x.rec /\ y.readable = x.readable
<1>0. x \in Recs /\ "W" \in Events
  BY DEF But, Events
<1>1. /\ y.writable = [x.writable EXCEPT ![f] = FALSE]
      /\ y.armed = [x.armed EXCEPT ![f] = @ \cup {"W"}]
      /\ y.nfill = x.nfill \/ y.nfill = [x.nfill EXCEPT ![f] = @ + 1]
      /\ y.want = x.want /\ y.pend = x.pend /\ y.live = x.live /\ y.plist = x.plist
      /\ y.mask = x.mask /\ y.rec = x.rec /\ y.readable = x.readable /\ y.evt = x.evt
      /\ y = [x EXCEPT !.writable = y.writable, !.armed = y.armed, !.nfill = y.nfill]
  BY <1>0 DEF Block, Recs
<1>2. y.armed \in Masks /\ y.writable \in Flags
  BY <1>0, <1>1 DEF Recs, Masks, Flags
<1>3. y.nfill \in [Fds -> Nat]
  <2>1. x.nfill \in [Fds -> Nat] /\ x.nfill[f] + 1 \in Nat
    BY <1>0 DEF Recs
  <2> QED
    BY <1>1, <2>1
<1>4. y \in Recs
  BY <1>0, <1>1, <1>2, <1>3 DEF Recs
<1>5. \A g \in Fds \ {f} : Agree(x, y, g)
  BY <1>0, <1>1 DEF Agree, Recs, Masks
<1>6. ListOK(y)
  BY <1>1 DEF But, ListOK
<1> QED
  BY <1>1, <1>4, <1>5, <1>6, AgreeFd DEF But

\* fdevent_remove.
LEMMA RemoveGood ==
    ASSUME NEW x, NEW f \in Fds, But(x, f)
    PROVE  Good(FdeRemove(x, f))
<1> DEFINE x1 == OffList(x, f)
           y == FdeRemove(x, f)
<1>0. x \in Recs /\ ListOK(x)
  BY DEF But
<1>1. /\ x1 \in Recs /\ x1 = [x EXCEPT !.plist = x1.plist]
      /\ ToSet(x1.plist) = ToSet(x.plist) \ {f}
      /\ IsInjective(x.plist) => IsInjective(x1.plist)
  BY <1>0, OffListFacts
<1>2. y = Discard(x1, f)
  BY DEF FdeRemove
<1> HIDE DEF x1, y
<1>3. /\ y.want = [x.want EXCEPT ![f] = {}] /\ y.pend = [x.pend EXCEPT ![f] = {}]
      /\ y.live = x.live \ {f} /\ y.plist = x1.plist
      /\ y.mask = [x.mask EXCEPT ![f] = {}] /\ y.rec = [x.rec EXCEPT ![f] = {}]
      /\ y.armed = [x.armed EXCEPT ![f] = {}] /\ y.evt = [x.evt EXCEPT ![f] = FALSE]
      /\ y.readable = [x.readable EXCEPT ![f] = FALSE]
      /\ y.writable = [x.writable EXCEPT ![f] = TRUE] /\ y.hup = x.hup \ {f}
  BY <1>0, <1>1, <1>2 DEF Recs, Discard
<1>4. y \in Recs
  <2>1. /\ y.want \in Masks /\ y.pend \in Masks /\ y.live \in SUBSET Fds
        /\ y.mask \in Masks /\ y.rec \in Recorded /\ y.armed \in Masks
        /\ y.hup \in SUBSET Fds
    BY <1>0, <1>3 DEF Recs, Masks, Recorded
  <2>2. y.evt \in Flags /\ y.readable \in Flags /\ y.writable \in Flags
    BY <1>0, <1>3 DEF Recs, Flags
  <2>3. y = [x1 EXCEPT !.live = x1.live \ {f}, !.want = [x1.want EXCEPT ![f] = {}],
                       !.pend = [x1.pend EXCEPT ![f] = {}],
                       !.mask = [x1.mask EXCEPT ![f] = {}],
                       !.rec = [x1.rec EXCEPT ![f] = {}],
                       !.armed = [x1.armed EXCEPT ![f] = {}],
                       !.evt = [x1.evt EXCEPT ![f] = FALSE],
                       !.readable = [x1.readable EXCEPT ![f] = FALSE],
                       !.writable = [x1.writable EXCEPT ![f] = TRUE],
                       !.hup = x1.hup \ {f}]
    BY <1>2 DEF Discard
  <2>4. /\ x1.want = x.want /\ x1.pend = x.pend /\ x1.live = x.live /\ x1.mask = x.mask
        /\ x1.rec = x.rec /\ x1.armed = x.armed /\ x1.evt = x.evt
        /\ x1.readable = x.readable /\ x1.writable = x.writable /\ x1.hup = x.hup
    BY <1>0, <1>1 DEF Recs
  <2>5. y = [x1 EXCEPT !.live = y.live, !.want = y.want, !.pend = y.pend, !.mask = y.mask,
                       !.rec = y.rec, !.armed = y.armed, !.evt = y.evt,
                       !.readable = y.readable, !.writable = y.writable, !.hup = y.hup]
    BY <1>3, <2>3, <2>4
  <2> QED
    BY <1>1, <2>1, <2>2, <2>5 DEF Recs
<1>5. y.want[f] = {} /\ y.pend[f] = {}
  BY <1>0, <1>3 DEF Recs, Masks
<1>6. \A g \in Fds \ {f} : Agree(x, y, g)
  BY <1>0, <1>3 DEF Recs, Masks, Recorded, Flags, Agree
<1>7. ListOK(y)
  BY <1>0, <1>1, <1>3, <1>5, <1>6 DEF ListOK, Agree
<1>8. Fd(y, f)
  BY <1>5 DEF Fd, PendOK, ReadOK
<1>9. But(y, f)
  BY <1>4, <1>6, <1>7, AgreeFd DEF But
<1> QED
  BY <1>8, <1>9, GoodIsBut DEF y

\* What the callback of another descriptor does to g.
LEMMA TouchedGood == ASSUME NEW x, NEW g \in Fds, Good(x), NEW y \in Touched(x, g)
                     PROVE  Good(y)
<1>0. But(x, g) /\ Fd(x, g) /\ PendOK(x, g)
  BY GoodIsBut DEF Fd
<1>1. x.want[g] \in SUBSET Events /\ "R" \in Events /\ "W" \in Events
  BY <1>0 DEF But, Recs, Masks, Events
<1>2. CASE y = x
  BY <1>2
<1>3. CASE y = FdeSet(x, g, x.want[g] \cup {"R"})
  BY <1>0, <1>1, <1>3, WidenGood
<1>4. CASE y = FdeRemove(x, g)
  BY <1>0, <1>4, RemoveGood
<1>5. CASE y = FdeSet([Block(x, g) EXCEPT !.nfill[g] = @ + 1], g, x.want[g] \cup {"W"})
  <2> DEFINE b == [Block(x, g) EXCEPT !.nfill[g] = @ + 1]
  <2>1. But(b, g) /\ b.want = x.want /\ b.pend = x.pend
    BY <1>0, BlockFacts
  <2> HIDE DEF b
  <2>2. PendOK(b, g)
    BY <1>0, <2>1 DEF PendOK
  <2>3. Good(FdeSet(b, g, x.want[g] \cup {"W"}))
    BY <1>1, <2>1, <2>2, WidenGood
  <2> QED
    BY <1>5, <2>3 DEF b
<1>6. CASE y = FdeSet(x, g, {"W"}) /\ "W" \in x.want[g]
  BY <1>0, <1>1, <1>6, WidenGood
<1> QED
  BY <1>2, <1>3, <1>4, <1>5, <1>6 DEF Touched
-----------------------------------------------------------------------------
(* The callbacks *)

LEMMA InitInv == Init => IInv
<1> SUFFICES ASSUME Init PROVE IInv
  OBVIOUS
<1> USE FdEventAssumption DEF Init
<1>1. X \in Recs /\ ready \in Masks
  <2>1. /\ live \in SUBSET Fds /\ plist \in Seq(Fds) /\ want \in Masks /\ pend \in Masks
        /\ mask \in Masks /\ rec \in Recorded /\ armed \in Masks /\ ready \in Masks
        /\ hup \in SUBSET Fds
    BY EmptySeq DEF Masks, Recorded, Events
  <2>2. evt \in Flags /\ readable \in Flags /\ writable \in Flags
    BY Zenon DEF Flags
  <2>3. nfill \in [Fds -> Nat]
    OBVIOUS
  <2> QED
    BY <2>1, <2>2, <2>3 DEF Recs, X
<1>2. ListOK(X)
  <2>1. IsInjective(plist) /\ ToSet(plist) = {}
    BY EmptySeq, InList, InjectiveList
  <2> QED
    BY <2>1 DEF ListOK, X
<1>3. ASSUME NEW f \in Fds PROVE Fd(X, f)
  BY <1>3 DEF Fd, PendOK, ReadOK, X
<1> QED
  BY <1>1, <1>2, <1>3 DEF IInv, Good

LEMMA BecomesGood == ASSUME NEW x, Good(x), Becomes(x) PROVE Good(X)'
<1>1. x \in Recs
  BY DEF Good
<1>2. X' = x
  BY <1>1 DEF Becomes, X, Recs
<1> QED
  BY <1>2 DEF Good, ListOK, Fd, PendOK, ReadOK

\* The fdevent that is called is off the list, and nothing is pending for it.
LEMMA CalledFacts ==
    ASSUME Good(X), plist # << >>, NEW f, f = Head(plist), NEW y, y = Called(f)
    PROVE  /\ f \in Fds /\ pend[f] # {} /\ But(y, f) /\ y.pend[f] = {}
           /\ y.live = live /\ y.want = want /\ y.mask = mask /\ y.rec = rec
           /\ y.armed = armed /\ y.readable = readable
<1>1. X \in Recs /\ ListOK(X) /\ plist \in Seq(Fds) /\ pend \in [Fds -> SUBSET Events]
  BY DEF Good, Recs, Masks, X
<1>0. /\ X.live = live /\ X.want = want /\ X.mask = mask /\ X.rec = rec /\ X.plist = plist
      /\ X.armed = armed /\ X.readable = readable /\ X.pend = pend
  BY DEF X
<1>2. /\ f \in Fds /\ Tail(plist) \in Seq(Fds) /\ ToSet(plist) = ToSet(Tail(plist)) \cup {f}
      /\ IsInjective(Tail(plist)) /\ f \notin ToSet(Tail(plist))
  BY <1>0, <1>1, TailFacts DEF ListOK
<1>3. pend[f] # {}
  BY <1>0, <1>1, <1>2 DEF ListOK
<1>4. /\ y.plist = Tail(plist) /\ y.pend = [pend EXCEPT ![f] = {}]
      /\ y.live = live /\ y.want = want /\ y.mask = mask /\ y.rec = rec
      /\ y.armed = armed /\ y.readable = readable
  BY DEF Called, X
<1>5. y \in Recs
  <2>1. [pend EXCEPT ![f] = {}] \in Masks
    BY <1>1 DEF Masks
  <2>2. y = [X EXCEPT !.plist = Tail(plist), !.pend = [pend EXCEPT ![f] = {}]]
    BY DEF Called, X
  <2> QED
    BY <1>1, <1>2, <2>1, <2>2 DEF Recs
<1>6. y.pend[f] = {} /\ \A g \in Fds \ {f} : Agree(X, y, g)
  BY <1>0, <1>1, <1>2, <1>4 DEF Agree
<1>7. ListOK(y)
  <2>1. \A g \in Fds : g \in ToSet(y.plist) <=> y.pend[g] # {}
    BY <1>0, <1>1, <1>2, <1>4 DEF ListOK
  <2> QED
    BY <1>0, <1>1, <1>2, <1>4, <2>1 DEF ListOK
<1>8. But(y, f)
  BY <1>5, <1>6, <1>7, AgreeFd DEF But, Good
<1> QED
  BY <1>2, <1>3, <1>4, <1>6, <1>8

\* recv takes what is there and arms the event again.
LEMMA RecvFacts ==
    ASSUME NEW x, NEW f \in Fds, But(x, f), NEW y, y = Recv(x, f)
    PROVE  /\ But(y, f) /\ y.want = x.want /\ y.pend = x.pend /\ y.live = x.live
           /\ y.mask = x.mask /\ y.rec = x.rec /\ ~y.readable[f] /\ "R" \in y.armed[f]
<1>0. x \in Recs /\ "R" \in Events
  BY DEF But, Events
<1>1. /\ y.readable = [x.readable EXCEPT ![f] = FALSE]
      /\ y.armed = [x.armed EXCEPT ![f] = @ \cup {"R"}]
      /\ y.want = x.want /\ y.pend = x.pend /\ y.live = x.live /\ y.plist = x.plist
      /\ y.mask = x.mask /\ y.rec = x.rec
      /\ y = [x EXCEPT !.readable = y.readable, !.armed = y.armed]
  BY <1>0 DEF Recv, Recs
<1>2. y.armed \in Masks /\ y.readable \in Flags /\ ~y.readable[f] /\ "R" \in y.armed[f]
  BY <1>0, <1>1 DEF Recs, Masks, Flags
<1>3. y \in Recs
  BY <1>0, <1>1, <1>2 DEF Recs
<1>4. \A g \in Fds \ {f} : Agree(x, y, g)
  BY <1>0, <1>1 DEF Agree, Recs, Masks, Flags
<1>5. ListOK(y)
  BY <1>1 DEF But, ListOK
<1> QED
  BY <1>1, <1>2, <1>3, <1>4, <1>5, AgreeFd DEF But

LEMMA CallbackBlocksGood == ASSUME Good(X), CallbackBlocks PROVE Good(X)'
<1> DEFINE f == Head(plist)
           c == Called(f)
           b == Block(c, f)
<1>1. plist # << >> /\ "W" \in pend[f] /\ Becomes(b)
  BY DEF CallbackBlocks
<1>2. /\ f \in Fds /\ But(c, f) /\ c.pend[f] = {} /\ c.want = want
  BY <1>1, CalledFacts
<1> HIDE DEF c
<1>3. But(b, f) /\ b.want = c.want /\ b.pend = c.pend
  BY <1>2, BlockFacts
<1>4. "W" \in want[f]
  BY <1>1, <1>2 DEF Good, Fd, PendOK, X
<1>5. Fd(b, f)
  BY <1>2, <1>3, <1>4 DEF Fd, PendOK, ReadOK
<1>6. Good(b)
  BY <1>2, <1>3, <1>5, GoodIsBut
<1> QED
  BY <1>1, <1>6, BecomesGood

LEMMA CallbackGoesGood == ASSUME Good(X), CallbackGoes PROVE Good(X)'
<1> DEFINE f == Head(plist)
           reads == "R" \in pend[f]
           left == IF "W" \in pend[f] THEN want[f] \ {"W"} ELSE want[f]
           c == Called(f)
           r == IF reads THEN Recv(c, f) ELSE c
<1>1. plist # << >>
  BY DEF CallbackGoes
<1>2. PICK mine \in {left} \cup (IF reads THEN {left \ {"R"}} ELSE {}) :
         \/ Becomes(FdeSet(r, f, mine))
         \/ \E g \in live \ {f} : \E x2 \in Touched(FdeSet(r, f, mine), g) : Becomes(x2)
  BY DEF CallbackGoes
<1>3. mine \subseteq want[f]
  BY <1>2
<1>4. /\ f \in Fds /\ pend[f] # {} /\ But(c, f) /\ c.pend[f] = {} /\ c.want = want
  BY <1>1, CalledFacts
<1> HIDE DEF c
<1>5. /\ But(r, f) /\ r.want = want /\ r.pend[f] = {}
      /\ reads => ~r.readable[f] /\ "R" \in r.armed[f]
  BY <1>4, RecvFacts
<1> HIDE DEF r
<1>6. "R" \in want[f] => reads
  BY <1>4 DEF Good, Fd, PendOK, X
<1>7. mine \in SUBSET Events
  BY <1>3, <1>4, <1>5 DEF But, Recs, Masks
<1> DEFINE y == FdeSet(r, f, mine)
<1>8. /\ But(y, f) /\ y.want[f] = mine /\ y.readable = r.readable /\ y.pend[f] = {}
      /\ y.armed[f] = r.armed[f]
  <2>1. /\ But(y, f) /\ y.want[f] = mine /\ y.readable = r.readable
        /\ r.want[f] = mine => y = r
        /\ r.want[f] # mine => y.pend[f] = r.pend[f] \ mine
        /\ mine \subseteq r.want[f] => y.armed[f] = r.armed[f]
    BY <1>4, <1>5, <1>7, FdeSetFacts
  <2> HIDE DEF y
  <2> QED
    BY <1>3, <1>5, <2>1
<1> HIDE DEF y
<1>9. Fd(y, f)
  BY <1>3, <1>5, <1>6, <1>8 DEF Fd, PendOK, ReadOK
<1>10. Good(y)
  BY <1>4, <1>8, <1>9, GoodIsBut
<1>11. CASE Becomes(y)
  BY <1>10, <1>11, BecomesGood
<1>12. CASE \E g \in live \ {f} : \E x2 \in Touched(y, g) : Becomes(x2)
  <2>1. PICK g \in live \ {f} : \E x2 \in Touched(y, g) : Becomes(x2)
    BY <1>12
  <2>2. PICK x2 \in Touched(y, g) : Becomes(x2)
    BY <2>1
  <2>3. g \in Fds
    BY DEF Good, Recs, X
  <2>4. Good(x2)
    BY <1>10, <2>2, <2>3, TouchedGood
  <2> QED
    BY <2>2, <2>4, BecomesGood
<1> QED
  BY <1>2, <1>11, <1>12 DEF y

LEMMA CallbackEndsGood == ASSUME Good(X), CallbackEnds PROVE Good(X)'
<1> DEFINE f == Head(plist)
           c == Called(f)
           y == FdeRemove(c, f)
<1>1. plist # << >>
  BY DEF CallbackEnds
<1>2. f \in Fds /\ But(c, f)
  BY <1>1, CalledFacts
<1> HIDE DEF c
<1>3. Good(y)
  BY <1>2, RemoveGood
<1>4. Becomes(y) \/ \E g \in live \ {f} : \E x2 \in Touched(y, g) : Becomes(x2)
  BY DEF CallbackEnds, c
<1> HIDE DEF y
<1>5. CASE Becomes(y)
  BY <1>3, <1>5, BecomesGood
<1>6. CASE \E g \in live \ {f} : \E x2 \in Touched(y, g) : Becomes(x2)
  <2>1. PICK g \in live \ {f} : \E x2 \in Touched(y, g) : Becomes(x2)
    BY <1>6
  <2>2. PICK x2 \in Touched(y, g) : Becomes(x2)
    BY <2>1
  <2>3. g \in Fds
    BY DEF Good, Recs, X
  <2>4. Good(x2)
    BY <1>3, <2>2, <2>3, TouchedGood
  <2> QED
    BY <2>2, <2>4, BecomesGood
<1> QED
  BY <1>4, <1>5, <1>6
-----------------------------------------------------------------------------
(* fdevent_process *)

\* event_hook_signal for the hooks in S, when what the other hooks lose of the recorded
\* events is not wanted.
LEMMA SignalGood ==
    ASSUME Good(X), NEW S \in SUBSET Hooked, Signal(S), rec' \in Recorded, evt' \in Flags,
           \A g \in Fds \ S : rec'[g] = rec[g] \/ Found(g) = {},
           UNCHANGED <<live, mask, armed, readable, writable, hup, nfill>>
    PROVE  Good(X)'
<1> DEFINE new == {f \in S : pend[f] = {}}
<1>1. /\ live \in SUBSET Fds /\ want \in [Fds -> SUBSET Events]
      /\ pend \in [Fds -> SUBSET Events] /\ plist \in Seq(Fds) /\ ListOK(X) /\ X \in Recs
  BY DEF Good, Recs, Masks, X
<1>2. S \subseteq Fds /\ S \subseteq live /\ \A f \in S : want[f] # {}
  BY <1>1 DEF Hooked
<1>3. /\ SetToSeq(new) \in Seq(Fds) /\ IsInjective(SetToSeq(new)) /\ ToSet(SetToSeq(new)) = new
  <2>1. IsFiniteSet(new) /\ new \subseteq Fds
    BY <1>2, FdEventAssumption, FS_Subset
  <2>2. SetToSeq(new) \in Seq(new) /\ IsInjective(SetToSeq(new)) /\ ToSet(SetToSeq(new)) = new
    BY <2>1, SetToSeqFacts
  <2> HIDE DEF new
  <2> QED
    BY <2>1, <2>2
<1>4. /\ IsInjective(plist) /\ ToSet(plist) \subseteq live
      /\ \A f \in Fds : f \in ToSet(plist) <=> pend[f] # {}
  BY <1>1 DEF ListOK, X
<1>5. plist' = plist \o SetToSeq(new) /\ want' = want
  BY DEF Signal, Enlist
<1>6. \A f \in Fds : pend'[f] = IF f \in S THEN pend[f] \cup want[f] ELSE pend[f]
  BY DEF Signal
<1>7. /\ plist' \in Seq(Fds) /\ ToSet(plist') = ToSet(plist) \cup new /\ IsInjective(plist')
  <2>1. ToSet(plist) \cap new = {}
    BY <1>2, <1>4
  <2> HIDE DEF new
  <2> QED
    BY <1>1, <1>3, <1>4, <1>5, <2>1, ConcatFacts
<1>8. pend' \in Masks
  BY <1>1 DEF Signal, Masks
<1>9. (X \in Recs)'
  BY <1>1, <1>5, <1>7, <1>8 DEF Recs, X
<1>10. ListOK(X)'
  <2>1. \A f \in Fds : f \in ToSet(plist') <=> pend'[f] # {}
    BY <1>2, <1>4, <1>6, <1>7
  <2> QED
    BY <1>2, <1>4, <1>7, <2>1 DEF ListOK, X
<1>11. ASSUME NEW f \in Fds PROVE Fd(X, f)'
  <2>1. /\ "W" \in pend[f] => "W" \in want[f]
        /\ pend[f] # {} /\ "R" \in want[f] => "R" \in pend[f]
        /\ f \in live /\ "R" \in want[f] /\ want[f] = mask[f] /\ "W" \notin want[f] =>
             /\ readable[f] => "R" \in rec[f] \cup pend[f] \/ "C" \in rec[f]
             /\ ~readable[f] => "R" \in armed[f] \cup rec[f] \cup pend[f]
    BY DEF Good, Fd, PendOK, ReadOK, X
  <2>2. CASE f \in S
    BY <1>2, <1>5, <1>6, <2>1, <2>2 DEF Fd, PendOK, ReadOK, X
  <2>3. CASE f \notin S
    <3>1. rec'[f] = rec[f] \/ ("R" \in want[f] => "R" \notin rec[f] /\ "C" \notin rec[f])
      BY <2>3 DEF Found
    <3> QED
      BY <1>2, <1>5, <1>6, <2>1, <2>3, <3>1 DEF Fd, PendOK, ReadOK, X
  <2> QED
    BY <2>2, <2>3
<1> QED
  BY <1>9, <1>10, <1>11 DEF Good

\* What the state has of a Good record.
LEMMA Shape == ASSUME Good(X)
               PROVE  /\ live \in SUBSET Fds /\ want \in Masks /\ pend \in Masks
                      /\ plist \in Seq(Fds) /\ mask \in Masks /\ rec \in Recorded
                      /\ armed \in Masks /\ evt \in Flags /\ readable \in Flags
                      /\ writable \in Flags /\ hup \in SUBSET Fds /\ nfill \in [Fds -> Nat]
  BY DEF Good, Recs, X

LEMMA PrepareReadyGood == ASSUME IInv, PrepareReady PROVE IInv'
<1> DEFINE S == {f \in Hooked : Found(f) # {}}
<1>1. Good(X) /\ want \in Masks /\ rec \in Recorded /\ evt \in Flags
  BY Shape DEF IInv
<1>2. /\ Signal(S) /\ rec' = Enumerated
      /\ UNCHANGED <<live, mask, armed, readable, writable, hup, nfill>> /\ evt' = evt
      /\ ready' = [f \in Fds |-> IF f \in Hooked THEN Found(f) ELSE {}] /\ pc' = "peek"
  BY DEF PrepareReady
<1>3. rec' \in Recorded /\ ready' \in Masks
  BY <1>1, <1>2 DEF Masks, Recorded, Enumerated, Found
<1>4. \A g \in Fds \ S : rec'[g] = rec[g] \/ Found(g) = {}
  BY <1>2 DEF Enumerated, Found
<1>5. Good(X)'
  <2> HIDE DEF S
  <2>1. S \in SUBSET Hooked
    BY DEF S
  <2> QED
    BY <1>1, <1>2, <1>3, <1>4, <2>1, SignalGood
<1> QED
  BY <1>2, <1>3, <1>5 DEF IInv

LEMMA PeekGood == ASSUME IInv, Peek PROVE IInv'
<1> DEFINE S == {f \in Hooked : ready[f] \cup Found(f) # {}}
<1>1. Good(X) /\ want \in Masks /\ rec \in Recorded /\ evt \in Flags /\ ready \in Masks
  BY Shape DEF IInv
<1>2. /\ Signal(S) /\ rec' = Enumerated
      /\ UNCHANGED <<live, mask, armed, readable, writable, hup, nfill>> /\ evt' = evt
      /\ ready' = [f \in Fds |-> IF f \in Hooked THEN ready[f] \cup Found(f) ELSE ready[f]]
      /\ pc' = "calls"
  BY DEF Peek
<1>3. rec' \in Recorded /\ ready' \in Masks
  BY <1>1, <1>2 DEF Masks, Recorded, Enumerated, Found
<1>4. \A g \in Fds \ S : rec'[g] = rec[g] \/ Found(g) = {}
  BY <1>2 DEF Enumerated, Found
<1>5. Good(X)'
  <2> HIDE DEF S
  <2>1. S \in SUBSET Hooked
    BY DEF S
  <2> QED
    BY <1>1, <1>2, <1>3, <1>4, <2>1, SignalGood
<1> QED
  BY <1>2, <1>3, <1>5 DEF IInv

LEMMA WaitGood == ASSUME IInv, Wait PROVE IInv'
<1>1. Good(X) /\ want \in Masks /\ rec \in Recorded /\ evt \in Flags /\ ready \in Masks
      /\ live \in SUBSET Fds /\ pend \in Masks /\ plist \in Seq(Fds)
  BY Shape DEF IInv
<1>2. PICK f \in Hooked :
         /\ evt' = [evt EXCEPT ![f] = FALSE]
         /\ rec' = [rec EXCEPT ![f] = {}]
         /\ ready' = [ready EXCEPT ![f] = Found(f)]
         /\ \/ Found(f) # {} /\ Signal({f}) /\ pc' = "peek"
            \/ Found(f) = {} /\ UNCHANGED <<want, pend, plist, pc>>
  BY DEF Wait
<1>3. UNCHANGED <<live, mask, armed, readable, writable, hup, nfill>>
  BY DEF Wait
<1>4. f \in Fds /\ rec' \in Recorded /\ ready' \in Masks /\ evt' \in Flags
  BY <1>1, <1>2 DEF Masks, Recorded, Flags, Hooked, Found
<1>5. \A g \in Fds \ {f} : rec'[g] = rec[g]
  BY <1>1, <1>2, <1>4 DEF Recorded
<1>6. CASE Signal({f}) /\ pc' = "peek"
  <2>1. Good(X)'
    BY <1>1, <1>2, <1>3, <1>4, <1>5, <1>6, SignalGood
  <2> QED
    BY <1>4, <1>6, <2>1 DEF IInv
<1>7. CASE Found(f) = {} /\ UNCHANGED <<want, pend, plist, pc>>
  <2>1. Signal({})
    <3>1. pend' = [g \in Fds |-> IF g \in {} THEN pend[g] \cup want[g] ELSE pend[g]]
      BY <1>1, <1>7 DEF Masks
    <3>2. SetToSeq({g \in {} : pend[g] = {}}) = << >>
      <4>1. SetToSeq({}) \in Seq({}) /\ ToSet(SetToSeq({})) = {}
        BY SetToSeqFacts, FS_EmptySet
      <4> QED
        BY <4>1, InList
    <3>3. plist' = Enlist({})
      BY <1>1, <1>7, <3>2 DEF Enlist
    <3> QED
      BY <1>7, <3>1, <3>3 DEF Signal
  <2>2. \A g \in Fds \ {} : rec'[g] = rec[g] \/ Found(g) = {}
    BY <1>5, <1>7
  <2>3. Good(X)'
    BY <1>1, <1>3, <1>4, <2>1, <2>2, SignalGood
  <2> QED
    BY <1>4, <1>7, <2>3 DEF IInv
<1> QED
  BY <1>2, <1>6, <1>7

\* Nothing is ready: the recorded events that nobody wants are forgotten, and a hook whose
\* mask has changed is selected, which records what holds already.
LEMMA PrepareIdleGood == ASSUME IInv, PrepareIdle PROVE IInv'
<1> DEFINE x == [X EXCEPT !.rec = Enumerated]
           new(f) == f \in Hooked /\ want[f] # mask[f]
           now(f) == Holds(X, f) \cap want[f]
           all(f) == now(f) \cup Closed(X, f, want[f])
           y == Start(x)
<1>1. /\ Good(X) /\ want \in Masks /\ mask \in Masks /\ rec \in Recorded /\ armed \in Masks
      /\ evt \in Flags
  BY Shape DEF IInv
<1>2. Becomes(y) /\ ready' \in Masks /\ pc' = "wait"
  BY DEF PrepareIdle, Masks
<1>3. \A f \in Hooked : Found(f) = {}
  BY DEF PrepareIdle
<1>4. \A f \in Fds : /\ now(f) \in SUBSET Events /\ want[f] \ now(f) \in SUBSET Events
                    /\ all(f) \in SUBSET (Events \cup {"C"})
  BY <1>1 DEF Holds, Closed, Masks
<1>5. /\ x.want = want /\ x.mask = mask /\ x.rec = Enumerated /\ x.armed = armed
      /\ x.evt = evt /\ x.readable = readable /\ x.writable = writable /\ x.nfill = nfill
      /\ x.hup = hup /\ x.live = live /\ x.pend = pend /\ x.plist = plist
  BY DEF X
<1>6. ASSUME NEW f \in Fds
      PROVE  /\ Select(x, f, want[f]).mask[f] = want[f] /\ Select(x, f, want[f]).rec[f] = all(f)
             /\ Select(x, f, want[f]).armed[f] = want[f] \ now(f)
             /\ Select(x, f, want[f]).evt[f] \in BOOLEAN
  <2> DEFINE q == Select(x, f, want[f])
  <2>1. Holds(x, f) = Holds(X, f) /\ Closed(x, f, want[f]) = Closed(X, f, want[f])
    BY DEF Holds, Closed, X
  <2>2. /\ q.mask = [mask EXCEPT ![f] = want[f]]
        /\ q.rec = [Enumerated EXCEPT ![f] = all(f)]
        /\ q.armed = [armed EXCEPT ![f] = want[f] \ now(f)]
        /\ q.evt = [evt EXCEPT ![f] = evt[f] \/ all(f) # {}]
    <3> HIDE DEF x
    <3>1. q = [x EXCEPT !.mask[f] = want[f], !.rec[f] = all(f), !.armed[f] = want[f] \ now(f),
                        !.evt[f] = @ \/ all(f) # {}]
      BY <2>1 DEF Select
    <3> HIDE DEF q, now, all
    <3> QED
      BY <1>5, <3>1 DEF x, X
  <2> HIDE DEF q, now, all
  <2>3. Enumerated \in Recorded
    BY <1>1 DEF Enumerated, Recorded
  <2>4. q.mask[f] = want[f] /\ q.rec[f] = all(f) /\ q.armed[f] = want[f] \ now(f)
    BY <1>1, <2>2, <2>3 DEF Masks, Recorded
  <2>5. q.evt[f] \in BOOLEAN
    BY <1>1, <2>2, Zenon DEF Flags
  <2> QED
    BY <2>4, <2>5 DEF q
<1> DEFINE mask1 == [f \in Fds |-> IF new(f) THEN Select(x, f, want[f]).mask[f] ELSE mask[f]]
           rec1 == [f \in Fds |-> IF new(f) THEN Select(x, f, want[f]).rec[f] ELSE Enumerated[f]]
           armed1 == [f \in Fds |-> IF new(f) THEN Select(x, f, want[f]).armed[f] ELSE armed[f]]
           evt1 == [f \in Fds |-> IF new(f) THEN Select(x, f, want[f]).evt[f] ELSE evt[f]]
<1>7. y = [x EXCEPT !.mask = mask1, !.rec = rec1, !.armed = armed1, !.evt = evt1]
  <2> HIDE DEF x
  <2> QED
    BY <1>5 DEF Start
<1> HIDE DEF now, all
<1>8. mask1 \in Masks /\ rec1 \in Recorded /\ armed1 \in Masks
  <2> HIDE DEF x
  <2> QED
    BY <1>1, <1>4, <1>6 DEF Masks, Recorded, Enumerated
<1>9. evt1 \in Flags
  <2> HIDE DEF x
  <2>1. \A f \in Fds : (IF new(f) THEN Select(x, f, want[f]).evt[f] ELSE evt[f]) \in BOOLEAN
    BY <1>1, <1>6, Zenon DEF Flags
  <2> QED
    BY <2>1, Zenon DEF Flags
<1>10. \A f \in Fds : IF new(f)
         THEN mask1[f] = want[f] /\ rec1[f] = all(f) /\ armed1[f] = want[f] \ now(f)
         ELSE mask1[f] = mask[f] /\ armed1[f] = armed[f]
              /\ (rec1[f] = rec[f] \/ Found(f) = {})
  <2> HIDE DEF x
  <2> QED
    BY <1>3, <1>6 DEF Enumerated
<1> HIDE DEF x, new, mask1, rec1, armed1, evt1, y
<1>11. /\ y.mask = mask1 /\ y.rec = rec1 /\ y.armed = armed1 /\ y.evt = evt1
       /\ y.want = want /\ y.pend = pend /\ y.plist = plist /\ y.live = live
       /\ y.readable = readable /\ y.writable = writable /\ y.nfill = nfill
  BY <1>5, <1>7 DEF x, X
<1>12. y \in Recs
  <2>1. y = [X EXCEPT !.mask = mask1, !.rec = rec1, !.armed = armed1, !.evt = evt1]
    BY <1>7 DEF x, X
  <2>2. X \in Recs
    BY <1>1 DEF Good
  <2> QED
    BY <1>8, <1>9, <2>1, <2>2 DEF Recs
<1>13. ListOK(y)
  BY <1>1, <1>11 DEF Good, ListOK, X
<1>14. ASSUME NEW f \in Fds PROVE Fd(y, f)
  <2>1. PendOK(y, f)
    BY <1>1, <1>11 DEF Good, Fd, PendOK, X
  <2>2. ReadOK(y, f)
    <3>1. CASE new(f)
      <4>1. "R" \in want[f] => ("R" \in now(f) <=> readable[f]) /\ now(f) \subseteq all(f)
        BY DEF now, all, Holds, Events, X
      <4> QED
        BY <1>10, <1>11, <3>1, <4>1 DEF ReadOK
    <3>2. CASE ~new(f)
      <4>1. ReadOK(X, f)
        BY <1>1 DEF Good, Fd
      <4>2. "R" \in want[f] /\ rec1[f] # rec[f] => "R" \notin rec[f] /\ "C" \notin rec[f]
        BY <1>10, <3>2 DEF Found
      <4> QED
        BY <1>10, <1>11, <3>2, <4>1, <4>2 DEF ReadOK, X
    <3> QED
      BY <3>1, <3>2
  <2> QED
    BY <2>1, <2>2 DEF Fd
<1>15. Good(X)'
  BY <1>2, <1>12, <1>13, <1>14, BecomesGood DEF Good
<1> QED
  BY <1>2, <1>15 DEF IInv

-----------------------------------------------------------------------------
(* The other ends *)

\* Something happens at the other end of f's connection.
LEMMA OccursGood ==
    ASSUME Good(X), NEW f \in Fds, NEW e \in Events, NEW x,
           \/ e = "R" /\ x = [X EXCEPT !.readable[f] = TRUE] /\ ~readable[f]
           \/ e = "W" /\ x = [X EXCEPT !.writable[f] = TRUE]
    PROVE  Good(Occurs(x, f, e))
<1> DEFINE y == Occurs(x, f, e)
           s == e \in mask[f] \cap armed[f]
<1>1. /\ X \in Recs /\ rec \in [Fds -> SUBSET (Events \cup {"C"})] /\ armed \in [Fds -> SUBSET Events]
      /\ evt \in [Fds -> BOOLEAN] /\ readable \in [Fds -> BOOLEAN]
      /\ writable \in [Fds -> BOOLEAN] /\ mask \in [Fds -> SUBSET Events]
  BY Shape DEF Good, Masks, Recorded, Flags
<1>2. /\ x.mask = mask /\ x.rec = rec /\ x.armed = armed /\ x.evt = evt
      /\ x.want = want /\ x.pend = pend /\ x.plist = plist /\ x.live = live
      /\ x.nfill = nfill
      /\ x.readable = IF e = "R" THEN [readable EXCEPT ![f] = TRUE] ELSE readable
      /\ x.writable = IF e = "R" THEN writable ELSE [writable EXCEPT ![f] = TRUE]
  BY DEF X
<1>3. x \in Recs
  <2>1. x.readable \in Flags /\ x.writable \in Flags
    BY <1>1, <1>2 DEF Flags
  <2>2. x = [X EXCEPT !.readable = x.readable, !.writable = x.writable]
    BY DEF X
  <2> QED
    BY <1>1, <2>1, <2>2 DEF Recs
<1>4. /\ y.mask = mask /\ y.want = want /\ y.pend = pend /\ y.plist = plist /\ y.live = live
      /\ y.readable = x.readable
      /\ y.rec = IF s THEN [rec EXCEPT ![f] = @ \cup {e}] ELSE rec
      /\ y.armed = IF s THEN [armed EXCEPT ![f] = @ \ {e}] ELSE armed
  BY <1>2, <1>3 DEF Occurs, Recs
<1>5. y \in Recs
  <2>1. CASE s
    <3>1. y = [x EXCEPT !.rec = [rec EXCEPT ![f] = @ \cup {e}],
                        !.armed = [armed EXCEPT ![f] = @ \ {e}],
                        !.evt = [evt EXCEPT ![f] = TRUE]]
      BY <1>2, <2>1 DEF Occurs
    <3>2. /\ [rec EXCEPT ![f] = @ \cup {e}] \in Recorded /\ [armed EXCEPT ![f] = @ \ {e}] \in Masks
          /\ [evt EXCEPT ![f] = TRUE] \in Flags
      BY <1>1 DEF Masks, Recorded, Flags
    <3> QED
      BY <1>3, <3>1, <3>2 DEF Recs
  <2>2. CASE ~s
    <3>1. y = x
      BY <1>2, <2>2 DEF Occurs
    <3> QED
      BY <1>3, <3>1
  <2> QED
    BY <2>1, <2>2
<1> HIDE DEF y
<1>6. ListOK(y)
  BY <1>4 DEF Good, ListOK, X
<1>7. ASSUME NEW g \in Fds PROVE Fd(y, g)
  <2>1. PendOK(X, g) /\ ReadOK(X, g)
    BY DEF Good, Fd
  <2>2. PendOK(y, g)
    BY <1>4, <2>1 DEF PendOK, X
  <2>3. CASE g # f
    BY <1>1, <1>2, <1>4, <2>1, <2>2, <2>3 DEF Fd, ReadOK, X
  <2>4. CASE g = f /\ e = "W"
    BY <1>1, <1>2, <1>4, <2>1, <2>2, <2>4 DEF Fd, ReadOK, X
  <2>5. CASE g = f /\ e = "R"
    BY <1>1, <1>2, <1>4, <2>1, <2>2, <2>5 DEF Fd, ReadOK, X
  <2> QED
    BY <2>3, <2>4, <2>5 DEF Events
<1> QED
  BY <1>5, <1>6, <1>7 DEF Good, y

\* The other end is closed: FD_CLOSE is recorded if anything is selected.
LEMMA PeerClosesGood == ASSUME IInv, NEW f \in Fds, PeerCloses(f) PROVE IInv'
<1> DEFINE x == [X EXCEPT !.readable[f] = TRUE, !.hup = @ \cup {f}]
           now == Closed(x, f, mask[f])
           y == [x EXCEPT !.rec[f] = @ \cup now, !.evt[f] = @ \/ now # {}]
<1>1. /\ Good(X) /\ X \in Recs /\ rec \in Recorded /\ evt \in Flags /\ readable \in Flags
      /\ mask \in Masks /\ hup \in SUBSET Fds
  BY Shape DEF IInv, Good
<1>2. Becomes(y) /\ ready' = ready /\ pc' = pc
  BY DEF PeerCloses
<1>3. now = IF mask[f] # {} THEN {"C"} ELSE {}
  BY DEF Closed, X
<1> HIDE DEF now
<1>4. y = [X EXCEPT !.readable = [readable EXCEPT ![f] = TRUE], !.hup = hup \cup {f},
                    !.rec = [rec EXCEPT ![f] = @ \cup now],
                    !.evt = [evt EXCEPT ![f] = @ \/ now # {}]]
  BY DEF X
<1> HIDE DEF y
<1>5. /\ y.mask = mask /\ y.want = want /\ y.pend = pend /\ y.plist = plist /\ y.live = live
      /\ y.armed = armed /\ y.readable = [readable EXCEPT ![f] = TRUE]
      /\ y.rec = [rec EXCEPT ![f] = @ \cup now]
  BY <1>4 DEF X
<1>6. y \in Recs
  <2>1. [rec EXCEPT ![f] = @ \cup now] \in Recorded /\ hup \cup {f} \in SUBSET Fds
    BY <1>1, <1>3 DEF Recorded
  <2>2. [readable EXCEPT ![f] = TRUE] \in Flags
    BY <1>1 DEF Flags
  <2>3. [evt EXCEPT ![f] = @ \/ now # {}] \in Flags
    BY <1>1, Zenon DEF Flags
  <2> QED
    BY <1>1, <1>4, <2>1, <2>2, <2>3 DEF Recs
<1>7. ListOK(y)
  BY <1>1, <1>5 DEF Good, ListOK, X
<1>8. ASSUME NEW g \in Fds PROVE Fd(y, g)
  <2>1. PendOK(X, g) /\ ReadOK(X, g)
    BY <1>1 DEF Good, Fd
  <2>2. PendOK(y, g)
    BY <1>5, <2>1 DEF PendOK, X
  <2>3. CASE g # f
    BY <1>1, <1>5, <2>1, <2>2, <2>3 DEF Fd, ReadOK, Recorded, Flags, X
  <2>4. CASE g = f
    BY <1>1, <1>3, <1>5, <2>2, <2>4 DEF Fd, ReadOK, Recorded, Flags
  <2> QED
    BY <2>3, <2>4
<1>9. Good(X)'
  BY <1>2, <1>6, <1>7, <1>8, BecomesGood DEF Good
<1> QED
  BY <1>1, <1>2, <1>9 DEF IInv

LEMMA ArrivalGood == ASSUME IInv, NEW f \in Fds, DataArrives(f) \/ RoomAgain(f) PROVE IInv'
<1>1. Good(X) /\ ready' = ready /\ pc' = pc
  BY DEF IInv, DataArrives, RoomAgain
<1>2. CASE DataArrives(f)
  <2>1. ~readable[f] /\ Becomes(Occurs([X EXCEPT !.readable[f] = TRUE], f, "R"))
    BY <1>2 DEF DataArrives
  <2>2. Good(Occurs([X EXCEPT !.readable[f] = TRUE], f, "R"))
    BY <1>1, <2>1, OccursGood DEF Events
  <2> QED
    BY <1>1, <2>1, <2>2, BecomesGood DEF IInv
<1>3. CASE RoomAgain(f)
  <2>1. Becomes(Occurs([X EXCEPT !.writable[f] = TRUE], f, "W"))
    BY <1>3 DEF RoomAgain
  <2>2. Good(Occurs([X EXCEPT !.writable[f] = TRUE], f, "W"))
    BY <1>1, OccursGood DEF Events
  <2> QED
    BY <1>1, <2>1, <2>2, BecomesGood DEF IInv
<1> QED
  BY <1>2, <1>3

-----------------------------------------------------------------------------
LEMMA NextInv == IInv /\ [Next]_vars => IInv'
<1> SUFFICES ASSUME IInv, [Next]_vars PROVE IInv'
  OBVIOUS
<1>1. CASE PrepareReady
  BY <1>1, PrepareReadyGood
<1>2. CASE PrepareIdle
  BY <1>2, PrepareIdleGood
<1>3. CASE Wait
  BY <1>3, WaitGood
<1>4. CASE Peek
  BY <1>4, PeekGood
<1>5. CASE CallbackBlocks
  BY <1>5, CallbackBlocksGood DEF IInv, CallbackBlocks
<1>6. CASE CallbackGoes
  BY <1>6, CallbackGoesGood DEF IInv, CallbackGoes
<1>7. CASE Iterate
  <2>1. Good(X)'
    BY <1>7 DEF IInv, Iterate, Good, ListOK, Fd, PendOK, ReadOK, X
  <2> QED
    BY <1>7, <2>1 DEF IInv, Iterate
<1>8. CASE \E f \in Fds : DataArrives(f) \/ PeerCloses(f) \/ RoomAgain(f)
  BY <1>8, ArrivalGood, PeerClosesGood
<1>9. CASE CallbackEnds
  BY <1>9, CallbackEndsGood DEF IInv, CallbackEnds
<1>10. CASE UNCHANGED vars
  BY <1>10 DEF vars, IInv, Good, ListOK, Fd, PendOK, ReadOK, X
<1> QED
  BY <1>1, <1>2, <1>3, <1>4, <1>5, <1>6, <1>7, <1>8, <1>9, <1>10 DEF Next, Loop

LEMMA InvImpliesLoopInv == IInv => LoopInv
<1> SUFFICES ASSUME IInv PROVE LoopInv
  OBVIOUS
<1>1. Good(X) /\ ListOK(X)
  BY DEF IInv, Good
<1>2. /\ IsInjective(plist) /\ ToSet(plist) \subseteq live
      /\ \A f \in Fds : f \in ToSet(plist) <=> pend[f] # {}
  BY <1>1 DEF ListOK, X
<1>3. /\ live \in SUBSET Fds /\ want \in Masks /\ pend \in Masks
      /\ plist \in Seq(Fds) /\ mask \in Masks /\ rec \in Recorded
      /\ armed \in Masks /\ evt \in Flags /\ readable \in Flags /\ writable \in Flags
      /\ hup \in SUBSET Fds
  BY <1>1, Shape
<1>4. Len(plist) <= Cardinality(Fds)
  <2>1. ToSet(plist) \subseteq Fds
    BY <1>2, <1>3
  <2>2. Cardinality(ToSet(plist)) <= Cardinality(Fds)
    BY <2>1, FdEventAssumption, FS_Subset
  <2> QED
    BY <1>2, <1>3, <2>2, LenIsCardinality
<1>5. TypeOK
  BY <1>3, <1>4 DEF TypeOK, Masks, Recorded, Flags, IInv
<1>6. PendingListRight
  BY <1>2 DEF PendingListRight
<1>7. ReadNotLost
  <2> SUFFICES ASSUME NEW f \in Hooked, readable[f], "R" \in want[f]
               PROVE  \/ "R" \in rec[f] \cup pend[f] \/ "C" \in rec[f]
                      \/ want[f] # mask[f] \/ "W" \in want[f]
    BY DEF ReadNotLost
  <2>1. f \in Fds /\ f \in live
    BY <1>3 DEF Hooked
  <2>2. ReadOK(X, f)
    BY <1>1, <2>1 DEF Good, Fd
  <2> QED
    BY <2>1, <2>2 DEF ReadOK, X
<1> QED
  BY <1>5, <1>6, <1>7 DEF LoopInv

\* fdevent_loop, fdevent_process and fdevent_set, whatever the callbacks do to the masks
\* of other descriptors: the pending list has each pending fdevent once and none that was
\* removed, so it is never longer than the descriptors are many, and no wanted read is
\* forgotten.
THEOREM LoopCorrect == Spec => []LoopInv
<1>1. Init => IInv
  BY InitInv
<1>2. IInv /\ [Next]_vars => IInv'
  BY NextInv
<1>3. IInv => LoopInv
  BY InvImpliesLoopInv
<1> QED
  BY <1>1, <1>2, <1>3, PTL DEF Spec

-----------------------------------------------------------------------------
(* _wait_for_all *)

\* Which threads of the call may run, by where the main thread is.
ThreadInv ==
    /\ ~InCall => /\ \A i \in Threads : tpc[i] = "none"
                  /\ main = FALSE /\ sig_index = -1 /\ chunk = 0
    /\ wpc = "create" => started = Chunks /\ \A i \in Threads : i >= chunk => tpc[i] = "none"
    /\ wpc = "wait" => \A i \in Threads : i >= started => tpc[i] = "none"
    /\ wpc = "join" => /\ main
                      /\ \A i \in Threads : i >= started \/ i < chunk => tpc[i] = "none"
    /\ \A i \in Threads : tpc[i] \notin {"woken", "stored"} => res[i] = -1
    /\ \A i \in Threads : tpc[i] = "exited" => main
    /\ \A i \in Threads : res[i] # -1 => res[i] \in ChunkOf(i)

\* Whoever knows that the wait is over knows of an index or of a failure.
Answer == sig_index >= 0 \/ failed
AnswerInv ==
    /\ main => Answer
    /\ \A i \in Threads : tpc[i] = "woken" /\ res[i] = -1 => Answer
    /\ \A i \in Threads : tpc[i] = "stored" => Answer
    /\ wpc = "check" /\ ret = WAIT_FAILED => failed

\* Every index on its way to the caller is that of a handle which is set, or reset itself.
IndexInv ==
    /\ set \cap Pairs \subseteq due
    /\ sig_index \in Pairs => sig_index \in due
    /\ \A i \in Threads : res[i] \in Pairs => res[i] \in due
    /\ wpc = "check" /\ ret \in Pairs => ret \in due

WaitIInv == WaitType /\ ThreadInv /\ AnswerInv /\ IndexInv

\* The number of chunks is a number, and so is the first index of a chunk.
LEMMA ChunksNat == Chunks \in Nat /\ \A i \in Threads : First(i) \in Int
  <1>1. Count \div WAIT_ALL_CHUNK_SIZE \in Nat
    BY WaitAssumption
  <1>2. Chunks \in Nat
    BY <1>1 DEF Chunks
  <1>3. ASSUME NEW i \in Threads PROVE First(i) \in Int
    BY <1>2, <1>3, WaitAssumption DEF First, Threads
  <1> QED BY <1>2, <1>3

\* What a thread stores is the handle that woke it.
LEMMA StoredIndex ==
    ASSUME NEW i \in Threads, NEW h \in Handles
    PROVE  Absolute(i, h - First(i) + 1) = h
  BY ChunksNat, WaitAssumption DEF Absolute, Handles

USE DEF Handles, Pairs, InCall, WAIT_FAILED

\* The initial states.
LEMMA WaitInitInv == ASSUME WaitInit PROVE WaitIInv
  <1>1. WaitType
    <2>1. tpc \in [Threads -> {"none", "wait", "woken", "stored", "exited"}]
      BY DEF WaitInit
    <2>2. res \in [Threads -> Handles \cup {-1}]
      BY DEF WaitInit
    <2>3. set \subseteq Handles /\ due \subseteq Handles
      BY WaitAssumption DEF WaitInit
    <2>4. chunk \in 0..Chunks /\ started \in 0..Chunks /\ failures \in 0..MaxFailures
      BY ChunksNat, WaitAssumption DEF WaitInit
    <2>5. main \in BOOLEAN /\ failed \in BOOLEAN
          /\ sig_index \in Handles \cup {-1} /\ ret \in Handles \cup {WAIT_FAILED}
          /\ wpc \in {"loop", "enter", "create", "wait", "join", "check", "peek"}
      BY DEF WaitInit
    <2> HIDE DEF Handles, WAIT_FAILED
    <2> QED BY <2>1, <2>2, <2>3, <2>4, <2>5 DEF WaitType
  <1>2. ThreadInv
    BY DEF WaitInit, ThreadInv
  <1>3. AnswerInv
    BY DEF WaitInit, AnswerInv
  <1>4. IndexInv
    BY WaitAssumption DEF WaitInit, IndexInv
  <1> QED BY <1>1, <1>2, <1>3, <1>4 DEF WaitIInv

\* Steps of the main thread that leave the waiting threads alone.
LEMMA LoopSteps ==
    ASSUME WaitIInv, Begin \/ Deliver \/ Check \/ EnterFails \/ Enter
    PROVE  WaitIInv'
  <1> USE ChunksNat, WaitAssumption DEF WaitIInv, waits
  <1>1. CASE Begin
    BY <1>1 DEF Begin, WaitType, ThreadInv, AnswerInv, Answer, IndexInv
  <1>2. CASE Deliver
    BY <1>2 DEF Deliver, WaitType, ThreadInv, AnswerInv, Answer, IndexInv
  <1>3. CASE Check
    BY <1>3 DEF Check, WaitType, ThreadInv, AnswerInv, Answer, IndexInv
  <1>4. CASE EnterFails
    BY <1>4 DEF EnterFails, Fails, WaitType, ThreadInv, AnswerInv, Answer, IndexInv
  <1>5. CASE Enter
    BY <1>5 DEF Enter, WaitType, ThreadInv, AnswerInv, Answer, IndexInv
  <1> QED BY <1>1, <1>2, <1>3, <1>4, <1>5

\* Steps of the main thread in _wait_for_all.
LEMMA CallSteps ==
    ASSUME WaitIInv, Create \/ CreateFails \/ Created \/ Woken \/ Join \/ Leave
    PROVE  WaitIInv'
  <1> USE ChunksNat, WaitAssumption DEF WaitIInv, waits
  <1>1. CASE Create
    <2>1. chunk \in Threads /\ tpc[chunk] = "none"
      BY <1>1 DEF Create, WaitType, ThreadInv, Threads
    <2>2. WaitType'
      BY <1>1, <2>1 DEF Create, WaitType
    <2>3. ThreadInv'
      BY <1>1, <2>1, <2>2 DEF Create, WaitType, ThreadInv, Threads
    <2>4. AnswerInv'
      BY <1>1, <2>1 DEF Create, WaitType, ThreadInv, AnswerInv, Answer
    <2>5. IndexInv'
      BY <1>1 DEF Create, IndexInv
    <2> QED BY <2>2, <2>3, <2>4, <2>5
  <1>2. CASE CreateFails
    BY <1>2 DEF CreateFails, Fails, WaitType, ThreadInv, AnswerInv, Answer, IndexInv
  <1>3. CASE Created
    BY <1>3 DEF Created, WaitType, ThreadInv, AnswerInv, Answer, IndexInv
  <1>4. CASE Woken
    BY <1>4 DEF Woken, WaitType, ThreadInv, AnswerInv, Answer, IndexInv, Threads
  <1>5. CASE Join
    <2>1. chunk \in Threads
      BY <1>5 DEF Join, WaitType, Threads
    <2>2. WaitType'
      BY <1>5, <2>1 DEF Join, WaitType
    <2>3. ThreadInv'
      BY <1>5, <2>1, <2>2 DEF Join, WaitType, ThreadInv, Threads
    <2>4. AnswerInv' /\ IndexInv'
      BY <1>5, <2>1 DEF Join, WaitType, AnswerInv, Answer, IndexInv
    <2> QED BY <2>2, <2>3, <2>4
  <1>6. CASE Leave
    <2>a. ret' \in Handles \cup {WAIT_FAILED} /\ chunk' \in 0..Chunks
      BY <1>6 DEF Leave, WaitType
    <2>1. WaitType'
      BY <1>6, <2>a DEF Leave, WaitType
    <2>2. ThreadInv'
      BY <1>6 DEF Leave, WaitType, ThreadInv, Threads
    <2>3. AnswerInv'
      BY <1>6, <2>2 DEF Leave, WaitType, ThreadInv, AnswerInv, Answer
    <2>4. IndexInv'
      BY <1>6 DEF Leave, WaitType, IndexInv
    <2> QED BY <2>1, <2>2, <2>3, <2>4
  <1> QED BY <1>1, <1>2, <1>3, <1>4, <1>5, <1>6

\* Steps of a waiting thread.
LEMMA WaiterSteps ==
    ASSUME WaitIInv, NEW i \in Threads, Waiter(i)
    PROVE  WaitIInv'
  <1> USE ChunksNat, WaitAssumption DEF WaitIInv
  <1>1. CASE ThreadWakes(i) /\ main
    BY <1>1 DEF ThreadWakes, WaitType, ThreadInv, AnswerInv, Answer, IndexInv
  <1>2. CASE ThreadWakes(i) /\ ~main
    <2>1. PICK h \in Ready(i) : /\ res' = [res EXCEPT ![i] = h]
                                /\ set' = set \ ({h} \cap Sockets)
      BY <1>2 DEF ThreadWakes
    <2>a. h \in set /\ h \in ChunkOf(i)
      BY <2>1 DEF Ready
    <2>b. h \in Handles
      BY <2>a DEF ChunkOf
    <2>2. h \in Handles /\ h \in set /\ h \in ChunkOf(i) /\ h # -1
      BY <2>a, <2>b
    <2>3. WaitType'
      BY <1>2, <2>1, <2>2 DEF ThreadWakes, WaitType
    <2>4. ThreadInv'
      BY <1>2, <2>1, <2>2 DEF ThreadWakes, WaitType, ThreadInv, ChunkOf
    <2>5. AnswerInv'
      BY <1>2, <2>1, <2>2 DEF ThreadWakes, WaitType, AnswerInv, Answer
    <2>6. IndexInv'
      BY <1>2, <2>1, <2>2 DEF ThreadWakes, WaitType, IndexInv
    <2> QED BY <2>3, <2>4, <2>5, <2>6
  <1>3. CASE ThreadStores(i)
    <2> DEFINE n == IF res[i] = -1 THEN 0 ELSE res[i] - First(i) + 1
    <2>1. res[i] \in Handles \cup {-1}
      BY DEF WaitType
    <2>2. sig_index' \in {sig_index, res[i]}
      BY <1>3, <2>1, StoredIndex DEF ThreadStores, Stores
    <2>3. res[i] # -1 => sig_index' >= 0
      BY <1>3, <2>1, StoredIndex DEF ThreadStores, Stores, ThreadInv, ChunkOf, WaitType
    <2>4. sig_index >= 0 => sig_index' >= 0
      BY <1>3 DEF ThreadStores, WaitType
    <2>5. WaitType'
      BY <1>3, <2>1, <2>2 DEF ThreadStores, WaitType
    <2>6. ThreadInv'
      BY <1>3 DEF ThreadStores, WaitType, ThreadInv, ChunkOf
    <2>7. AnswerInv'
      BY <1>3, <2>3, <2>4 DEF ThreadStores, WaitType, AnswerInv, Answer
    <2>8. IndexInv'
      BY <1>3, <2>2 DEF ThreadStores, IndexInv
    <2> QED BY <2>5, <2>6, <2>7, <2>8
  <1>4. CASE ThreadExits(i)
    <2>1. WaitType'
      BY <1>4 DEF ThreadExits, WaitType
    <2>2. ThreadInv'
      BY <1>4 DEF ThreadExits, WaitType, ThreadInv, ChunkOf
    <2>3. AnswerInv' /\ IndexInv'
      BY <1>4 DEF ThreadExits, WaitType, AnswerInv, Answer, IndexInv
    <2> QED BY <2>1, <2>2, <2>3
  <1> QED BY <1>1, <1>2, <1>3, <1>4 DEF Waiter

\* A network event, or bytes written to a socketpair.
LEMMA OccursStep ==
    ASSUME WaitIInv, NEW h \in Handles, EventOccurs(h)
    PROVE  WaitIInv'
  BY ChunksNat DEF EventOccurs, waits, WaitIInv, WaitType, ThreadInv, AnswerInv, Answer, IndexInv,
          ChunkOf

\* The strengthened invariant of _wait_for_all holds in every reachable state.
THEOREM WaitInvariant == WaitSpec => []WaitIInv
  <1>1. WaitInit => WaitIInv
    BY WaitInitInv
  <1>2. WaitIInv /\ [WaitNext]_waitVars => WaitIInv'
    <2> SUFFICES ASSUME WaitIInv, [WaitNext]_waitVars PROVE WaitIInv'
      OBVIOUS
    <2>1. CASE MainThread
      BY <2>1, LoopSteps, CallSteps DEF MainThread
    <2>2. CASE \E i \in Threads : Waiter(i)
      BY <2>2, WaiterSteps
    <2>3. CASE \E h \in Handles : EventOccurs(h)
      BY <2>3, OccursStep
    <2>4. CASE UNCHANGED waitVars
      BY <2>4 DEF waitVars, waits, WaitIInv, WaitType, ThreadInv, AnswerInv, Answer, IndexInv,
          ChunkOf
    <2> QED BY <2>1, <2>2, <2>3, <2>4 DEF WaitNext
  <1> QED BY <1>1, <1>2, PTL DEF WaitSpec

\* The variables of _wait_for_all and its threads keep their types: sig_index and the
\* result are indices of the array for any count and chunk size.
THEOREM WaitTypeCorrect == WaitSpec => []WaitType
  BY WaitInvariant, PTL DEF WaitIInv

\* No waiting thread outlives the call that freed its parameters.
THEOREM ThreadsAreGone == WaitSpec => []ThreadsGone
  <1>1. WaitIInv => ThreadsGone
    BY DEF WaitIInv, ThreadInv, ThreadsGone
  <1> QED BY <1>1, WaitInvariant, PTL

\* WAIT_FAILED is returned only when memory, an event or a thread could not be had.
THEOREM FailureHasReason == WaitSpec => []FailsWithReason
  <1>1. WaitIInv => FailsWithReason
    BY DEF WaitIInv, AnswerInv, FailsWithReason
  <1> QED BY <1>1, WaitInvariant, PTL

\* The loop calls back the reader of a socketpair only when it can read.
THEOREM ReportedPairReadable == WaitSpec => []PairReadable
  <1>1. WaitIInv => PairReadable
    BY DEF WaitIInv, IndexInv, PairReadable
  <1> QED BY <1>1, WaitInvariant, PTL

\* The array, main_event and sig_index are used by no thread once the call has returned.
THEOREM WaitCorrect == WaitSpec => []WaitInv
<1> QED BY WaitTypeCorrect, ThreadsAreGone, PTL DEF WaitInv

\* The index that is returned is right, and a failure is returned only if there was one.
THEOREM ResultCorrect == WaitSpec => []ResultRight
<1> QED BY ReportedPairReadable, FailureHasReason, PTL DEF ResultRight
=============================================================================
