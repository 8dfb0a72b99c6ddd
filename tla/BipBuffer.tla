----------------------------- MODULE BipBuffer -----------------------------
(***************************************************************************)
(* One direction of the user-space socketpair of sysdeps_win32.cpp: the    *)
(* BipBuffer, a circular buffer kept as two regions                        *)
(*                                                                         *)
(*    region A   [a_start, a_end)      read first                          *)
(*    region B   [0, b_end)            written once A reaches the end      *)
(*                                                                         *)
(* with a critical section, two flags (can_read, can_write) and two        *)
(* manual-reset events (evt_read, evt_write).  bip_buffer_read and         *)
(* bip_buffer_write run under the critical section; bip_buffer_close takes *)
(* no lock, so its loads and its SetEvent calls fall between any two       *)
(* statements of a reader or a writer.  A step of this module is therefore *)
(* a stretch of code with at most one access to what the closer shares:    *)
(* closed, can_read, can_write and the events.                             *)
(*                                                                         *)
(* Byte number n of the stream is written as the value n, so the content   *)
(* of buff tells which byte sits where.                                    *)
(***************************************************************************)
EXTENDS Naturals, FiniteSets

CONSTANTS
    BIP_BUFFER_SIZE,  \* 4096 in the code
    Reader,           \* the thread that reads this direction
    Writers,          \* the threads that write it
    Closers,          \* the calls of bip_buffer_close, one thread each
    NoOne,            \* no thread: the critical section is free
    Lens,             \* the lengths asked of a read or a write
    MaxBytes          \* bound: no write starts that could exceed it

BipThreads == {Reader} \cup Writers \cup Closers

\* A call with len <= 0 returns 0 at once and changes nothing, so Lens is positive.
ASSUME SizeAssumption == /\ BIP_BUFFER_SIZE \in Nat \ {0}
                         /\ Lens \subseteq Nat \ {0}
                         /\ MaxBytes \in Nat

ASSUME ThreadAssumption == /\ Reader \notin Writers \cup Closers
                           /\ Writers \cap Closers = {}
                           /\ NoOne \notin BipThreads

\* Every direction has one reader.  The one with several writers, the
\* transport registration socketpair, is never closed (transport.cpp).
ASSUME PipeUse == Closers = {} \/ \A w1, w2 \in Writers : w1 = w2

VARIABLES
    a_start, a_end, b_end, buff,
    can_read, can_write, evt_read, evt_write,
    closed,
    lock,      \* owner of the critical section
    bpc, len,  \* per thread: where it is in its call, and the length it asked
    wr, rd,    \* bytes ever written to, and read from, the buffer
    dst        \* the bytes the last read copied out

regions == <<a_start, a_end, b_end, buff>>
flags   == <<can_read, can_write>>
events  == <<evt_read, evt_write>>
stream  == <<wr, rd, dst>>
bipVars == <<regions, flags, events, closed, lock, bpc, len, stream>>

Index == 0 .. BIP_BUFFER_SIZE - 1

ReaderPcs == {"idle", "r_enter", "r_test", "r_wait", "r_woken",
              "r_reset", "r_exit", "r_set"}
WriterPcs == {"idle", "w_enter", "w_test", "w_wait", "w_woken",
              "w_reset", "w_exit", "w_set"}
CloserPcs == {"idle", "c_read", "c_setr", "c_write", "c_setw", "done"}

Critical == {"r_reset", "r_exit", "r_set", "w_reset", "w_exit", "w_set"}

LesserOf(m, n) == IF m < n THEN m ELSE n

Goto(t, l) == bpc' = [bpc EXCEPT ![t] = l]

\* bip_buffer_init
BipInit ==
    /\ a_start = 0 /\ a_end = 0 /\ b_end = 0
    /\ buff = [i \in Index |-> 0]
    /\ can_write = TRUE /\ evt_write = TRUE
    /\ can_read = FALSE /\ evt_read = FALSE
    /\ closed = FALSE
    /\ lock = NoOne
    /\ bpc = [t \in BipThreads |-> "idle"]
    /\ len = [t \in BipThreads |-> 0]
    /\ wr = 0 /\ rd = 0
    /\ dst = [i \in {} |-> 0]

-----------------------------------------------------------------------------
(* bip_buffer_write *)

WriteCall(w) ==
    /\ bpc[w] = "idle"
    /\ \E n \in Lens : /\ wr + n <= MaxBytes
                       /\ len' = [len EXCEPT ![w] = n]
    /\ Goto(w, "w_enter")
    /\ UNCHANGED <<regions, flags, events, closed, lock, stream>>

\* EnterCriticalSection finds !can_write and leaves again.
WriteFull(w) ==
    /\ bpc[w] = "w_enter" /\ lock = NoOne /\ ~can_write
    /\ Goto(w, "w_test")
    /\ UNCHANGED <<regions, flags, events, closed, lock, len, stream>>

\* A mutant of ReadTest: the first test of closed forgotten.
ReadTest_NoTest ==
    /\ bpc[Reader] = "r_test"
    /\ Goto(Reader, "r_wait")
    /\ UNCHANGED <<regions, flags, events, closed, lock, len, stream>>

\* The first test of closed: EPIPE, or wait.
WriteTest(w) ==
    /\ bpc[w] = "w_test"
    /\ Goto(w, IF closed THEN "idle" ELSE "w_wait")
    /\ UNCHANGED <<regions, flags, events, closed, lock, len, stream>>

\* WaitForSingleObject(evt_write) returns.
WriteWake(w) ==
    /\ bpc[w] = "w_wait" /\ evt_write
    /\ Goto(w, "w_woken")
    /\ UNCHANGED <<regions, flags, events, closed, lock, len, stream>>

\* The second test of closed: EPIPE, or try again.
WriteWoken(w) ==
    /\ bpc[w] = "w_woken"
    /\ Goto(w, IF closed THEN "idle" ELSE "w_enter")
    /\ UNCHANGED <<regions, flags, events, closed, lock, len, stream>>

\* A mutant of ToB: the clamp is taken against the wrong bound.
ToB_WholeBuffer(n) == IF a_start = 0 THEN 0
                      ELSE LesserOf(n - LesserOf(n, BIP_BUFFER_SIZE - a_end),
                                    BIP_BUFFER_SIZE - b_end)

\* The bytes a write of n appends to region A, and then to region B, which it
\* does not reach when region A starts at 0 ("goto Exit").
ToA(n) == LesserOf(n, BIP_BUFFER_SIZE - a_end)
ToB(n) == IF a_start = 0 THEN 0 ELSE LesserOf(n - ToA(n), a_start - b_end)

\* A mutant of FullAfter: the test after region B forgotten.
FullAfter_OnlyA(n) == a_start = 0 /\ a_end + ToA(n) = BIP_BUFFER_SIZE

\* The two tests of bip_buffer_write that end in can_write = 0.
FullAfter(n) == \/ a_start = 0 /\ a_end + ToA(n) = BIP_BUFFER_SIZE
                \/ ToB(n) > 0  /\ b_end + ToB(n) = a_start

\* From the critical section with can_write set to the test that ends in
\* can_write = 0; ResetEvent is the next step.
WriteCopy(w) ==
    LET n == len[w]
    IN  /\ bpc[w] = "w_enter" /\ lock = NoOne /\ can_write
        /\ lock' = w
        /\ buff' = [i \in Index |->
                      IF i >= a_end /\ i < a_end + ToA(n) THEN wr + (i - a_end)
                      ELSE IF i >= b_end /\ i < b_end + ToB(n)
                             THEN wr + ToA(n) + (i - b_end)
                      ELSE buff[i]]
        /\ a_end' = a_end + ToA(n)
        /\ b_end' = b_end + ToB(n)
        /\ wr' = wr + ToA(n) + ToB(n)
        /\ can_write' = ~FullAfter(n)
        /\ Goto(w, IF FullAfter(n) THEN "w_reset" ELSE "w_exit")
        /\ UNCHANGED <<a_start, can_read, events, closed, len, rd, dst>>

WriteReset(w) ==
    /\ bpc[w] = "w_reset"
    /\ evt_write' = FALSE
    /\ Goto(w, "w_exit")
    /\ UNCHANGED <<regions, flags, evt_read, closed, lock, len, stream>>

\* The label Exit: nothing more to do when the buffer was readable already.
WriteExit(w) ==
    /\ bpc[w] = "w_exit"
    /\ can_read' = TRUE
    /\ IF can_read THEN Goto(w, "idle")  /\ lock' = NoOne
                   ELSE Goto(w, "w_set") /\ UNCHANGED lock
    /\ UNCHANGED <<regions, can_write, events, closed, len, stream>>

\* Mutants: the SetEvent forgotten.
WriteSet_NoEvent(w) ==
    /\ bpc[w] = "w_set"
    /\ Goto(w, "idle") /\ lock' = NoOne
    /\ UNCHANGED <<regions, flags, events, closed, len, stream>>
ReadSet_NoEvent ==
    /\ bpc[Reader] = "r_set"
    /\ Goto(Reader, "idle") /\ lock' = NoOne
    /\ UNCHANGED <<regions, flags, events, closed, len, stream>>

WriteSet(w) ==
    /\ bpc[w] = "w_set"
    /\ evt_read' = TRUE
    /\ Goto(w, "idle") /\ lock' = NoOne
    /\ UNCHANGED <<regions, flags, evt_write, closed, len, stream>>

-----------------------------------------------------------------------------
(* bip_buffer_read *)

ReadCall ==
    /\ bpc[Reader] = "idle"
    /\ \E n \in Lens : len' = [len EXCEPT ![Reader] = n]
    /\ Goto(Reader, "r_enter")
    /\ UNCHANGED <<regions, flags, events, closed, lock, stream>>

ReadEmpty ==
    /\ bpc[Reader] = "r_enter" /\ lock = NoOne /\ ~can_read
    /\ Goto(Reader, "r_test")
    /\ UNCHANGED <<regions, flags, events, closed, lock, len, stream>>

ReadTest ==
    /\ bpc[Reader] = "r_test"
    /\ Goto(Reader, IF closed THEN "idle" ELSE "r_wait")
    /\ UNCHANGED <<regions, flags, events, closed, lock, len, stream>>

ReadWake ==
    /\ bpc[Reader] = "r_wait" /\ evt_read
    /\ Goto(Reader, "r_woken")
    /\ UNCHANGED <<regions, flags, events, closed, lock, len, stream>>

ReadWoken ==
    /\ bpc[Reader] = "r_woken"
    /\ Goto(Reader, IF closed THEN "idle" ELSE "r_enter")
    /\ UNCHANGED <<regions, flags, events, closed, lock, len, stream>>

\* The bytes a read of n takes from region A, and then from region B once A
\* is used up and B has become A.
FromA(n) == LesserOf(n, a_end - a_start)
FromB(n) == LesserOf(n - FromA(n), b_end)

ReadCopy ==
    LET n     == len[Reader]
        count == FromA(n) + FromB(n)
        usedA == a_start + FromA(n) = a_end
        empty == usedA /\ FromB(n) = b_end
    IN  /\ bpc[Reader] = "r_enter" /\ lock = NoOne /\ can_read
        /\ lock' = Reader
        /\ dst' = [i \in 1 .. count |->
                     IF i <= FromA(n) THEN buff[a_start + i - 1]
                                      ELSE buff[i - FromA(n) - 1]]
        /\ rd' = rd + count
        /\ a_start' = IF empty THEN 0
                      ELSE IF usedA THEN FromB(n) ELSE a_start + FromA(n)
        /\ a_end' = IF empty THEN 0 ELSE IF usedA THEN b_end ELSE a_end
        /\ b_end' = IF usedA THEN 0 ELSE b_end
        /\ can_read' = ~empty
        /\ Goto(Reader, IF empty THEN "r_reset" ELSE "r_exit")
        /\ UNCHANGED <<buff, can_write, events, closed, len, wr>>

ReadReset ==
    /\ bpc[Reader] = "r_reset"
    /\ evt_read' = FALSE
    /\ Goto(Reader, "r_exit")
    /\ UNCHANGED <<regions, flags, evt_write, closed, lock, len, stream>>

ReadExit ==
    /\ bpc[Reader] = "r_exit"
    /\ can_write' = TRUE
    /\ IF can_write THEN Goto(Reader, "idle")  /\ lock' = NoOne
                    ELSE Goto(Reader, "r_set") /\ UNCHANGED lock
    /\ UNCHANGED <<regions, can_read, events, closed, len, stream>>

ReadSet ==
    /\ bpc[Reader] = "r_set"
    /\ evt_write' = TRUE
    /\ Goto(Reader, "idle") /\ lock' = NoOne
    /\ UNCHANGED <<regions, flags, evt_read, closed, len, stream>>

-----------------------------------------------------------------------------
(* bip_buffer_close: no lock, one step per access to the shared fields *)

Close(c) ==
    /\ bpc[c] = "idle"
    /\ closed' = TRUE
    /\ Goto(c, "c_read")
    /\ UNCHANGED <<regions, flags, events, lock, len, stream>>

CloseTestRead(c) ==
    /\ bpc[c] = "c_read"
    /\ Goto(c, IF can_read THEN "c_write" ELSE "c_setr")
    /\ UNCHANGED <<regions, flags, events, closed, lock, len, stream>>

CloseSetRead(c) ==
    /\ bpc[c] = "c_setr"
    /\ evt_read' = TRUE
    /\ Goto(c, "c_write")
    /\ UNCHANGED <<regions, flags, evt_write, closed, lock, len, stream>>

CloseTestWrite(c) ==
    /\ bpc[c] = "c_write"
    /\ Goto(c, IF can_write THEN "done" ELSE "c_setw")
    /\ UNCHANGED <<regions, flags, events, closed, lock, len, stream>>

CloseSetWrite(c) ==
    /\ bpc[c] = "c_setw"
    /\ evt_write' = TRUE
    /\ Goto(c, "done")
    /\ UNCHANGED <<regions, flags, evt_read, closed, lock, len, stream>>

-----------------------------------------------------------------------------
WriteStep(w) ==
    \/ WriteFull(w) \/ WriteTest(w) \/ WriteWake(w) \/ WriteWoken(w)
    \/ WriteCopy(w) \/ WriteReset(w) \/ WriteExit(w) \/ WriteSet(w)

ReadStep ==
    \/ ReadEmpty \/ ReadTest \/ ReadWake \/ ReadWoken
    \/ ReadCopy \/ ReadReset \/ ReadExit \/ ReadSet

CloseStep(c) ==
    \/ CloseTestRead(c) \/ CloseSetRead(c)
    \/ CloseTestWrite(c) \/ CloseSetWrite(c)

BipNext ==
    \/ ReadCall \/ ReadStep
    \/ \E w \in Writers : WriteCall(w) \/ WriteStep(w)
    \/ \E c \in Closers : Close(c) \/ CloseStep(c)

BipSpec == BipInit /\ [][BipNext]_bipVars

\* Every thread that is inside a call runs on, and the consumer (input_thread,
\* the event loop, a service thread) keeps calling read.  Nobody has to write
\* or to close.
Fairness == /\ WF_bipVars(ReadCall) /\ WF_bipVars(ReadStep)
            /\ \A w \in Writers : WF_bipVars(WriteStep(w))
            /\ \A c \in Closers : WF_bipVars(CloseStep(c))

BipFairSpec == BipSpec /\ Fairness

-----------------------------------------------------------------------------
(* Properties *)

Fill == (a_end - a_start) + b_end

BipType ==
    /\ a_start \in 0 .. BIP_BUFFER_SIZE
    /\ a_end \in 0 .. BIP_BUFFER_SIZE
    /\ b_end \in 0 .. BIP_BUFFER_SIZE
    /\ buff \in [Index -> Nat]
    /\ can_read \in BOOLEAN /\ can_write \in BOOLEAN
    /\ evt_read \in BOOLEAN /\ evt_write \in BOOLEAN
    /\ closed \in BOOLEAN
    /\ lock \in BipThreads \cup {NoOne}
    /\ bpc \in [BipThreads -> ReaderPcs \cup WriterPcs \cup CloserPcs]
    /\ bpc[Reader] \in ReaderPcs
    /\ \A w \in Writers : bpc[w] \in WriterPcs
    /\ \A c \in Closers : bpc[c] \in CloserPcs
    /\ len \in [BipThreads -> Nat]
    /\ wr \in Nat /\ rd \in Nat

\* The comment above bip_buffer_init, made exact: b_end <= a_start, region B is
\* in use only once region A reaches the end of the buffer, and whenever nobody
\* is inside the critical section can_read says "not empty", can_write "not full"
\* and an empty buffer has all three indices 0.
RegionsAndFlags ==
    /\ b_end <= a_start /\ a_start <= a_end
    /\ b_end > 0 => a_end = BIP_BUFFER_SIZE
    /\ lock = NoOne =>
         /\ can_read  <=> (a_start < a_end)
         /\ can_write <=> (b_end < a_start \/ a_end < BIP_BUFFER_SIZE)
         /\ ~can_read => a_start = 0 /\ a_end = 0 /\ b_end = 0

\* The four asserts of bip_buffer_write and bip_buffer_read, for whatever length
\* the thread at the critical section asks.
AssertsHold ==
    /\ \A w \in Writers : bpc[w] = "w_enter" /\ lock = NoOne /\ can_write =>
         /\ len[w] > ToA(len[w]) /\ a_start > 0 => a_start - b_end > 0
         /\ ToA(len[w]) + ToB(len[w]) > 0
    /\ bpc[Reader] = "r_enter" /\ lock = NoOne /\ can_read =>
         /\ a_end - a_start > 0
         /\ FromA(len[Reader]) + FromB(len[Reader]) > 0

\* First in, first out, nothing lost, duplicated or overwritten: the regions hold
\* bytes rd .. wr-1 in order, and the last read returned the bytes just before rd.
InOrder ==
    /\ wr = rd + Fill
    /\ \A i \in Index : i >= a_start /\ i < a_end => buff[i] = rd + (i - a_start)
    /\ \A i \in Index : i < b_end => buff[i] = rd + (a_end - a_start) + i
    /\ \E n \in 0 .. rd : dst = [i \in 1 .. n |-> (rd - n) + (i - 1)]

\* No thread waits for an event that nobody is going to signal although it could
\* go on: a reader waiting while data is there or the buffer is closed has its
\* event signalled, or some thread is on its way to SetEvent.  The same for
\* writers.  bip_buffer_close takes no lock, and ResetEvent in read and write may
\* undo its SetEvent.
NoLostWakeup ==
    /\ bpc[Reader] = "r_wait" /\ ~evt_read /\ (can_read \/ closed) =>
         \/ \E w \in Writers : bpc[w] = "w_set"
         \/ \E c \in Closers : bpc[c] \in {"c_read", "c_setr"}
    /\ \A w \in Writers :
         bpc[w] = "w_wait" /\ ~evt_write /\ (can_write \/ closed) =>
           \/ bpc[Reader] = "r_set"
           \/ \E c \in Closers : bpc[c] \in {"c_read", "c_setr", "c_write", "c_setw"}

\* One direction of the socketpair is a bounded pipe, whatever its readers,
\* writers and closers do.
Pipe == INSTANCE BoundedPipe WITH Capacity <- BIP_BUFFER_SIZE
PipeSpec == Pipe!Spec

\* A write call returns, with bytes written or with EPIPE, as long as the consumer
\* keeps reading.
WritesReturn == \A w \in Writers : bpc[w] # "idle" ~> bpc[w] = "idle"

\* Every byte written is read in the end, unless the buffer is closed meanwhile.
BytesArrive == \A n \in 0 .. MaxBytes : wr > n ~> (rd > n \/ closed)

\* A reader blocked in bip_buffer_read gets away once the buffer is closed.
CloseWakesReader == closed /\ bpc[Reader] = "r_wait" ~> bpc[Reader] # "r_wait"

\* Inside and between the calls of bip_buffer_read and bip_buffer_write: indices in
\* range, the layout of the regions, the asserts, and the bytes in order.
BufferInv == BipType /\ RegionsAndFlags /\ AssertsHold /\ InOrder

\* No call of bip_buffer_write or bip_buffer_read blocks for ever: not a write while the
\* consumer reads, not a read of a buffer that is closed.
CallsReturn == WritesReturn /\ CloseWakesReader
=============================================================================
