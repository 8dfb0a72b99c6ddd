----------------------------- MODULE WaitForAll -----------------------------
(***************************************************************************)
(* _wait_for_all and the part of fdevent_process that calls it, for more   *)
(* handles than WaitForMultipleObjects takes: the handles are split into   *)
(* chunks, and a thread for each chunk waits for its handles and for       *)
(* main_event, which tells all of them that the wait is over.              *)
(*                                                                         *)
(* A handle is the event of a socket, which resets itself when a wait      *)
(* takes it and may be set although nothing is left to be enumerated, or   *)
(* the event of a socketpair's buffer, which is set as long as the buffer  *)
(* can be read.  Only the hook of a socket has a check function: for a     *)
(* socketpair the loop believes the index, and calls back a reader that    *)
(* would block.                                                            *)
(***************************************************************************)
EXTENDS Integers

CONSTANTS
    Count,                 \* handles_count
    WAIT_ALL_CHUNK_SIZE,
    Sockets,               \* the handles of sockets
    MaxFailures            \* bound: times that memory, events or threads run out

ASSUME WaitAssumption ==
    /\ Count \in Nat \ {0} /\ WAIT_ALL_CHUNK_SIZE \in Nat \ {0} /\ MaxFailures \in Nat
    /\ Sockets \subseteq 0..(Count - 1)

Handles == 0..(Count - 1)
Pairs == Handles \ Sockets

\* A mutant of Chunks: the handles that remain have no chunk.
Chunks_Whole == Count \div WAIT_ALL_CHUNK_SIZE
\* The number of chunks, with one for the handles that remain.
Chunks == Count \div WAIT_ALL_CHUNK_SIZE + (IF Count % WAIT_ALL_CHUNK_SIZE = 0 THEN 0 ELSE 1)
Threads == 0..(Chunks - 1)

\* first_handle_index, and the handles of a chunk.
First(i) == WAIT_ALL_CHUNK_SIZE * i
ChunkOf(i) == {h \in Handles : First(i) <= h /\ h < First(i) + WAIT_ALL_CHUNK_SIZE}

WAIT_FAILED == -2

VARIABLES
    set,        \* the events that are set
    due,        \* what a hook would find: recorded network events, bytes to read
    wpc,         \* the main thread
    chunk,      \* its loop variable
    started,    \* chunks: the threads it waits for
    main,       \* main_event
    sig_index,
    tpc, res,   \* the waiting threads, and the handle that woke each one
    ret,        \* what _wait_for_all returned
    failed,     \* something could not be had in this call
    failures    \* how often

waits == <<main, sig_index, tpc, res>>
waitVars == <<set, due, wpc, chunk, started, waits, ret, failed, failures>>

WaitType ==
    /\ set \subseteq Handles /\ due \subseteq Handles
    /\ wpc \in {"loop", "enter", "create", "wait", "join", "check", "peek"}
    /\ chunk \in 0..Chunks /\ started \in 0..Chunks /\ main \in BOOLEAN
    /\ sig_index \in Handles \cup {-1} /\ ret \in Handles \cup {WAIT_FAILED}
    /\ tpc \in [Threads -> {"none", "wait", "woken", "stored", "exited"}]
    /\ res \in [Threads -> Handles \cup {-1}]
    /\ failed \in BOOLEAN /\ failures \in 0..MaxFailures

WaitInit ==
    /\ set \in SUBSET Sockets /\ due = {}
    /\ wpc = "loop" /\ chunk = 0 /\ started = 0 /\ main = FALSE /\ sig_index = -1
    /\ tpc = [i \in Threads |-> "none"] /\ res = [i \in Threads |-> -1]
    /\ ret = WAIT_FAILED /\ failed = FALSE /\ failures = 0

-----------------------------------------------------------------------------
(* fdevent_process *)

\* prepare finds nothing; all hooks are started, and the loop waits.
Begin ==
    /\ wpc = "loop" /\ due = {} /\ wpc' = "enter"
    /\ UNCHANGED <<set, due, chunk, started, waits, ret, failed, failures>>

\* prepare or peek finds what is due, and the callbacks take it.  The events of sockets
\* stay as they are: stop has taken the handle from the hook.
Deliver ==
    /\ wpc = "peek" \/ (wpc = "loop" /\ due # {})
    /\ due' = {} /\ set' = set \cap Sockets /\ wpc' = "loop"
    /\ UNCHANGED <<chunk, started, waits, ret, failed, failures>>

\* After the wait: the hook is checked, if it is a socket's, and the loop waits again if
\* it was for nothing, or failed.
Check ==
    /\ wpc = "check"
    /\ wpc' = IF ret \in Pairs \/ ret \in due THEN "peek" ELSE "enter"
    /\ set' = set \ ({ret} \cap Sockets)
    /\ ret' = WAIT_FAILED /\ failed' = FALSE
    /\ UNCHANGED <<due, chunk, started, waits, failures>>

-----------------------------------------------------------------------------
(* _wait_for_all *)

Fails == failures < MaxFailures /\ failures' = failures + 1 /\ failed' = TRUE

\* No memory for the threads, or no main event.
EnterFails ==
    /\ wpc = "enter" /\ Fails /\ ret' = WAIT_FAILED /\ wpc' = "check"
    /\ UNCHANGED <<set, due, chunk, started, waits>>

Enter ==
    /\ wpc = "enter" /\ wpc' = "create" /\ started' = Chunks
    /\ UNCHANGED <<set, due, chunk, waits, ret, failed, failures>>

\* CreateThread for the next chunk.
Create ==
    /\ wpc = "create" /\ chunk < Chunks
    /\ tpc' = [tpc EXCEPT ![chunk] = "wait"]
    /\ chunk' = chunk + 1
    /\ UNCHANGED <<set, due, wpc, started, main, sig_index, res, ret, failed, failures>>

\* A thread cannot be had: the ones that run are told.
CreateFails ==
    /\ wpc = "create" /\ chunk < Chunks /\ Fails
    /\ started' = chunk /\ main' = TRUE /\ wpc' = "wait"
    /\ UNCHANGED <<set, due, chunk, sig_index, tpc, res, ret>>

Created ==
    /\ wpc = "create" /\ chunk = Chunks /\ wpc' = "wait"
    /\ UNCHANGED <<set, due, chunk, started, waits, ret, failed, failures>>

\* main_event is set.
Woken ==
    /\ wpc = "wait" /\ main /\ wpc' = "join" /\ chunk' = 0
    /\ UNCHANGED <<set, due, started, waits, ret, failed, failures>>

\* A mutant of Join: the last thread is not waited for.
Join_ButOne ==
    /\ wpc = "join" /\ chunk < started
    /\ tpc[chunk] = "exited" \/ chunk = started - 1
    /\ tpc' = IF tpc[chunk] = "exited" THEN [tpc EXCEPT ![chunk] = "none"] ELSE tpc
    /\ chunk' = chunk + 1
    /\ UNCHANGED <<set, due, wpc, started, main, sig_index, res, ret, failed, failures>>
\* Each thread that was started exits, and its handle is closed.
Join ==
    /\ wpc = "join" /\ chunk < started /\ tpc[chunk] = "exited"
    /\ tpc' = [tpc EXCEPT ![chunk] = "none"] /\ chunk' = chunk + 1
    /\ UNCHANGED <<set, due, wpc, started, main, sig_index, res, ret, failed, failures>>

\* main_event is closed, the array of threads freed and the locals are gone.
Leave ==
    /\ wpc = "join" /\ chunk = started /\ wpc' = "check"
    /\ ret' = IF sig_index >= 0 THEN sig_index ELSE WAIT_FAILED
    /\ main' = FALSE /\ sig_index' = -1 /\ chunk' = 0 /\ started' = 0
    /\ UNCHANGED <<set, due, tpc, res, failed, failures>>

-----------------------------------------------------------------------------
(* _in_waiter_thread *)

Ready(i) == ChunkOf(i) \cap set

\* A mutant of ThreadWakes: the events of socketpairs reset themselves too.
ThreadWakes_ResetsAll(i) ==
    /\ tpc[i] = "wait" /\ tpc' = [tpc EXCEPT ![i] = "woken"]
    /\ \/ main /\ UNCHANGED <<res, set>>
       \/ /\ ~main
          /\ \E h \in Ready(i) :
               /\ \A g \in Ready(i) : h <= g
               /\ res' = [res EXCEPT ![i] = h]
               /\ set' = set \ {h}
    /\ UNCHANGED <<due, wpc, chunk, started, main, sig_index, ret, failed, failures>>
\* WaitForMultipleObjects: main_event comes first, then the handle with the least index;
\* a socket's event is reset by the wait.
ThreadWakes(i) ==
    /\ tpc[i] = "wait" /\ tpc' = [tpc EXCEPT ![i] = "woken"]
    /\ \/ main /\ UNCHANGED <<res, set>>
       \/ /\ ~main
          /\ \E h \in Ready(i) :
               /\ \A g \in Ready(i) : h <= g
               /\ res' = [res EXCEPT ![i] = h]
               /\ set' = set \ ({h} \cap Sockets)
    /\ UNCHANGED <<due, wpc, chunk, started, main, sig_index, ret, failed, failures>>

\* A mutant of Absolute: first_handle_index is left out.
Absolute_InChunk(i, n) == n - 1
\* The index in the array of the n-th object of a chunk, of which main_event is the 0th.
Absolute(i, n) == n - 1 + First(i)

\* One of the handles, not main_event.
Stores(n) == n > 0

\* InterlockedCompareExchange.
ThreadStores(i) ==
    LET n == IF res[i] = -1 THEN 0 ELSE res[i] - First(i) + 1
    IN  /\ tpc[i] = "woken"
        /\ sig_index' = IF Stores(n) /\ sig_index = -1 THEN Absolute(i, n) ELSE sig_index
        /\ tpc' = [tpc EXCEPT ![i] = "stored"]
        /\ UNCHANGED <<set, due, wpc, chunk, started, main, res, ret, failed, failures>>

\* SetEvent, and the thread exits.
ThreadExits(i) ==
    /\ tpc[i] = "stored"
    /\ main' = TRUE /\ tpc' = [tpc EXCEPT ![i] = "exited"]
    /\ res' = [res EXCEPT ![i] = -1]
    /\ UNCHANGED <<set, due, wpc, chunk, started, sig_index, ret, failed, failures>>

-----------------------------------------------------------------------------
\* A network event is recorded, or bytes are written to a socketpair.
EventOccurs(h) ==
    /\ h \notin due
    /\ due' = due \cup {h} /\ set' = set \cup {h}
    /\ UNCHANGED <<wpc, chunk, started, waits, ret, failed, failures>>

MainThread ==
    \/ Begin \/ Deliver \/ Check \/ EnterFails \/ Enter \/ Create \/ CreateFails \/ Created
    \/ Woken \/ Join \/ Leave

Waiter(i) == ThreadWakes(i) \/ ThreadStores(i) \/ ThreadExits(i)

WaitNext == MainThread \/ (\E i \in Threads : Waiter(i)) \/ \E h \in Handles : EventOccurs(h)

\* Threads run; nothing has to occur.
WaitSpec == /\ WaitInit /\ [][WaitNext]_waitVars
            /\ WF_waitVars(MainThread) /\ \A i \in Threads : WF_waitVars(Waiter(i))

-----------------------------------------------------------------------------
(* Properties *)

InCall == wpc \in {"create", "wait", "join"}

\* No waiting thread outlives the call: they use the array of parameters, which is freed,
\* main_event, which is closed, and sig_index, which is on the stack of the caller.
ThreadsGone ==
    ~InCall => \A i \in Threads : tpc[i] \in {"none", "exited"}

\* A socketpair is reported only when it can be read.
PairReadable == wpc = "check" /\ ret \in Pairs => ret \in due

\* The call fails only when something could not be had, never because of the order in
\* which the threads wake each other.
FailsWithReason == wpc = "check" /\ ret = WAIT_FAILED => failed

\* While an event is set the call returns, with threads that could not be started too.
CallReturns == (InCall /\ set # {}) ~> (wpc = "check")

\* What is written to a socketpair is noticed.
PairsNoticed == \A h \in Pairs : (h \in due) ~> (h \notin due)

\* The parameters of _wait_for_all are used by no thread after it has returned.
WaitInv == WaitType /\ ThreadsGone

\* What _wait_for_all returns is right: an index that the loop can believe, or a failure
\* that happened.
ResultRight == PairReadable /\ FailsWithReason
=============================================================================
