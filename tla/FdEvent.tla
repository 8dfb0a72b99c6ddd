------------------------------- MODULE FdEvent -------------------------------
(***************************************************************************)
(* The event loop of the main thread (sysdeps_win32.cpp): fdevent_set and  *)
(* the pending list, the event hooks, and fdevent_process over Winsock's   *)
(* network events, which are edge triggered.  An event of a socket is      *)
(* recorded once, forgotten when it is enumerated, and recorded again only *)
(* after recv or a send that would block, or by a new WSAEventSelect.  The *)
(* loop must not lose a wakeup although it enumerates events of hooks that *)
(* it may not act on, and caches in fh->mask what it selected last.        *)
(*                                                                         *)
(* The descriptors are sockets with the callback of a local asocket.  Of a *)
(* callback the model keeps what the loop sees: whether it sends and       *)
(* receives, how it changes its own mask or removes its own fdevent, and   *)
(* what it does to another descriptor (ready, backlog, close).             *)
(***************************************************************************)
EXTENDS Integers, FiniteSets, Lists

CONSTANTS
    Fds,       \* descriptors with an installed fdevent
    MaxData,   \* bound: times that data arrives for a descriptor
    MaxFill    \* bound: times that a descriptor's send buffer fills up

ASSUME FdEventAssumption == IsFiniteSet(Fds) /\ MaxData \in Nat /\ MaxFill \in Nat

Events == {"R", "W"}   \* FDE_READ and FDE_WRITE

VARIABLES
    live,      \* the fdevents that are not removed
    want,      \* fde->state & FDE_EVENTMASK, which is also the hook's wanted
    pend,      \* fde->events
    plist,     \* list_pending
    mask,      \* fh->mask: what WSAEventSelect was last called with
    rec,       \* Winsock: the network events recorded for the socket; "C" is FD_CLOSE
    armed,     \* Winsock: the events that will be recorded when they occur
    evt,       \* fh->event is signalled
    ready,     \* hook->ready
    pc,        \* "prepare", "wait", "peek" in fdevent_process, or "calls"
    readable, writable,  \* the sockets; one whose other end is closed is readable
    hup,       \* the sockets whose other end is closed
    ndata, nfill

vars == <<live, want, pend, plist, mask, rec, armed, evt, ready, pc, readable, writable,
          hup, ndata, nfill>>

\* The record that the calls of a callback work on.
X == [live |-> live, want |-> want, pend |-> pend, plist |-> plist, mask |-> mask,
      rec |-> rec, armed |-> armed, evt |-> evt, readable |-> readable,
      writable |-> writable, hup |-> hup, nfill |-> nfill]

Becomes(x) ==
    /\ live' = x.live /\ want' = x.want /\ pend' = x.pend /\ plist' = x.plist
    /\ mask' = x.mask /\ rec' = x.rec /\ armed' = x.armed /\ evt' = x.evt
    /\ readable' = x.readable /\ writable' = x.writable /\ hup' = x.hup /\ nfill' = x.nfill

-----------------------------------------------------------------------------
(* Winsock (external) *)

\* The conditions that hold for f.
Holds(x, f) == {e \in Events : (e = "R" /\ x.readable[f]) \/ (e = "W" /\ x.writable[f])}

\* FD_CLOSE is selected along with FD_READ and with FD_WRITE.
Closed(x, f, flags) == IF f \in x.hup /\ flags # {} THEN {"C"} ELSE {}

\* WSAEventSelect: what was recorded is dropped, what holds is recorded at once.
Select(x, f, flags) ==
    LET now == Holds(x, f) \cap flags
        all == now \cup Closed(x, f, flags)
    IN  [x EXCEPT !.mask[f] = flags, !.rec[f] = all, !.armed[f] = flags \ now,
                  !.evt[f] = @ \/ all # {}]

\* An event occurs: it is recorded if it is selected and armed.
Occurs(x, f, e) ==
    IF e \in x.mask[f] \cap x.armed[f]
      THEN [x EXCEPT !.rec[f] = @ \cup {e}, !.armed[f] = @ \ {e}, !.evt[f] = TRUE]
      ELSE x

\* recv takes all there is; a send finds the buffer full.  Both arm the event again.
Recv(x, f) == [x EXCEPT !.readable[f] = FALSE, !.armed[f] = @ \cup {"R"}]
Block(x, f) == [x EXCEPT !.writable[f] = FALSE, !.armed[f] = @ \cup {"W"}]

-----------------------------------------------------------------------------
(* fdevent_set and the pending list *)

\* fdevent_plist_remove.
OffList(x, f) == [x EXCEPT !.plist = Without(@, f)]

\* A mutant of HookStart: nothing is selected when a hook is made or widened.
HookStart_Not(x, f, wanted) == x
\* _fh_socket_hook calls _event_socket_start before the new events are in hook->wanted.
HookStart(x, f, wanted) == IF wanted = x.mask[f] THEN x ELSE Select(x, f, wanted)

\* fdevent_set: update the hook, set the mask, and take the new mask's events out of the
\* pending ones.
FdeSet(x, f, new) ==
    IF x.want[f] = new THEN x
    ELSE LET x1 == IF new \ x.want[f] = {} THEN x
                   ELSE HookStart(x, f, x.want[f] \cap new)
             x2 == [x1 EXCEPT !.want[f] = new, !.pend[f] = @ \ new]
         IN  IF x2.pend[f] = {} THEN OffList(x2, f) ELSE x2

\* The socket is closed with its fdevent, and nothing is left of it.
Discard(x, f) ==
    [x EXCEPT !.live = @ \ {f}, !.want[f] = {}, !.pend[f] = {}, !.mask[f] = {},
              !.rec[f] = {}, !.armed[f] = {}, !.evt[f] = FALSE, !.readable[f] = FALSE,
              !.writable[f] = TRUE, !.hup = @ \ {f}]

\* A mutant of FdeRemove: a pending fdevent stays on the list.
FdeRemove_StaysPending(x, f) == Discard(x, f)
\* fdevent_remove: off the pending list, unhooked, and closed.
FdeRemove(x, f) == Discard(OffList(x, f), f)

\* event_hook_signal enqueues an fdevent that is not pending yet.
Enlist(S) == plist \o SetToSeq({f \in S : pend[f] = {}})

\* event_hook_signal for the hooks in S: pending with all that the hook wants.
Signal(S) ==
    /\ pend'  = [f \in Fds |-> IF f \in S THEN pend[f] \cup want[f] ELSE pend[f]]
    /\ plist' = Enlist(S)
    /\ UNCHANGED want

-----------------------------------------------------------------------------
(* fdevent_process *)

\* The hooks on the looper's list.
Hooked == {f \in live : want[f] # {}}

\* _event_socket_verify: a hook finds recorded events that it wants; FD_CLOSE stands for
\* each of them.
Found(f) == IF "C" \in rec[f] THEN want[f] ELSE rec[f] \cap want[f]
\* WSAEnumNetworkEvents of every hook forgets what is recorded.
Enumerated == [f \in Fds |-> IF f \in Hooked THEN {} ELSE rec[f]]

\* _event_socket_start for every hook: a changed mask is selected.
Start(x) ==
    LET new(f) == f \in Hooked /\ x.want[f] # x.mask[f]
        sel(f) == Select(x, f, x.want[f])
    IN  [x EXCEPT !.mask  = [f \in Fds |-> IF new(f) THEN sel(f).mask[f] ELSE @[f]],
                  !.rec   = [f \in Fds |-> IF new(f) THEN sel(f).rec[f] ELSE @[f]],
                  !.armed = [f \in Fds |-> IF new(f) THEN sel(f).armed[f] ELSE @[f]],
                  !.evt   = [f \in Fds |-> IF new(f) THEN sel(f).evt[f] ELSE @[f]]]

\* hook->prepare for every hook: some are ready and are signalled.
PrepareReady ==
    /\ pc = "prepare" /\ \E f \in Hooked : Found(f) # {}
    /\ ready' = [f \in Fds |-> IF f \in Hooked THEN Found(f) ELSE {}]
    /\ rec' = Enumerated
    /\ Signal({f \in Hooked : Found(f) # {}})
    /\ pc' = "peek"
    /\ UNCHANGED <<live, mask, armed, evt, readable, writable, hup, ndata, nfill>>

\* ... or none is, and the hooks are started for the wait.
PrepareIdle ==
    /\ pc = "prepare" /\ \A f \in Hooked : Found(f) = {}
    /\ ready' = [f \in Fds |-> {}]
    /\ Becomes(Start([X EXCEPT !.rec = Enumerated]))
    /\ pc' = "wait"
    /\ UNCHANGED ndata

\* WaitForMultipleObjects resets one signalled event and check enumerates its socket; if
\* the hook is not ready after all the loop waits again.
Wait ==
    /\ pc = "wait"
    /\ \E f \in Hooked :
         /\ evt[f]
         /\ evt' = [evt EXCEPT ![f] = FALSE]
         /\ rec' = [rec EXCEPT ![f] = {}]
         /\ ready' = [ready EXCEPT ![f] = Found(f)]
         /\ \/ Found(f) # {} /\ Signal({f}) /\ pc' = "peek"
            \/ Found(f) = {} /\ UNCHANGED <<want, pend, plist, pc>>
    /\ UNCHANGED <<live, mask, armed, readable, writable, hup, ndata, nfill>>

\* hook->peek for every hook: what became ready in the meantime is signalled too.
Peek ==
    LET now(f) == ready[f] \cup Found(f) IN
    /\ pc = "peek" /\ pc' = "calls"
    /\ ready' = [f \in Fds |-> IF f \in Hooked THEN now(f) ELSE ready[f]]
    /\ rec' = Enumerated
    /\ Signal({f \in Hooked : now(f) # {}})
    /\ UNCHANGED <<live, mask, armed, evt, readable, writable, hup, ndata, nfill>>

-----------------------------------------------------------------------------
(* fdevent_loop: the callbacks *)

\* What the callback of another descriptor may do to g, one call each: let it read again,
\* queue a backlog that its buffer has no room for, close it with a backlog left, or
\* remove it.
Touched(x, g) ==
    {x, FdeSet(x, g, x.want[g] \cup {"R"}), FdeRemove(x, g)}
    \cup (IF x.nfill[g] < MaxFill
            THEN {FdeSet([Block(x, g) EXCEPT !.nfill[g] = @ + 1], g, x.want[g] \cup {"W"})}
            ELSE {})
    \cup (IF "W" \in x.want[g] THEN {FdeSet(x, g, {"W"})} ELSE {})

\* fdevent_plist_dequeue; the events are cleared before the call.
Called(f) == [X EXCEPT !.plist = Tail(@), !.pend[f] = {}]

\* The callback writes its backlog and returns when that would block.
CallbackBlocks ==
    /\ pc = "calls" /\ plist # << >>
    /\ LET f == Head(plist) IN
         /\ "W" \in pend[f] /\ ~writable[f]
         /\ Becomes(Block(Called(f), f))
    /\ UNCHANGED <<ready, pc, ndata>>

\* The callback has written its backlog; it reads if it is told to and then goes on or
\* waits for its peer, and it may touch another descriptor.
CallbackGoes ==
    /\ pc = "calls" /\ plist # << >>
    /\ LET f == Head(plist)
           reads == "R" \in pend[f]
           left == IF "W" \in pend[f] THEN want[f] \ {"W"} ELSE want[f]
       IN  /\ "W" \in pend[f] => writable[f]
           /\ reads => f \notin hup
           /\ \E mine \in {left} \cup (IF reads THEN {left \ {"R"}} ELSE {}) :
                LET x1 == FdeSet(IF reads THEN Recv(Called(f), f) ELSE Called(f), f, mine)
                IN  \/ Becomes(x1)
                    \/ \E g \in live \ {f} : \E x2 \in Touched(x1, g) : Becomes(x2)
    /\ UNCHANGED <<ready, pc, ndata>>

\* The callback has read to the end of the stream, or a read, a write or its peer's
\* enqueue has failed: it closes its own socket, and it may touch another descriptor.
CallbackEnds ==
    /\ pc = "calls" /\ plist # << >>
    /\ LET f == Head(plist)
           x1 == FdeRemove(Called(f), f)
       IN  \/ Becomes(x1)
           \/ \E g \in live \ {f} : \E x2 \in Touched(x1, g) : Becomes(x2)
    /\ UNCHANGED <<ready, pc, ndata>>

\* The list is empty: the next iteration.
Iterate ==
    /\ pc = "calls" /\ plist = << >> /\ pc' = "prepare"
    /\ UNCHANGED <<live, want, pend, plist, mask, rec, armed, evt, ready, readable,
                   writable, hup, ndata, nfill>>

-----------------------------------------------------------------------------
(* The other ends of the sockets (external) *)

DataArrives(f) ==
    /\ f \in live /\ ~readable[f] /\ ndata[f] < MaxData
    /\ ndata' = [ndata EXCEPT ![f] = @ + 1]
    /\ Becomes(Occurs([X EXCEPT !.readable[f] = TRUE], f, "R"))
    /\ UNCHANGED <<ready, pc>>

\* The other end is closed: there is an end to read, and FD_CLOSE is recorded once.
PeerCloses(f) ==
    /\ f \in live /\ f \notin hup
    /\ LET x == [X EXCEPT !.readable[f] = TRUE, !.hup = @ \cup {f}]
           now == Closed(x, f, mask[f])
       IN  Becomes([x EXCEPT !.rec[f] = @ \cup now, !.evt[f] = @ \/ now # {}])
    /\ UNCHANGED <<ready, pc, ndata>>

RoomAgain(f) ==
    /\ f \in live /\ ~writable[f]
    /\ Becomes(Occurs([X EXCEPT !.writable[f] = TRUE], f, "W"))
    /\ UNCHANGED <<ready, pc, ndata>>

-----------------------------------------------------------------------------
Init ==
    /\ live = Fds /\ want = [f \in Fds |-> {"R"}] /\ pend = [f \in Fds |-> {}]
    /\ plist = << >> /\ mask = [f \in Fds |-> {}] /\ rec = [f \in Fds |-> {}]
    /\ armed = [f \in Fds |-> {}] /\ evt = [f \in Fds |-> FALSE]
    /\ ready = [f \in Fds |-> {}] /\ pc = "prepare"
    /\ readable = [f \in Fds |-> FALSE] /\ writable = [f \in Fds |-> TRUE]
    /\ hup = {} /\ ndata = [f \in Fds |-> 0] /\ nfill = [f \in Fds |-> 0]

Loop == PrepareReady \/ PrepareIdle \/ Wait \/ Peek \/ CallbackBlocks \/ CallbackGoes
        \/ CallbackEnds \/ Iterate

Next == Loop \/ \E f \in Fds : DataArrives(f) \/ PeerCloses(f) \/ RoomAgain(f)

Spec == Init /\ [][Next]_vars

\* The main thread runs, and the other ends take what is sent to them.
FairSpec == Spec /\ WF_vars(Loop) /\ \A f \in Fds : WF_vars(RoomAgain(f))

-----------------------------------------------------------------------------
(* Properties *)

\* The state keeps its shape.
TypeOK ==
    /\ live \subseteq Fds /\ plist \in Seq(Fds) /\ Len(plist) <= Cardinality(Fds)
    /\ want \in [Fds -> SUBSET Events] /\ pend \in [Fds -> SUBSET Events]
    /\ mask \in [Fds -> SUBSET Events] /\ rec \in [Fds -> SUBSET (Events \cup {"C"})]
    /\ armed \in [Fds -> SUBSET Events] /\ ready \in [Fds -> SUBSET Events]
    /\ evt \in [Fds -> BOOLEAN] /\ pc \in {"prepare", "wait", "peek", "calls"}
    /\ readable \in [Fds -> BOOLEAN] /\ writable \in [Fds -> BOOLEAN] /\ hup \subseteq Fds

\* list_pending holds the pending fdevents, once each, and none that was removed: what
\* fdevent_loop calls was not freed by an earlier callback of the same iteration.
PendingListRight ==
    /\ IsInjective(plist)
    /\ \A f \in Fds : f \in ToSet(plist) <=> pend[f] # {}
    /\ ToSet(plist) \subseteq live

\* An unread socket that is waited for has an event coming: recorded, armed by a mask
\* change that Start will see, pending, or to be had with the room for its backlog.
ReadNotLost == \A f \in Hooked : readable[f] /\ "R" \in want[f] =>
    \/ "R" \in rec[f] \cup pend[f] \/ "C" \in rec[f]
    \/ want[f] # mask[f]
    \/ "W" \in want[f]

\* A socket with data that is wanted gets its callback, although other callbacks change
\* masks and take pending events away.
ReadDelivered == \A f \in Fds :
    (f \in live /\ readable[f] /\ "R" \in want[f])
      ~> (f \notin live \/ ~readable[f] \/ "R" \notin want[f])

\* Between any two steps of fdevent_process and the callbacks, the pending list is right
\* and no read that is wanted has been forgotten.
LoopInv == TypeOK /\ PendingListRight /\ ReadNotLost
=============================================================================
