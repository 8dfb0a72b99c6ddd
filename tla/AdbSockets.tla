----------------------------- MODULE AdbSockets -----------------------------
(***************************************************************************)
(* The asockets of the server (sockets.cpp) and the stream packets of      *)
(* handle_packet (adb.cpp).                                                *)
(*                                                                         *)
(*   client --toServer--> local socket == peer == remote socket --h2d-->   *)
(*          <--toProc----               smart socket         <--d2h-- device*)
(*                                      service socket                     *)
(*                                                                         *)
(* A client connects, talks to a smart socket until it has asked for a     *)
(* stream, and is then bound to a remote socket of the one transport of    *)
(* this model (or to the local socket of a host service).  A socket is     *)
(* closed by its client, by the device, by a failed write, or because the  *)
(* transport goes away; packets that a client has not taken keep its       *)
(* socket on the closing list.                                             *)
(*                                                                         *)
(* Every handler of the main thread is one step.  A handler is a chain of  *)
(* calls on sockets, so it is written as operators on a record w of the    *)
(* state these calls change.  The host service modelled is wait-for: its   *)
(* thread never reads, answers once and closes.  The device, the clients   *)
(* and the kernel buffers between are external.                            *)
(***************************************************************************)
EXTENDS Integers, FiniteSets, FiniteSetsExt, Lists

CONSTANTS
    Clients,        \* connections to the server, one local socket each
    Services,       \* local sockets that host services may get
    Scripts,        \* what a client may send: sequences of requests and bytes
    MAX_PAYLOAD,    \* bytes of a packet
    Room,           \* bytes the kernel holds for a client that does not read
    MaxSent,        \* bound: bytes a device sends on a stream
    None, Smart, Remote  \* values of peer that are not local sockets

Locals == Clients \cup Services

\* What travels between a client and its socket: requests, statuses and, once a stream
\* is open, bytes, numbered in each direction.  "part" is input that does not complete a
\* request, and "forward" stands for a connection to the port of a forward listener.
Word(tag) == <<tag, 0>>
Byte(n)   == <<"byte", n>>
Requests  == {"transport", "open", "host", "devices", "bad"}
\* The requests that the client waits to be answered.
Awaited   == {"transport", "open", "host"}
Item == (Requests \cup {"part", "forward", "OKAY", "FAIL"}) \X {0} \cup {"byte"} \X Nat

ASSUME SocketsAssumption ==
    /\ Clients \cap Services = {} /\ {None, Smart, Remote} \cap Locals = {}
    /\ None # Smart /\ None # Remote /\ Smart # Remote
    /\ Scripts \subseteq Seq(Item)
    /\ MAX_PAYLOAD \in Nat \ {0} /\ Room \in Nat \ {0} /\ MaxSent \in Nat

\* After one of these requests a connection belongs to its stream, or to a host service.
Finals == {"open", "forward", "host"}

\* What a client sends (adb_client.cpp, _adb_connect): requests, one of Finals at most, and
\* bytes after that one only; "forward" stands for how the connection was made, and a request
\* that the server answers itself is the last.
Polite(s) ==
    /\ s # << >>
    /\ \A i, j \in DOMAIN s : i < j /\ s[i][1] \in Finals => s[j][1] = "byte"
    /\ \A j \in DOMAIN s : s[j][1] = "byte" => \E i \in 1..(j - 1) : s[i][1] \in Finals
    /\ \A j \in DOMAIN s : s[j][1] = "forward" => j = 1
    /\ \A j \in DOMAIN s : s[j][1] = "devices" => j = Len(s)

ASSUME ScriptsAssumption == \A s \in Scripts : Polite(s)

VARIABLES
    sk,       \* the local sockets
    disc,     \* t->disconnects: the clients that have a remote socket
    tr,       \* the transport: "on", "off" (CS_OFFLINE), "swept", "freed"
    h2d, d2h, \* packets to the device and from it
    toProc,   \* bytes written to a client or service and not read yet
    toServer, \* bytes a client or service has written and the server not read
    gone,     \* clients and services that closed their end
    cl,       \* the clients: script, how far it is, what was received
    dev,      \* the device's end of each stream
    bad,      \* a handler used a socket after free
    traced    \* sockets of which the log was told something after free

vars == <<sk, disc, tr, h2d, d2h, toProc, toServer, gone, cl, dev, bad, traced>>

Packet == [cmd : {"OPEN", "OKAY", "CLSE", "WRTE"}, id : Clients, data : Seq(Item)]
          \cup [cmd : {"SYNC0"}]

\* The record that the handlers work on.
W == [sk |-> sk, disc |-> disc, h2d |-> h2d, toProc |-> toProc, bad |-> bad]

Becomes(w) == /\ sk' = w.sk /\ disc' = w.disc /\ h2d' = w.h2d
              /\ toProc' = w.toProc /\ bad' = w.bad

-----------------------------------------------------------------------------
(* fdevent_set, and the writes to a descriptor *)

\* want is the event mask of the state and pend the pending events.  The code keeps
\* the pending events that are not in the new mask.
FdeSet(s, want) ==
    IF s.want = want THEN s ELSE [s EXCEPT !.want = want, !.pend = @ \ want]
FdeAdd(s, e) == FdeSet(s, s.want \cup {e})
FdeDel(s, e) == FdeSet(s, s.want \ {e})

\* adb_write takes what the kernel has room for; it fails when the other end is closed.
Fits(w, l, bytes) == Min({Len(bytes), Max({0, Room - Len(w.toProc[l])})})

\* A status message, which always finds room: nothing was sent to the client before.
Tell(w, l, status) ==
    IF l \in gone THEN w ELSE [w EXCEPT !.toProc[l] = Append(@, Word(status))]

\* send_packet: to the transport's socketpair.
Send(w, cmd, c, data) ==
    [w EXCEPT !.h2d = Append(@, [cmd |-> cmd, id |-> c, data |-> data])]

-----------------------------------------------------------------------------
(* Closing *)

\* A socket that was never made, or that was freed.
Blank(where) == [on |-> where, peer |-> None, notify |-> FALSE, want |-> {},
                 pend |-> {}, q |-> << >>, trans |-> FALSE, req |-> << >>,
                 smartTrans |-> FALSE]

\* local_socket_destroy: the descriptor is closed and unwritten data discarded.
Destroy(w, l) == [w EXCEPT !.sk[l] = Blank("freed")]

\* A mutant of Finish: a socket with data left is destroyed at once.
Finish_Discard(w, l) == Destroy(w, l)
\* The end of local_socket_close_locked: gone at once, or to the closing list.
Finish(w, l) ==
    IF w.sk[l].on = "closing" \/ w.sk[l].q = << >>
      THEN Destroy(w, l)
      ELSE [w EXCEPT !.sk[l] = FdeDel([@ EXCEPT !.on = "closing", !.peer = None], "R")]

\* A mutant of RemoteClose: the transport's disconnect list keeps the freed socket.
RemoteClose_KeepDisc(w, c) == Send(w, "CLSE", c, << >>)
\* remote_socket_close, called by the local side, which has cut the link.
RemoteClose(w, c) == [Send(w, "CLSE", c, << >>) EXCEPT !.disc = @ \ {c}]

\* local_socket_close_locked: first the peer, then the socket itself.
CloseLocked(w, l) ==
    LET p == w.sk[l].peer
        w1 == CASE p = Remote -> RemoteClose(w, l)
                [] p \in Locals -> Finish([w EXCEPT !.sk[p].peer = None], p)
                [] OTHER -> w   \* no peer, or a smart socket, which is freed
    IN  Finish(w1, l)

\* s->close(s): local_socket_close, or local_socket_close_notify before the stream
\* is open.
Close(w, l) ==
    IF w.sk[l].notify
      THEN CloseLocked(Tell([w EXCEPT !.sk[l].notify = FALSE], l, "FAIL"), l)
      ELSE CloseLocked(w, l)

-----------------------------------------------------------------------------
(* Data *)

\* s->ready(s): local_socket_ready, or local_socket_ready_notify the first time.
Ready(w, l) ==
    LET w1 == IF w.sk[l].notify
                THEN Tell([w EXCEPT !.sk[l].notify = FALSE], l, "OKAY") ELSE w
    IN  [w1 EXCEPT !.sk[l] = FdeAdd(@, "R")]

\* A mutant of Enqueue: what did not fit is forgotten.
Enqueue_DropRest(w, l, bytes) ==
    LET n == Fits(w, l, bytes)
    IN  [w |-> [w EXCEPT !.toProc[l] = @ \o SubSeq(bytes, 1, n)], r |-> 0]
\* local_socket_enqueue: write what fits and keep the rest; 1 means not ready, because
\* of a backlog or because the write failed and the socket was closed.
Enqueue(w, l, bytes) ==
    LET n == IF w.sk[l].q = << >> THEN Fits(w, l, bytes) ELSE 0
        rest == SubSeq(bytes, n + 1, Len(bytes))
        w1 == [w EXCEPT !.toProc[l] = @ \o SubSeq(bytes, 1, n)]
    IN  IF w.sk[l].q = << >> /\ l \in gone
          THEN [w |-> Close(w, l), r |-> 1]
          ELSE IF rest = << >>
                 THEN [w |-> w1, r |-> 0]
                 ELSE [w |-> [w1 EXCEPT !.sk[l] =
                                FdeAdd([@ EXCEPT !.q = w.sk[l].q \o rest], "W")],
                       r |-> 1]

-----------------------------------------------------------------------------
(* The smart socket *)

\* A mutant of SmartFail: the caller is not told that its socket is closed.
SmartFail_Zero(w, l) == [w |-> Close([w EXCEPT !.sk[l].peer = None], l), r |-> 0]
\* A mutant of SmartFail: a failure message is sent here too.
SmartFail_Tell(w, l) ==
    [w |-> Close([Tell(w, l, "FAIL") EXCEPT !.sk[l].peer = None], l), r |-> -1]
\* smart_socket_close from smart_socket_enqueue's fail label: the peer is closed as
\* a side effect.
SmartFail(w, l) == [w |-> Close([w EXCEPT !.sk[l].peer = None], l), r |-> -1]

\* A request for the device: the client's socket waits for the device's answer.
SmartOpen(w, l) ==
    IF w.sk[l].smartTrans /\ tr = "on"
      THEN [w |-> Send([w EXCEPT !.sk[l] = [@ EXCEPT !.notify = TRUE, !.peer = None,
                             !.trans = TRUE, !.req = << >>, !.smartTrans = FALSE]],
                       "OPEN", l, << >>), r |-> 1]
      ELSE SmartFail(Tell(w, l, "FAIL"), l)

\* handle_host_request "transport": the smart socket remembers the transport, or the
\* client is told why not; either way the smart socket waits for the next request.
SmartTransport(w, l) ==
    [w |-> IF tr = "on"
             THEN [Tell(w, l, "OKAY") EXCEPT !.sk[l] = [@ EXCEPT !.smartTrans = TRUE,
                                                                !.req = << >>]]
             ELSE [Tell(w, l, "FAIL") EXCEPT !.sk[l].req = << >>], r |-> 0]

\* A host service: the client's socket gets the service's socket as its peer.
SmartHost(w, l) ==
    LET free == {s \in Services : w.sk[s].on = "absent"}
        s2 == CHOOSE s \in free : TRUE
    IN  IF free = {}
          THEN SmartFail(Tell(w, l, "FAIL"), l)
          ELSE [w |-> [Tell(w, l, "OKAY") EXCEPT
                  !.sk[l] = [@ EXCEPT !.peer = s2, !.req = << >>, !.smartTrans = FALSE],
                  !.sk[s2] = [Blank("list") EXCEPT !.peer = l, !.want = {"R"}]],
                r |-> 0]

\* smart_socket_enqueue: collect until the request is complete, then act on it.
\* "devices" stands for the requests that handle_host_request answers itself.
SmartEnqueue(w, l, bytes) ==
    LET all  == w.sk[l].req \o bytes
        asks == {i \in 1..Len(all) : all[i][1] \in Requests}
        what == all[Min(asks)][1]
    IN  IF asks = {} THEN [w |-> [w EXCEPT !.sk[l].req = all], r |-> 0]
        ELSE CASE what = "open"      -> SmartOpen(w, l)
               [] what = "transport" -> SmartTransport(w, l)
               [] what = "host"      -> SmartHost(w, l)
               [] what = "devices"   -> SmartFail(Tell(w, l, "OKAY"), l)
               [] what = "bad"       -> SmartFail(w, l)

-----------------------------------------------------------------------------
(* local_socket_event_func *)

\* The peer's ready after the backlog is written: a remote socket sends OKAY.
PeerReady(w, l) ==
    LET p == w.sk[l].peer IN
    CASE p = Remote -> Send(w, "OKAY", l, << >>)
      [] p \in Locals -> Ready(w, p)
      [] p = Smart -> w
      [] p = None -> [w EXCEPT !.bad = TRUE]

\* FDE_WRITE: write the backlog; stop is the early return.
EventWrite(w, l) ==
    LET n  == Fits(w, l, w.sk[l].q)
        w1 == [w EXCEPT !.toProc[l] = @ \o SubSeq(w.sk[l].q, 1, n),
                        !.sk[l].q = SubSeq(@, n + 1, Len(@))]
    IN  IF l \in gone THEN [w |-> Close(w, l), stop |-> TRUE]
        ELSE IF w1.sk[l].q # << >> THEN [w |-> w1, stop |-> TRUE]
        ELSE IF w.sk[l].on = "closing" THEN [w |-> Close(w1, l), stop |-> TRUE]
        ELSE [w |-> PeerReady([w1 EXCEPT !.sk[l] = FdeDel(@, "W")], l), stop |-> FALSE]

\* s->peer->enqueue.
PeerEnqueue(w, l, bytes) ==
    LET p == w.sk[l].peer IN
    CASE p = Remote -> [w |-> Send(w, "WRTE", l, bytes), r |-> 1]
      [] p = Smart  -> SmartEnqueue(w, l, bytes)
      [] p \in Locals -> Enqueue(w, p, bytes)

\* What one FDE_READ takes, and whether the loop met the end of the stream.
ReadLen(l) == Min({MAX_PAYLOAD, Len(toServer[l])})
ReadEof(l) == l \in gone /\ Len(toServer[l]) < MAX_PAYLOAD

\* FDE_READ hands what was read to the peer, if there is a peer.
HandOver(w, l) ==
    LET bytes == SubSeq(toServer[l], 1, ReadLen(l))
    IN  IF bytes = << >> \/ w.sk[l].peer = None
          THEN [w |-> w, r |-> 0] ELSE PeerEnqueue(w, l, bytes)

\* Whatever the peer's result is, the log is then told the number and the descriptor of the
\* socket, which the peer may have freed (the result is -1 when a smart socket has).
LogsFreed(w, l) == HandOver(w, l).w.sk[l].on = "freed"

\* The rest of FDE_READ: return if the peer has closed the socket, stop reading if it is not
\* ready, and close at the end of the stream.  After a result of 0 or 1 the code goes on
\* using the socket.
EventRead(w, l) ==
    LET e == HandOver(w, l)
        w1 == IF e.r > 0 THEN [e.w EXCEPT !.sk[l] = FdeDel(@, "R")] ELSE e.w
    IN  IF e.r < 0 THEN e.w
        ELSE IF e.w.sk[l].on = "freed" THEN [e.w EXCEPT !.bad = TRUE]
        ELSE IF ReadEof(l) THEN Close(w1, l) ELSE w1

-----------------------------------------------------------------------------
(* Steps of the main thread *)

Live(l) == sk[l].on \in {"list", "closing"}

Readable(l) == toServer[l] # << >> \/ l \in gone
Writable(l) == Len(toProc[l]) < Room \/ l \in gone

\* fdevent_process: a socket that is ready for one of the events it wants becomes
\* pending with all the events it wants.
Signal(l) ==
    /\ ~bad /\ Live(l) /\ ~(sk[l].want \subseteq sk[l].pend)
    /\ ("R" \in sk[l].want /\ Readable(l)) \/ ("W" \in sk[l].want /\ Writable(l))
    /\ sk' = [sk EXCEPT ![l].pend = @ \cup sk[l].want]
    /\ UNCHANGED <<disc, tr, h2d, d2h, toProc, toServer, gone, cl, dev, bad, traced>>

\* fdevent_loop calls local_socket_event_func: FDE_WRITE first, then FDE_READ.
Callback(l) ==
    /\ ~bad /\ Live(l) /\ sk[l].pend # {}
    /\ LET w0 == [W EXCEPT !.sk[l].pend = {}]
           ev == IF "W" \in sk[l].pend THEN EventWrite(w0, l)
                 ELSE [w |-> w0, stop |-> FALSE]
           reads == "R" \in sk[l].pend /\ ~ev.stop
       IN  /\ Becomes(IF reads THEN EventRead(ev.w, l) ELSE ev.w)
           /\ toServer' = IF reads
                            THEN [toServer EXCEPT ![l] = SubSeq(@, ReadLen(l) + 1, Len(@))]
                            ELSE toServer
           /\ traced' = IF reads /\ LogsFreed(ev.w, l) THEN traced \cup {l} ELSE traced
    /\ UNCHANGED <<tr, d2h, gone, cl, dev>>

\* ss_listener_event_func: a client is accepted and bound to a smart socket.
Accept(c) ==
    /\ ~bad /\ sk[c].on = "absent"
    /\ \E script \in {x \in Scripts : x[1] # Word("forward")} :
         cl' = [cl EXCEPT ![c].script = script]
    /\ sk' = [sk EXCEPT ![c] = [Blank("list") EXCEPT !.peer = Smart, !.want = {"R"}]]
    /\ UNCHANGED <<disc, tr, h2d, d2h, toProc, toServer, gone, dev, bad, traced>>

\* listener_event_func: a connection to a forwarded port, which exists while the
\* transport is on line.
AcceptForward(c) ==
    /\ ~bad /\ sk[c].on = "absent" /\ tr = "on"
    /\ \E script \in {x \in Scripts : x[1] = Word("forward")} :
         cl' = [cl EXCEPT ![c].script = script, ![c].pos = 1]
    /\ Becomes(Send([W EXCEPT !.sk[c] = [Blank("list") EXCEPT !.trans = TRUE]],
                    "OPEN", c, << >>))
    /\ UNCHANGED <<tr, d2h, toServer, gone, dev, traced>>

-----------------------------------------------------------------------------
(* handle_packet, for the packets of streams *)

\* A_OKAY: the first one makes the remote socket.
HandleOkay(w, c) ==
    IF w.sk[c].on # "list" THEN w
    ELSE Ready(IF w.sk[c].peer = None
                 THEN [w EXCEPT !.sk[c].peer = Remote, !.disc = @ \cup {c}] ELSE w, c)

\* A_CLSE.
HandleClose(w, c) == IF w.sk[c].on # "list" THEN w ELSE Close(w, c)

\* A mutant of HandleWrite: the device is told to go on whatever enqueue said.
HandleWrite_AlwaysOkay(w, c, bytes) ==
    IF w.sk[c].on # "list" THEN w ELSE Send(Enqueue(w, c, bytes).w, "OKAY", c, << >>)
\* A_WRTE: OKAY at once if everything was written, else when the backlog is.
HandleWrite(w, c, bytes) ==
    IF w.sk[c].on # "list" THEN w
    ELSE LET e == Enqueue(w, c, bytes)
         IN  IF e.r = 0 THEN Send(e.w, "OKAY", c, << >>) ELSE e.w

MainPacket ==
    /\ ~bad /\ d2h # << >> /\ Head(d2h).cmd # "SYNC0"
    /\ LET p == Head(d2h) IN
       Becomes(IF tr # "on" THEN W
               ELSE CASE p.cmd = "OKAY" -> HandleOkay(W, p.id)
                      [] p.cmd = "CLSE" -> HandleClose(W, p.id)
                      [] p.cmd = "WRTE" -> HandleWrite(W, p.id, p.data))
    /\ d2h' = Tail(d2h)
    /\ UNCHANGED <<tr, toServer, gone, cl, dev, traced>>

\* remote_socket_disconnect: the device is not told, and no other socket is touched.
RemoteDisconnect(c) == Close([W EXCEPT !.sk[c].peer = None], c)

\* A_SYNC(0): CS_OFFLINE, handle_offline and run_transport_disconnects.
Offline ==
    /\ ~bad /\ d2h # << >> /\ Head(d2h).cmd = "SYNC0"
    /\ Becomes([W EXCEPT
         !.sk     = [l \in Locals |-> IF l \in disc THEN RemoteDisconnect(l).sk[l] ELSE sk[l]],
         !.toProc = [l \in Locals |-> IF l \in disc THEN RemoteDisconnect(l).toProc[l]
                                     ELSE toProc[l]],
         !.disc   = {}])
    /\ d2h' = Tail(d2h) /\ tr' = "off"
    /\ UNCHANGED <<toServer, gone, cl, dev, traced>>

\* A mutant of OfTransport: the smart sockets' transport is forgotten.
OfTransport_OwnOnly(l) == sk[l].on = "list" /\ sk[l].trans
\* The sockets that close_all_sockets picks: their own transport, or their peer's.
OfTransport(l) ==
    sk[l].on = "list" /\ (sk[l].trans \/ sk[l].peer = Remote \/ sk[l].smartTrans)

\* input_thread calls close_all_sockets when SYNC(0) has come back to it.  No remote
\* socket is left by then, so local_socket_close_locked touches its own socket only.
CloseAll ==
    /\ ~bad /\ tr = "off"
    /\ Becomes([W EXCEPT !.sk = [l \in Locals |->
                   IF OfTransport(l) THEN CloseLocked(W, l).sk[l] ELSE sk[l]]])
    /\ tr' = "swept"
    /\ UNCHANGED <<d2h, toServer, gone, cl, dev, traced>>

\* The last reference is dropped and the main thread frees the transport.
FreeTransport ==
    /\ tr = "swept" /\ tr' = "freed"
    /\ UNCHANGED <<sk, disc, h2d, d2h, toProc, toServer, gone, cl, dev, bad, traced>>

-----------------------------------------------------------------------------
(* The clients and the services *)

Count(seq, S) == Cardinality({i \in DOMAIN seq : seq[i][1] \in S})

\* A client sends the next item once its requests so far are answered with OKAY.
ClientSend(c) ==
    /\ sk[c].on # "absent" /\ c \notin gone /\ cl[c].pos < Len(cl[c].script)
    /\ Count(SubSeq(cl[c].script, 1, cl[c].pos), Awaited) = Count(cl[c].got, {"OKAY"})
    /\ toServer' = [toServer EXCEPT ![c] = Append(@, cl[c].script[cl[c].pos + 1])]
    /\ cl' = [cl EXCEPT ![c].pos = @ + 1]
    /\ UNCHANGED <<sk, disc, tr, h2d, d2h, toProc, gone, dev, bad, traced>>

ClientRead(c) ==
    /\ c \notin gone /\ toProc[c] # << >>
    /\ cl' = [cl EXCEPT ![c].got = Append(@, Head(toProc[c]))]
    /\ toProc' = [toProc EXCEPT ![c] = Tail(@)]
    /\ UNCHANGED <<sk, disc, tr, h2d, d2h, toServer, gone, dev, bad, traced>>

\* The client closes its socket, whatever is under way.
ClientLeave(c) ==
    /\ sk[c].on # "absent" /\ c \notin gone
    /\ gone' = gone \cup {c}
    /\ UNCHANGED <<sk, disc, tr, h2d, d2h, toProc, toServer, cl, dev, bad, traced>>

\* wait_for_state answers and closes its end of the socketpair.
ServiceAnswer(s) ==
    /\ sk[s].on # "absent" /\ s \notin gone
    /\ toServer' = [toServer EXCEPT ![s] = Append(@, Byte(1))]
    /\ gone' = gone \cup {s}
    /\ UNCHANGED <<sk, disc, tr, h2d, d2h, toProc, cl, dev, bad, traced>>

-----------------------------------------------------------------------------
(* A device that keeps to the protocol *)

Reply(cmd, c, data) == d2h' = Append(d2h, [cmd |-> cmd, id |-> c, data |-> data])
DevStep == UNCHANGED <<sk, disc, tr, toProc, toServer, gone, cl, bad, traced>>

\* The transport works: SYNC(0) is not on its way.
Plugged == tr = "on" /\ \A i \in DOMAIN d2h : d2h[i].cmd # "SYNC0"

\* The device takes a packet: OPEN is accepted or refused, a CLSE answered.
DevTake ==
    /\ Plugged /\ h2d # << >> /\ h2d' = Tail(h2d)
    /\ LET p == Head(h2d)
           c == p.id
       IN  \/ /\ p.cmd = "OPEN" /\ Reply("OKAY", c, << >>)
              /\ dev' = [dev EXCEPT ![c] = [@ EXCEPT !.st = "open", !.may = TRUE]]
           \/ /\ p.cmd = "OPEN" /\ Reply("CLSE", c, << >>)
              /\ dev' = [dev EXCEPT ![c].st = "closed"]
           \/ /\ p.cmd = "WRTE" /\ dev[c].st = "open" /\ UNCHANGED d2h
              /\ dev' = [dev EXCEPT ![c].got = @ \o p.data, ![c].owes = @ + 1]
           \/ /\ p.cmd = "OKAY" /\ dev[c].st = "open" /\ UNCHANGED d2h
              /\ dev' = [dev EXCEPT ![c].may = TRUE]
           \/ /\ p.cmd = "CLSE" /\ dev[c].st = "open" /\ Reply("CLSE", c, << >>)
              /\ dev' = [dev EXCEPT ![c].st = "closed"]
           \/ /\ p.cmd # "OPEN" /\ dev[c].st # "open" /\ UNCHANGED <<d2h, dev>>
    /\ DevStep

\* The device has used up what it got, and asks for more.
DevReady(c) ==
    /\ Plugged /\ dev[c].st = "open" /\ dev[c].owes > 0
    /\ dev' = [dev EXCEPT ![c].owes = @ - 1] /\ Reply("OKAY", c, << >>)
    /\ DevStep /\ UNCHANGED h2d

\* The device sends up to a packet of bytes, if it was told to go on.
DevSend(c) ==
    /\ Plugged /\ dev[c].st = "open" /\ dev[c].may
    /\ \E n \in 1..MAX_PAYLOAD :
         LET bytes == [i \in 1..n |-> Byte(Len(dev[c].sent) + i)] IN
         /\ Len(dev[c].sent) + n <= MaxSent
         /\ dev' = [dev EXCEPT ![c].may = FALSE, ![c].sent = @ \o bytes]
         /\ Reply("WRTE", c, bytes)
    /\ DevStep /\ UNCHANGED h2d

DevClose(c) ==
    /\ Plugged /\ dev[c].st = "open"
    /\ dev' = [dev EXCEPT ![c].st = "closed"] /\ Reply("CLSE", c, << >>)
    /\ DevStep /\ UNCHANGED h2d

\* The device is unplugged: output_thread sends SYNC(0) after what it has read.
Unplug ==
    /\ Plugged
    /\ d2h' = Append(d2h, [cmd |-> "SYNC0"])
    /\ DevStep /\ UNCHANGED <<h2d, dev>>

-----------------------------------------------------------------------------
Init ==
    /\ sk = [l \in Locals |-> Blank("absent")] /\ disc = {} /\ tr = "on"
    /\ h2d = << >> /\ d2h = << >>
    /\ toProc = [l \in Locals |-> << >>] /\ toServer = [l \in Locals |-> << >>]
    /\ gone = {} /\ bad = FALSE /\ traced = {}
    /\ cl = [c \in Clients |-> [script |-> << >>, pos |-> 0, got |-> << >>]]
    /\ dev = [c \in Clients |-> [st |-> "none", may |-> FALSE, owes |-> 0,
                                 sent |-> << >>, got |-> << >>]]

Next ==
    \/ MainPacket \/ Offline \/ CloseAll \/ FreeTransport
    \/ \E l \in Locals : Signal(l) \/ Callback(l)
    \/ \E c \in Clients : Accept(c) \/ AcceptForward(c)
    \/ \E c \in Clients : ClientSend(c) \/ ClientRead(c) \/ ClientLeave(c)
    \/ \E s \in Services : ServiceAnswer(s)
    \/ \E c \in Clients : DevReady(c) \/ DevSend(c) \/ DevClose(c)
    \/ DevTake \/ Unplug

Spec == Init /\ [][Next]_vars

\* The main thread serves every descriptor and packet, the threads of the transport run,
\* the device takes packets and answers, and clients read what they are sent.  Nobody
\* is obliged to send, to leave or to be unplugged.
Fairness ==
    /\ WF_vars(MainPacket) /\ WF_vars(Offline) /\ WF_vars(CloseAll)
    /\ WF_vars(FreeTransport) /\ WF_vars(DevTake)
    /\ \A l \in Locals : WF_vars(Signal(l)) /\ WF_vars(Callback(l))
    /\ \A c \in Clients : WF_vars(DevReady(c)) /\ WF_vars(ClientRead(c))
FairSpec == Spec /\ Fairness

-----------------------------------------------------------------------------
(* Properties *)

Socket == [on : {"absent", "list", "closing", "freed"},
           peer : Locals \cup {None, Smart, Remote}, notify : BOOLEAN,
           want : SUBSET {"R", "W"}, pend : SUBSET {"R", "W"}, q : Seq(Item),
           trans : BOOLEAN, req : Seq(Item), smartTrans : BOOLEAN]

\* The state keeps its shape.
TypeOK ==
    /\ sk \in [Locals -> Socket] /\ disc \subseteq Clients /\ bad \in BOOLEAN
    /\ traced \subseteq Locals
    /\ tr \in {"on", "off", "swept", "freed"} /\ gone \subseteq Locals
    /\ h2d \in Seq(Packet) /\ d2h \in Seq(Packet)
    /\ toProc \in [Locals -> Seq(Item)] /\ toServer \in [Locals -> Seq(Item)]
    /\ cl \in [Clients -> [script : Seq(Item), pos : Nat, got : Seq(Item)]]
    /\ dev \in [Clients -> [st : {"none", "open", "closed"}, may : BOOLEAN, owes : Nat,
                            sent : Seq(Item), got : Seq(Item)]]

\* No handler goes on with a socket that one of its calls has freed, and no backlog
\* is written for a socket that has lost its peer (sockets.cpp 364-396).  The line of the
\* log before the test of the result (361) is no part of this: it does read two fields of a
\* freed socket, and those sockets are in traced.
NoUseAfterFree == ~bad

\* Peers point at each other, every remote socket on the transport's disconnect list
\* belongs to an open local socket, and a socket on the closing list has no peer.
PeersLinked ==
    /\ \A l \in Locals : sk[l].peer \in Locals => sk[sk[l].peer].peer = l
    /\ \A c \in Clients : c \in disc <=> sk[c].peer = Remote
    /\ \A l \in Locals : sk[l].peer # None => sk[l].on = "list"
    /\ \A l \in Locals : sk[l].on = "closing" => "W" \in sk[l].want

Packets(queue, cmd, c) ==
    Cardinality({i \in DOMAIN queue : queue[i].cmd = cmd /\ queue[i].id = c})
One(b) == IF b THEN 1 ELSE 0

\* The stream of c is open at both ends and nobody has asked to close it.
Open(c) == /\ sk[c].peer = Remote /\ dev[c].st = "open" /\ Plugged
           /\ Packets(d2h, "CLSE", c) = 0

\* Flow control from the device: the permission to send is in exactly one place, with the
\* device, in a WRTE, in the backlog of the local socket, or in an OKAY.
DeviceCredit == \A c \in Clients : Open(c) =>
    One(dev[c].may) + Packets(d2h, "WRTE", c) + One(sk[c].q # << >>)
      + Packets(h2d, "OKAY", c) = 1

\* Flow control to the device: a local socket reads its client exactly when no WRTE of it
\* is on the way, unused at the device, or about to be acknowledged.
ClientCredit == \A c \in Clients : Open(c) =>
    One("R" \in sk[c].want) + Packets(h2d, "WRTE", c) + dev[c].owes
      + Packets(d2h, "OKAY", c) = 1

\* So a slow client costs the server one packet of memory at most.
BacklogBounded == \A l \in Locals : Len(sk[l].q) <= MAX_PAYLOAD

Data(seq) == Keep(seq, {"byte"} \X Nat)
InFlight(queue, c) ==
    FlattenSeq([i \in DOMAIN queue |->
      IF queue[i].cmd = "WRTE" /\ queue[i].id = c THEN queue[i].data ELSE << >>])

\* What the device sent reaches the client in order and without a gap: received, in the
\* kernel, in the backlog and in packets together are what was sent, as long as the
\* socket exists, and a prefix of it afterwards.
ToClientInOrder == \A c \in Clients :
    LET arrived == Data(cl[c].got) \o Data(toProc[c]) \o sk[c].q
    IN  IF sk[c].peer = Remote THEN arrived \o InFlight(d2h, c) = dev[c].sent
        ELSE dev[c].st # "none" => IsPrefix(arrived, dev[c].sent)

\* And what the client sent reaches the device in order and without a gap.
ToDeviceInOrder == \A c \in Clients :
    LET sent == Data(SubSeq(cl[c].script, 1, cl[c].pos))
    IN  IF Open(c)
          THEN dev[c].got \o InFlight(h2d, c) \o Data(toServer[c]) = sent
          ELSE IsPrefix(dev[c].got, sent)

\* The requests that client c waits for, and the statuses it was sent.
AskedBy(c) == Count(SubSeq(cl[c].script, 1, cl[c].pos), Awaited)
ToldTo(c) == Count(cl[c].got \o toProc[c], {"OKAY", "FAIL"})

\* Each request is answered once and before any byte of its stream: in what a client
\* gets, the statuses come first and are as many as the requests it waited for, at most.
StatusFirst == \A c \in Clients :
    LET all == cl[c].got \o toProc[c]
        asked == AskedBy(c)
    IN  /\ \A i, j \in DOMAIN all :
             i < j /\ all[j][1] \in {"OKAY", "FAIL"} => all[i][1] # "byte"
        /\ cl[c].script # << >> /\ Last(cl[c].script) # Word("devices")
             => Count(all, {"OKAY", "FAIL"}) <= asked
        /\ \A i \in DOMAIN all : all[i][1] = "byte" => Count(all, {"OKAY"}) = asked

\* Once the transport is freed no socket on the list refers to it, not even through its
\* smart socket (close_all_sockets runs before the last reference is dropped).
TransportUnused == tr = "freed" =>
    /\ disc = {}
    /\ \A l \in Locals : sk[l].on = "list" => ~sk[l].trans /\ ~sk[l].smartTrans

\* No packet is sent to a transport that is off line.
NoSendOffline == [][tr # "on" => h2d' = h2d]_vars

\* What the device sent before it closed or was unplugged reaches a client that stays,
\* although the socket loses its peer with data still queued.
DeliveredToClient == \A c \in Clients : \A n \in 1..MaxSent :
    (Len(dev[c].sent) >= n) ~> (Len(Data(cl[c].got)) >= n \/ c \in gone)

\* What a client sends on an open stream reaches the device, unless the stream ends.
DeliveredToDevice == \A c \in Clients : \A n \in 1..MaxSent :
    (Len(Data(SubSeq(cl[c].script, 1, cl[c].pos))) >= n)
      ~> (Len(dev[c].got) >= n \/ sk[c].on \in {"closing", "freed"} \/ c \in gone)

\* A client that waits for its stream to open is told OKAY or FAIL, unless it leaves or the
\* transport goes away: local_socket_close_notify sends no socket off without a status
\* (sockets.cpp 581-583), but close_all_sockets destroys one without (112-128).
OpenAnswered == \A c \in Clients :
    sk[c].notify ~> /\ ~sk[c].notify
                    /\ ToldTo(c) = AskedBy(c) \/ c \in gone \/ tr \in {"swept", "freed"}

\* When the device is unplugged every stream and every pending open ends.
UnplugCloses == \A c \in Clients :
    (~Plugged /\ (sk[c].trans \/ sk[c].smartTrans)) ~> (sk[c].on = "freed")

\* No chain of calls on asockets goes on with one that is freed, but for a line of the log.
SocketsInv == TypeOK /\ NoUseAfterFree

\* One packet is on its way in each direction of a stream, and a slow client costs one
\* packet of memory (local_socket_enqueue, local_socket_ready).
FlowControl == DeviceCredit /\ ClientCredit /\ BacklogBounded

\* Both directions of a stream keep their bytes and their order.
BytesInOrder == ToClientInOrder /\ ToDeviceInOrder

\* An open is answered while the transport stays, and what either side has sent arrives,
\* also when the peer has closed meanwhile (the closing list of local_socket_close_locked).
Served == OpenAnswered /\ DeliveredToClient /\ DeliveredToDevice

\* A transport that goes away ends its streams, and gets no packet after handle_offline.
Unplugged == UnplugCloses /\ NoSendOffline
=============================================================================
