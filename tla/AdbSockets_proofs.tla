-------------------------- MODULE AdbSockets_proofs --------------------------
(***************************************************************************)
(* Proofs about AdbSockets, for any clients, services, scripts and sizes:  *)
(* the pointers between the asockets of the server, the flow control of    *)
(* their streams, and the order of the bytes that a device sends.  Every   *)
(* handler is a chain of calls on the record W, so each call has a lemma   *)
(* that says what it makes of a good record, what it does to the           *)
(* permissions to send, and that it loses no byte.                         *)
(***************************************************************************)
EXTENDS AdbSockets, Lists_proofs

-----------------------------------------------------------------------------
(* The invariant *)

Record == [sk : [Locals -> Socket], disc : SUBSET Clients, h2d : Seq(Packet),
           toProc : [Locals -> Seq(Item)], bad : BOOLEAN]

\* What is so of socket l by itself: a socket has a peer only while it is on the list,
\* wants to write exactly while it has a backlog, then has somebody to tell when the
\* backlog is written, and knows a transport only before its stream or in it.
SockOK(l, s) ==
    /\ s.on \in {"absent", "freed"} => s = Blank(s.on)
    /\ s.peer # None => s.on = "list"
    /\ s.on = "closing" => "W" \in s.want
    /\ s.on = "list" => ("W" \in s.want <=> s.q # << >>)
    /\ s.on = "list" /\ s.q # << >> => s.peer \notin {None, Smart}
    /\ "W" \in s.pend => "W" \in s.want
    /\ s.peer = Remote => l \in Clients
    /\ s.peer \in Clients => l \in Services
    /\ s.peer \in Services \cup {Smart} => l \in Clients
    /\ s.on = "list" /\ s.trans => s.peer \in {None, Remote}
    /\ s.on = "list" /\ s.smartTrans => s.peer = Smart

\* Peers point at each other, and the disconnect list holds the remote ones.
SkOK(f, d) ==
    /\ f \in [Locals -> Socket] /\ d \subseteq Clients
    /\ \A l \in Locals : SockOK(l, f[l])
    /\ \A l \in Locals : f[l].peer \in Locals => f[f[l].peer].peer = l
    /\ \A c \in Clients : c \in d <=> f[c].peer = Remote

Good(w) == w \in Record /\ SkOK(w.sk, w.disc)

\* Socket s refers to the transport.
Uses(s) == s.on = "list" /\ (s.trans \/ s.smartTrans)

\* What calls do while the transport is not on line: no socket gets hold of it, and
\* nothing is sent.
Tame(w, v) ==
    tr # "on" => /\ v.disc \subseteq w.disc
                 /\ \A l \in Locals : Uses(v.sk[l]) => Uses(w.sk[l])
                 /\ w.disc = {} => v.h2d = w.h2d

\* The places of the OPEN packets of c in a queue.
Opens(q, c) == {i \in 1..Len(q) : q[i].cmd = "OPEN" /\ q[i].id = c}

\* A call leaves the stream of client c as it is, or goes on with it: a socket that is
\* still on the list was there and keeps its peer, unless a smart socket gives way to a host
\* service or the remote socket is made, and no OPEN is sent.
Quiet(w, v, c) ==
    /\ v.sk[c].on = "list" => /\ w.sk[c].on = "list"
                              /\ \/ v.sk[c].peer = w.sk[c].peer
                                 \/ w.sk[c].peer = Smart /\ v.sk[c].peer \in Services
                                 \/ w.sk[c].peer = None /\ v.sk[c].peer = Remote
    /\ Opens(v.h2d, c) = Opens(w.h2d, c)

\* A call opens the stream of client c: the smart socket is gone and one OPEN is sent.
Opened(w, v, c) ==
    /\ w.sk[c].peer = Smart /\ (v.sk[c].on = "list" => v.sk[c].peer \in {None, Remote})
    /\ \E n \in Nat : Opens(v.h2d, c) = Opens(w.h2d, c) \cup {n}

Calm(w, v) == /\ \A l \in Locals : v.sk[l].on = "absent" => w.sk[l].on = "absent"
              /\ \A c \in Clients : w.sk[c].on = "absent" => v.sk[c].on = "absent"
              /\ \A c \in Clients : Quiet(w, v, c) \/ Opened(w, v, c)

\* A call that makes v of the good record w; a freed socket is used only where there are
\* host services.
Safe(w, v) == /\ Good(v) /\ Tame(w, v) /\ Calm(w, v)
              /\ Services = {} => v.bad = w.bad

\* The transport has no remote socket once it is off line, and no socket at all once
\* close_all_sockets is done.
TransOK ==
    /\ tr # "on" => disc = {}
    /\ tr \in {"swept", "freed"} => \A l \in Locals : ~Uses(sk[l])

\* The client of socket s has not asked for a stream, and will not if it has a host service.
Early(s) == s.on = "absent" \/ s.peer \in Locals \cup {Smart}

IsOf(p, cmd, c) == p.cmd = cmd /\ p.id = c

\* With the socket s of client c, h on the way to the device, q on the way back and the device
\* in the state st: a device that keeps to the protocol answers the one OPEN of a stream first,
\* so a WRTE never finds a socket that waits for its OKAY.
StreamAt(c, s, h, q, st) ==
    /\ \A i, j \in Opens(h, c) : i = j
    /\ Opens(h, c) # {} => st = "none"
    /\ st = "none" => \A i \in 1..Len(q) : q[i].cmd # "SYNC0" => q[i].id # c
    /\ Early(s) => Opens(h, c) = {} /\ st = "none"
    /\ s.on = "list" /\ s.peer = None =>
         /\ \A i \in 1..Len(q) : IsOf(q[i], "WRTE", c) => \E j \in 1..(i - 1) : IsOf(q[j], "OKAY", c)
         /\ st = "open" => \E j \in 1..Len(q) : IsOf(q[j], "OKAY", c)

StreamOK(c) == StreamAt(c, sk[c], h2d, d2h, dev[c].st)

\* The part of the state that the handlers do not change.
RestOK ==
    /\ tr \in {"on", "off", "swept", "freed"} /\ gone \subseteq Locals
    /\ d2h \in Seq(Packet) /\ toServer \in [Locals -> Seq(Item)]
    /\ cl \in [Clients -> [script : Seq(Item), pos : Nat, got : Seq(Item)]]
    /\ dev \in [Clients -> [st : {"none", "open", "closed"}, may : BOOLEAN, owes : Nat,
                            sent : Seq(Item), got : Seq(Item)]]
    /\ \A i \in 1..Len(d2h) : d2h[i].cmd # "OPEN"

IInv ==
    /\ Good(W) /\ RestOK /\ TransOK /\ (Services = {} => ~bad)
    /\ tr = "on" => \A c \in Clients : StreamOK(c)

\* What is on its way of the stream of c with the packets h to the device: OKAYs and WRTEs.
Okays(h, c) == Packets(h, "OKAY", c)
Writes(h, c) == Packets(h, "WRTE", c)

\* The permission to send that a socket has: to the device's end while it has no backlog, to
\* the client's while it reads.
Backlog(s) == One(s.q # << >>)
Reads(s) == One("R" \in s.want)

\* No socket costs more than a packet of memory: one whose peer has a backlog does not read.
Saving(f) ==
    /\ \A l \in Locals : Len(f[l].q) <= MAX_PAYLOAD
    /\ \A l \in Locals : f[l].peer \in Locals /\ f[f[l].peer].q # << >> => "R" \notin f[l].want
    /\ \A l \in Locals : f[l].on = "list" /\ "R" \in f[l].pend => "R" \in f[l].want

\* A call leaves the permissions of the stream of client c as they are, or opens it.
Uncounted(w, v, c) == /\ Okays(v.h2d, c) = Okays(w.h2d, c)
                      /\ Writes(v.h2d, c) = Writes(w.h2d, c)
Flow(w, v, c) ==
    /\ w.sk[c].peer # Remote => Uncounted(w, v, c)
    /\ v.sk[c].peer = Smart => w.sk[c].peer = Smart
    /\ v.sk[c].on = "list" /\ v.sk[c].peer \in {None, Remote} =>
         \/ /\ w.sk[c].on = "list" /\ w.sk[c].peer = v.sk[c].peer
            /\ Backlog(v.sk[c]) + Okays(v.h2d, c) = Backlog(w.sk[c]) + Okays(w.h2d, c)
            /\ Reads(v.sk[c]) + Writes(v.h2d, c) = Reads(w.sk[c]) + Writes(w.h2d, c)
         \/ w.sk[c].peer = Smart /\ v.sk[c].peer = None /\ "R" \notin v.sk[c].want

\* A call keeps what memory and the streams may cost.
Even(w, v) == Saving(v.sk) /\ \A c \in Clients : Flow(w, v, c)

\* A call closes sockets at most, and sends no OKAY and no WRTE.
Alike(s, t) == /\ t.on = s.on /\ t.peer = s.peer /\ t.q = s.q
               /\ t.want = s.want /\ t.pend = s.pend
Fewer(w, v) ==
    /\ \A m \in Locals : \/ Alike(w.sk[m], v.sk[m])
                         \/ v.sk[m].on # "list" /\ v.sk[m].q \in {w.sk[m].q, << >>}
    /\ \A c \in Clients : Uncounted(w, v, c)

\* The account of the stream of c, with its socket s, h on the way to the device, q on the way
\* back and the device's end d: each of the two permissions to send is in one place.
Account(c, s, h, q, d) ==
    /\ d.st = "none" => Okays(h, c) = 0 /\ Writes(h, c) = 0 /\ d.owes = 0 /\ s.peer # Remote
    /\ s.on = "list" /\ s.peer = None => "R" \notin s.want
    /\ s.on = "list" /\ s.peer \in {None, Remote} /\ d.st = "open" =>
         /\ One(d.may) + Writes(q, c) + Backlog(s) + Okays(h, c) = 1
         /\ Reads(s) + Writes(h, c) + d.owes + Okays(q, c) = 1
    /\ s.on = "list" /\ s.peer \in {None, Remote} /\ d.st = "closed" =>
         Writes(q, c) + Backlog(s) + Okays(h, c) <= 1

SmallPackets == \A i \in 1..Len(d2h) : d2h[i].cmd = "WRTE" => Len(d2h[i].data) <= MAX_PAYLOAD

CreditInv ==
    /\ Saving(sk) /\ SmallPackets
    /\ tr = "on" => \A c \in Clients : Account(c, sk[c], h2d, d2h, dev[c])

-----------------------------------------------------------------------------
(* The constants, and small facts *)

LEMMA Distinct ==
    /\ Clients \cap Services = {} /\ Locals = Clients \cup Services
    /\ None \notin Locals /\ Smart \notin Locals /\ Remote \notin Locals
    /\ None # Smart /\ None # Remote /\ Smart # Remote
  BY SocketsAssumption DEF Locals

LEMMA BlankOK == ASSUME NEW l, NEW where \in {"absent", "list", "freed"}
                 PROVE  Blank(where) \in Socket /\ (where # "list" => SockOK(l, Blank(where)))
<1>1. << >> \in Seq(Item)
  BY EmptySeq
<1>2. Blank(where) \in Socket
  BY <1>1 DEF Blank, Socket
<1>3. where # "list" => SockOK(l, Blank(where))
  BY Distinct DEF Blank, SockOK, Locals
<1> QED
  BY <1>2, <1>3

\* fdevent_set: the mask is as asked for, no pending event is in it, and none is new.
LEMMA FdeSetOK ==
    ASSUME NEW s \in Socket, NEW want \in SUBSET {"R", "W"}
    PROVE  /\ FdeSet(s, want) \in Socket
           /\ FdeSet(s, want) = [s EXCEPT !.want = want, !.pend = FdeSet(s, want).pend]
           /\ FdeSet(s, want).pend \subseteq s.pend
           /\ want # s.want => FdeSet(s, want).pend \cap want = {}
  BY DEF FdeSet, Socket

\* Asking for FDE_READ, and no longer asking for it, leaves a socket right.
LEMMA ReadMask ==
    ASSUME NEW l, NEW s \in Socket, SockOK(l, s), s.on \in {"list", "closing"},
           NEW r \in {FdeAdd(s, "R"), FdeDel(s, "R")}
    PROVE  /\ r \in Socket /\ SockOK(l, r)
           /\ r = [s EXCEPT !.want = r.want, !.pend = r.pend]
<1>1. PICK m \in SUBSET {"R", "W"} : r = FdeSet(s, m) /\ ("W" \in m <=> "W" \in s.want)
  <2>1. s.want \cup {"R"} \in SUBSET {"R", "W"} /\ s.want \ {"R"} \in SUBSET {"R", "W"}
    BY DEF Socket
  <2>2. CASE r = FdeAdd(s, "R")
    BY <2>1, <2>2 DEF FdeAdd
  <2>3. CASE r = FdeDel(s, "R")
    BY <2>1, <2>3 DEF FdeDel
  <2> QED
    BY <2>2, <2>3
<1>2. /\ r \in Socket /\ r = [s EXCEPT !.want = m, !.pend = r.pend] /\ r.pend \subseteq s.pend
      /\ m # s.want => r.pend \cap m = {}
  BY <1>1, FdeSetOK
<1>3. r.want = m
  BY <1>2 DEF Socket
<1>4. r = [s EXCEPT !.want = r.want, !.pend = r.pend]
  BY <1>2, <1>3
<1>5. "W" \in r.pend => "W" \in r.want
  BY <1>1, <1>2, <1>3 DEF SockOK
<1>6. SockOK(l, r)
  <2>1. /\ r.on = s.on /\ r.peer = s.peer /\ r.notify = s.notify /\ r.q = s.q
        /\ r.trans = s.trans /\ r.smartTrans = s.smartTrans
    BY <1>4 DEF Socket
  <2> QED
    BY <1>1, <1>3, <1>5, <2>1 DEF SockOK
<1> QED
  BY <1>2, <1>4, <1>6

-----------------------------------------------------------------------------
(* Counting packets *)

\* The places of the packets of a kind.
Places(q, cmd, c) == {i \in DOMAIN q : q[i].cmd = cmd /\ q[i].id = c}

LEMMA PlacesFinite ==
    ASSUME NEW q \in Seq(Packet), NEW cmd, NEW c
    PROVE  /\ Places(q, cmd, c) \subseteq 1..Len(q) /\ IsFiniteSet(Places(q, cmd, c))
           /\ Packets(q, cmd, c) = Cardinality(Places(q, cmd, c)) /\ Packets(q, cmd, c) \in Nat
<1>1. Len(q) \in Nat /\ DOMAIN q = 1..Len(q)
  BY LenProperties
<1>2. IsFiniteSet(1..Len(q))
  BY <1>1, FS_Interval
<1>3. Places(q, cmd, c) \in SUBSET (1..Len(q))
  BY <1>1 DEF Places
<1>4. IsFiniteSet(Places(q, cmd, c))
  BY <1>2, <1>3, FS_Subset
<1> QED
  BY <1>3, <1>4, FS_CardinalityType DEF Packets, Places

LEMMA OneIs == ASSUME NEW b \in BOOLEAN
               PROVE  One(b) \in {0, 1} /\ (One(b) = 1 <=> b) /\ (One(b) = 0 <=> ~b)
  BY DEF One

\* There are none, or there is one.
LEMMA PacketsZero ==
    ASSUME NEW q \in Seq(Packet), NEW cmd, NEW c
    PROVE  Packets(q, cmd, c) = 0 <=> \A i \in 1..Len(q) : ~IsOf(q[i], cmd, c)
<1>1. Places(q, cmd, c) = {} <=> \A i \in 1..Len(q) : ~IsOf(q[i], cmd, c)
  BY LenProperties DEF Places, IsOf
<1> QED
  BY <1>1, PlacesFinite, FS_EmptySet

LEMMA PacketsAppend ==
    ASSUME NEW q \in Seq(Packet), NEW p \in Packet, NEW cmd, NEW c
    PROVE  Packets(Append(q, p), cmd, c) = Packets(q, cmd, c) + One(IsOf(p, cmd, c))
<1> DEFINE r == Append(q, p)
           S == Places(q, cmd, c)
           T == Places(r, cmd, c)
<1>1. /\ r \in Seq(Packet) /\ Len(r) = Len(q) + 1 /\ r[Len(q) + 1] = p
      /\ \A i \in 1..Len(q) : r[i] = q[i]
  BY AppendProperties
<1>2. Len(q) \in Nat /\ DOMAIN q = 1..Len(q) /\ DOMAIN r = 1..Len(r)
  BY <1>1, LenProperties
<1> HIDE DEF r
<1>3. DOMAIN r = DOMAIN q \cup {Len(q) + 1} /\ Len(q) + 1 \notin DOMAIN q
  BY <1>1, <1>2
<1>4. T = IF IsOf(p, cmd, c) THEN S \cup {Len(q) + 1} ELSE S
  BY <1>1, <1>2, <1>3 DEF Places, IsOf
<1>5. Len(q) + 1 \notin S /\ IsFiniteSet(S)
  <2>1. Len(q) + 1 \notin S
    BY <1>3 DEF Places
  <2>2. IsFiniteSet(S)
    BY PlacesFinite
  <2> QED
    BY <2>1, <2>2
<1> HIDE DEF S, T
<1>6. Cardinality(T) = Cardinality(S) + One(IsOf(p, cmd, c))
  <2>1. Cardinality(S) \in Nat
    BY <1>5, FS_CardinalityType
  <2>2. CASE IsOf(p, cmd, c)
    BY <1>4, <1>5, <2>2, FS_AddElement DEF One
  <2>3. CASE ~IsOf(p, cmd, c)
    BY <1>4, <2>1, <2>3 DEF One
  <2> QED
    BY <2>2, <2>3
<1>7. Packets(q, cmd, c) = Cardinality(S) /\ Packets(r, cmd, c) = Cardinality(T)
  BY <1>1, PlacesFinite DEF S, T
<1> QED
  BY <1>6, <1>7 DEF r

LEMMA PacketsTail ==
    ASSUME NEW q \in Seq(Packet), q # << >>, NEW cmd, NEW c
    PROVE  Packets(q, cmd, c) = Packets(Tail(q), cmd, c) + One(IsOf(Head(q), cmd, c))
<1> DEFINE r == Tail(q)
           S == Places(q, cmd, c)
           T == Places(r, cmd, c)
           f == [i \in T |-> i + 1]
<1>1. /\ r \in Seq(Packet) /\ Len(r) = Len(q) - 1 /\ Len(q) \in Nat \ {0}
      /\ \A i \in 1..Len(r) : r[i] = q[i + 1]
      /\ Head(q) = q[1]
  BY HeadTailProperties, LenProperties
<1>2. DOMAIN q = 1..Len(q) /\ DOMAIN r = 1..Len(r)
  BY <1>1, LenProperties
<1> HIDE DEF r
<1>3. S \ {1} = {i + 1 : i \in T}
  <2>1. ASSUME NEW i \in T PROVE i + 1 \in S \ {1}
    BY <1>1, <1>2, <2>1 DEF Places
  <2>2. ASSUME NEW i \in S \ {1} PROVE \E j \in T : i = j + 1
    <3>1. i - 1 \in 1..Len(r) /\ i = (i - 1) + 1
      BY <1>1, <1>2 DEF Places
    <3>2. r[i - 1] = q[i]
      BY <1>1, <3>1
    <3>3. i - 1 \in T
      BY <1>2, <3>1, <3>2 DEF Places
    <3> QED
      BY <3>1, <3>3
  <2> QED
    BY <2>1, <2>2
<1>4. T \subseteq Int /\ IsFiniteSet(T) /\ IsFiniteSet(S)
  BY <1>1, PlacesFinite
<1>5. 1 \in S <=> IsOf(Head(q), cmd, c)
  BY <1>1, <1>2 DEF Places, IsOf
<1> HIDE DEF S, T
<1>6. f \in Bijection(T, S \ {1})
  BY <1>3, <1>4 DEF Bijection, Injection, Surjection, IsInjective
<1>7. Cardinality(S \ {1}) = Cardinality(T)
  BY <1>4, <1>6, FS_Bijection DEF ExistsBijection
<1>8. Cardinality(S) = Cardinality(T) + One(IsOf(Head(q), cmd, c))
  <2>1. Cardinality(S) \in Nat /\ Cardinality(T) \in Nat
    BY <1>4, FS_CardinalityType
  <2>2. Cardinality(S \ {1}) = IF 1 \in S THEN Cardinality(S) - 1 ELSE Cardinality(S)
    BY <1>4, FS_RemoveElement
  <2> QED
    BY <1>5, <1>7, <2>1, <2>2 DEF One
<1>9. Packets(q, cmd, c) = Cardinality(S) /\ Packets(r, cmd, c) = Cardinality(T)
  BY <1>1, PlacesFinite DEF S, T
<1> QED
  BY <1>8, <1>9 DEF r

-----------------------------------------------------------------------------
(* Calls that close sockets at most *)

LEMMA AlikeSame == ASSUME NEW s PROVE Alike(s, s)
  BY DEF Alike

LEMMA FewerTrans ==
    ASSUME NEW w, NEW v, NEW u, Fewer(w, v), Fewer(v, u)
    PROVE  Fewer(w, u)
<1>1. ASSUME NEW m \in Locals
      PROVE  Alike(w.sk[m], u.sk[m]) \/ (u.sk[m].on # "list" /\ u.sk[m].q \in {w.sk[m].q, << >>})
  BY DEF Fewer, Alike
<1>2. \A c \in Clients : Uncounted(w, u, c)
  BY DEF Fewer, Uncounted
<1> QED
  BY <1>1, <1>2 DEF Fewer

\* A call that changes one socket in nothing that counts, or takes it off the list.
LEMMA FewerOne ==
    ASSUME NEW w, w.sk \in [Locals -> Socket], NEW v, NEW l \in Locals, NEW r,
           v.sk = [w.sk EXCEPT ![l] = r], \A c \in Clients : Uncounted(w, v, c),
           Alike(w.sk[l], r) \/ (r.on # "list" /\ r.q \in {w.sk[l].q, << >>})
    PROVE  Fewer(w, v)
<1>1. \A m \in Locals : v.sk[m] = IF m = l THEN r ELSE w.sk[m]
  OBVIOUS
<1>2. \A m \in Locals : Alike(w.sk[m], v.sk[m]) \/ (v.sk[m].on # "list" /\ v.sk[m].q \in {w.sk[m].q, << >>})
  BY <1>1, AlikeSame
<1> QED
  BY <1>2 DEF Fewer

LEMMA UncountedSame ==
    ASSUME NEW w, NEW v, v.h2d = w.h2d
    PROVE  \A c \in Clients : Uncounted(w, v, c)
  BY DEF Uncounted

LEMMA FewerSame ==
    ASSUME NEW w, NEW v, v.sk = w.sk, v.h2d = w.h2d
    PROVE  Fewer(w, v)
  BY AlikeSame DEF Fewer, Uncounted

LEMMA FewerEven ==
    ASSUME NEW w, NEW v, Good(w), Good(v), Saving(w.sk), Fewer(w, v)
    PROVE  Even(w, v)
<1>0. /\ \A m \in Locals : v.sk[m].peer # None => v.sk[m].on = "list"
      /\ \A m \in Locals : v.sk[m].peer \in Locals => v.sk[v.sk[m].peer].peer = m
      /\ \A m \in Locals : v.sk[m].on = "list" => Alike(w.sk[m], v.sk[m])
      /\ None \notin Locals
  BY Distinct DEF Good, SkOK, SockOK, Fewer, Alike
<1>1. \A m \in Locals : Len(v.sk[m].q) <= MAX_PAYLOAD
  <2>1. MAX_PAYLOAD \in Nat
    BY SocketsAssumption
  <2>2. \A m \in Locals : v.sk[m].q \in {w.sk[m].q, << >>}
    BY DEF Fewer, Alike
  <2>3. Len(<< >>) = 0
    OBVIOUS
  <2> QED
    BY <2>1, <2>2, <2>3 DEF Saving
<1>2. ASSUME NEW m \in Locals, v.sk[m].peer \in Locals, v.sk[v.sk[m].peer].q # << >>
      PROVE  "R" \notin v.sk[m].want
  <2> DEFINE p == v.sk[m].peer
  <2>1. v.sk[m].on = "list" /\ v.sk[p].peer = m
    BY <1>0, <1>2
  <2>2. v.sk[p].on = "list"
    BY <1>0, <1>2, <2>1
  <2>3. Alike(w.sk[m], v.sk[m]) /\ Alike(w.sk[p], v.sk[p])
    BY <1>0, <1>2, <2>1, <2>2
  <2>4. w.sk[m].peer = p /\ w.sk[p].q # << >> /\ w.sk[m].want = v.sk[m].want
    BY <1>2, <2>3 DEF Alike
  <2> QED
    BY <1>2, <2>4 DEF Saving
<1>3. \A m \in Locals : v.sk[m].on = "list" /\ "R" \in v.sk[m].pend => "R" \in v.sk[m].want
  BY <1>0 DEF Saving, Alike
<1>4. ASSUME NEW c \in Clients PROVE Flow(w, v, c)
  <2>1. c \in Locals /\ Uncounted(w, v, c) /\ (v.sk[c].on = "list" => Alike(w.sk[c], v.sk[c]))
        /\ (v.sk[c].peer # None => v.sk[c].on = "list")
    BY <1>0 DEF Locals, Fewer
  <2> QED
    BY <2>1, Distinct DEF Flow, Uncounted, Alike, Backlog, Reads
<1> QED
  BY <1>1, <1>2, <1>3, <1>4 DEF Even, Saving

LEMMA EvenTrans ==
    ASSUME NEW w, NEW v, NEW u, Good(v), Even(w, v), Even(v, u)
    PROVE  Even(w, u)
<1>1. ASSUME NEW c \in Clients PROVE Flow(w, u, c)
  <2>0. /\ Flow(w, v, c) /\ Flow(v, u, c) /\ c \in Locals
        /\ v.sk[c].peer # None => v.sk[c].on = "list"
    BY DEF Even, Good, SkOK, SockOK, Locals
  <2>1. v.sk[c].peer = Remote => w.sk[c].peer = Remote
    BY <2>0, Distinct DEF Flow
  <2>2. w.sk[c].peer # Remote => Uncounted(w, u, c)
    BY <2>0, <2>1 DEF Flow, Uncounted
  <2>3. u.sk[c].peer = Smart => w.sk[c].peer = Smart
    BY <2>0 DEF Flow
  <2>4. ASSUME u.sk[c].on = "list", u.sk[c].peer \in {None, Remote}
        PROVE  \/ /\ w.sk[c].on = "list" /\ w.sk[c].peer = u.sk[c].peer
                  /\ Backlog(u.sk[c]) + Okays(u.h2d, c) = Backlog(w.sk[c]) + Okays(w.h2d, c)
                  /\ Reads(u.sk[c]) + Writes(u.h2d, c) = Reads(w.sk[c]) + Writes(w.h2d, c)
               \/ w.sk[c].peer = Smart /\ u.sk[c].peer = None /\ "R" \notin u.sk[c].want
    <3>1. CASE v.sk[c].peer = Smart /\ u.sk[c].peer = None /\ "R" \notin u.sk[c].want
      BY <2>0, <3>1 DEF Flow
    <3>2. CASE /\ v.sk[c].on = "list" /\ v.sk[c].peer = u.sk[c].peer
               /\ Backlog(u.sk[c]) + Okays(u.h2d, c) = Backlog(v.sk[c]) + Okays(v.h2d, c)
               /\ Reads(u.sk[c]) + Writes(u.h2d, c) = Reads(v.sk[c]) + Writes(v.h2d, c)
      <4>1. CASE /\ w.sk[c].on = "list" /\ w.sk[c].peer = v.sk[c].peer
                 /\ Backlog(v.sk[c]) + Okays(v.h2d, c) = Backlog(w.sk[c]) + Okays(w.h2d, c)
                 /\ Reads(v.sk[c]) + Writes(v.h2d, c) = Reads(w.sk[c]) + Writes(w.h2d, c)
        BY <3>2, <4>1
      <4>2. CASE w.sk[c].peer = Smart /\ v.sk[c].peer = None /\ "R" \notin v.sk[c].want
        <5>1. Uncounted(v, u, c)
          BY <2>0, <4>2, Distinct DEF Flow
        <5>2. Writes(v.h2d, c) \in Nat /\ v.h2d \in Seq(Packet)
          BY PlacesFinite DEF Writes, Good, Record
        <5>3. Reads(u.sk[c]) = Reads(v.sk[c])
          <6>1. Reads(u.sk[c]) \in {0, 1} /\ Reads(v.sk[c]) \in {0, 1}
            BY DEF Reads, One
          <6> QED
            BY <3>2, <5>1, <5>2, <6>1 DEF Uncounted
        <5>4. "R" \notin u.sk[c].want
          BY <4>2, <5>3 DEF Reads, One
        <5> QED
          BY <3>2, <4>2, <5>4
      <4> QED
        BY <2>0, <2>4, <3>2, <4>1, <4>2 DEF Flow
    <3> QED
      BY <2>0, <2>4, <3>1, <3>2 DEF Flow
  <2> QED
    BY <2>2, <2>3, <2>4 DEF Flow
<1> QED
  BY <1>1 DEF Even

\* One socket changes, and costs no more than before.
LEMMA EvenOne ==
    ASSUME NEW w, Good(w), Saving(w.sk), NEW v, NEW l \in Locals, NEW r,
           v.sk = [w.sk EXCEPT ![l] = r], \A c \in Clients : Uncounted(w, v, c),
           r.on = w.sk[l].on, r.peer = w.sk[l].peer, Len(r.q) <= MAX_PAYLOAD,
           r.q # << >> => w.sk[l].q # << >>,
           r.on = "list" /\ r.peer \in {None, Remote} => Backlog(r) = Backlog(w.sk[l]),
           "R" \in r.want <=> "R" \in w.sk[l].want, r.pend \subseteq w.sk[l].pend
    PROVE  Even(w, v)
<1>0. /\ w.sk \in [Locals -> Socket]
      /\ \A m \in Locals : v.sk[m] = IF m = l THEN r ELSE w.sk[m]
  BY DEF Good, SkOK
<1>1. /\ \A m \in Locals : Len(v.sk[m].q) <= MAX_PAYLOAD
      /\ \A m \in Locals : v.sk[m].on = "list" /\ "R" \in v.sk[m].pend => "R" \in v.sk[m].want
  BY <1>0 DEF Saving
<1>2. ASSUME NEW m \in Locals, v.sk[m].peer \in Locals, v.sk[v.sk[m].peer].q # << >>
      PROVE  "R" \notin v.sk[m].want
  <2> DEFINE p == v.sk[m].peer
  <2>1. /\ p = w.sk[m].peer /\ ("R" \in v.sk[m].want <=> "R" \in w.sk[m].want)
        /\ w.sk[p].q # << >>
    BY <1>0, <1>2
  <2> QED
    BY <1>2, <2>1 DEF Saving
<1>3. ASSUME NEW c \in Clients PROVE Flow(w, v, c)
  <2>1. c \in Locals /\ Uncounted(w, v, c)
    BY DEF Locals
  <2>2. CASE c = l
    BY <1>0, <2>1, <2>2 DEF Flow, Uncounted, Reads
  <2>3. CASE c # l
    BY <1>0, <2>1, <2>3 DEF Flow, Uncounted
  <2> QED
    BY <2>2, <2>3
<1> QED
  BY <1>1, <1>2, <1>3 DEF Even, Saving

-----------------------------------------------------------------------------
(* Changes to one socket, and to two *)

\* A socket changes and keeps its peer.
LEMMA SamePeer ==
    ASSUME NEW f, NEW d, SkOK(f, d), NEW l \in Locals, NEW r \in Socket, SockOK(l, r),
           r.peer = f[l].peer
    PROVE  SkOK([f EXCEPT ![l] = r], d)
  BY DEF SkOK

\* A socket without a local peer gets another one, not a local one.
LEMMA NewPeer ==
    ASSUME NEW f, NEW d, SkOK(f, d), NEW l \in Locals, NEW r \in Socket, SockOK(l, r),
           f[l].peer \notin Locals, r.peer \notin Locals
    PROVE  SkOK([f EXCEPT ![l] = r], IF r.peer = Remote THEN d \cup {l} ELSE d \ {l})
<1> DEFINE g == [f EXCEPT ![l] = r]
           e == IF r.peer = Remote THEN d \cup {l} ELSE d \ {l}
<1>1. g \in [Locals -> Socket] /\ e \subseteq Clients /\ \A m \in Locals : SockOK(m, g[m])
  BY Distinct DEF SkOK, SockOK
<1>2. \A m \in Locals : g[m].peer \in Locals => g[g[m].peer].peer = m
  BY DEF SkOK
<1>3. \A c \in Clients : c \in e <=> g[c].peer = Remote
  BY Distinct DEF SkOK, Locals
<1> QED
  BY <1>1, <1>2, <1>3 DEF SkOK

\* Two sockets that have at most each other as local peers are linked, or unlinked.
LEMMA NewPair ==
    ASSUME NEW f, NEW d, SkOK(f, d), NEW l \in Locals, NEW p \in Locals, l # p,
           f[l].peer \notin (Locals \ {p}) \cup {Remote},
           f[p].peer \notin (Locals \ {l}) \cup {Remote},
           NEW r \in Socket, SockOK(l, r), NEW t \in Socket, SockOK(p, t),
           (r.peer = p /\ t.peer = l) \/ (r.peer = None /\ t.peer = None)
    PROVE  SkOK([f EXCEPT ![l] = r, ![p] = t], d)
<1> DEFINE g == [f EXCEPT ![l] = r, ![p] = t]
<1>1. g \in [Locals -> Socket] /\ d \subseteq Clients /\ \A m \in Locals : SockOK(m, g[m])
  BY DEF SkOK
<1>2. \A m \in Locals : g[m] = IF m = l THEN r ELSE IF m = p THEN t ELSE f[m]
  BY DEF SkOK
<1> HIDE DEF g
<1>3. \A m \in Locals : g[m].peer \in Locals => g[g[m].peer].peer = m
  BY <1>2, Distinct DEF SkOK
<1>4. \A c \in Clients : c \in d <=> g[c].peer = Remote
  BY <1>2, Distinct DEF SkOK
<1>5. SkOK(g, d)
  BY <1>1, <1>3, <1>4 DEF SkOK
<1> QED
  BY <1>5 DEF g

-----------------------------------------------------------------------------
(* Closing *)

\* What Finish makes of a socket.
Done(s) == IF s.on = "closing" \/ s.q = << >> THEN Blank("freed")
           ELSE FdeDel([s EXCEPT !.on = "closing", !.peer = None], "R")

LEMMA DoneOK ==
    ASSUME NEW l, NEW s \in Socket, s.on \in {"list", "closing"},
           s.on = "list" => ("W" \in s.want <=> s.q # << >>), "W" \in s.pend => "W" \in s.want
    PROVE  /\ Done(s) \in Socket /\ SockOK(l, Done(s)) /\ Done(s).peer = None
           /\ Done(s).on \in {"freed", "closing"} /\ ~Uses(Done(s))
           /\ Done(s).q \in {s.q, << >>}
<1>1. CASE s.on = "closing" \/ s.q = << >>
  <2>1. Done(s) = Blank("freed")
    BY <1>1 DEF Done
  <2>2. Done(s).peer = None /\ Done(s).on = "freed" /\ Done(s).q = << >>
    BY <2>1 DEF Blank
  <2> QED
    BY <2>1, <2>2, BlankOK DEF Uses
<1>2. CASE ~(s.on = "closing" \/ s.q = << >>)
  <2> DEFINE t == [s EXCEPT !.on = "closing", !.peer = None]
  <2>1. /\ t \in Socket /\ t.on = "closing" /\ t.peer = None /\ t.want = s.want
        /\ t.pend = s.pend /\ "W" \in t.want /\ t.q = s.q
    BY <1>2 DEF Socket
  <2>2. SockOK(l, t)
    BY <2>1, Distinct DEF SockOK, Locals
  <2> HIDE DEF t
  <2>3. /\ FdeDel(t, "R") \in Socket /\ SockOK(l, FdeDel(t, "R"))
        /\ FdeDel(t, "R").on = "closing" /\ FdeDel(t, "R").peer = None
        /\ FdeDel(t, "R").q = s.q
    <3>1. FdeDel(t, "R") \in {FdeAdd(t, "R"), FdeDel(t, "R")} /\ t.on \in {"list", "closing"}
      BY <2>1
    <3>2. /\ FdeDel(t, "R") \in Socket /\ SockOK(l, FdeDel(t, "R"))
          /\ FdeDel(t, "R") = [t EXCEPT !.want = FdeDel(t, "R").want, !.pend = FdeDel(t, "R").pend]
      BY <2>1, <2>2, <3>1, ReadMask, Zenon
    <3> QED
      BY <2>1, <3>2 DEF Socket
  <2>4. Done(s) = FdeDel(t, "R")
    BY <1>2 DEF Done, t
  <2> QED
    BY <2>3, <2>4 DEF Uses
<1> QED
  BY <1>1, <1>2

LEMMA FinishIs == ASSUME NEW w \in Record, NEW l \in Locals
                  PROVE  Finish(w, l) = [w EXCEPT !.sk[l] = Done(w.sk[l])]
  BY DEF Finish, Destroy, Done

\* A queue with one more packet.
LEMMA OpensAppend ==
    ASSUME NEW q \in Seq(Packet), NEW p \in Packet, NEW c \in Clients
    PROVE  /\ ~IsOf(p, "OPEN", c) => Opens(Append(q, p), c) = Opens(q, c)
           /\ IsOf(p, "OPEN", c) => Opens(Append(q, p), c) = Opens(q, c) \cup {Len(q) + 1}
<1> DEFINE r == Append(q, p)
<1>1. /\ r \in Seq(Packet) /\ Len(r) = Len(q) + 1 /\ r[Len(q) + 1] = p
      /\ \A i \in 1..Len(q) : r[i] = q[i]
  BY AppendProperties
<1>2. Len(q) \in Nat
  BY LenProperties
<1> HIDE DEF r
<1>3. 1..Len(r) = 1..Len(q) \cup {Len(q) + 1}
  BY <1>1, <1>2
<1>4. /\ ~IsOf(p, "OPEN", c) => Opens(r, c) = Opens(q, c)
      /\ IsOf(p, "OPEN", c) => Opens(r, c) = Opens(q, c) \cup {Len(q) + 1}
  BY <1>1, <1>3 DEF Opens, IsOf
<1> QED
  BY <1>4 DEF r

\* send_packet adds a packet to the queue and touches nothing else.
SentTo(w, v, cmd, c) ==
    /\ v \in Record /\ v = [w EXCEPT !.h2d = v.h2d]
    /\ \A b \in Clients : ~(cmd = "OPEN" /\ b = c) => Opens(v.h2d, b) = Opens(w.h2d, b)
    /\ cmd = "OPEN" => Opens(v.h2d, c) = Opens(w.h2d, c) \cup {Len(w.h2d) + 1}
    /\ \A b \in Clients : /\ Okays(v.h2d, b) = Okays(w.h2d, b) + One(cmd = "OKAY" /\ b = c)
                          /\ Writes(v.h2d, b) = Writes(w.h2d, b) + One(cmd = "WRTE" /\ b = c)

LEMMA SendIs ==
    ASSUME NEW w \in Record, NEW cmd \in {"OPEN", "OKAY", "CLSE", "WRTE"}, NEW c \in Clients,
           NEW data \in Seq(Item)
    PROVE  SentTo(w, Send(w, cmd, c, data), cmd, c)
<1> DEFINE p == [cmd |-> cmd, id |-> c, data |-> data]
           v == Send(w, cmd, c, data)
<1>1. p \in Packet /\ p.cmd = cmd /\ p.id = c
  BY DEF Packet
<1>2. v = [w EXCEPT !.h2d = Append(w.h2d, p)] /\ w.h2d \in Seq(Packet)
  BY DEF Send, Record
<1> HIDE DEF p, v
<1>3. Append(w.h2d, p) \in Seq(Packet)
  BY <1>1, <1>2, AppendProperties
<1>4. v \in Record /\ v.h2d = Append(w.h2d, p) /\ v = [w EXCEPT !.h2d = v.h2d]
  BY <1>2, <1>3 DEF Record
<1>5. ASSUME NEW b \in Clients, ~(cmd = "OPEN" /\ b = c) PROVE Opens(v.h2d, b) = Opens(w.h2d, b)
  BY <1>1, <1>2, <1>4, <1>5, OpensAppend DEF IsOf
<1>6. ASSUME cmd = "OPEN" PROVE Opens(v.h2d, c) = Opens(w.h2d, c) \cup {Len(w.h2d) + 1}
  BY <1>1, <1>2, <1>4, <1>6, OpensAppend DEF IsOf
<1>7. ASSUME NEW b \in Clients
      PROVE  /\ Okays(v.h2d, b) = Okays(w.h2d, b) + One(cmd = "OKAY" /\ b = c)
             /\ Writes(v.h2d, b) = Writes(w.h2d, b) + One(cmd = "WRTE" /\ b = c)
  <2>1. /\ IsOf(p, "OKAY", b) <=> cmd = "OKAY" /\ b = c
        /\ IsOf(p, "WRTE", b) <=> cmd = "WRTE" /\ b = c
    BY <1>1 DEF IsOf
  <2>2. /\ Packets(v.h2d, "OKAY", b) = Packets(w.h2d, "OKAY", b) + One(IsOf(p, "OKAY", b))
        /\ Packets(v.h2d, "WRTE", b) = Packets(w.h2d, "WRTE", b) + One(IsOf(p, "WRTE", b))
    BY <1>1, <1>2, <1>4, PacketsAppend
  <2> QED
    BY <2>1, <2>2 DEF Okays, Writes, One
<1> QED
  BY <1>4, <1>5, <1>6, <1>7 DEF SentTo, v

LEMMA SendEmpty ==
    ASSUME NEW w \in Record, NEW cmd \in {"OPEN", "OKAY", "CLSE", "WRTE"}, NEW c \in Clients
    PROVE  SentTo(w, Send(w, cmd, c, << >>), cmd, c)
<1> DEFINE d == << >>
<1>1. d \in Seq(Item)
  BY EmptySeq
<1> HIDE DEF d
<1>2. SentTo(w, Send(w, cmd, c, d), cmd, c)
  BY <1>1, SendIs
<1> QED
  BY <1>2 DEF d

\* A packet that gives no permission leaves the accounts as they are.
LEMMA SentUncounted ==
    ASSUME NEW w \in Record, NEW v, NEW cmd \in {"OPEN", "CLSE"}, NEW c \in Clients,
           SentTo(w, v, cmd, c)
    PROVE  \A b \in Clients : Uncounted(w, v, b)
<1>1. TAKE b \in Clients
<1>2. Okays(w.h2d, b) \in Nat /\ Writes(w.h2d, b) \in Nat
  BY PlacesFinite DEF Okays, Writes, Record
<1> QED
  BY <1>2 DEF SentTo, Uncounted, One

\* Socket l and a local peer of it are finished, every other socket is as it was, and a CLSE
\* is sent at most.
Cut(w, v, l) ==
    /\ \A m \in Locals : v.sk[m] = IF m = l THEN Done(w.sk[l])
                                   ELSE IF m = w.sk[l].peer THEN Done([w.sk[m] EXCEPT !.peer = None])
                                   ELSE w.sk[m]
    /\ v.h2d = w.h2d \/ (l \in Clients /\ v.h2d = Send(w, "CLSE", l, << >>).h2d)

\* local_socket_close_locked: the socket and a local peer are off the list, a remote peer
\* is off the disconnect list, and every other socket is as it was.
LEMMA CloseLockedOK ==
    ASSUME NEW w, Good(w), NEW l \in Locals, w.sk[l].on \in {"list", "closing"}
    PROVE  /\ Safe(w, CloseLocked(w, l)) /\ CloseLocked(w, l).toProc = w.toProc
           /\ CloseLocked(w, l).sk[l] = Done(w.sk[l]) /\ Fewer(w, CloseLocked(w, l))
           /\ Cut(w, CloseLocked(w, l), l)
<1> DEFINE p == w.sk[l].peer
           v == CloseLocked(w, l)
           r == Done(w.sk[l])
<1>0. /\ w \in Record /\ SkOK(w.sk, w.disc) /\ w.sk \in [Locals -> Socket]
      /\ w.sk[l] \in Socket /\ SockOK(l, w.sk[l]) /\ w.disc \subseteq Clients
  BY DEF Good, SkOK, Record
<1>1. /\ r \in Socket /\ SockOK(l, r) /\ r.peer = None /\ ~Uses(r) /\ r.on \in {"freed", "closing"}
      /\ r.q \in {w.sk[l].q, << >>} /\ r.on # "list"
  BY <1>0, DoneOK DEF SockOK
<1> HIDE DEF r
<1>2. CASE p = Remote
  <2>1. l \in Clients
    BY <1>0, <1>2 DEF SockOK
  <2> DEFINE x == Send(w, "CLSE", l, << >>)
  <2>2. /\ x \in Record /\ x = [w EXCEPT !.h2d = x.h2d]
        /\ \A c \in Clients : Opens(x.h2d, c) = Opens(w.h2d, c) /\ Uncounted(w, x, c)
    <3>1. SentTo(w, x, "CLSE", l)
      BY <1>0, <2>1, SendEmpty
    <3> HIDE DEF x
    <3>2. \A c \in Clients : Uncounted(w, x, c)
      BY <1>0, <2>1, <3>1, SentUncounted
    <3> QED
      BY <3>1, <3>2 DEF SentTo
  <2>3. v = Finish([x EXCEPT !.disc = x.disc \ {l}], l)
    BY <1>2, Distinct DEF CloseLocked, RemoteClose
  <2> HIDE DEF x
  <2> DEFINE y == [x EXCEPT !.disc = x.disc \ {l}]
  <2>4. /\ y \in Record /\ y.sk = w.sk /\ y.disc = w.disc \ {l} /\ y.bad = w.bad
        /\ y.toProc = w.toProc /\ y.h2d = x.h2d
    BY <2>2 DEF Record
  <2>5. v = [y EXCEPT !.sk[l] = Done(y.sk[l])]
    BY <2>3, <2>4, FinishIs
  <2> HIDE DEF y, v
  <2>6. /\ v.sk = [w.sk EXCEPT ![l] = r] /\ v.disc = w.disc \ {l} /\ v.bad = w.bad
        /\ v.toProc = w.toProc /\ v.h2d = x.h2d /\ v \in Record
    BY <1>0, <1>1, <2>4, <2>5 DEF Record, r
  <2>7. SkOK(v.sk, v.disc)
    <3>1. w.sk[l].peer \notin Locals /\ r.peer \notin Locals /\ r.peer # Remote
      BY <1>1, <1>2, Distinct
    <3>2. SkOK([w.sk EXCEPT ![l] = r], IF r.peer = Remote THEN w.disc \cup {l} ELSE w.disc \ {l})
      BY <1>0, <1>1, <3>1, NewPeer, Zenon
    <3> QED
      BY <2>6, <3>1, <3>2
  <2>8. l \in w.disc
    BY <1>0, <1>2, <2>1 DEF SkOK
  <2>9. Tame(w, v)
    BY <1>0, <1>1, <2>6, <2>8 DEF Tame
  <2>10. v.sk[l] = r /\ \A m \in Locals : m # l => v.sk[m] = w.sk[m]
    BY <1>0, <2>6
  <2>11. Calm(w, v)
    BY <1>1, <2>2, <2>6, <2>10 DEF Calm, Quiet, Locals
  <2>12. Fewer(w, v)
    <3>1. \A c \in Clients : Uncounted(w, v, c)
      BY <2>2, <2>6 DEF Uncounted
    <3> QED
      BY <1>0, <1>1, <2>6, <3>1, FewerOne
  <2>13. Cut(w, v, l)
    <3>1. \A m \in Locals : m # w.sk[l].peer
      BY <1>2, Distinct
    <3>2. v.h2d = Send(w, "CLSE", l, << >>).h2d
      BY <2>6 DEF x
    <3>3. \A m \in Locals : v.sk[m] = IF m = l THEN Done(w.sk[l]) ELSE w.sk[m]
      BY <2>10 DEF r
    <3> QED
      BY <2>1, <3>1, <3>2, <3>3 DEF Cut
  <2> QED
    BY <2>6, <2>7, <2>9, <2>10, <2>11, <2>12, <2>13 DEF Good, Safe, v, r
<1>3. CASE p \in Locals
  <2> DEFINE s == [w.sk[p] EXCEPT !.peer = None]
             t == Done(s)
             x == [w EXCEPT !.sk[p].peer = None]
  <2>0. w.sk[p].peer = l /\ w.sk[p].on = "list" /\ p # l /\ SockOK(p, w.sk[p]) /\ w.sk[p] \in Socket
    BY <1>0, <1>3, Distinct, SMTT(30) DEF SkOK, SockOK
  <2>1. s \in Socket /\ s.on = "list" /\ s.want = w.sk[p].want /\ s.pend = w.sk[p].pend
        /\ s.q = w.sk[p].q
    BY <2>0 DEF Socket
  <2>2. /\ t \in Socket /\ SockOK(p, t) /\ t.peer = None /\ ~Uses(t) /\ t.on \in {"freed", "closing"}
        /\ t.q \in {w.sk[p].q, << >>} /\ t.on # "list"
    <3> HIDE DEF s
    <3> QED
      BY <2>0, <2>1, DoneOK DEF SockOK
  <2>3. x \in Record /\ x.sk = [w.sk EXCEPT ![p] = s] /\ x = [w EXCEPT !.sk = x.sk]
    BY <1>0, <1>3, <2>1 DEF Record
  <2>4. v = Finish(Finish(x, p), l)
    BY <1>3, Distinct DEF CloseLocked
  <2> HIDE DEF x, s
  <2>5. Finish(x, p) = [x EXCEPT !.sk[p] = Done(x.sk[p])]
    BY <1>3, <2>3, FinishIs
  <2>6. Finish(x, p) = [w EXCEPT !.sk = [w.sk EXCEPT ![p] = t]]
    BY <1>0, <1>3, <2>3, <2>5 DEF Record
  <2> DEFINE y == Finish(x, p)
             g1 == [w.sk EXCEPT ![p] = t]
  <2> HIDE DEF t
  <2>16. g1 \in [Locals -> Socket] /\ g1[l] = w.sk[l]
    BY <1>0, <1>3, <2>0, <2>2
  <2>7. y \in Record /\ y.sk = g1 /\ y.sk[l] = w.sk[l]
    <3> HIDE DEF g1, y
    <3>1. y = [w EXCEPT !.sk = g1]
      BY <2>6 DEF y, g1
    <3> QED
      BY <1>0, <2>16, <3>1 DEF Record
  <2>8. v = [y EXCEPT !.sk[l] = Done(y.sk[l])]
    BY <2>4, <2>7, FinishIs
  <2>9. v = [w EXCEPT !.sk = [w.sk EXCEPT ![l] = r, ![p] = t]]
    <3>1. v = [y EXCEPT !.sk = [[w.sk EXCEPT ![p] = t] EXCEPT ![l] = r]]
      BY <2>7, <2>8 DEF r
    <3>2. [[w.sk EXCEPT ![p] = t] EXCEPT ![l] = r] = [w.sk EXCEPT ![l] = r, ![p] = t]
      BY <1>0, <1>3, <2>0
    <3> QED
      BY <1>0, <2>6, <3>1, <3>2 DEF Record
  <2> HIDE DEF v, y
  <2> DEFINE g == [w.sk EXCEPT ![l] = r, ![p] = t]
  <2>10. SkOK(g, w.disc)
    <3>1. /\ w.sk[l].peer \notin (Locals \ {p}) \cup {Remote}
          /\ w.sk[p].peer \notin (Locals \ {l}) \cup {Remote}
      BY <1>3, <2>0, Distinct
    <3> QED
      BY <1>0, <1>1, <1>3, <2>0, <2>2, <3>1, NewPair, Zenon
  <2>11. \A m \in Locals : g[m] = IF m = l THEN r ELSE IF m = p THEN t ELSE w.sk[m]
    BY <1>0, <1>3, <2>0
  <2>12. g \in [Locals -> Socket]
    BY <2>10 DEF SkOK
  <2> HIDE DEF g
  <2>13. /\ v.sk = g /\ v.disc = w.disc /\ v.bad = w.bad /\ v.h2d = w.h2d
         /\ v.toProc = w.toProc /\ v \in Record
    BY <1>0, <2>9, <2>12 DEF Record, g
  <2>14. Tame(w, v)
    BY <1>1, <2>2, <2>11, <2>13 DEF Tame
  <2>15. Calm(w, v)
    BY <1>1, <2>0, <2>2, <2>11, <2>13 DEF Calm, Quiet, Locals
  <2>17. Fewer(w, v)
    <3>1. \A c \in Clients : Uncounted(w, v, c)
      BY <2>13, UncountedSame
    <3> QED
      BY <1>1, <2>2, <2>11, <2>13, <3>1, AlikeSame DEF Fewer
  <2>18. Cut(w, v, l)
    <3>1. r = Done(w.sk[l]) /\ t = Done([w.sk[p] EXCEPT !.peer = None])
      BY DEF r, t, s
    <3> QED
      BY <2>11, <2>13, <3>1 DEF Cut
  <2> QED
    BY <2>10, <2>11, <2>13, <2>14, <2>15, <2>17, <2>18 DEF Good, Safe, v, r
<1>4. CASE p # Remote /\ p \notin Locals
  <2>1. v = [w EXCEPT !.sk[l] = r]
    BY <1>0, <1>4, FinishIs DEF CloseLocked, r
  <2> HIDE DEF v
  <2>2. /\ v.sk = [w.sk EXCEPT ![l] = r] /\ v.disc = w.disc /\ v.bad = w.bad /\ v.h2d = w.h2d
        /\ v.toProc = w.toProc /\ v \in Record
    BY <1>0, <1>1, <2>1 DEF Record
  <2>3. SkOK(v.sk, v.disc)
    <3>1. w.sk[l].peer \notin Locals /\ r.peer \notin Locals /\ r.peer # Remote
      BY <1>1, <1>4, Distinct
    <3>2. SkOK([w.sk EXCEPT ![l] = r], IF r.peer = Remote THEN w.disc \cup {l} ELSE w.disc \ {l})
      BY <1>0, <1>1, <3>1, NewPeer, Zenon
    <3>3. w.disc \ {l} = w.disc
      BY <1>0, <1>4 DEF SkOK
    <3> QED
      BY <2>2, <3>1, <3>2, <3>3
  <2>4. Tame(w, v)
    BY <1>0, <1>1, <2>2 DEF Tame
  <2>5. v.sk[l] = r /\ \A m \in Locals : m # l => v.sk[m] = w.sk[m]
    BY <1>0, <2>2
  <2>6. Calm(w, v)
    BY <1>1, <2>2, <2>5 DEF Calm, Quiet, Locals
  <2>7. Fewer(w, v)
    BY <1>0, <1>1, <2>2, UncountedSame, FewerOne
  <2>8. Cut(w, v, l)
    <3>1. r = Done(w.sk[l])
      BY DEF r
    <3> QED
      BY <1>4, <2>2, <2>5, <3>1 DEF Cut
  <2> QED
    BY <2>2, <2>3, <2>4, <2>5, <2>6, <2>7, <2>8 DEF Good, Safe, v, r
<1> QED
  BY <1>2, <1>3, <1>4

-----------------------------------------------------------------------------
(* Calls one after the other *)

LEMMA SafeTrans ==
    ASSUME NEW w, NEW v, NEW u, Good(w), Safe(w, v), Safe(v, u)
    PROVE  Safe(w, u)
<1>1. Tame(w, u)
  BY DEF Safe, Tame
<1>2. ASSUME NEW c \in Clients
      PROVE  Quiet(w, u, c) \/ Opened(w, u, c)
  <2>0. /\ Quiet(w, v, c) \/ Opened(w, v, c)
        /\ Quiet(v, u, c) \/ Opened(v, u, c)
        /\ v.sk[c].peer # None => v.sk[c].on = "list"
    BY <1>2 DEF Safe, Calm, Good, SkOK, SockOK, Locals
  <2>1. CASE Quiet(w, v, c) /\ Quiet(v, u, c)
    BY <2>1, Distinct DEF Quiet, Locals
  <2>2. CASE Quiet(w, v, c) /\ Opened(v, u, c)
    BY <2>0, <2>2, Distinct DEF Quiet, Opened, Locals
  <2>3. CASE Opened(w, v, c) /\ Quiet(v, u, c)
    <3>1. u.sk[c].on = "list" => u.sk[c].peer \in {None, Remote}
      BY <2>3, Distinct DEF Quiet, Opened
    <3>2. \E n \in Nat : Opens(u.h2d, c) = Opens(w.h2d, c) \cup {n}
      BY <2>3 DEF Quiet, Opened
    <3> QED
      BY <2>3, <3>1, <3>2 DEF Opened
  <2>4. CASE Opened(w, v, c) /\ Opened(v, u, c)
    BY <2>0, <2>4, Distinct DEF Opened
  <2> QED
    BY <2>0, <2>1, <2>2, <2>3, <2>4
<1>3. Calm(w, u)
  BY <1>2 DEF Safe, Calm
<1> QED
  BY <1>1, <1>3 DEF Safe

\* A call that changes one socket, which keeps its peer and its place, and perhaps what was
\* written to the clients.
LEMMA Touch ==
    ASSUME NEW w, Good(w), NEW l \in Locals, NEW r \in Socket, SockOK(l, r),
           r.on = w.sk[l].on, r.peer = w.sk[l].peer, tr # "on" => (Uses(r) => Uses(w.sk[l])),
           NEW v \in Record, v.sk = [w.sk EXCEPT ![l] = r], v.disc = w.disc, v.h2d = w.h2d,
           v.bad = w.bad
    PROVE  Safe(w, v)
<1>0. SkOK(w.sk, w.disc) /\ w.sk \in [Locals -> Socket]
  BY DEF Good, SkOK
<1>1. SkOK(v.sk, v.disc)
  BY <1>0, SamePeer
<1>2. \A m \in Locals : v.sk[m] = IF m = l THEN r ELSE w.sk[m]
  BY <1>0
<1>3. Tame(w, v)
  BY <1>2 DEF Tame
<1>4. Calm(w, v)
  BY <1>2 DEF Calm, Quiet, Locals
<1> QED
  BY <1>1, <1>3, <1>4 DEF Safe, Good

\* A call that writes to a client and changes nothing else, or nothing at all.
LEMMA Written ==
    ASSUME NEW w, Good(w), NEW v \in Record, v.sk = w.sk, v.disc = w.disc, v.h2d = w.h2d,
           v.bad = w.bad
    PROVE  Safe(w, v)
  BY DEF Safe, Good, Tame, Calm, Quiet

LEMMA TellIs ==
    ASSUME NEW w \in Record, NEW l \in Locals, NEW status \in {"OKAY", "FAIL"}
    PROVE  /\ Tell(w, l, status) \in Record
           /\ Tell(w, l, status) = [w EXCEPT !.toProc = Tell(w, l, status).toProc]
<1>1. CASE l \in gone
  BY <1>1 DEF Tell, Record
<1>2. CASE l \notin gone
  <2> DEFINE a == Append(w.toProc[l], Word(status))
             t == [w.toProc EXCEPT ![l] = a]
  <2>1. Word(status) \in Item
    BY DEF Word, Item
  <2>2. w.toProc \in [Locals -> Seq(Item)]
    BY DEF Record
  <2>3. a \in Seq(Item)
    BY <2>1, <2>2, AppendProperties
  <2> HIDE DEF a
  <2>4. t \in [Locals -> Seq(Item)]
    BY <2>2, <2>3
  <2>5. Tell(w, l, status) = [w EXCEPT !.toProc = t]
    BY <1>2 DEF Tell, a
  <2> HIDE DEF t
  <2> QED
    BY <2>4, <2>5 DEF Record
<1> QED
  BY <1>1, <1>2

\* The socket once the client was told how its request ended.
Hush(s) == [s EXCEPT !.notify = FALSE]

LEMMA HushOK ==
    ASSUME NEW l, NEW s \in Socket
    PROVE  /\ Hush(s) \in Socket /\ Hush(s) = [s EXCEPT !.notify = FALSE]
           /\ Hush(s).on = s.on /\ Hush(s).peer = s.peer /\ Hush(s).q = s.q
           /\ Hush(s).want = s.want /\ Hush(s).pend = s.pend
           /\ Uses(Hush(s)) <=> Uses(s)
           /\ ~s.notify => Hush(s) = s
           /\ s.on \in {"list", "closing"} /\ SockOK(l, s) => SockOK(l, Hush(s))
<1>1. /\ Hush(s) \in Socket /\ Hush(s) = [s EXCEPT !.notify = FALSE]
      /\ Hush(s).on = s.on /\ Hush(s).peer = s.peer /\ Hush(s).q = s.q
      /\ Hush(s).want = s.want /\ Hush(s).pend = s.pend
      /\ Hush(s).trans = s.trans /\ Hush(s).smartTrans = s.smartTrans /\ ~Hush(s).notify
  BY DEF Hush, Socket
<1>2. ~s.notify => Hush(s) = s
  BY DEF Hush, Socket
<1> HIDE DEF Hush
<1>3. s.on \in {"list", "closing"} /\ SockOK(l, s) => SockOK(l, Hush(s))
  BY <1>1 DEF SockOK
<1>4. Uses(Hush(s)) <=> Uses(s)
  BY <1>1 DEF Uses
<1> QED
  BY <1>1, <1>2, <1>3, <1>4

\* What Close and Ready do first: the client that waits is told, once.
Notified(w, l, status) ==
    IF w.sk[l].notify THEN Tell([w EXCEPT !.sk[l].notify = FALSE], l, status) ELSE w

\* Record v is w with socket l hushed, and perhaps something written.
Hushed(w, v, l) == /\ v \in Record /\ v.sk = [w.sk EXCEPT ![l] = Hush(w.sk[l])]
                   /\ v.disc = w.disc /\ v.h2d = w.h2d /\ v.bad = w.bad

LEMMA NotifiedIs ==
    ASSUME NEW w \in Record, NEW l \in Locals, NEW status \in {"OKAY", "FAIL"}
    PROVE  Hushed(w, Notified(w, l, status), l)
<1> DEFINE h == Hush(w.sk[l])
           x == [w EXCEPT !.sk = [w.sk EXCEPT ![l] = h]]
           v == Notified(w, l, status)
<1>0. w.sk \in [Locals -> Socket] /\ w.sk[l] \in Socket
  BY DEF Record
<1>1. h \in Socket /\ h = [w.sk[l] EXCEPT !.notify = FALSE] /\ (~w.sk[l].notify => h = w.sk[l])
  BY <1>0, HushOK
<1> HIDE DEF h
<1>2. CASE w.sk[l].notify
  <2>1. x \in Record
    BY <1>0, <1>1 DEF Record
  <2>2. v = Tell(x, l, status)
    BY <1>1, <1>2 DEF Notified
  <2>3. x.sk = [w.sk EXCEPT ![l] = h] /\ x = [w EXCEPT !.sk = x.sk]
    BY DEF Record
  <2> HIDE DEF x, v
  <2>4. v \in Record /\ v = [x EXCEPT !.toProc = v.toProc]
    BY <2>1, <2>2, TellIs
  <2>5. v.sk = x.sk /\ v = [w EXCEPT !.sk = v.sk, !.toProc = v.toProc]
    BY <2>3, <2>4 DEF Record
  <2> QED
    BY <2>3, <2>4, <2>5 DEF v, h, Hushed, Record
<1>3. CASE ~w.sk[l].notify
  <2>1. v = w
    BY <1>3 DEF Notified
  <2>2. [w.sk EXCEPT ![l] = h] = w.sk
    BY <1>0, <1>1, <1>3
  <2> QED
    BY <2>1, <2>2 DEF h, Hushed
<1> QED
  BY <1>2, <1>3

LEMMA NotifiedOK ==
    ASSUME NEW w, Good(w), NEW l \in Locals, w.sk[l].on \in {"list", "closing"},
           NEW status \in {"OKAY", "FAIL"}
    PROVE  /\ Safe(w, Notified(w, l, status)) /\ Notified(w, l, status).sk[l] = Hush(w.sk[l])
           /\ Fewer(w, Notified(w, l, status)) /\ Notified(w, l, status).h2d = w.h2d
           /\ \A m \in Locals : m # l => Notified(w, l, status).sk[m] = w.sk[m]
           /\ \A m \in Locals : /\ Notified(w, l, status).sk[m].on = w.sk[m].on
                                 /\ Notified(w, l, status).sk[m].peer = w.sk[m].peer
<1> DEFINE h == Hush(w.sk[l])
           v == Notified(w, l, status)
<1>0. w \in Record /\ w.sk \in [Locals -> Socket] /\ w.sk[l] \in Socket /\ SockOK(l, w.sk[l])
  BY DEF Good, SkOK, Record
<1>1. /\ h \in Socket /\ SockOK(l, h) /\ h.on = w.sk[l].on /\ h.peer = w.sk[l].peer
      /\ (Uses(h) <=> Uses(w.sk[l])) /\ Alike(w.sk[l], h)
  BY <1>0, HushOK DEF Alike
<1>2. Hushed(w, v, l)
  BY <1>0, NotifiedIs
<1> HIDE DEF v
<1>3. /\ v \in Record /\ v.sk = [w.sk EXCEPT ![l] = h]
      /\ v.disc = w.disc /\ v.h2d = w.h2d /\ v.bad = w.bad
  BY <1>2 DEF Hushed
<1> HIDE DEF h
<1>4. Safe(w, v)
  BY <1>0, <1>1, <1>3, Touch
<1>5. v.sk[l] = h /\ \A m \in Locals : v.sk[m].on = w.sk[m].on /\ v.sk[m].peer = w.sk[m].peer
  BY <1>0, <1>1, <1>3
<1>6. Fewer(w, v) /\ \A m \in Locals : m # l => v.sk[m] = w.sk[m]
  BY <1>0, <1>1, <1>3, UncountedSame, FewerOne
<1> QED
  BY <1>3, <1>4, <1>5, <1>6 DEF h, v

\* s->close(s).
LEMMA CloseOK ==
    ASSUME NEW w, Good(w), NEW l \in Locals, w.sk[l].on \in {"list", "closing"}
    PROVE  /\ Safe(w, Close(w, l)) /\ Close(w, l).sk[l] = Done(Hush(w.sk[l]))
           /\ Fewer(w, Close(w, l))
<1> DEFINE x == Notified(w, l, "FAIL")
<1>1. Safe(w, x) /\ x.sk[l] = Hush(w.sk[l]) /\ Fewer(w, x)
  BY NotifiedOK
<1>2. Close(w, l) = CloseLocked(x, l)
  BY DEF Close, Notified
<1> HIDE DEF x
<1>3. x.sk[l].on \in {"list", "closing"} /\ Good(x)
  BY <1>1, HushOK DEF Good, SkOK, Safe
<1>4. /\ Safe(x, CloseLocked(x, l)) /\ CloseLocked(x, l).sk[l] = Done(x.sk[l])
      /\ Fewer(x, CloseLocked(x, l))
  BY <1>3, CloseLockedOK
<1> QED
  BY <1>1, <1>2, <1>4, SafeTrans, FewerTrans

\* Socket l reads its client.
Awake(w, v, l) == /\ v.h2d = w.h2d /\ \A m \in Locals : m # l => v.sk[m] = w.sk[m]
                  /\ v.sk[l].on = w.sk[l].on /\ v.sk[l].peer = w.sk[l].peer
                  /\ v.sk[l].q = w.sk[l].q /\ "R" \in v.sk[l].want

\* A socket reads when its peer has no backlog.
LEMMA AwakeEven ==
    ASSUME NEW w, Good(w), Saving(w.sk), NEW l \in Locals, w.sk[l].peer \in Locals,
           w.sk[w.sk[l].peer].q = << >>, NEW v, Awake(w, v, l)
    PROVE  Even(w, v)
<1>0. /\ \A m \in Locals : /\ v.sk[m].on = w.sk[m].on /\ v.sk[m].peer = w.sk[m].peer
                             /\ v.sk[m].q = w.sk[m].q /\ (m # l => v.sk[m] = w.sk[m])
      /\ \A c \in Clients : Uncounted(w, v, c)
  BY DEF Awake, Uncounted
<1>1. /\ \A m \in Locals : Len(v.sk[m].q) <= MAX_PAYLOAD
      /\ \A m \in Locals : v.sk[m].on = "list" /\ "R" \in v.sk[m].pend => "R" \in v.sk[m].want
  BY <1>0 DEF Saving, Awake
<1>2. ASSUME NEW m \in Locals, v.sk[m].peer \in Locals, v.sk[v.sk[m].peer].q # << >>
      PROVE  "R" \notin v.sk[m].want
  <2> DEFINE p == v.sk[m].peer
  <2>1. p = w.sk[m].peer /\ w.sk[p].q # << >> /\ m # l
    BY <1>0, <1>2
  <2> QED
    BY <1>0, <1>2, <2>1 DEF Saving
<1>3. ASSUME NEW c \in Clients PROVE Flow(w, v, c)
  <2>1. c \in Locals /\ Uncounted(w, v, c)
    BY <1>0 DEF Locals
  <2>2. CASE c = l
    BY <1>0, <2>1, <2>2, Distinct DEF Flow, Uncounted
  <2>3. CASE c # l
    BY <1>0, <2>1, <2>3 DEF Flow, Uncounted
  <2> QED
    BY <2>2, <2>3
<1> QED
  BY <1>1, <1>2, <1>3 DEF Even, Saving

\* s->ready(s).
LEMMA ReadyOK ==
    ASSUME NEW w, Good(w), NEW l \in Locals, w.sk[l].on = "list"
    PROVE  /\ Safe(w, Ready(w, l))
           /\ \A m \in Locals : Ready(w, l).sk[m].on = w.sk[m].on /\ Ready(w, l).sk[m].peer = w.sk[m].peer
           /\ Awake(w, Ready(w, l), l)
<1> DEFINE x == Notified(w, l, "OKAY")
<1>1. /\ Safe(w, x) /\ x.sk[l] = Hush(w.sk[l]) /\ x.h2d = w.h2d
      /\ \A m \in Locals : x.sk[m].on = w.sk[m].on /\ x.sk[m].peer = w.sk[m].peer
      /\ \A m \in Locals : m # l => x.sk[m] = w.sk[m]
  BY NotifiedOK
<1>2. Ready(w, l) = [x EXCEPT !.sk[l] = FdeAdd(@, "R")]
  BY DEF Ready, Notified
<1> HIDE DEF x
<1>3. Good(x) /\ x \in Record /\ x.sk \in [Locals -> Socket] /\ x.sk[l] \in Socket /\ SockOK(l, x.sk[l])
  BY <1>1 DEF Safe, Good, SkOK
<1>4. x.sk[l].on = "list"
  BY <1>1, HushOK DEF Good, SkOK
<1> DEFINE r == FdeAdd(x.sk[l], "R")
           v == [x EXCEPT !.sk = [x.sk EXCEPT ![l] = r]]
<1>5. r \in Socket /\ SockOK(l, r) /\ r = [x.sk[l] EXCEPT !.want = r.want, !.pend = r.pend]
  BY <1>3, <1>4, ReadMask
<1>11. "R" \in r.want
  BY <1>3 DEF FdeAdd, FdeSet, Socket
<1> HIDE DEF r
<1>6. r.on = x.sk[l].on /\ r.peer = x.sk[l].peer /\ (Uses(r) => Uses(x.sk[l]))
  BY <1>3, <1>5 DEF Socket, Uses
<1>7. /\ v \in Record /\ v.sk = [x.sk EXCEPT ![l] = r] /\ v.disc = x.disc /\ v.h2d = x.h2d
      /\ v.bad = x.bad
  BY <1>3, <1>5 DEF Record
<1>8. Ready(w, l) = v
  BY <1>2 DEF r
<1> HIDE DEF v
<1>9. Safe(x, v)
  BY <1>3, <1>5, <1>6, <1>7, Touch
<1>10. \A m \in Locals : v.sk[m].on = w.sk[m].on /\ v.sk[m].peer = w.sk[m].peer
  BY <1>1, <1>3, <1>6, <1>7
<1>12. Awake(w, v, l)
  <2>1. w.sk[l] \in Socket
    BY DEF Good, SkOK
  <2>2. x.sk[l].q = w.sk[l].q
    BY <1>1, <2>1, HushOK
  <2>3. r.q = x.sk[l].q
    BY <1>3, <1>5 DEF Socket
  <2>4. v.sk[l] = r /\ v.h2d = w.h2d /\ \A m \in Locals : m # l => v.sk[m] = w.sk[m]
    BY <1>1, <1>3, <1>7
  <2> QED
    BY <1>10, <1>11, <2>2, <2>3, <2>4 DEF Awake
<1> QED
  BY <1>1, <1>8, <1>9, <1>10, <1>12, SafeTrans

-----------------------------------------------------------------------------
(* Data *)

LEMMA MinMax == ASSUME NEW a \in Int, NEW b \in Int
                PROVE  /\ Min({a, b}) = IF a <= b THEN a ELSE b
                       /\ Max({a, b}) = IF a >= b THEN a ELSE b
<1>1. Min({a, b}) \in {a, b} /\ \A y \in {a, b} : Min({a, b}) <= y
  <2>1. \E x \in {a, b} : \A y \in {a, b} : x <= y
    OBVIOUS
  <2> QED
    BY <2>1 DEF Min
<1>2. Max({a, b}) \in {a, b} /\ \A y \in {a, b} : Max({a, b}) >= y
  <2>1. \E x \in {a, b} : \A y \in {a, b} : x >= y
    OBVIOUS
  <2> QED
    BY <2>1 DEF Max
<1> QED
  BY <1>1, <1>2

LEMMA FitsOK == ASSUME NEW w \in Record, NEW l \in Locals, NEW bytes \in Seq(Item)
                PROVE  Fits(w, l, bytes) \in 0..Len(bytes)
<1>1. Len(bytes) \in Nat /\ Len(w.toProc[l]) \in Nat /\ Room \in Nat
  BY SocketsAssumption, LenProperties DEF Record
<1> DEFINE k == Room - Len(w.toProc[l])
           m == Max({0, k})
<1>2. m \in Nat
  <2>1. k \in Int
    BY <1>1
  <2> HIDE DEF k
  <2>2. m = IF 0 >= k THEN 0 ELSE k
    <3>1. 0 \in Int
      OBVIOUS
    <3> QED
      BY <2>1, <3>1, MinMax, Zenon
  <2> QED
    BY <2>1, <2>2
<1> HIDE DEF m
<1>3. Min({Len(bytes), m}) = IF Len(bytes) <= m THEN Len(bytes) ELSE m
  BY <1>1, <1>2, MinMax
<1> QED
  BY <1>1, <1>2, <1>3 DEF Fits, m, k

\* The two parts of what a write takes some of.
LEMMA Split == ASSUME NEW bytes \in Seq(Item), NEW n \in 0..Len(bytes)
               PROVE  /\ SubSeq(bytes, 1, n) \in Seq(Item)
                      /\ SubSeq(bytes, n + 1, Len(bytes)) \in Seq(Item)
                      /\ Len(SubSeq(bytes, 1, n)) = n
                      /\ Len(SubSeq(bytes, n + 1, Len(bytes))) <= Len(bytes)
<1>1. Len(bytes) \in Nat
  BY LenProperties
<1>2. \A i \in 1..Len(bytes) : bytes[i] \in Item
  BY ElementOfSeq
<1>3. (\A i \in 1..n : bytes[i] \in Item) /\ \A i \in (n + 1)..Len(bytes) : bytes[i] \in Item
  BY <1>1, <1>2
<1>4. n \in Int /\ n + 1 \in Int /\ 1 \in Int /\ Len(bytes) \in Int
  BY <1>1
<1>5. Len(SubSeq(bytes, 1, n)) = n /\ Len(SubSeq(bytes, n + 1, Len(bytes))) <= Len(bytes)
  <2>1. Len(SubSeq(bytes, 1, n)) = IF 1 <= n THEN n - 1 + 1 ELSE 0
    BY <1>3, <1>4, SubSeqProperties
  <2>2. Len(SubSeq(bytes, n + 1, Len(bytes)))
          = IF n + 1 <= Len(bytes) THEN Len(bytes) - (n + 1) + 1 ELSE 0
    BY <1>3, <1>4, SubSeqProperties
  <2> QED
    BY <1>1, <2>1, <2>2
<1> QED
  BY <1>3, <1>4, <1>5, SubSeqProperties

LEMMA SplitWhole == ASSUME NEW A, NEW s \in Seq(A), NEW n \in 0..Len(s)
                    PROVE  /\ SubSeq(s, 1, n) \in Seq(A) /\ SubSeq(s, n + 1, Len(s)) \in Seq(A)
                           /\ SubSeq(s, 1, n) \o SubSeq(s, n + 1, Len(s)) = s
<1>1. Len(s) \in Nat /\ \A i \in 1..Len(s) : s[i] \in A
  BY LenProperties, ElementOfSeq
<1>2. (\A i \in 1..n : s[i] \in A) /\ \A i \in (n + 1)..Len(s) : s[i] \in A
  BY <1>1
<1>3. n \in Int /\ n + 1 \in Int /\ 1 \in Int /\ Len(s) \in Int
  BY <1>1
<1>4. SubSeq(s, 1, n) \in Seq(A) /\ SubSeq(s, n + 1, Len(s)) \in Seq(A)
  BY <1>2, <1>3, SubSeqProperties
<1>5. 1 \in 1..Len(s) + 1 /\ n \in 1 - 1..Len(s) /\ Len(s) \in n..Len(s)
  BY <1>1
<1>6. SubSeq(s, 1, n) \o SubSeq(s, n + 1, Len(s)) = SubSeq(s, 1, Len(s))
  BY <1>5, ConcatAdjacentSubSeq
<1>7. SubSeq(s, 1, Len(s)) = s
  BY SubSeqFull
<1> QED
  BY <1>4, <1>6, <1>7

\* Something is written to client l, and nothing else happens to the record.
LEMMA WriteIs ==
    ASSUME NEW w \in Record, NEW l \in Locals, NEW more \in Seq(Item)
    PROVE  /\ [w.toProc EXCEPT ![l] = @ \o more] \in [Locals -> Seq(Item)]
           /\ [w EXCEPT !.toProc[l] = @ \o more] \in Record
<1> DEFINE a == w.toProc[l] \o more
<1>1. w.toProc \in [Locals -> Seq(Item)]
  BY DEF Record
<1>2. a \in Seq(Item)
  BY <1>1, ConcatProperties
<1> HIDE DEF a
<1>3. [w.toProc EXCEPT ![l] = a] \in [Locals -> Seq(Item)]
  BY <1>1, <1>2
<1>4. [w EXCEPT !.toProc = [w.toProc EXCEPT ![l] = a]] \in Record
  BY <1>3 DEF Record
<1> QED
  BY <1>3, <1>4 DEF a

\* A socket with a backlog that asks for FDE_WRITE.
LEMMA WriteMask ==
    ASSUME NEW l, NEW s \in Socket, SockOK(l, s), s.on = "list", s.peer \notin {None, Smart},
           NEW q \in Seq(Item), q # << >>, NEW r, r = FdeAdd([s EXCEPT !.q = q], "W")
    PROVE  /\ r \in Socket /\ SockOK(l, r) /\ r.on = s.on /\ r.peer = s.peer /\ r.q = q
           /\ Uses(r) <=> Uses(s)
           /\ ("R" \in r.want <=> "R" \in s.want) /\ r.pend \subseteq s.pend
<1> DEFINE t == [s EXCEPT !.q = q]
           m == s.want \cup {"W"}
<1>1. /\ t \in Socket /\ m \in SUBSET {"R", "W"} /\ r = FdeSet(t, m) /\ "W" \in m
      /\ ("R" \in m <=> "R" \in s.want)
  BY DEF Socket, FdeAdd
<1>2. /\ t.on = s.on /\ t.peer = s.peer /\ t.q = q /\ t.notify = s.notify
      /\ t.trans = s.trans /\ t.smartTrans = s.smartTrans /\ t.pend = s.pend
  BY DEF Socket
<1> HIDE DEF t, m
<1>3. r \in Socket /\ r = [t EXCEPT !.want = m, !.pend = r.pend] /\ r.pend \subseteq s.pend
  <2>1. /\ FdeSet(t, m) \in Socket /\ FdeSet(t, m) = [t EXCEPT !.want = m, !.pend = FdeSet(t, m).pend]
        /\ FdeSet(t, m).pend \subseteq s.pend
    BY <1>1, <1>2, FdeSetOK
  <2> QED
    BY <1>1, <2>1
<1>4. r.want = m /\ "W" \in m
  BY <1>1, <1>3 DEF Socket
<1>5. /\ r.on = s.on /\ r.peer = s.peer /\ r.q = q /\ r.notify = s.notify
      /\ r.trans = s.trans /\ r.smartTrans = s.smartTrans
  BY <1>1, <1>2, <1>3 DEF Socket
<1>6. SockOK(l, r)
  BY <1>4, <1>5 DEF SockOK
<1> QED
  BY <1>1, <1>3, <1>4, <1>5, <1>6 DEF Uses

\* Some of the bytes stay in the backlog of l.
Queued(w, v, l, bytes) ==
    /\ v.h2d = w.h2d /\ \A m \in Locals : m # l => v.sk[m] = w.sk[m]
    /\ v.sk[l].on = w.sk[l].on /\ v.sk[l].peer = w.sk[l].peer /\ v.sk[l].q # << >>
    /\ w.sk[l].q = << >> => Len(v.sk[l].q) <= Len(bytes)
    /\ ("R" \in v.sk[l].want <=> "R" \in w.sk[l].want) /\ v.sk[l].pend \subseteq w.sk[l].pend

\* local_socket_enqueue.
LEMMA EnqueueOK ==
    ASSUME NEW w, Good(w), NEW l \in Locals, w.sk[l].on = "list", w.sk[l].peer \notin {None, Smart},
           NEW bytes \in Seq(Item)
    PROVE  /\ Safe(w, Enqueue(w, l, bytes).w) /\ Enqueue(w, l, bytes).r \in {0, 1}
           /\ \/ /\ Enqueue(w, l, bytes).r = 0 /\ Enqueue(w, l, bytes).w.sk = w.sk
                 /\ Enqueue(w, l, bytes).w.h2d = w.h2d
              \/ /\ Enqueue(w, l, bytes).r = 1 /\ Enqueue(w, l, bytes).w.sk[l].on # "list"
                 /\ Fewer(w, Enqueue(w, l, bytes).w)
              \/ /\ Enqueue(w, l, bytes).r = 1 /\ Queued(w, Enqueue(w, l, bytes).w, l, bytes)
<1> DEFINE n == IF w.sk[l].q = << >> THEN Fits(w, l, bytes) ELSE 0
           rest == SubSeq(bytes, n + 1, Len(bytes))
           some == SubSeq(bytes, 1, n)
           x == [w EXCEPT !.toProc[l] = @ \o some]
           e == Enqueue(w, l, bytes)
<1>0. /\ w \in Record /\ w.sk \in [Locals -> Socket] /\ w.sk[l] \in Socket
      /\ SockOK(l, w.sk[l]) /\ w.sk[l].q \in Seq(Item)
  BY DEF Good, SkOK, Record, Socket
<1>1. e = IF w.sk[l].q = << >> /\ l \in gone
            THEN [w |-> Close(w, l), r |-> 1]
            ELSE IF rest = << >> THEN [w |-> x, r |-> 0]
                 ELSE [w |-> [x EXCEPT !.sk = [x.sk EXCEPT ![l] =
                                FdeAdd([x.sk[l] EXCEPT !.q = w.sk[l].q \o rest], "W")]], r |-> 1]
  BY DEF Enqueue
<1>2. n \in 0..Len(bytes)
  BY <1>0, FitsOK, LenProperties
<1> HIDE DEF n, e
<1>3. some \in Seq(Item) /\ rest \in Seq(Item)
  BY <1>2, Split
<1> HIDE DEF some, rest
<1>4. x \in Record
  BY <1>0, <1>3, WriteIs
<1>5. x.sk = w.sk /\ x.disc = w.disc /\ x.h2d = w.h2d /\ x.bad = w.bad
  BY <1>0 DEF Record
<1> HIDE DEF x
<1>6. CASE w.sk[l].q = << >> /\ l \in gone
  <2> DEFINE v == Close(w, l)
  <2>1. e = [w |-> v, r |-> 1]
    BY <1>1, <1>6
  <2>2. Safe(w, v) /\ v.sk[l] = Done(Hush(w.sk[l])) /\ Fewer(w, v)
    BY CloseOK
  <2>3. v.sk[l].on # "list"
    <3>1. /\ Hush(w.sk[l]) \in Socket /\ SockOK(l, Hush(w.sk[l])) /\ Hush(w.sk[l]).on = "list"
      BY <1>0, HushOK
    <3>2. Done(Hush(w.sk[l])).on \in {"freed", "closing"}
      BY <3>1, DoneOK DEF SockOK
    <3> QED
      BY <2>2, <3>2
  <2> HIDE DEF v
  <2> QED
    BY <2>1, <2>2, <2>3 DEF e
<1>7. CASE ~(w.sk[l].q = << >> /\ l \in gone) /\ rest = << >>
  <2>1. Safe(w, x)
    BY <1>4, <1>5, Written
  <2> QED
    BY <1>1, <1>5, <1>7, <2>1 DEF e
<1>8. CASE ~(w.sk[l].q = << >> /\ l \in gone) /\ rest # << >>
  <2> DEFINE q == w.sk[l].q \o rest
             r == FdeAdd([w.sk[l] EXCEPT !.q = q], "W")
             v == [x EXCEPT !.sk = [w.sk EXCEPT ![l] = r]]
  <2>1. q \in Seq(Item) /\ q # << >>
    <3>1. /\ q \in Seq(Item) /\ Len(q) = Len(w.sk[l].q) + Len(rest)
          /\ Len(w.sk[l].q) \in Nat /\ Len(rest) \in Nat
      BY <1>0, <1>3, ConcatProperties, LenProperties
    <3>2. Len(rest) # 0
      BY <1>3, <1>8, EmptySeq
    <3>3. Len(q) # 0
      BY <3>1, <3>2
    <3> QED
      BY <3>1, <3>3, EmptySeq
  <2>6. w.sk[l].q = << >> => Len(q) <= Len(bytes)
    <3>1. /\ Len(q) = Len(w.sk[l].q) + Len(rest) /\ Len(w.sk[l].q) \in Nat /\ Len(rest) \in Nat
      BY <1>0, <1>3, ConcatProperties, LenProperties
    <3>2. Len(rest) <= Len(bytes)
      BY <1>2, Split DEF rest
    <3>3. w.sk[l].q = << >> => Len(w.sk[l].q) = 0
      BY EmptySeq
    <3> QED
      BY <3>1, <3>2, <3>3
  <2>2. e = [w |-> v, r |-> 1]
    BY <1>1, <1>5, <1>8
  <2> HIDE DEF q
  <2>3. /\ r \in Socket /\ SockOK(l, r) /\ r.on = w.sk[l].on /\ r.peer = w.sk[l].peer
        /\ (Uses(r) <=> Uses(w.sk[l])) /\ r.q = q
        /\ ("R" \in r.want <=> "R" \in w.sk[l].want) /\ r.pend \subseteq w.sk[l].pend
    BY <1>0, <2>1, WriteMask
  <2> HIDE DEF r
  <2>4. /\ v \in Record /\ v.sk = [w.sk EXCEPT ![l] = r] /\ v.disc = w.disc /\ v.h2d = w.h2d
        /\ v.bad = w.bad
    BY <1>0, <1>4, <1>5, <2>3 DEF Record
  <2> HIDE DEF v
  <2>5. Safe(w, v)
    BY <1>0, <2>3, <2>4, Touch
  <2>7. v.sk[l] = r /\ \A m \in Locals : m # l => v.sk[m] = w.sk[m]
    BY <1>0, <2>4
  <2>8. Queued(w, v, l, bytes)
    BY <2>1, <2>3, <2>4, <2>6, <2>7 DEF Queued
  <2> QED
    BY <2>2, <2>5, <2>8 DEF e
<1> QED
  BY <1>6, <1>7, <1>8

-----------------------------------------------------------------------------
(* The smart socket *)

\* Socket l, which has no local or remote peer, is closed.
Closed(w, v, l) == /\ v \in Record /\ v.sk = [w.sk EXCEPT ![l] = Done(Hush(w.sk[l]))]
                   /\ v.disc = w.disc /\ v.h2d = w.h2d /\ v.bad = w.bad

LEMMA CloseAlone ==
    ASSUME NEW w \in Record, NEW l \in Locals, w.sk[l].peer \notin Locals \cup {Remote},
           w.sk[l].on \in {"list", "closing"},
           w.sk[l].on = "list" => ("W" \in w.sk[l].want <=> w.sk[l].q # << >>),
           "W" \in w.sk[l].pend => "W" \in w.sk[l].want
    PROVE  /\ Closed(w, Close(w, l), l) /\ Done(Hush(w.sk[l])) \in Socket
           /\ SockOK(l, Done(Hush(w.sk[l]))) /\ Done(Hush(w.sk[l])).peer = None
           /\ Done(Hush(w.sk[l])).on \in {"freed", "closing"} /\ ~Uses(Done(Hush(w.sk[l])))
<1> DEFINE x == Notified(w, l, "FAIL")
           h == Hush(w.sk[l])
           d == Done(h)
           v == Close(w, l)
<1>0. w.sk \in [Locals -> Socket] /\ w.sk[l] \in Socket
  BY DEF Record
<1>1. Hushed(w, x, l)
  BY NotifiedIs
<1>2. v = CloseLocked(x, l)
  BY DEF Close, Notified
<1> HIDE DEF x, v
<1>3. /\ x \in Record /\ x.sk = [w.sk EXCEPT ![l] = h] /\ x.disc = w.disc /\ x.h2d = w.h2d
      /\ x.bad = w.bad
  BY <1>1 DEF Hushed
<1>4. /\ h \in Socket /\ h.on = w.sk[l].on /\ h.peer = w.sk[l].peer /\ h.q = w.sk[l].q
      /\ h.want = w.sk[l].want /\ h.pend = w.sk[l].pend
  BY <1>0, HushOK
<1> HIDE DEF h
<1>5. d \in Socket /\ SockOK(l, d) /\ d.peer = None /\ d.on \in {"freed", "closing"} /\ ~Uses(d)
  BY <1>4, DoneOK
<1>6. x.sk[l] = h
  BY <1>0, <1>3
<1>7. v = [x EXCEPT !.sk[l] = Done(h)]
  <2>1. x.sk[l].peer # Remote /\ x.sk[l].peer \notin Locals
    BY <1>4, <1>6
  <2> QED
    BY <1>2, <1>3, <1>6, <2>1, FinishIs DEF CloseLocked
<1> HIDE DEF d
<1>8. v = [x EXCEPT !.sk = [x.sk EXCEPT ![l] = d]]
  BY <1>7 DEF d
<1>9. /\ v \in Record /\ v.sk = [w.sk EXCEPT ![l] = d] /\ v.disc = w.disc /\ v.h2d = w.h2d
      /\ v.bad = w.bad
  BY <1>0, <1>3, <1>5, <1>8 DEF Record
<1> QED
  BY <1>5, <1>9 DEF Closed, d, h, v

\* A socket without a local or remote peer is gone from the list, and everything else is
\* as it was.
LEMMA LoneGone ==
    ASSUME NEW w, Good(w), NEW l \in Locals, w.sk[l].peer \notin Locals \cup {Remote},
           w.sk[l].on # "absent",
           NEW d \in Socket, SockOK(l, d), d.peer = None, d.on \in {"freed", "closing"}, ~Uses(d),
           NEW v \in Record, v.sk = [w.sk EXCEPT ![l] = d], v.disc = w.disc, v.h2d = w.h2d,
           v.bad = w.bad
    PROVE  Safe(w, v)
<1>0. SkOK(w.sk, w.disc) /\ w.sk \in [Locals -> Socket] /\ w.disc \subseteq Clients
  BY DEF Good, SkOK
<1>1. SkOK(v.sk, v.disc)
  <2>1. w.sk[l].peer \notin Locals /\ d.peer \notin Locals /\ d.peer # Remote
    BY Distinct
  <2>2. SkOK([w.sk EXCEPT ![l] = d], IF d.peer = Remote THEN w.disc \cup {l} ELSE w.disc \ {l})
    BY <1>0, <2>1, NewPeer, Zenon
  <2>3. w.disc \ {l} = w.disc
    BY <1>0 DEF SkOK
  <2> QED
    BY <2>1, <2>2, <2>3
<1>2. \A m \in Locals : v.sk[m] = IF m = l THEN d ELSE w.sk[m]
  BY <1>0
<1>3. Tame(w, v)
  BY <1>2 DEF Tame
<1>4. Calm(w, v)
  BY <1>2 DEF Calm, Quiet, Locals
<1> QED
  BY <1>1, <1>3, <1>4 DEF Safe, Good

\* The smart socket is gone and an OPEN was sent.
Asked(w, v, l) == /\ \A m \in Locals : m # l => v.sk[m] = w.sk[m]
                  /\ v.sk[l].peer = None /\ v.sk[l].q = << >> /\ v.sk[l].pend = w.sk[l].pend
                  /\ \A c \in Clients : Uncounted(w, v, c)

\* What is so of a call of a smart socket's enqueue: below 0 means that the socket is gone.
SmartSafe(w, e, l) == /\ Safe(w, e.w) /\ e.r \in {-1, 0, 1}
                      /\ e.r >= 0 => e.w.sk[l].on = "list"
                      /\ e.r <= 0 /\ Saving(w.sk) => Even(w, e.w)
                      /\ e.r > 0 => Asked(w, e.w, l)

\* A socket whose peer is a smart socket.
LEMMA SmartIs ==
    ASSUME NEW w, Good(w), NEW l \in Locals, w.sk[l].peer = Smart
    PROVE  /\ w \in Record /\ w.sk \in [Locals -> Socket] /\ w.sk[l] \in Socket
           /\ l \in Clients /\ w.sk[l].on = "list" /\ w.sk[l].q = << >> /\ "W" \notin w.sk[l].want
           /\ ~w.sk[l].trans /\ "W" \notin w.sk[l].pend /\ l \notin w.disc /\ SockOK(l, w.sk[l])
           /\ SkOK(w.sk, w.disc)
<1>1. w \in Record /\ w.sk \in [Locals -> Socket] /\ w.sk[l] \in Socket /\ SockOK(l, w.sk[l]) /\ SkOK(w.sk, w.disc)
  BY DEF Good, SkOK
<1>2. l \in Clients /\ w.sk[l].on = "list"
  BY <1>1, Distinct DEF SockOK
<1>3. l \notin w.disc
  BY <1>1, <1>2, Distinct DEF SkOK
<1> QED
  BY <1>1, <1>2, <1>3, Distinct DEF SockOK

LEMMA SmartFailOK ==
    ASSUME NEW w, Good(w), NEW l \in Locals, w.sk[l].peer = Smart
    PROVE  SmartSafe(w, SmartFail(w, l), l)
<1> DEFINE s == [w.sk[l] EXCEPT !.peer = None]
           x == [w EXCEPT !.sk = [w.sk EXCEPT ![l] = s]]
           v == Close(x, l)
           d == Done(Hush(s))
<1>0. /\ w \in Record /\ w.sk \in [Locals -> Socket] /\ w.sk[l] \in Socket
      /\ w.sk[l].on = "list" /\ w.sk[l].q = << >> /\ "W" \notin w.sk[l].want
      /\ "W" \notin w.sk[l].pend
  BY SmartIs
<1>1. /\ s \in Socket /\ s.on = "list" /\ s.peer = None /\ s.q = << >>
      /\ "W" \notin s.want /\ "W" \notin s.pend
  BY <1>0 DEF Socket
<1>2. SmartFail(w, l) = [w |-> v, r |-> -1]
  BY DEF SmartFail
<1> HIDE DEF s
<1>3. x \in Record /\ x.sk = [w.sk EXCEPT ![l] = s] /\ x.disc = w.disc /\ x.h2d = w.h2d /\ x.bad = w.bad
  BY <1>0, <1>1 DEF Record
<1>4. x.sk[l] = s
  BY <1>0, <1>3
<1> HIDE DEF x
<1>5. Closed(x, v, l) /\ d \in Socket /\ SockOK(l, d) /\ d.peer = None /\ d.on \in {"freed", "closing"} /\ ~Uses(d)
  <2>1. x.sk[l].peer \notin Locals \cup {Remote}
    BY <1>1, <1>4, Distinct
  <2> QED
    BY <1>1, <1>3, <1>4, <2>1, CloseAlone
<1> HIDE DEF v, d
<1>6. /\ v \in Record /\ v.sk = [w.sk EXCEPT ![l] = d] /\ v.disc = w.disc /\ v.h2d = w.h2d
      /\ v.bad = w.bad
  <2>1. v.sk = [x.sk EXCEPT ![l] = d]
    BY <1>4, <1>5 DEF Closed, d
  <2>2. [x.sk EXCEPT ![l] = d] = [w.sk EXCEPT ![l] = d]
    BY <1>0, <1>1, <1>3, <1>5
  <2> QED
    BY <1>3, <1>5, <2>1, <2>2 DEF Closed
<1>7. Safe(w, v)
  BY <1>0, <1>5, <1>6, LoneGone, Distinct
<1>8. Saving(w.sk) => Even(w, v)
  <2>1. d.q \in {w.sk[l].q, << >>}
    <3>1. /\ Hush(s) \in Socket /\ Hush(s).on = s.on /\ Hush(s).q = s.q
          /\ Hush(s).want = s.want /\ Hush(s).pend = s.pend
      BY <1>1, HushOK
    <3>2. Done(Hush(s)).q \in {Hush(s).q, << >>}
      BY <1>1, <3>1, DoneOK
    <3> QED
      BY <1>0, <1>1, <3>1, <3>2 DEF d
  <2>2. Fewer(w, v)
    BY <1>0, <1>5, <1>6, <2>1, UncountedSame, FewerOne
  <2> QED
    BY <1>7, <2>2, FewerEven DEF Safe
<1> QED
  BY <1>2, <1>7, <1>8 DEF SmartSafe

\* The client is told first.
LEMMA TellFailOK ==
    ASSUME NEW w, Good(w), NEW l \in Locals, w.sk[l].peer = Smart, NEW status \in {"OKAY", "FAIL"}
    PROVE  SmartSafe(w, SmartFail(Tell(w, l, status), l), l)
<1> DEFINE x == Tell(w, l, status)
<1>0. w \in Record
  BY DEF Good
<1>1. x \in Record /\ x = [w EXCEPT !.toProc = x.toProc]
  BY <1>0, TellIs
<1> HIDE DEF x
<1>2. x.sk = w.sk /\ x.disc = w.disc /\ x.h2d = w.h2d /\ x.bad = w.bad
  BY <1>0, <1>1 DEF Record
<1>3. Safe(w, x)
  BY <1>1, <1>2, Written
<1>4. SmartSafe(x, SmartFail(x, l), l)
  BY <1>2, <1>3, SmartFailOK DEF Safe
<1>5. SmartFail(x, l).r = -1
  BY DEF SmartFail
<1>6. Saving(w.sk) => Even(w, SmartFail(x, l).w)
  <2>1. Saving(w.sk) => Even(w, x)
    BY <1>2, <1>3, FewerSame, FewerEven DEF Safe
  <2>2. Saving(w.sk) => Even(x, SmartFail(x, l).w)
    BY <1>2, <1>4, <1>5 DEF SmartSafe
  <2> QED
    BY <1>3, <2>1, <2>2, EvenTrans DEF Safe
<1>7. SmartSafe(w, SmartFail(x, l), l)
  BY <1>3, <1>4, <1>5, <1>6, SafeTrans DEF SmartSafe
<1> QED
  BY <1>7 DEF x

LEMMA SmartOpenOK ==
    ASSUME NEW w, Good(w), NEW l \in Locals, w.sk[l].peer = Smart
    PROVE  SmartSafe(w, SmartOpen(w, l), l)
<1>1. CASE ~(w.sk[l].smartTrans /\ tr = "on")
  BY <1>1, TellFailOK DEF SmartOpen
<1>2. CASE w.sk[l].smartTrans /\ tr = "on"
  <2> DEFINE s == [w.sk[l] EXCEPT !.notify = TRUE, !.peer = None, !.trans = TRUE, !.req = << >>,
                                  !.smartTrans = FALSE]
             x == [w EXCEPT !.sk = [w.sk EXCEPT ![l] = s]]
             v == Send(x, "OPEN", l, << >>)
  <2>0. /\ w \in Record /\ w.sk \in [Locals -> Socket] /\ w.sk[l] \in Socket /\ l \in Clients
        /\ w.sk[l].on = "list" /\ w.sk[l].q = << >> /\ "W" \notin w.sk[l].want
        /\ "W" \notin w.sk[l].pend /\ l \notin w.disc /\ SkOK(w.sk, w.disc)
    BY SmartIs
  <2>1. SmartOpen(w, l) = [w |-> v, r |-> 1]
    BY <1>2 DEF SmartOpen
  <2>2. /\ s \in Socket /\ s.on = "list" /\ s.peer = None /\ s.q = << >>
        /\ "W" \notin s.want /\ "W" \notin s.pend /\ ~s.smartTrans /\ s.pend = w.sk[l].pend
    <3>1. << >> \in Seq(Item)
      BY EmptySeq
    <3> QED
      BY <2>0, <3>1 DEF Socket
  <2> HIDE DEF s
  <2>3. SockOK(l, s)
    BY <2>2, Distinct DEF SockOK, Locals
  <2>4. /\ x \in Record /\ x.sk = [w.sk EXCEPT ![l] = s] /\ x.disc = w.disc /\ x.h2d = w.h2d
        /\ x.bad = w.bad
    BY <2>0, <2>2 DEF Record
  <2> HIDE DEF x
  <2>5. SentTo(x, v, "OPEN", l)
    BY <2>0, <2>4, SendEmpty
  <2> HIDE DEF v
  <2>6. /\ v \in Record /\ v.sk = [w.sk EXCEPT ![l] = s] /\ v.disc = w.disc /\ v.bad = w.bad
        /\ \A b \in Clients : b # l => Opens(v.h2d, b) = Opens(w.h2d, b)
        /\ Opens(v.h2d, l) = Opens(w.h2d, l) \cup {Len(w.h2d) + 1}
    BY <2>4, <2>5 DEF SentTo, Record
  <2>7. SkOK(v.sk, v.disc)
    <3>1. w.sk[l].peer \notin Locals /\ s.peer \notin Locals /\ s.peer # Remote
      BY <2>2, Distinct
    <3>2. SkOK([w.sk EXCEPT ![l] = s], IF s.peer = Remote THEN w.disc \cup {l} ELSE w.disc \ {l})
      BY <2>0, <2>2, <2>3, <3>1, NewPeer, Zenon
    <3>3. w.disc \ {l} = w.disc
      BY <2>0
    <3> QED
      BY <2>6, <3>1, <3>2, <3>3
  <2>8. \A m \in Locals : v.sk[m] = IF m = l THEN s ELSE w.sk[m]
    BY <2>0, <2>6
  <2>9. Tame(w, v)
    BY <1>2 DEF Tame
  <2>10. Calm(w, v)
    <3>1. Len(w.h2d) + 1 \in Nat
      BY <2>0, LenProperties DEF Record
    <3>2. Opened(w, v, l)
      BY <2>2, <2>6, <2>8, <3>1 DEF Opened
    <3>3. \A c \in Clients : c # l => Quiet(w, v, c)
      BY <2>6, <2>8 DEF Quiet, Locals
    <3> QED
      BY <2>0, <2>2, <2>8, <3>2, <3>3 DEF Calm, Locals
  <2>11. v.sk[l].on = "list"
    BY <2>2, <2>8
  <2>12. Safe(w, v)
    BY <2>6, <2>7, <2>9, <2>10 DEF Safe, Good
  <2>13. Asked(w, v, l)
    <3>1. \A c \in Clients : Uncounted(w, v, c)
      BY <2>0, <2>4, <2>5, SentUncounted DEF Uncounted
    <3> QED
      BY <2>2, <2>8, <3>1 DEF Asked
  <2> QED
    BY <2>1, <2>11, <2>12, <2>13 DEF SmartSafe
<1> QED
  BY <1>1, <1>2

LEMMA SmartTransportOK ==
    ASSUME NEW w, Good(w), NEW l \in Locals, w.sk[l].peer = Smart
    PROVE  SmartSafe(w, SmartTransport(w, l), l)
<1>0. /\ w \in Record /\ w.sk \in [Locals -> Socket] /\ w.sk[l] \in Socket /\ l \in Clients
      /\ w.sk[l].on = "list" /\ SockOK(l, w.sk[l])
  BY SmartIs
<1>1. PICK status \in {"OKAY", "FAIL"}, b \in BOOLEAN :
        /\ tr # "on" => b = w.sk[l].smartTrans
        /\ SmartTransport(w, l) =
             [w |-> [Tell(w, l, status) EXCEPT !.sk[l] = [@ EXCEPT !.smartTrans = b, !.req = << >>]],
              r |-> 0]
  <2>0. w.sk[l].smartTrans \in BOOLEAN
    BY <1>0 DEF Socket
  <2>1. CASE tr = "on"
    BY <2>1 DEF SmartTransport
  <2>2. CASE tr # "on"
    <3> DEFINE x == Tell(w, l, "FAIL")
    <3>1. x \in Record /\ x = [w EXCEPT !.toProc = x.toProc]
      BY <1>0, TellIs
    <3> HIDE DEF x
    <3>2. x.sk = w.sk /\ x.sk \in [Locals -> Socket] /\ x.sk[l] \in Socket
      BY <1>0, <3>1 DEF Record
    <3>3. [x EXCEPT !.sk[l].req = << >>]
            = [x EXCEPT !.sk[l] = [@ EXCEPT !.smartTrans = w.sk[l].smartTrans, !.req = << >>]]
      BY <3>1, <3>2 DEF Record, Socket
    <3>4. SmartTransport(w, l) = [w |-> [x EXCEPT !.sk[l].req = << >>], r |-> 0]
      BY <2>2 DEF SmartTransport, x
    <3> QED
      BY <2>0, <2>2, <3>3, <3>4 DEF x
  <2> QED
    BY <2>1, <2>2
<1> DEFINE x == Tell(w, l, status)
           s == [w.sk[l] EXCEPT !.smartTrans = b, !.req = << >>]
           v == [x EXCEPT !.sk = [w.sk EXCEPT ![l] = s]]
<1>2. x \in Record /\ x = [w EXCEPT !.toProc = x.toProc]
  BY <1>0, TellIs
<1> HIDE DEF x
<1>3. x.sk = w.sk /\ x.disc = w.disc /\ x.h2d = w.h2d /\ x.bad = w.bad
  BY <1>0, <1>2 DEF Record
<1>4. SmartTransport(w, l) = [w |-> v, r |-> 0]
  <2>1. [x EXCEPT !.sk[l] = [@ EXCEPT !.smartTrans = b, !.req = << >>]] = v
    BY <1>3
  <2> QED
    BY <1>1, <2>1 DEF x
<1>5. /\ s \in Socket /\ s.on = "list" /\ s.peer = Smart /\ s.q = w.sk[l].q /\ s.want = w.sk[l].want
      /\ s.pend = w.sk[l].pend /\ s.trans = w.sk[l].trans /\ s.notify = w.sk[l].notify
      /\ s.smartTrans = b
  <2>1. << >> \in Seq(Item)
    BY EmptySeq
  <2> QED
    BY <1>0, <2>1 DEF Socket
<1> HIDE DEF s
<1>6. SockOK(l, s)
  BY <1>0, <1>5, Distinct DEF SockOK
<1>7. tr # "on" => (Uses(s) => Uses(w.sk[l]))
  BY <1>0, <1>1, <1>5 DEF Uses
<1>8. /\ v \in Record /\ v.sk = [w.sk EXCEPT ![l] = s] /\ v.disc = w.disc /\ v.h2d = w.h2d
      /\ v.bad = w.bad
  BY <1>0, <1>2, <1>3, <1>5 DEF Record
<1> HIDE DEF v
<1>9. Safe(w, v)
  BY <1>0, <1>5, <1>6, <1>7, <1>8, Touch
<1>10. v.sk[l].on = "list"
  BY <1>0, <1>5, <1>8
<1>11. Saving(w.sk) => Even(w, v)
  <2>1. Alike(w.sk[l], s)
    BY <1>0, <1>5 DEF Alike
  <2>2. Fewer(w, v)
    BY <1>0, <1>8, <2>1, UncountedSame, FewerOne
  <2> QED
    BY <1>9, <2>2, FewerEven DEF Safe
<1> QED
  BY <1>4, <1>9, <1>10, <1>11 DEF SmartSafe

LEMMA SmartHostOK ==
    ASSUME NEW w, Good(w), NEW l \in Locals, w.sk[l].peer = Smart
    PROVE  SmartSafe(w, SmartHost(w, l), l)
<1> DEFINE free == {s \in Services : w.sk[s].on = "absent"}
           p == CHOOSE s \in free : TRUE
           x == Tell(w, l, "OKAY")
           r == [w.sk[l] EXCEPT !.peer = p, !.req = << >>, !.smartTrans = FALSE]
           t == [Blank("list") EXCEPT !.peer = l, !.want = {"R"}]
           g == [w.sk EXCEPT ![l] = r, ![p] = t]
           v == [x EXCEPT !.sk = g]
<1>1. CASE free = {}
  BY <1>1, TellFailOK DEF SmartHost
<1>2. CASE free # {}
  <2>0. /\ w \in Record /\ w.sk \in [Locals -> Socket] /\ w.sk[l] \in Socket /\ l \in Clients
        /\ w.sk[l].on = "list" /\ SockOK(l, w.sk[l]) /\ SkOK(w.sk, w.disc) /\ ~w.sk[l].trans
    BY SmartIs
  <2>1. p \in Services /\ w.sk[p].on = "absent"
    BY <1>2
  <2>2. x \in Record /\ x = [w EXCEPT !.toProc = x.toProc]
    BY <2>0, TellIs
  <2>3. SmartHost(w, l) = [w |-> [x EXCEPT !.sk[l] = [@ EXCEPT !.peer = p, !.req = << >>, !.smartTrans = FALSE],
                                           !.sk[p] = t], r |-> 0]
    BY <1>2 DEF SmartHost
  <2> HIDE DEF free, p, x
  <2>4. x.sk = w.sk /\ x.disc = w.disc /\ x.h2d = w.h2d /\ x.bad = w.bad
    BY <2>0, <2>2 DEF Record
  <2>5. SmartHost(w, l) = [w |-> v, r |-> 0]
    <3>1. [x EXCEPT !.sk[l] = [@ EXCEPT !.peer = p, !.req = << >>, !.smartTrans = FALSE],
                    !.sk[p] = t] = v
      <4> HIDE DEF t
      <4> QED
        BY <2>0, <2>2, <2>4 DEF Record
    <3> QED
      BY <2>3, <3>1
  <2>6. l \in Locals /\ p \in Locals /\ l # p
    BY <2>0, <2>1, Distinct
  <2>7. /\ r \in Socket /\ r.on = "list" /\ r.peer = p /\ r.q = w.sk[l].q /\ r.want = w.sk[l].want
        /\ r.pend = w.sk[l].pend /\ ~r.trans /\ ~r.smartTrans
    <3>1. << >> \in Seq(Item)
      BY EmptySeq
    <3> QED
      BY <2>0, <2>6, <3>1 DEF Socket
  <2>8. /\ t \in Socket /\ t.on = "list" /\ t.peer = l /\ t.q = << >> /\ t.want = {"R"}
        /\ t.pend = {} /\ ~t.trans /\ ~t.smartTrans
    <3>1. << >> \in Seq(Item)
      BY EmptySeq
    <3> QED
      BY <2>6, <3>1 DEF Socket, Blank
  <2> HIDE DEF r, t
  <2>9. SockOK(l, r)
    BY <2>0, <2>1, <2>6, <2>7, Distinct DEF SockOK
  <2>10. SockOK(p, t)
    BY <2>0, <2>1, <2>6, <2>8, Distinct DEF SockOK
  <2>11. w.sk[p].peer = None
    BY <2>0, <2>1, <2>6 DEF SkOK, SockOK, Blank
  <2>12. SkOK(g, w.disc)
    <3>1. /\ w.sk[l].peer \notin (Locals \ {p}) \cup {Remote}
          /\ w.sk[p].peer \notin (Locals \ {l}) \cup {Remote}
      BY <2>11, Distinct
    <3> QED
      BY <2>0, <2>6, <2>7, <2>8, <2>9, <2>10, <3>1, NewPair, Zenon
  <2>13. \A m \in Locals : g[m] = IF m = l THEN r ELSE IF m = p THEN t ELSE w.sk[m]
    BY <2>0, <2>6
  <2>14. g \in [Locals -> Socket]
    BY <2>12 DEF SkOK
  <2> HIDE DEF g
  <2>15. /\ v.sk = g /\ v.disc = w.disc /\ v.bad = w.bad /\ v.h2d = w.h2d /\ v \in Record
    BY <2>2, <2>4, <2>14 DEF Record
  <2> HIDE DEF v
  <2>16. Tame(w, v)
    BY <2>7, <2>8, <2>13, <2>15 DEF Tame, Uses
  <2>17. Calm(w, v)
    <3>1. \A c \in Clients : c # p /\ c \in Locals
      BY <2>1, Distinct
    <3> QED
      BY <2>0, <2>1, <2>7, <2>13, <2>15, <3>1 DEF Calm, Quiet
  <2>18. v.sk[l].on = "list"
    BY <2>7, <2>13, <2>15
  <2>19. ASSUME Saving(w.sk) PROVE Even(w, v)
    <3>0. w.sk[l].q = << >>
      BY SmartIs
    <3>1. \A m \in Locals : Len(g[m].q) <= MAX_PAYLOAD
      BY <2>6, <2>7, <2>8, <2>13, <2>19, <3>0 DEF Saving
    <3>2. ASSUME NEW m \in Locals, g[m].peer \in Locals, g[g[m].peer].q # << >>
          PROVE  "R" \notin g[m].want
      <4>1. m # l /\ m # p
        BY <2>6, <2>7, <2>8, <2>13, <3>0, <3>2
      <4>2. g[m].peer # l /\ g[m].peer # p
        BY <2>6, <2>7, <2>8, <2>12, <2>13, <3>0, <3>2, <4>1
      <4> QED
        BY <2>13, <2>19, <3>2, <4>1, <4>2 DEF Saving
    <3>3. \A m \in Locals : g[m].on = "list" /\ "R" \in g[m].pend => "R" \in g[m].want
      BY <2>0, <2>6, <2>7, <2>8, <2>13, <2>19 DEF Saving
    <3>4. ASSUME NEW c \in Clients PROVE Flow(w, v, c)
      <4>1. c \in Locals /\ c # p /\ Uncounted(w, v, c)
        BY <2>1, <2>15, Distinct, UncountedSame
      <4>2. CASE c = l
        BY <2>1, <2>7, <2>13, <2>15, <4>1, <4>2, Distinct DEF Flow
      <4>3. CASE c # l
        <5>1. v.sk[c] = w.sk[c]
          BY <2>13, <2>15, <4>1, <4>3
        <5> QED
          BY <4>1, <5>1 DEF Flow, Uncounted
      <4> QED
        BY <4>2, <4>3
    <3> QED
      BY <2>15, <3>1, <3>2, <3>3, <3>4 DEF Even, Saving
  <2> QED
    BY <2>5, <2>12, <2>15, <2>16, <2>17, <2>18, <2>19 DEF SmartSafe, Safe, Good
<1> QED
  BY <1>1, <1>2

\* smart_socket_enqueue.
LEMMA SmartEnqueueOK ==
    ASSUME NEW w, Good(w), NEW l \in Locals, w.sk[l].peer = Smart, NEW bytes \in Seq(Item)
    PROVE  SmartSafe(w, SmartEnqueue(w, l, bytes), l)
<1> DEFINE all  == w.sk[l].req \o bytes
           asks == {i \in 1..Len(all) : all[i][1] \in Requests}
           what == all[Min(asks)][1]
           e == SmartEnqueue(w, l, bytes)
           x == [w EXCEPT !.sk[l].req = all]
<1>0. /\ w \in Record /\ w.sk \in [Locals -> Socket] /\ w.sk[l] \in Socket /\ l \in Clients
      /\ w.sk[l].on = "list" /\ SockOK(l, w.sk[l]) /\ w.sk[l].req \in Seq(Item)
  BY SmartIs DEF Socket
<1>1. all \in Seq(Item)
  BY <1>0, ConcatProperties
<1>2. e = IF asks = {} THEN [w |-> x, r |-> 0]
          ELSE CASE what = "open"      -> SmartOpen(w, l)
                 [] what = "transport" -> SmartTransport(w, l)
                 [] what = "host"      -> SmartHost(w, l)
                 [] what = "devices"   -> SmartFail(Tell(w, l, "OKAY"), l)
                 [] what = "bad"       -> SmartFail(w, l)
  BY DEF SmartEnqueue
<1> HIDE DEF e, all
<1>3. CASE asks = {}
  <2> DEFINE s == [w.sk[l] EXCEPT !.req = all]
  <2>1. /\ s \in Socket /\ s.on = "list" /\ s.peer = Smart /\ s.q = w.sk[l].q /\ s.want = w.sk[l].want
        /\ s.pend = w.sk[l].pend /\ s.trans = w.sk[l].trans /\ s.notify = w.sk[l].notify
        /\ s.smartTrans = w.sk[l].smartTrans
    BY <1>0, <1>1 DEF Socket
  <2>2. /\ x \in Record /\ x.sk = [w.sk EXCEPT ![l] = s] /\ x.disc = w.disc /\ x.h2d = w.h2d
        /\ x.bad = w.bad
    BY <1>0, <2>1 DEF Record
  <2> HIDE DEF s, x
  <2>3. SockOK(l, s)
    BY <1>0, <2>1, Distinct DEF SockOK
  <2>4. Uses(s) => Uses(w.sk[l])
    BY <1>0, <2>1 DEF Uses
  <2>5. Safe(w, x)
    BY <1>0, <2>1, <2>2, <2>3, <2>4, Touch
  <2>6. x.sk[l].on = "list"
    BY <1>0, <2>1, <2>2
  <2>7. Saving(w.sk) => Even(w, x)
    <3>1. Alike(w.sk[l], s)
      BY <1>0, <2>1 DEF Alike
    <3>2. \A c \in Clients : Uncounted(w, x, c)
      BY <2>2, UncountedSame
    <3>3. Fewer(w, x)
      BY <1>0, <2>2, <3>1, <3>2, FewerOne
    <3> QED
      BY <2>5, <3>3, FewerEven DEF Safe
  <2> QED
    <3>1. e.w = x /\ e.r = 0
      BY <1>2, <1>3
    <3> QED
      BY <2>5, <2>6, <2>7, <3>1 DEF SmartSafe, e
<1>4. CASE asks # {}
  <2>1. Min(asks) \in asks
    <3>1. asks \in SUBSET Nat
      OBVIOUS
    <3> HIDE DEF asks
    <3>2. \E n \in asks : \A m \in asks : n <= m
      BY <1>4, <3>1, LeastNat
    <3> QED
      BY <3>2 DEF Min
  <2>2. what \in Requests
    BY <2>1
  <2> HIDE DEF asks, what
  <2>3. \/ what = "open" /\ e = SmartOpen(w, l)
        \/ what = "transport" /\ e = SmartTransport(w, l)
        \/ what = "host" /\ e = SmartHost(w, l)
        \/ what = "devices" /\ e = SmartFail(Tell(w, l, "OKAY"), l)
        \/ what = "bad" /\ e = SmartFail(w, l)
    BY <1>2, <1>4, <2>2 DEF Requests
  <2> QED
    BY <2>3, SmartOpenOK, SmartTransportOK, SmartHostOK, TellFailOK, SmartFailOK DEF e
<1> QED
  BY <1>3, <1>4

-----------------------------------------------------------------------------
(* What reaches the client *)

AnyByte == {"byte"} \X Nat

\* List t starts with s.
Starts(s, t) == \E r \in Seq(Item) : t = s \o r

\* The bytes that a record holds for a client.
Held(w, c) == Data(w.toProc[c]) \o Data(w.sk[c].q)

\* A call loses no byte for client c while its socket is on the list, and none in the middle.
Holds(w, v, c) ==
    /\ Starts(Held(v, c), Held(w, c))
    /\ v.sk[c].on \in {"absent", "list"} => Held(v, c) = Held(w, c)
    /\ w.sk[c].q \in Seq(AnyByte) => v.sk[c].q \in Seq(AnyByte)

LEMMA ByteIsItem == AnyByte \subseteq Item
  BY DEF AnyByte, Item

LEMMA ItemSeq ==
    /\ << >> \in Seq(Item)
    /\ \A s \in Seq(AnyByte) : s \in Seq(Item)
    /\ \A s, t \in Seq(Item) : s \o t \in Seq(Item)
    /\ \A s, t, u \in Seq(Item) : (s \o t) \o u = s \o (t \o u)
    /\ \A s \in Seq(Item) : s \o << >> = s /\ << >> \o s = s
    /\ \A s \in Seq(Item), x \in Item : Append(s, x) \in Seq(Item)
<1>1. << >> \in Seq(Item)
  BY EmptySeq
<1>2. ASSUME NEW s \in Seq(AnyByte) PROVE s \in Seq(Item)
  BY ByteIsItem, SeqMonotonic
<1>3. ASSUME NEW s \in Seq(Item), NEW t \in Seq(Item) PROVE s \o t \in Seq(Item)
  BY ConcatProperties
<1>4. ASSUME NEW s \in Seq(Item), NEW t \in Seq(Item), NEW u \in Seq(Item)
      PROVE  (s \o t) \o u = s \o (t \o u)
  BY ConcatAssociative
<1>5. ASSUME NEW s \in Seq(Item) PROVE s \o << >> = s /\ << >> \o s = s
  BY ConcatEmptySeq
<1>6. ASSUME NEW s \in Seq(Item), NEW x \in Item PROVE Append(s, x) \in Seq(Item)
  BY AppendProperties
<1> QED
  BY <1>1, <1>2, <1>3, <1>4, <1>5, <1>6

LEMMA ItemAssoc == \A s, t, u \in Seq(Item) : (s \o t) \o u = s \o (t \o u)
  BY ONLY ItemSeq

LEMMA ByteSeq ==
    /\ << >> \in Seq(AnyByte)
    /\ \A s, t \in Seq(AnyByte) : s \o t \in Seq(AnyByte)
<1>1. << >> \in Seq(AnyByte)
  BY EmptySeq
<1>2. ASSUME NEW s \in Seq(AnyByte), NEW t \in Seq(AnyByte) PROVE s \o t \in Seq(AnyByte)
  BY ConcatProperties
<1> QED
  BY <1>1, <1>2

\* The bytes of what travels.
LEMMA DataFacts ==
    /\ \A s \in Seq(Item) : Data(s) \in Seq(Item)
    /\ \A s, t \in Seq(Item) : Data(s \o t) = Data(s) \o Data(t)
    /\ \A s \in Seq(AnyByte) : Data(s) = s
    /\ \A s \in Seq(Item), x \in Item : x \notin AnyByte => Data(Append(s, x)) = Data(s)
    /\ Data(<< >>) = << >>
<1> USE DEF Data, AnyByte
<1>1. ASSUME NEW s \in Seq(Item) PROVE Data(s) \in Seq(Item)
  BY KeepFacts
<1>2. ASSUME NEW s \in Seq(Item), NEW t \in Seq(Item) PROVE Data(s \o t) = Data(s) \o Data(t)
  BY KeepConcat
<1>3. ASSUME NEW s \in Seq(AnyByte) PROVE Data(s) = s
  BY KeepAll
<1>4. ASSUME NEW s \in Seq(Item), NEW x \in Item, x \notin AnyByte PROVE Data(Append(s, x)) = Data(s)
  <2> DEFINE one == <<x>>
  <2>1. one \in Seq(Item) /\ Append(s, x) = s \o one
    BY AppendIsConcat
  <2>2. Keep(one, AnyByte) = << >>
    BY <1>4, KeepOne
  <2> HIDE DEF one
  <2>3. Data(s \o one) = Data(s) \o Data(one)
    BY <2>1, KeepConcat
  <2>4. Data(one) = << >>
    BY <2>2
  <2> HIDE DEF Data
  <2> QED
    BY <1>1, <2>1, <2>3, <2>4, ItemSeq
<1>5. Data(<< >>) = << >>
  <2>1. << >> \in Seq(AnyByte)
    BY EmptySeq
  <2> QED
    BY <2>1, <1>3
<1> QED
  BY <1>1, <1>2, <1>3, <1>4, <1>5

LEMMA StartsFacts ==
    /\ \A s \in Seq(Item) : Starts(s, s)
    /\ \A s, t, u \in Seq(Item) : Starts(s, t) /\ Starts(t, u) => Starts(s, u)
    /\ \A s, t, u \in Seq(Item) : Starts(s, t) => Starts(u \o s, u \o t) /\ Starts(s, t \o u)
    /\ \A s \in Seq(Item) : Starts(<< >>, s)
<1>1. ASSUME NEW s \in Seq(Item) PROVE Starts(s, s) /\ Starts(<< >>, s)
  BY ItemSeq DEF Starts
<1>2. ASSUME NEW s \in Seq(Item), NEW t \in Seq(Item), NEW u \in Seq(Item), Starts(s, t), Starts(t, u)
      PROVE  Starts(s, u)
  <2>1. PICK a \in Seq(Item) : t = s \o a
    BY <1>2 DEF Starts
  <2>2. PICK b \in Seq(Item) : u = t \o b
    BY <1>2 DEF Starts
  <2>3. u = s \o (a \o b) /\ a \o b \in Seq(Item)
    BY <2>1, <2>2, ItemSeq
  <2> QED
    BY <2>3 DEF Starts
<1>3. ASSUME NEW s \in Seq(Item), NEW t \in Seq(Item), NEW u \in Seq(Item), Starts(s, t)
      PROVE  Starts(u \o s, u \o t) /\ Starts(s, t \o u)
  <2>1. PICK a \in Seq(Item) : t = s \o a
    BY <1>3 DEF Starts
  <2>2. u \o t = (u \o s) \o a /\ t \o u = s \o (a \o u) /\ a \o u \in Seq(Item)
    BY <2>1, ItemSeq, SMTT(30)
  <2> QED
    BY <2>2 DEF Starts
<1> QED
  BY <1>1, <1>2, <1>3

\* The first bytes of a list are a prefix of it.
LEMMA StartsIsPrefix ==
    ASSUME NEW s \in Seq(Item), NEW t \in Seq(Item), Starts(s, t)
    PROVE  IsPrefix(s, t)
<1>1. PICK r \in Seq(Item) : t = s \o r
  BY DEF Starts
<1>2. /\ Len(s) \in Nat /\ Len(r) \in Nat /\ Len(t) = Len(s) + Len(r)
      /\ \A i \in 1..Len(s) : t[i] = s[i] /\ s[i] \in Item
  <2>1. Len(s) \in Nat /\ Len(r) \in Nat
    BY LenProperties
  <2>2. /\ Len(t) = Len(s) + Len(r)
        /\ \A i \in 1..Len(s) + Len(r) : t[i] = IF i <= Len(s) THEN s[i] ELSE r[i - Len(s)]
    BY <1>1, ConcatProperties
  <2>3. \A i \in 1..Len(s) : s[i] \in Item /\ i \in 1..Len(s) + Len(r) /\ i <= Len(s)
    BY <2>1, ElementOfSeq
  <2> QED
    BY <2>1, <2>2, <2>3
<1>3. SubSeq(s, 1, Len(s)) = s
  BY SubSeqFull
<1>4. SubSeq(t, 1, Len(s)) = s
  <2> DEFINE u == SubSeq(t, 1, Len(s))
  <2>1. \A i \in 1..Len(s) : t[i] \in Item
    BY <1>2
  <2>2. /\ u \in Seq(Item) /\ Len(u) = IF 1 <= Len(s) THEN Len(s) - 1 + 1 ELSE 0
        /\ \A i \in 1..Len(s) - 1 + 1 : u[i] = t[1 + i - 1]
    BY <1>2, <2>1, SubSeqProperties
  <2> HIDE DEF u
  <2>3. Len(u) = Len(s) /\ \A i \in 1..Len(s) : u[i] = s[i]
    BY <1>2, <2>2
  <2>4. u = s
    BY <2>2, <2>3, SeqEqual
  <2> QED
    BY <2>4 DEF u
<1> QED
  BY <1>2, <1>3, <1>4 DEF IsPrefix

LEMMA HeldIs == ASSUME NEW w \in Record, NEW c \in Clients
                PROVE  /\ Held(w, c) \in Seq(Item) /\ w.toProc[c] \in Seq(Item)
                       /\ w.sk[c].q \in Seq(Item) /\ c \in Locals
                       /\ Data(w.toProc[c]) \in Seq(Item) /\ Data(w.sk[c].q) \in Seq(Item)
<1>1. c \in Locals /\ w.toProc \in [Locals -> Seq(Item)] /\ w.sk \in [Locals -> Socket]
  BY DEF Locals, Record
<1>2. w.toProc[c] \in Seq(Item) /\ w.sk[c].q \in Seq(Item)
  BY <1>1 DEF Socket
<1>3. Data(w.toProc[c]) \in Seq(Item) /\ Data(w.sk[c].q) \in Seq(Item)
  BY <1>2, DataFacts
<1> QED
  BY <1>1, <1>2, <1>3, ItemSeq DEF Held

LEMMA HoldsTrans ==
    ASSUME NEW w \in Record, NEW v \in Record, NEW u \in Record, NEW c \in Clients,
           Holds(w, v, c), Holds(v, u, c), u.sk[c].on \in {"absent", "list"} => v.sk[c].on \in {"absent", "list"}
    PROVE  Holds(w, u, c)
<1>1. Held(w, c) \in Seq(Item) /\ Held(v, c) \in Seq(Item) /\ Held(u, c) \in Seq(Item)
  BY HeldIs
<1>2. Starts(Held(u, c), Held(w, c))
  BY <1>1, StartsFacts DEF Holds
<1> QED
  BY <1>2 DEF Holds

\* A call that is safe puts no socket back on the list.
LEMMA SafeOn ==
    ASSUME NEW w, NEW v, Good(w), Safe(w, v), NEW c \in Clients
    PROVE  /\ v.sk[c].on \in {"absent", "list"} => w.sk[c].on \in {"absent", "list"}
           /\ v.sk[c].on = "absent" => w.sk[c].on = "absent"
<1>1. c \in Locals /\ SockOK(c, w.sk[c])
  BY DEF Good, SkOK, Locals
<1>2. v.sk[c].on = "absent" => w.sk[c].on = "absent"
  BY <1>1 DEF Safe, Calm
<1>3. v.sk[c].on = "list" => w.sk[c].on = "list" \/ w.sk[c].peer = Smart
  BY DEF Safe, Calm, Quiet, Opened
<1>4. w.sk[c].peer = Smart => w.sk[c].on = "list"
  BY <1>1, Distinct DEF SockOK
<1> QED
  BY <1>2, <1>3, <1>4

LEMMA SafeHolds ==
    ASSUME NEW w, NEW v, NEW u, Good(w), Safe(w, v), Safe(v, u), NEW c \in Clients,
           Holds(w, v, c), Holds(v, u, c)
    PROVE  Holds(w, u, c)
<1>1. Good(v) /\ Good(u)
  BY DEF Safe
<1>2. w \in Record /\ v \in Record /\ u \in Record
  BY <1>1 DEF Good
<1>3. u.sk[c].on \in {"absent", "list"} => v.sk[c].on \in {"absent", "list"}
  BY <1>1, SafeOn
<1> QED
  BY <1>2, <1>3, HoldsTrans

\* What a call does that writes statuses at most, and keeps the backlog.
LEMMA HoldsSame ==
    ASSUME NEW w \in Record, NEW v, NEW c \in Clients,
           Data(v.toProc[c]) = Data(w.toProc[c]), v.sk[c].q = w.sk[c].q
    PROVE  Holds(w, v, c)
<1>1. Held(v, c) = Held(w, c)
  BY DEF Held
<1> QED
  BY <1>1, HeldIs, StartsFacts DEF Holds

Told(w, v) == \A c \in Clients : Data(v.toProc[c]) = Data(w.toProc[c])

LEMMA FewerHolds ==
    ASSUME NEW w, NEW v, Good(w), Safe(w, v), Fewer(w, v), Told(w, v), NEW c \in Clients
    PROVE  Holds(w, v, c)
<1>1. /\ c \in Locals /\ w \in Record /\ v \in Record /\ SockOK(c, w.sk[c]) /\ SockOK(c, v.sk[c])
      /\ Data(v.toProc[c]) = Data(w.toProc[c])
  BY DEF Safe, Good, SkOK, Told, Locals
<1>2. CASE v.sk[c].q = w.sk[c].q
  BY <1>1, <1>2, HoldsSame
<1>3. CASE v.sk[c].q # w.sk[c].q
  <2>1. v.sk[c].on # "list" /\ v.sk[c].q = << >>
    BY <1>1, <1>3 DEF Fewer, Alike
  <2>2. v.sk[c].on # "absent"
    <3>1. v.sk[c].on = "absent" => w.sk[c].on = "absent"
      BY SafeOn
    <3>2. w.sk[c].on = "absent" => w.sk[c].q = << >>
      BY <1>1 DEF SockOK, Blank
    <3> QED
      BY <1>3, <2>1, <3>1, <3>2
  <2>3. Starts(Held(v, c), Held(w, c))
    <3> DEFINE p == Data(w.toProc[c])
               q == Data(w.sk[c].q)
    <3>1. p \in Seq(Item) /\ q \in Seq(Item) /\ << >> \in Seq(Item)
      BY <1>1, HeldIs, ItemSeq
    <3>2. Held(v, c) = p \o << >> /\ Held(w, c) = p \o q
      BY <1>1, <2>1, DataFacts DEF Held
    <3> HIDE DEF p, q
    <3>3. Starts(<< >>, q)
      BY <3>1, StartsFacts
    <3> QED
      BY <3>1, <3>2, <3>3, StartsFacts
  <2>4. v.sk[c].q \in Seq(AnyByte)
    BY <2>1, ByteSeq
  <2> QED
    BY <2>1, <2>2, <2>3, <2>4 DEF Holds
<1> QED
  BY <1>2, <1>3

LEMMA TellTold ==
    ASSUME NEW w \in Record, NEW l \in Locals, NEW status \in {"OKAY", "FAIL"}
    PROVE  Told(w, Tell(w, l, status))
<1> SUFFICES ASSUME NEW c \in Clients
             PROVE  Data(Tell(w, l, status).toProc[c]) = Data(w.toProc[c])
  BY DEF Told
<1>1. w.toProc \in [Locals -> Seq(Item)] /\ c \in Locals /\ w.toProc[c] \in Seq(Item)
  BY DEF Record, Locals
<1>2. Word(status) \in Item /\ Word(status) \notin AnyByte
  BY DEF Word, Item, AnyByte
<1>3. \/ Tell(w, l, status).toProc[c] = w.toProc[c]
      \/ Tell(w, l, status).toProc[c] = Append(w.toProc[c], Word(status))
  <2>1. CASE l \in gone
    BY <2>1 DEF Tell
  <2>2. CASE l \notin gone
    <3> DEFINE t == [w.toProc EXCEPT ![l] = Append(@, Word(status))]
    <3>1. Tell(w, l, status).toProc = t
      BY <2>2 DEF Tell, Record
    <3>2. t[c] = w.toProc[c] \/ t[c] = Append(w.toProc[c], Word(status))
      BY <1>1
    <3> QED
      BY <3>1, <3>2
  <2> QED
    BY <2>1, <2>2
<1> HIDE DEF Tell
<1> QED
  BY <1>1, <1>2, <1>3, DataFacts

LEMMA NotifiedTold ==
    ASSUME NEW w \in Record, NEW l \in Locals, NEW status \in {"OKAY", "FAIL"}
    PROVE  Told(w, Notified(w, l, status))
<1> DEFINE x == [w EXCEPT !.sk[l].notify = FALSE]
<1>1. x \in Record /\ x.toProc = w.toProc
  <2>1. Hush(w.sk[l]) \in Socket
    BY HushOK DEF Record
  <2>2. x = [w EXCEPT !.sk = [w.sk EXCEPT ![l] = Hush(w.sk[l])]]
    BY DEF Hush
  <2>3. [w.sk EXCEPT ![l] = Hush(w.sk[l])] \in [Locals -> Socket]
    BY <2>1 DEF Record
  <2> QED
    BY <2>2, <2>3 DEF Record
<1>2. Notified(w, l, status) = IF w.sk[l].notify THEN Tell(x, l, status) ELSE w
  BY DEF Notified
<1> HIDE DEF x
<1>3. Told(x, Tell(x, l, status))
  BY <1>1, TellTold
<1> QED
  BY <1>1, <1>2, <1>3 DEF Told

\* s->close(s) drops the backlog of its socket, and of its peer, at most.
LEMMA CloseHolds ==
    ASSUME NEW w, Good(w), NEW l \in Locals, w.sk[l].on \in {"list", "closing"}, NEW c \in Clients
    PROVE  Holds(w, Close(w, l), c)
<1> DEFINE x == Notified(w, l, "FAIL")
<1>1. /\ Safe(w, x) /\ Told(w, x) /\ x.sk[l].on = w.sk[l].on
  BY NotifiedOK, NotifiedTold DEF Good
<1>2. Close(w, l) = CloseLocked(x, l)
  BY DEF Close, Notified
<1> HIDE DEF x
<1>3. Good(x)
  BY <1>1 DEF Safe
<1>4. CloseLocked(x, l).toProc = x.toProc
  BY <1>1, <1>3, CloseLockedOK
<1>5. Told(w, Close(w, l))
  BY <1>1, <1>2, <1>4 DEF Told
<1>6. Safe(w, Close(w, l)) /\ Fewer(w, Close(w, l))
  BY CloseOK
<1> QED
  BY <1>5, <1>6, FewerHolds

\* s->ready(s).
LEMMA ReadyHolds ==
    ASSUME NEW w, Good(w), NEW l \in Locals, w.sk[l].on = "list", NEW c \in Clients
    PROVE  Holds(w, Ready(w, l), c)
<1> DEFINE x == Notified(w, l, "OKAY")
<1>1. Told(w, x) /\ w \in Record /\ c \in Locals
  BY NotifiedTold DEF Good, Locals
<1>2. Ready(w, l) = [x EXCEPT !.sk[l] = FdeAdd(@, "R")]
  BY DEF Ready, Notified
<1>3. x \in Record
  BY NotifiedOK DEF Safe, Good
<1> HIDE DEF x
<1>4. Ready(w, l).toProc = x.toProc
  BY <1>2, <1>3 DEF Record
<1>5. Ready(w, l).sk[c].q = w.sk[c].q
  BY <1>1, ReadyOK DEF Awake
<1> HIDE DEF Ready
<1> QED
  BY <1>1, <1>4, <1>5, HoldsSame DEF Told

\* A call puts bytes after those that are held for client c, or loses them with its socket.
Gets(w, v, c, bytes) ==
    /\ Starts(Held(v, c), Held(w, c) \o Data(bytes))
    /\ v.sk[c].on \in {"absent", "list"} => Held(v, c) = Held(w, c) \o Data(bytes)
    /\ w.sk[c].q \in Seq(AnyByte) /\ bytes \in Seq(AnyByte) => v.sk[c].q \in Seq(AnyByte)

\* What fits is written, and only when there is no backlog; the rest goes to the backlog.
Swapped(p, q, s, r) == (p \o s) \o (q \o r) = (p \o q) \o (s \o r)
Parted(p, q, some, rest) ==
    Data(p \o some) \o Data(q \o rest) = (Data(p) \o Data(q)) \o Data(some \o rest)

LEMMA Parts ==
    \A p, q, some, rest \in Seq(Item) : q = << >> \/ some = << >> => Parted(p, q, some, rest)
<1>1. ASSUME NEW P \in Seq(Item), NEW Q \in Seq(Item), NEW S \in Seq(Item), NEW R \in Seq(Item),
             Q = << >> \/ S = << >>
      PROVE  Swapped(P, Q, S, R)
  <2>1. CASE Q = << >>
    <3>1. Q \o R = R /\ P \o Q = P /\ S \o R \in Seq(Item)
      BY <2>1, ItemSeq
    <3>2. (P \o S) \o R = P \o (S \o R)
      BY ItemSeq, SMTT(30)
    <3> QED
      BY <3>1, <3>2 DEF Swapped
  <2>2. CASE S = << >>
    <3>1. S \o R = R /\ P \o S = P
      BY <2>2, ItemSeq
    <3>2. (P \o Q) \o R = P \o (Q \o R)
      BY ItemSeq
    <3> QED
      BY <3>1, <3>2 DEF Swapped
  <2> QED
    BY <1>1, <2>1, <2>2
<1>2. ASSUME NEW p \in Seq(Item), NEW q \in Seq(Item), NEW some \in Seq(Item),
             NEW rest \in Seq(Item), q = << >> \/ some = << >>
      PROVE  Parted(p, q, some, rest)
  <2>1. /\ Data(p) \in Seq(Item) /\ Data(q) \in Seq(Item) /\ Data(some) \in Seq(Item)
        /\ Data(rest) \in Seq(Item) /\ (Data(q) = << >> \/ Data(some) = << >>)
    BY <1>2, DataFacts
  <2>2. /\ Data(p \o some) = Data(p) \o Data(some) /\ Data(q \o rest) = Data(q) \o Data(rest)
        /\ Data(some \o rest) = Data(some) \o Data(rest)
    BY DataFacts
  <2>3. Swapped(Data(p), Data(q), Data(some), Data(rest))
    BY <1>1, <2>1
  <2> QED
    BY <2>2, <2>3 DEF Swapped, Parted
<1> QED
  BY <1>2

LEMMA AddedGets ==
    ASSUME NEW w \in Record, NEW v, NEW c \in Clients, NEW some \in Seq(Item), NEW rest \in Seq(Item),
           v.toProc[c] = w.toProc[c] \o some, v.sk[c].q = w.sk[c].q \o rest,
           w.sk[c].q = << >> \/ some = << >>, NEW bytes, bytes = some \o rest,
           bytes \in Seq(AnyByte) => rest \in Seq(AnyByte)
    PROVE  Gets(w, v, c, bytes)
<1>1. /\ w.toProc[c] \in Seq(Item) /\ w.sk[c].q \in Seq(Item) /\ Held(w, c) \in Seq(Item)
      /\ Data(bytes) \in Seq(Item)
  <2>1. bytes \in Seq(Item)
    BY ItemSeq
  <2> QED
    BY <2>1, HeldIs, DataFacts
<1>2. Held(v, c) = Held(w, c) \o Data(bytes)
  <2>1. PICK p, q \in Seq(Item) : p = w.toProc[c] /\ q = w.sk[c].q
    BY <1>1
  <2>2. Held(v, c) = Data(p \o some) \o Data(q \o rest) /\ Held(w, c) = Data(p) \o Data(q)
    BY <2>1 DEF Held
  <2>3. Parted(p, q, some, rest)
    BY <2>1, Parts
  <2> QED
    BY <2>2, <2>3 DEF Parted
<1>3. w.sk[c].q \in Seq(AnyByte) /\ bytes \in Seq(AnyByte) => v.sk[c].q \in Seq(AnyByte)
  BY ByteSeq
<1>4. Held(w, c) \o Data(bytes) \in Seq(Item)
  BY <1>1, ItemSeq
<1> QED
  BY <1>2, <1>3, <1>4, StartsFacts DEF Gets

\* A socket that is closed leaves the list.
LEMMA CloseLeaves ==
    ASSUME NEW w, Good(w), NEW l \in Locals, w.sk[l].on \in {"list", "closing"}
    PROVE  Close(w, l).sk[l].on \in {"freed", "closing"}
<1>1. w.sk[l] \in Socket /\ SockOK(l, w.sk[l])
  BY DEF Good, SkOK, Record
<1>2. Hush(w.sk[l]) \in Socket /\ SockOK(l, Hush(w.sk[l])) /\ Hush(w.sk[l]).on = w.sk[l].on
  BY <1>1, HushOK
<1>3. Done(Hush(w.sk[l])).on \in {"freed", "closing"}
  BY <1>2, DoneOK DEF SockOK
<1> QED
  BY <1>3, CloseOK

\* local_socket_enqueue, with what it does for the client of the socket, and for the others.
LEMMA EnqueueGets ==
    ASSUME NEW w, Good(w), NEW l \in Locals, w.sk[l].on = "list", NEW bytes \in Seq(Item), NEW c \in Clients
    PROVE  /\ c = l => Gets(w, Enqueue(w, l, bytes).w, c, bytes)
           /\ c # l => Holds(w, Enqueue(w, l, bytes).w, c)
<1> DEFINE n == IF w.sk[l].q = << >> THEN Fits(w, l, bytes) ELSE 0
           rest == SubSeq(bytes, n + 1, Len(bytes))
           some == SubSeq(bytes, 1, n)
           x == [w EXCEPT !.toProc[l] = @ \o some]
           e == Enqueue(w, l, bytes)
<1>0. /\ w \in Record /\ w.sk \in [Locals -> Socket] /\ w.sk[l] \in Socket /\ c \in Locals
      /\ SockOK(l, w.sk[l]) /\ w.sk[l].q \in Seq(Item) /\ w.toProc \in [Locals -> Seq(Item)]
  BY DEF Good, SkOK, Record, Socket, Locals
<1>1. e = IF w.sk[l].q = << >> /\ l \in gone
            THEN [w |-> Close(w, l), r |-> 1]
            ELSE IF rest = << >> THEN [w |-> x, r |-> 0]
                 ELSE [w |-> [x EXCEPT !.sk = [x.sk EXCEPT ![l] =
                                FdeAdd([x.sk[l] EXCEPT !.q = w.sk[l].q \o rest], "W")]], r |-> 1]
  BY DEF Enqueue
<1>2. n \in 0..Len(bytes)
  BY <1>0, FitsOK, LenProperties
<1>3. w.sk[l].q = << >> \/ n = 0
  OBVIOUS
<1> HIDE DEF n, e
<1>4. /\ some \in Seq(Item) /\ rest \in Seq(Item) /\ bytes = some \o rest
      /\ w.sk[l].q = << >> \/ some = << >>
      /\ bytes \in Seq(AnyByte) => rest \in Seq(AnyByte)
  <2>1. some \in Seq(Item) /\ rest \in Seq(Item) /\ bytes = some \o rest
    BY <1>2, SplitWhole
  <2>2. n = 0 => some = << >>
    BY <1>2, <2>1, Split, EmptySeq
  <2>3. bytes \in Seq(AnyByte) => rest \in Seq(AnyByte)
    BY <1>2, SplitWhole
  <2> QED
    BY <1>3, <2>1, <2>2, <2>3
<1> HIDE DEF some, rest
<1>5. x \in Record
  BY <1>0, <1>4, WriteIs
<1>6. x.sk = w.sk /\ x.toProc = [w.toProc EXCEPT ![l] = @ \o some]
  BY <1>0 DEF Record
<1> HIDE DEF x
<1>7. CASE w.sk[l].q = << >> /\ l \in gone
  <2> DEFINE v == Close(w, l)
  <2>1. e.w = v
    BY <1>1, <1>7
  <2>2. Holds(w, v, c)
    BY CloseHolds
  <2>3. v.sk[l].on \in {"freed", "closing"}
    BY CloseLeaves
  <2>4. v \in Record
    BY CloseOK DEF Safe, Good
  <2> HIDE DEF v
  <2>5. ASSUME c = l PROVE Gets(w, v, c, bytes)
    <3>1. Held(w, c) \in Seq(Item) /\ Held(v, c) \in Seq(Item) /\ Data(bytes) \in Seq(Item)
      BY <1>0, <2>4, HeldIs, DataFacts
    <3>2. Starts(Held(v, c), Held(w, c) \o Data(bytes))
      BY <2>2, <3>1, StartsFacts DEF Holds
    <3> QED
      BY <2>2, <2>3, <2>5, <3>2 DEF Holds, Gets
  <2> QED
    BY <2>1, <2>2, <2>5 DEF e
<1>8. CASE ~(w.sk[l].q = << >> /\ l \in gone)
  <2>1. /\ e.w.toProc = x.toProc
        /\ \A m \in Locals : m # l => e.w.sk[m] = w.sk[m]
        /\ e.w.sk[l].q = w.sk[l].q \o rest
    <3>1. CASE rest = << >>
      <4>1. e.w = x
        BY <1>1, <1>8, <3>1
      <4>2. w.sk[l].q \o rest = w.sk[l].q
        BY <1>0, <3>1, ItemSeq
      <4> QED
        BY <1>6, <4>1, <4>2
    <3>2. CASE rest # << >>
      <4> DEFINE q == w.sk[l].q \o rest
                 s == [w.sk[l] EXCEPT !.q = q]
                 r == FdeAdd(s, "W")
      <4>1. e.w = [x EXCEPT !.sk = [w.sk EXCEPT ![l] = r]]
        BY <1>1, <1>6, <1>8, <3>2
      <4>2. s \in Socket /\ s.q = q
        <5>1. q \in Seq(Item)
          BY <1>0, <1>4, ItemSeq
        <5> HIDE DEF q
        <5> QED
          BY <1>0, <5>1 DEF Socket
      <4> HIDE DEF s, q
      <4>3. r.q = s.q
        BY <4>2 DEF FdeAdd, FdeSet, Socket
      <4> HIDE DEF r
      <4>4. r.q = q
        BY <4>2, <4>3
      <4>5. e.w.toProc = x.toProc /\ e.w.sk = [w.sk EXCEPT ![l] = r]
        BY <1>5, <4>1 DEF Record
      <4> QED
        BY <1>0, <4>4, <4>5 DEF q
    <3> QED
      BY <3>1, <3>2
  <2>2. ASSUME c = l PROVE Gets(w, e.w, c, bytes)
    <3>1. e.w.toProc[c] = w.toProc[c] \o some
      BY <1>0, <1>6, <2>1, <2>2
    <3> QED
      BY <1>0, <1>4, <2>1, <2>2, <3>1, AddedGets
  <2>3. ASSUME c # l PROVE Holds(w, e.w, c)
    <3>1. e.w.toProc[c] = w.toProc[c] /\ e.w.sk[c].q = w.sk[c].q
      BY <1>0, <1>6, <2>1, <2>3
    <3> QED
      BY <1>0, <3>1, HoldsSame
  <2> QED
    BY <2>2, <2>3 DEF e
<1> QED
  BY <1>7, <1>8

(* What the smart socket holds for the clients *)

\* A call writes statuses at most, and no backlog changes.
Intact(w, v) == Told(w, v) /\ \A c \in Clients : v.sk[c].q = w.sk[c].q

LEMMA IntactHolds ==
    ASSUME NEW w \in Record, NEW v, Intact(w, v), NEW c \in Clients
    PROVE  Holds(w, v, c)
BY HoldsSame DEF Intact, Told

LEMMA IntactTrans ==
    ASSUME NEW w, NEW v, NEW u, Intact(w, v), Intact(v, u)
    PROVE  Intact(w, u)
BY DEF Intact, Told

\* One socket changes and keeps its backlog.
LEMMA IntactOne ==
    ASSUME NEW w \in Record, NEW v, NEW l \in Locals, NEW r, v.sk = [w.sk EXCEPT ![l] = r],
           r.q = w.sk[l].q, v.toProc = w.toProc
    PROVE  Intact(w, v)
<1>1. w.sk \in [Locals -> Socket]
  BY DEF Record
<1>2. \A c \in Clients : c \in Locals /\ v.sk[c].q = w.sk[c].q
  BY <1>1 DEF Locals
<1> QED
  BY <1>2 DEF Intact, Told

LEMMA IntactTell ==
    ASSUME NEW w \in Record, NEW l \in Locals, NEW status \in {"OKAY", "FAIL"}
    PROVE  Intact(w, Tell(w, l, status)) /\ Tell(w, l, status).sk = w.sk
<1> DEFINE x == Tell(w, l, status)
<1>1. x \in Record /\ x = [w EXCEPT !.toProc = x.toProc]
  BY TellIs
<1>2. Told(w, x)
  BY TellTold
<1> HIDE DEF x
<1>3. x.sk = w.sk
  BY <1>1 DEF Record
<1> QED
  BY <1>2, <1>3 DEF Intact, x

\* A socket without a local or remote peer is closed.
LEMMA LoneTold ==
    ASSUME NEW w \in Record, NEW l \in Locals, w.sk[l].peer \notin Locals \cup {Remote}
    PROVE  Told(w, Close(w, l))
<1> DEFINE x == Notified(w, l, "FAIL")
<1>1. Hushed(w, x, l) /\ Told(w, x)
  BY NotifiedIs, NotifiedTold
<1>2. Close(w, l) = CloseLocked(x, l)
  BY DEF Close, Notified
<1> HIDE DEF x
<1>3. x \in Record /\ x.sk[l].peer = w.sk[l].peer
  BY <1>1, HushOK DEF Hushed, Record
<1>4. CloseLocked(x, l) = [x EXCEPT !.sk[l] = Done(x.sk[l])]
  BY <1>3, FinishIs DEF CloseLocked
<1>5. CloseLocked(x, l).toProc = x.toProc
  BY <1>3, <1>4 DEF Record
<1> QED
  BY <1>1, <1>2, <1>5 DEF Told

LEMMA SmartFailIntact ==
    ASSUME NEW w, Good(w), NEW l \in Locals, w.sk[l].peer = Smart
    PROVE  Intact(w, SmartFail(w, l).w)
<1> DEFINE s == [w.sk[l] EXCEPT !.peer = None]
           x == [w EXCEPT !.sk = [w.sk EXCEPT ![l] = s]]
           v == Close(x, l)
<1>0. /\ w \in Record /\ w.sk \in [Locals -> Socket] /\ w.sk[l] \in Socket
      /\ w.sk[l].on = "list" /\ w.sk[l].q = << >> /\ "W" \notin w.sk[l].want
      /\ "W" \notin w.sk[l].pend
  BY SmartIs
<1>1. /\ s \in Socket /\ s.on = "list" /\ s.peer = None /\ s.q = << >>
      /\ "W" \notin s.want /\ "W" \notin s.pend
  BY <1>0 DEF Socket
<1>2. SmartFail(w, l).w = v
  BY DEF SmartFail
<1> HIDE DEF s
<1>3. x \in Record /\ x.sk = [w.sk EXCEPT ![l] = s] /\ x.toProc = w.toProc
  BY <1>0, <1>1 DEF Record
<1>4. x.sk[l] = s
  BY <1>0, <1>3
<1> HIDE DEF x
<1>5. x.sk[l].peer \notin Locals \cup {Remote}
  BY <1>1, <1>4, Distinct
<1>6. Closed(x, v, l)
  BY <1>1, <1>3, <1>4, <1>5, CloseAlone
<1>7. Told(x, v)
  BY <1>3, <1>5, LoneTold
<1>8. Done(Hush(s)).q = << >>
  <2>1. /\ Hush(s) \in Socket /\ Hush(s).on = s.on /\ Hush(s).q = s.q
        /\ Hush(s).want = s.want /\ Hush(s).pend = s.pend
    BY <1>1, HushOK
  <2>2. Done(Hush(s)).q \in {Hush(s).q, << >>}
    BY <1>1, <2>1, DoneOK
  <2> QED
    BY <1>1, <2>1, <2>2
<1> HIDE DEF v
<1>9. \A c \in Clients : v.sk[c].q = w.sk[c].q
  <2>1. \A c \in Clients : c \in Locals
    BY DEF Locals
  <2>2. v.sk = [x.sk EXCEPT ![l] = Done(Hush(s))]
    BY <1>4, <1>6 DEF Closed
  <2> QED
    BY <1>0, <1>1, <1>3, <1>8, <2>1, <2>2 DEF Record
<1> QED
  BY <1>2, <1>3, <1>7, <1>9 DEF Intact, Told

LEMMA TellFailIntact ==
    ASSUME NEW w, Good(w), NEW l \in Locals, w.sk[l].peer = Smart, NEW status \in {"OKAY", "FAIL"}
    PROVE  Intact(w, SmartFail(Tell(w, l, status), l).w)
<1> DEFINE x == Tell(w, l, status)
<1>0. w \in Record
  BY DEF Good
<1>1. x \in Record /\ x = [w EXCEPT !.toProc = x.toProc] /\ Intact(w, x)
  BY <1>0, TellIs, IntactTell
<1> HIDE DEF x
<1>2. x.sk = w.sk /\ x.disc = w.disc /\ x.h2d = w.h2d /\ x.bad = w.bad
  BY <1>0, <1>1 DEF Record
<1>3. Safe(w, x)
  BY <1>1, <1>2, Written
<1>4. Intact(x, SmartFail(x, l).w)
  BY <1>2, <1>3, SmartFailIntact DEF Safe
<1> QED
  BY <1>1, <1>4, IntactTrans DEF x

LEMMA SmartOpenIntact ==
    ASSUME NEW w, Good(w), NEW l \in Locals, w.sk[l].peer = Smart
    PROVE  Intact(w, SmartOpen(w, l).w)
<1>1. CASE ~(w.sk[l].smartTrans /\ tr = "on")
  BY <1>1, TellFailIntact DEF SmartOpen
<1>2. CASE w.sk[l].smartTrans /\ tr = "on"
  <2> DEFINE s == [w.sk[l] EXCEPT !.notify = TRUE, !.peer = None, !.trans = TRUE, !.req = << >>,
                                  !.smartTrans = FALSE]
             x == [w EXCEPT !.sk = [w.sk EXCEPT ![l] = s]]
             v == Send(x, "OPEN", l, << >>)
  <2>0. w \in Record /\ w.sk \in [Locals -> Socket] /\ w.sk[l] \in Socket
    BY SmartIs
  <2>1. SmartOpen(w, l).w = v
    BY <1>2 DEF SmartOpen
  <2>2. s \in Socket /\ s.q = w.sk[l].q
    <3>1. << >> \in Seq(Item)
      BY EmptySeq
    <3> QED
      BY <2>0, <3>1, Distinct DEF Socket
  <2> HIDE DEF s
  <2>3. x \in Record /\ x.sk = [w.sk EXCEPT ![l] = s] /\ x.toProc = w.toProc
    BY <2>0, <2>2 DEF Record
  <2> HIDE DEF x
  <2>4. v.sk = x.sk /\ v.toProc = x.toProc
    BY <2>3 DEF Send, Record
  <2> QED
    BY <2>0, <2>1, <2>2, <2>3, <2>4, IntactOne
<1> QED
  BY <1>1, <1>2

LEMMA SmartTransportIntact ==
    ASSUME NEW w, Good(w), NEW l \in Locals, w.sk[l].peer = Smart
    PROVE  Intact(w, SmartTransport(w, l).w)
<1>0. w \in Record /\ w.sk \in [Locals -> Socket] /\ w.sk[l] \in Socket
  BY SmartIs
<1>1. PICK status \in {"OKAY", "FAIL"} : \E r :
        SmartTransport(w, l).w = [Tell(w, l, status) EXCEPT !.sk[l] = r] /\ r.q = w.sk[l].q
  <2>1. CASE tr = "on"
    <3> DEFINE x == Tell(w, l, "OKAY")
               r == [w.sk[l] EXCEPT !.smartTrans = TRUE, !.req = << >>]
    <3>1. SmartTransport(w, l).w = [x EXCEPT !.sk[l] = [@ EXCEPT !.smartTrans = TRUE, !.req = << >>]]
      BY <2>1 DEF SmartTransport
    <3>2. x.sk = w.sk
      BY <1>0, IntactTell
    <3> HIDE DEF x
    <3>3. SmartTransport(w, l).w = [x EXCEPT !.sk[l] = r]
      BY <3>1, <3>2
    <3>4. r.q = w.sk[l].q
      BY <1>0 DEF Socket
    <3> HIDE DEF r
    <3> QED
      BY <3>3, <3>4 DEF x
  <2>2. CASE tr # "on"
    <3> DEFINE x == Tell(w, l, "FAIL")
               r == [w.sk[l] EXCEPT !.req = << >>]
    <3>1. SmartTransport(w, l).w = [x EXCEPT !.sk[l].req = << >>]
      BY <2>2 DEF SmartTransport
    <3>2. x.sk = w.sk
      BY <1>0, IntactTell
    <3> HIDE DEF x
    <3>3. SmartTransport(w, l).w = [x EXCEPT !.sk[l] = r]
      BY <3>1, <3>2
    <3>4. r.q = w.sk[l].q
      BY <1>0 DEF Socket
    <3> HIDE DEF r
    <3> QED
      BY <3>3, <3>4 DEF x
  <2> QED
    BY <2>1, <2>2
<1>6. PICK r : SmartTransport(w, l).w = [Tell(w, l, status) EXCEPT !.sk[l] = r] /\ r.q = w.sk[l].q
  BY <1>1
<1> DEFINE x == Tell(w, l, status)
           v == [x EXCEPT !.sk[l] = r]
<1>2. x \in Record /\ x.sk = w.sk /\ Intact(w, x)
  BY <1>0, TellIs, IntactTell
<1> HIDE DEF x
<1>3. v.sk = [x.sk EXCEPT ![l] = r] /\ v.toProc = x.toProc
  BY <1>2 DEF Record
<1>4. SmartTransport(w, l).w = v
  BY <1>6 DEF x
<1> HIDE DEF v
<1>5. Intact(x, v)
  BY <1>2, <1>3, <1>6, IntactOne
<1> QED
  BY <1>2, <1>4, <1>5, IntactTrans

LEMMA SmartHostIntact ==
    ASSUME NEW w, Good(w), NEW l \in Locals, w.sk[l].peer = Smart
    PROVE  Intact(w, SmartHost(w, l).w)
<1> DEFINE free == {s \in Services : w.sk[s].on = "absent"}
           p == CHOOSE s \in free : TRUE
           x == Tell(w, l, "OKAY")
           r == [w.sk[l] EXCEPT !.peer = p, !.req = << >>, !.smartTrans = FALSE]
           t == [Blank("list") EXCEPT !.peer = l, !.want = {"R"}]
           v == [x EXCEPT !.sk[l] = r, !.sk[p] = t]
<1>1. CASE free = {}
  BY <1>1, TellFailIntact DEF SmartHost
<1>2. CASE free # {}
  <2>0. w \in Record /\ w.sk \in [Locals -> Socket] /\ w.sk[l] \in Socket
    BY SmartIs
  <2>1. p \in Services
    BY <1>2
  <2>2. SmartHost(w, l).w = [x EXCEPT !.sk[l] = [@ EXCEPT !.peer = p, !.req = << >>, !.smartTrans = FALSE],
                                      !.sk[p] = t]
    BY <1>2 DEF SmartHost
  <2>3. x \in Record /\ x.sk = w.sk /\ Intact(w, x)
    BY <2>0, TellIs, IntactTell
  <2> HIDE DEF free, p, x, t
  <2>4. SmartHost(w, l).w = v
    BY <2>2, <2>3
  <2>5. r.q = w.sk[l].q
    BY <2>0 DEF Socket
  <2> HIDE DEF r
  <2>6. v.sk = [x.sk EXCEPT ![l] = r, ![p] = t] /\ v.toProc = x.toProc
    BY <2>3 DEF Record
  <2> HIDE DEF v
  <2>7. \A c \in Clients : v.sk[c].q = x.sk[c].q
    <3>1. \A c \in Clients : c # p /\ c \in Locals
      BY <2>1, Distinct
    <3> QED
      BY <2>0, <2>3, <2>5, <2>6, <3>1
  <2>8. Intact(x, v)
    BY <2>6, <2>7 DEF Intact, Told
  <2> QED
    BY <2>3, <2>4, <2>8, IntactTrans
<1> QED
  BY <1>1, <1>2

LEMMA SmartEnqueueIntact ==
    ASSUME NEW w, Good(w), NEW l \in Locals, w.sk[l].peer = Smart, NEW bytes \in Seq(Item)
    PROVE  Intact(w, SmartEnqueue(w, l, bytes).w)
<1> DEFINE all  == w.sk[l].req \o bytes
           asks == {i \in 1..Len(all) : all[i][1] \in Requests}
           what == all[Min(asks)][1]
           e == SmartEnqueue(w, l, bytes)
           s == [w.sk[l] EXCEPT !.req = all]
           x == [w EXCEPT !.sk[l].req = all]
<1>0. w \in Record /\ w.sk \in [Locals -> Socket] /\ w.sk[l] \in Socket
  BY SmartIs
<1>2. e = IF asks = {} THEN [w |-> x, r |-> 0]
          ELSE CASE what = "open"      -> SmartOpen(w, l)
                 [] what = "transport" -> SmartTransport(w, l)
                 [] what = "host"      -> SmartHost(w, l)
                 [] what = "devices"   -> SmartFail(Tell(w, l, "OKAY"), l)
                 [] what = "bad"       -> SmartFail(w, l)
  BY DEF SmartEnqueue
<1> HIDE DEF e, all
<1>3. CASE asks = {}
  <2>1. x.sk = [w.sk EXCEPT ![l] = s] /\ x.toProc = w.toProc /\ s.q = w.sk[l].q
    BY <1>0 DEF Record, Socket
  <2>2. e.w = x
    BY <1>2, <1>3
  <2> HIDE DEF s, x
  <2> QED
    BY <1>0, <2>1, <2>2, IntactOne DEF e
<1>4. CASE asks # {}
  <2>1. Min(asks) \in asks
    <3>1. asks \in SUBSET Nat
      OBVIOUS
    <3> HIDE DEF asks
    <3>2. \E n \in asks : \A m \in asks : n <= m
      BY <1>4, <3>1, LeastNat
    <3> QED
      BY <3>2 DEF Min
  <2>2. what \in Requests
    BY <2>1
  <2> HIDE DEF asks, what
  <2>3. \/ what = "open" /\ e = SmartOpen(w, l)
        \/ what = "transport" /\ e = SmartTransport(w, l)
        \/ what = "host" /\ e = SmartHost(w, l)
        \/ what = "devices" /\ e = SmartFail(Tell(w, l, "OKAY"), l)
        \/ what = "bad" /\ e = SmartFail(w, l)
    BY <1>2, <1>4, <2>2 DEF Requests
  <2> QED
    BY <2>3, SmartOpenIntact, SmartTransportIntact, SmartHostIntact, TellFailIntact,
       SmartFailIntact DEF e
<1> QED
  BY <1>3, <1>4

-----------------------------------------------------------------------------
(* local_socket_event_func *)

\* A packet that gives a permission to send adds one to one account.
Given(w, v, cmd, c) ==
    \A b \in Clients : /\ Okays(v.h2d, b) = Okays(w.h2d, b) + One(cmd = "OKAY" /\ b = c)
                       /\ Writes(v.h2d, b) = Writes(w.h2d, b) + One(cmd = "WRTE" /\ b = c)

LEMMA SendSafe ==
    ASSUME NEW w, Good(w), NEW cmd \in {"OKAY", "CLSE", "WRTE"}, NEW c \in Clients,
           NEW data \in Seq(Item), tr # "on" => w.disc # {}
    PROVE  /\ Safe(w, Send(w, cmd, c, data)) /\ Send(w, cmd, c, data).sk = w.sk
           /\ Given(w, Send(w, cmd, c, data), cmd, c)
<1> DEFINE v == Send(w, cmd, c, data)
<1>0. w \in Record /\ SkOK(w.sk, w.disc)
  BY DEF Good
<1>1. SentTo(w, v, cmd, c)
  BY <1>0, SendIs
<1> HIDE DEF v
<1>2. /\ v \in Record /\ v.sk = w.sk /\ v.disc = w.disc /\ v.bad = w.bad
      /\ \A b \in Clients : Opens(v.h2d, b) = Opens(w.h2d, b)
      /\ Given(w, v, cmd, c)
  BY <1>0, <1>1 DEF SentTo, Record, Given
<1>3. Tame(w, v) /\ Calm(w, v)
  BY <1>2 DEF Tame, Calm, Quiet
<1> QED
  BY <1>0, <1>2, <1>3 DEF Safe, Good, v

LEMMA SendOkay ==
    ASSUME NEW w, Good(w), NEW c \in Clients, tr # "on" => w.disc # {}
    PROVE  /\ Safe(w, Send(w, "OKAY", c, << >>)) /\ Send(w, "OKAY", c, << >>).sk = w.sk
           /\ Given(w, Send(w, "OKAY", c, << >>), "OKAY", c)
<1> DEFINE d == << >>
<1>1. d \in Seq(Item)
  BY EmptySeq
<1> HIDE DEF d
<1>2. /\ Safe(w, Send(w, "OKAY", c, d)) /\ Send(w, "OKAY", c, d).sk = w.sk
      /\ Given(w, Send(w, "OKAY", c, d), "OKAY", c)
  BY <1>1, SendSafe
<1> QED
  BY <1>2 DEF d

LEMMA SafeSame == ASSUME NEW w, Good(w) PROVE Safe(w, w)
  BY Written DEF Good

\* A remote socket belongs to a client, and the transport knows it.
LEMMA RemoteIs == ASSUME NEW w, Good(w), NEW l \in Locals, w.sk[l].peer = Remote
                  PROVE  l \in Clients /\ l \in w.disc
<1>1. l \in Clients
  BY DEF Good, SkOK, SockOK
<1> QED
  BY <1>1 DEF Good, SkOK

\* A local peer is on the list, and is another socket.
LEMMA PeerIs == ASSUME NEW w, Good(w), NEW l \in Locals, w.sk[l].peer \in Locals
                PROVE  /\ w.sk[w.sk[l].peer].on = "list" /\ w.sk[w.sk[l].peer].peer = l
                       /\ Services # {}
<1>1. w.sk[w.sk[l].peer].peer = l
  BY DEF Good, SkOK
<1>2. w.sk[w.sk[l].peer].on = "list"
  BY <1>1, Distinct DEF Good, SkOK, SockOK
<1>3. Services # {}
  BY Distinct DEF Good, SkOK, SockOK
<1> QED
  BY <1>1, <1>2, <1>3

LEMMA PeerReadyOK ==
    ASSUME NEW w, Good(w), NEW l \in Locals, w.sk[l].peer # None
    PROVE  /\ Safe(w, PeerReady(w, l)) /\ PeerReady(w, l).sk[l].on = w.sk[l].on
           /\ PeerReady(w, l).sk[l] = w.sk[l]
           /\ w.sk[l].peer = Remote => /\ PeerReady(w, l).sk = w.sk
                                       /\ Given(w, PeerReady(w, l), "OKAY", l)
           /\ w.sk[l].peer \in Locals /\ w.sk[l].q = << >> /\ Saving(w.sk) => Even(w, PeerReady(w, l))
<1> DEFINE p == w.sk[l].peer
<1>0. p \in Locals \cup {Smart, Remote}
  BY DEF Good, SkOK, Socket
<1>1. CASE p = Remote
  <2>1. PeerReady(w, l) = Send(w, "OKAY", l, << >>)
    BY <1>1, Distinct DEF PeerReady
  <2>2. l \in Clients /\ w.disc # {}
    BY <1>1, RemoteIs
  <2> QED
    BY <1>1, <2>1, <2>2, SendOkay, Distinct
<1>2. CASE p \in Locals
  <2>1. PeerReady(w, l) = Ready(w, p)
    BY <1>2, Distinct DEF PeerReady
  <2>2. w.sk[p].on = "list" /\ w.sk[p].peer = l /\ p # l
    BY <1>2, PeerIs, Distinct DEF Good, SkOK, SockOK
  <2>3. w.sk[p].peer = l /\ w.sk[l].peer # Remote
    BY <1>2, <2>2, Distinct
  <2> HIDE DEF p
  <2>4. Safe(w, Ready(w, p)) /\ Awake(w, Ready(w, p), p)
    BY <1>2, <2>2, ReadyOK
  <2>5. Ready(w, p).sk[l] = w.sk[l]
    BY <2>2, <2>4 DEF Awake
  <2>6. w.sk[l].q = << >> /\ Saving(w.sk) => Even(w, Ready(w, p))
    BY <1>2, <2>2, <2>4, AwakeEven
  <2> QED
    BY <2>1, <2>3, <2>4, <2>5, <2>6
<1>3. CASE p = Smart
  <2>1. PeerReady(w, l) = w
    BY <1>3, Distinct DEF PeerReady
  <2> QED
    BY <1>3, <2>1, SafeSame, Distinct
<1> QED
  BY <1>0, <1>1, <1>2, <1>3

\* A socket without a backlog that asks no more for FDE_WRITE, in its callback.
LEMMA NoWriteMask ==
    ASSUME NEW l, NEW s \in Socket, SockOK(l, s), s.on = "list", s.pend = {},
           NEW q, q = << >>, NEW r, r = FdeDel([s EXCEPT !.q = q], "W")
    PROVE  /\ r \in Socket /\ SockOK(l, r) /\ r.on = s.on /\ r.peer = s.peer
           /\ r.q = << >> /\ r.pend = {} /\ ("R" \in r.want <=> "R" \in s.want)
           /\ r.notify = s.notify /\ r.req = s.req
           /\ Uses(r) <=> Uses(s)
<1> DEFINE t == [s EXCEPT !.q = q]
           m == s.want \ {"W"}
<1>1. /\ t \in Socket /\ m \in SUBSET {"R", "W"} /\ r = FdeSet(t, m) /\ "W" \notin m
      /\ ("R" \in m <=> "R" \in s.want)
  <2>1. << >> \in Seq(Item)
    BY EmptySeq
  <2> QED
    BY <2>1 DEF Socket, FdeDel
<1>2. /\ t.on = s.on /\ t.peer = s.peer /\ t.q = << >> /\ t.notify = s.notify
      /\ t.trans = s.trans /\ t.smartTrans = s.smartTrans /\ t.pend = {} /\ t.req = s.req
  BY DEF Socket
<1> HIDE DEF t, m
<1>3. r \in Socket /\ r = [t EXCEPT !.want = m, !.pend = r.pend] /\ r.pend \subseteq t.pend
  <2>1. /\ FdeSet(t, m) \in Socket /\ FdeSet(t, m) = [t EXCEPT !.want = m, !.pend = FdeSet(t, m).pend]
        /\ FdeSet(t, m).pend \subseteq t.pend
    BY <1>1, FdeSetOK
  <2> QED
    BY <1>1, <2>1
<1>4. r.want = m /\ r.pend = {}
  BY <1>1, <1>2, <1>3 DEF Socket
<1>5. /\ r.on = s.on /\ r.peer = s.peer /\ r.q = << >> /\ r.notify = s.notify
      /\ r.trans = s.trans /\ r.smartTrans = s.smartTrans /\ r.req = s.req
  BY <1>1, <1>2, <1>3 DEF Socket
<1>6. SockOK(l, r)
  BY <1>1, <1>4, <1>5 DEF SockOK
<1> QED
  BY <1>1, <1>3, <1>4, <1>5, <1>6 DEF Uses

\* A socket keeps its place, its peer, its promise to tell and its part of a request.
Still(s, t) == t.on = s.on /\ t.peer = s.peer /\ t.notify = s.notify /\ t.req = s.req

\* Some of the backlog of l is written.
Wrote(w, v, l) ==
    /\ Safe(w, v) /\ \A m \in Locals : m # l => v.sk[m] = w.sk[m]
    /\ Still(w.sk[l], v.sk[l]) /\ v.h2d = w.h2d /\ l \notin gone
    /\ \E some, rest \in Seq(Item) :
         /\ w.sk[l].q = some \o rest /\ v.sk[l].q = rest
         /\ v.toProc = [w.toProc EXCEPT ![l] = @ \o some]

\* FDE_WRITE, for a socket that has a backlog.
LEMMA EventWriteOK ==
    ASSUME NEW w, Good(w), NEW l \in Locals, w.sk[l].on \in {"list", "closing"}, w.sk[l].pend = {},
           w.sk[l].on = "list" => w.sk[l].q # << >>
    PROVE  /\ Safe(w, EventWrite(w, l).w) /\ EventWrite(w, l).stop \in BOOLEAN
           /\ ~EventWrite(w, l).stop =>
                /\ EventWrite(w, l).w.sk[l].on = "list" /\ EventWrite(w, l).w.sk[l].pend = {}
                /\ w.sk[l].on = "list"
                /\ "R" \in w.sk[l].want => "R" \in EventWrite(w, l).w.sk[l].want
           /\ Saving(w.sk) => Even(w, EventWrite(w, l).w)
           /\ \/ EventWrite(w, l).w = Close(w, l)
              \/ \E v : /\ Wrote(w, v, l)
                        /\ EventWrite(w, l).w \in {v, Close(v, l), PeerReady(v, l)}
<1> DEFINE n == Fits(w, l, w.sk[l].q)
           some == SubSeq(w.sk[l].q, 1, n)
           rest == SubSeq(w.sk[l].q, n + 1, Len(w.sk[l].q))
           s == [w.sk[l] EXCEPT !.q = rest]
           a == w.toProc[l] \o some
           x == [w EXCEPT !.toProc = [w.toProc EXCEPT ![l] = a], !.sk = [w.sk EXCEPT ![l] = s]]
           e == EventWrite(w, l)
<1>0. /\ w \in Record /\ w.sk \in [Locals -> Socket] /\ w.sk[l] \in Socket
      /\ SockOK(l, w.sk[l]) /\ w.sk[l].q \in Seq(Item) /\ w.toProc \in [Locals -> Seq(Item)]
  BY DEF Good, SkOK, Record, Socket
<1>1. e = IF l \in gone THEN [w |-> Close(w, l), stop |-> TRUE]
          ELSE IF x.sk[l].q # << >> THEN [w |-> x, stop |-> TRUE]
          ELSE IF w.sk[l].on = "closing" THEN [w |-> Close(x, l), stop |-> TRUE]
          ELSE [w |-> PeerReady([x EXCEPT !.sk = [x.sk EXCEPT ![l] = FdeDel(x.sk[l], "W")]], l), stop |-> FALSE]
  BY DEF EventWrite
<1>2. n \in 0..Len(w.sk[l].q)
  BY <1>0, FitsOK
<1> HIDE DEF n, e
<1>3. some \in Seq(Item) /\ rest \in Seq(Item) /\ Len(rest) <= Len(w.sk[l].q)
  BY <1>0, <1>2, Split
<1>13. w.sk[l].q = some \o rest
  BY <1>0, <1>2, SplitWhole
<1> HIDE DEF some, rest
<1>4. a \in Seq(Item)
  BY <1>0, <1>3, ConcatProperties
<1>14. [w.toProc EXCEPT ![l] = @ \o some] = [w.toProc EXCEPT ![l] = a]
  OBVIOUS
<1> HIDE DEF a
<1>5. /\ s \in Socket /\ s.on = w.sk[l].on /\ s.peer = w.sk[l].peer /\ s.q = rest
      /\ s.want = w.sk[l].want /\ s.pend = {} /\ s.notify = w.sk[l].notify
      /\ s.trans = w.sk[l].trans /\ s.smartTrans = w.sk[l].smartTrans /\ s.req = w.sk[l].req
  BY <1>0, <1>3 DEF Socket
<1> HIDE DEF s
<1>6. /\ x \in Record /\ x.sk = [w.sk EXCEPT ![l] = s] /\ x.sk[l] = s /\ x.disc = w.disc
      /\ x.h2d = w.h2d /\ x.bad = w.bad /\ x.toProc = [w.toProc EXCEPT ![l] = a]
  BY <1>0, <1>4, <1>5 DEF Record
<1> HIDE DEF x
<1>15. ASSUME NEW v, Safe(w, v), NEW t, v.sk = [w.sk EXCEPT ![l] = t], v.toProc = x.toProc,
              Still(w.sk[l], t), t.q = rest, v.h2d = w.h2d, l \notin gone
       PROVE  Wrote(w, v, l)
  <2>1. /\ \A m \in Locals : m # l => v.sk[m] = w.sk[m]
        /\ v.sk[l] = t
    BY <1>0, <1>15
  <2>2. v.toProc = [w.toProc EXCEPT ![l] = @ \o some]
    BY <1>6, <1>14, <1>15
  <2> QED
    BY <1>3, <1>13, <1>15, <2>1, <2>2 DEF Wrote
<1>7. CASE l \in gone
  <2>1. Safe(w, Close(w, l)) /\ Fewer(w, Close(w, l))
    BY CloseOK
  <2>2. Saving(w.sk) => Even(w, Close(w, l))
    BY <2>1, FewerEven DEF Safe
  <2> QED
    BY <1>1, <1>7, <2>1, <2>2 DEF e
<1>12. ASSUME Saving(w.sk), rest # << >> \/ w.sk[l].on = "closing" PROVE Even(w, x)
  <2>1. s.q # << >> => w.sk[l].q # << >>
    <3>1. Len(rest) \in Nat /\ Len(w.sk[l].q) \in Nat /\ (rest # << >> => Len(rest) # 0)
      BY <1>0, <1>3, LenProperties, EmptySeq
    <3> QED
      BY <1>3, <1>5, <3>1
  <2>2. Len(s.q) <= MAX_PAYLOAD
    <3>1. Len(rest) \in Nat /\ Len(w.sk[l].q) \in Nat /\ MAX_PAYLOAD \in Nat
      BY <1>0, <1>3, LenProperties, SocketsAssumption
    <3>2. Len(w.sk[l].q) <= MAX_PAYLOAD
      BY <1>12 DEF Saving
    <3> QED
      BY <1>3, <1>5, <3>1, <3>2
  <2>3. s.on = "list" => Backlog(s) = Backlog(w.sk[l])
    BY <1>5, <1>12, <2>1 DEF Backlog
  <2>4. \A c \in Clients : Uncounted(w, x, c)
    BY <1>6, UncountedSame
  <2> QED
    BY <1>5, <1>6, <1>12, <2>1, <2>2, <2>3, <2>4, EvenOne
<1>8. ASSUME rest # << >> \/ w.sk[l].on = "closing" PROVE Safe(w, x)
  <2>1. SockOK(l, s)
    BY <1>0, <1>5, <1>8 DEF SockOK
  <2>2. Uses(s) => Uses(w.sk[l])
    BY <1>5 DEF Uses
  <2> QED
    BY <1>0, <1>5, <1>6, <2>1, <2>2, Touch, SMTT(30)
<1>9. CASE l \notin gone /\ rest # << >>
  <2>1. Wrote(w, x, l)
    BY <1>5, <1>6, <1>8, <1>9, <1>15 DEF Still
  <2>2. e = [w |-> x, stop |-> TRUE]
    BY <1>1, <1>5, <1>6, <1>9
  <2>3. e.w = x /\ e.stop = TRUE
    BY <2>2
  <2> QED
    BY <1>8, <1>9, <1>12, <2>1, <2>3 DEF e
<1>10. CASE l \notin gone /\ rest = << >> /\ w.sk[l].on = "closing"
  <2>1. e = [w |-> Close(x, l), stop |-> TRUE]
    BY <1>1, <1>5, <1>6, <1>10
  <2>2. Safe(w, x) /\ x.sk[l].on = "closing"
    BY <1>5, <1>6, <1>8, <1>10
  <2>3. Safe(x, Close(x, l)) /\ Fewer(x, Close(x, l))
    BY <2>2, CloseOK DEF Safe
  <2>4. Safe(w, Close(x, l))
    BY <2>2, <2>3, SafeTrans
  <2>5. Saving(w.sk) => Even(w, Close(x, l))
    <3>1. Saving(w.sk) => Even(w, x) /\ Saving(x.sk)
      BY <1>10, <1>12 DEF Even
    <3>2. Saving(x.sk) => Even(x, Close(x, l))
      BY <2>2, <2>3, FewerEven DEF Safe
    <3> QED
      BY <2>2, <3>1, <3>2, EvenTrans DEF Safe
  <2>6. Wrote(w, x, l)
    BY <1>5, <1>6, <1>10, <2>2, <1>15 DEF Still
  <2>7. e.w = Close(x, l) /\ e.stop = TRUE
    BY <2>1
  <2> QED
    BY <2>4, <2>5, <2>6, <2>7 DEF e
<1>11. CASE l \notin gone /\ rest = << >> /\ w.sk[l].on = "list"
  <2> DEFINE r == FdeDel(s, "W")
             y == [x EXCEPT !.sk = [x.sk EXCEPT ![l] = r]]
  <2>1. e = [w |-> PeerReady(y, l), stop |-> FALSE]
    BY <1>1, <1>5, <1>6, <1>11
  <2>2. r = FdeDel([w.sk[l] EXCEPT !.q = rest], "W")
    BY DEF s
  <2> HIDE DEF r
  <2>3. /\ r \in Socket /\ SockOK(l, r) /\ r.on = w.sk[l].on /\ r.peer = w.sk[l].peer
        /\ (Uses(r) <=> Uses(w.sk[l])) /\ r.q = << >> /\ r.pend = {}
        /\ ("R" \in r.want <=> "R" \in w.sk[l].want)
        /\ r.notify = w.sk[l].notify /\ r.req = w.sk[l].req
    <3>1. /\ w.sk[l] \in Socket /\ SockOK(l, w.sk[l]) /\ w.sk[l].on = "list" /\ w.sk[l].pend = {}
          /\ rest = << >>
      BY <1>0, <1>11
    <3> DEFINE o == w.sk[l]
               q == rest
    <3>2. o \in Socket /\ SockOK(l, o) /\ o.on = "list" /\ o.pend = {} /\ q = << >>
      BY <3>1
    <3>3. r = FdeDel([o EXCEPT !.q = q], "W")
      BY <2>2
    <3> HIDE DEF o, q
    <3>4. /\ r \in Socket /\ SockOK(l, r) /\ r.on = o.on /\ r.peer = o.peer
          /\ r.q = << >> /\ r.pend = {} /\ ("R" \in r.want <=> "R" \in o.want)
          /\ (Uses(r) <=> Uses(o)) /\ r.notify = o.notify /\ r.req = o.req
      BY <3>2, <3>3, NoWriteMask
    <3> QED
      BY <3>4 DEF o
  <2>4. /\ y \in Record /\ y.sk = [w.sk EXCEPT ![l] = r] /\ y.sk[l] = r /\ y.disc = w.disc
        /\ y.h2d = w.h2d /\ y.bad = w.bad /\ y.toProc = x.toProc
    BY <1>0, <1>5, <1>6, <2>3 DEF Record
  <2> HIDE DEF y
  <2>5. Safe(w, y)
    BY <1>0, <2>3, <2>4, Touch
  <2>14. Wrote(w, y, l)
    <3>1. y.h2d = w.h2d /\ y.toProc = x.toProc /\ Still(w.sk[l], r) /\ r.q = rest
      BY <1>6, <1>11, <2>3, <2>4 DEF Still
    <3> QED
      BY <1>11, <1>15, <2>4, <2>5, <3>1
  <2>6. w.sk[l].peer \notin {None, Smart}
    BY <1>0, <1>11 DEF SockOK
  <2>7. /\ Safe(y, PeerReady(y, l)) /\ PeerReady(y, l).sk[l].on = "list"
        /\ PeerReady(y, l).sk[l] = r
        /\ r.peer = Remote => PeerReady(y, l).sk = y.sk /\ Given(y, PeerReady(y, l), "OKAY", l)
        /\ r.peer \in Locals /\ Saving(y.sk) => Even(y, PeerReady(y, l))
    <3>1. Good(y) /\ y.sk[l].peer # None /\ y.sk[l].on = "list"
      BY <1>11, <2>3, <2>4, <2>5, <2>6 DEF Safe
    <3> QED
      BY <2>3, <2>4, <3>1, PeerReadyOK
  <2>8. Safe(w, PeerReady(y, l))
    BY <2>5, <2>7, SafeTrans
  <2>9. ASSUME Saving(w.sk), r.peer \in Locals PROVE Even(w, PeerReady(y, l))
    <3>1. /\ r.peer \notin {None, Remote} /\ Len(r.q) <= MAX_PAYLOAD
          /\ \A c \in Clients : Uncounted(w, y, c)
      BY <2>3, <2>4, <2>9, Distinct, SocketsAssumption, UncountedSame
    <3>2. Even(w, y)
      BY <1>5, <2>3, <2>4, <2>9, <3>1, <1>0, EvenOne
    <3> QED
      BY <2>5, <2>7, <2>9, <3>2, EvenTrans DEF Even, Safe
  <2>10. ASSUME Saving(w.sk), r.peer = Remote PROVE Even(w, PeerReady(y, l))
    <3> DEFINE z == PeerReady(y, l)
    <3>1. z.sk = [w.sk EXCEPT ![l] = r] /\ Given(y, z, "OKAY", l)
      BY <2>4, <2>7, <2>10
    <3> HIDE DEF z
    <3>2. w.h2d \in Seq(Packet) /\ l \in Clients
      BY <1>0, <2>3, <2>10, Distinct DEF Record, SockOK
    <3>3. \A c \in Clients : /\ Okays(w.h2d, c) \in Nat /\ Writes(w.h2d, c) \in Nat
                             /\ Okays(z.h2d, c) = Okays(w.h2d, c) + One(c = l)
                             /\ Writes(z.h2d, c) = Writes(w.h2d, c)
      <4>1. TAKE c \in Clients
      <4>2. Okays(w.h2d, c) \in Nat /\ Writes(w.h2d, c) \in Nat
        BY <3>2, PlacesFinite DEF Okays, Writes
      <4>3. /\ Okays(z.h2d, c) = Okays(w.h2d, c) + One("OKAY" = "OKAY" /\ c = l)
            /\ Writes(z.h2d, c) = Writes(w.h2d, c) + One("OKAY" = "WRTE" /\ c = l)
        BY <2>4, <3>1 DEF Given
      <4> QED
        BY <4>2, <4>3 DEF One
    <3>5. \A m \in Locals : z.sk[m] = IF m = l THEN r ELSE w.sk[m]
      BY <1>0, <3>1
    <3>6. Saving(z.sk)
      <4>1. Len(r.q) <= MAX_PAYLOAD
        BY <2>3, SocketsAssumption
      <4>2. /\ \A m \in Locals : Len(z.sk[m].q) <= MAX_PAYLOAD
            /\ \A m \in Locals : z.sk[m].on = "list" /\ "R" \in z.sk[m].pend => "R" \in z.sk[m].want
        BY <2>3, <2>10, <3>5, <4>1 DEF Saving
      <4>3. \A m \in Locals : z.sk[m].peer = w.sk[m].peer /\ (z.sk[m].q # << >> => w.sk[m].q # << >>)
                               /\ ("R" \in z.sk[m].want <=> "R" \in w.sk[m].want)
        BY <2>3, <3>5
      <4> QED
        BY <2>10, <4>2, <4>3 DEF Saving
    <3>7. ASSUME NEW c \in Clients PROVE Flow(w, z, c)
      <4>0. c \in Locals
        BY DEF Locals
      <4>1. CASE c = l
        <5>1. z.sk[c] = r
          BY <3>5, <4>0, <4>1
        <5>2. Backlog(r) = 0 /\ Backlog(w.sk[c]) = 1 /\ One(c = l) = 1
          BY <1>11, <2>3, <4>1 DEF Backlog, One
        <5>3. Reads(r) = Reads(w.sk[c])
          BY <2>3, <4>1 DEF Reads
        <5>4. /\ Okays(z.h2d, c) = Okays(w.h2d, c) + 1 /\ Writes(z.h2d, c) = Writes(w.h2d, c)
              /\ Okays(w.h2d, c) \in Nat
          BY <3>3, <5>2
        <5>5. /\ Backlog(z.sk[c]) + Okays(z.h2d, c) = Backlog(w.sk[c]) + Okays(w.h2d, c)
              /\ Reads(z.sk[c]) + Writes(z.h2d, c) = Reads(w.sk[c]) + Writes(w.h2d, c)
          BY <5>1, <5>2, <5>3, <5>4
        <5>6. /\ w.sk[c].on = "list" /\ w.sk[c].peer = Remote /\ z.sk[c].peer = Remote
          BY <1>11, <2>3, <2>10, <4>1, <5>1
        <5> QED
          BY <5>5, <5>6, Distinct DEF Flow
      <4>2. CASE c # l
        BY <3>3, <3>5, <4>0, <4>2 DEF Flow, Uncounted, One
      <4> QED
        BY <4>1, <4>2
    <3> QED
      BY <3>6, <3>7 DEF Even, z
  <2>11. r.peer \in Locals \cup {Remote}
    BY <2>3, <2>6 DEF Socket
  <2>12. Saving(w.sk) => Even(w, PeerReady(y, l))
    BY <2>9, <2>10, <2>11
  <2>13. PeerReady(y, l).sk[l].pend = {} /\ ("R" \in w.sk[l].want => "R" \in PeerReady(y, l).sk[l].want)
    BY <2>3, <2>7
  <2>15. e.w = PeerReady(y, l) /\ e.stop = FALSE
    BY <2>1
  <2> QED
    BY <1>11, <2>7, <2>8, <2>12, <2>13, <2>14, <2>15 DEF e
<1> QED
  BY <1>7, <1>9, <1>10, <1>11

LEMMA SendHolds ==
    ASSUME NEW w \in Record, NEW cmd, NEW b, NEW data, NEW c \in Clients
    PROVE  /\ Holds(w, Send(w, cmd, b, data), c) /\ Send(w, cmd, b, data).sk = w.sk
           /\ Send(w, cmd, b, data).toProc = w.toProc
<1>1. Send(w, cmd, b, data).sk = w.sk /\ Send(w, cmd, b, data).toProc = w.toProc
  BY DEF Send, Record
<1> HIDE DEF Send
<1> QED
  BY <1>1, HoldsSame

LEMMA PeerReadyHolds ==
    ASSUME NEW w, Good(w), NEW l \in Locals, NEW c \in Clients
    PROVE  Holds(w, PeerReady(w, l), c) /\ PeerReady(w, l).sk[c].on = w.sk[c].on
<1> DEFINE p == w.sk[l].peer
<1>0. p \in Locals \cup {None, Smart, Remote} /\ w \in Record /\ c \in Locals
  BY DEF Good, SkOK, Socket, Locals
<1>1. CASE p = Remote
  <2>1. PeerReady(w, l) = Send(w, "OKAY", l, << >>)
    BY <1>1, Distinct DEF PeerReady
  <2> QED
    BY <1>0, <2>1, SendHolds
<1>2. CASE p \in Locals
  <2>1. PeerReady(w, l) = Ready(w, p)
    BY <1>2, Distinct DEF PeerReady
  <2>2. w.sk[p].on = "list"
    BY <1>2, PeerIs
  <2> QED
    BY <1>0, <1>2, <2>1, <2>2, ReadyHolds, ReadyOK
<1>3. CASE p = Smart
  <2>1. PeerReady(w, l) = w
    BY <1>3, Distinct DEF PeerReady
  <2> QED
    BY <1>0, <2>1, HoldsSame
<1>4. CASE p = None
  <2>1. PeerReady(w, l) = [w EXCEPT !.bad = TRUE]
    BY <1>4, Distinct DEF PeerReady
  <2>2. PeerReady(w, l).sk = w.sk /\ PeerReady(w, l).toProc = w.toProc
    BY <1>0, <2>1 DEF Record
  <2> QED
    BY <1>0, <2>2, HoldsSame
<1> QED
  BY <1>0, <1>1, <1>2, <1>3, <1>4

LEMMA RestBytes ==
    ASSUME NEW some \in Seq(Item), NEW rest \in Seq(Item), some \o rest \in Seq(AnyByte)
    PROVE  rest \in Seq(AnyByte)
<1>1. Len(some) \in Nat /\ Len(rest) \in Nat /\ Len(some \o rest) = Len(some) + Len(rest)
  BY LenProperties, ConcatProperties
<1>2. ASSUME NEW i \in 1..Len(rest) PROVE rest[i] \in AnyByte
  <2>1. i + Len(some) \in 1..Len(some) + Len(rest) /\ ~(i + Len(some) <= Len(some))
    BY <1>1
  <2>2. (some \o rest)[i + Len(some)] = rest[i + Len(some) - Len(some)]
    BY <2>1, ConcatProperties
  <2>3. i + Len(some) - Len(some) = i
    BY <1>1
  <2>4. (some \o rest)[i + Len(some)] \in AnyByte
    BY <1>1, <2>1, ElementOfSeq
  <2> QED
    BY <2>2, <2>3, <2>4
<1>3. rest = [i \in 1..Len(rest) |-> rest[i]]
  OBVIOUS
<1> QED
  BY <1>1, <1>2, <1>3, IsASeq

\* What is written of the backlog of a socket stays in order.
LEMMA WroteHolds ==
    ASSUME NEW w, Good(w), NEW v, NEW l \in Locals, Wrote(w, v, l), NEW c \in Clients
    PROVE  Holds(w, v, c)
<1>0. w \in Record /\ w.toProc \in [Locals -> Seq(Item)] /\ c \in Locals
  BY DEF Good, Record, Locals
<1>1. PICK some \in Seq(Item), rest \in Seq(Item) :
        /\ w.sk[l].q = some \o rest /\ v.sk[l].q = rest
        /\ v.toProc = [w.toProc EXCEPT ![l] = @ \o some]
  BY DEF Wrote
<1>2. CASE c # l
  <2>1. v.toProc[c] = w.toProc[c] /\ v.sk[c].q = w.sk[c].q
    BY <1>0, <1>1, <1>2 DEF Wrote
  <2> QED
    BY <1>0, <2>1, HoldsSame
<1>3. CASE c = l
  <2>1. PICK p \in Seq(Item) : p = w.toProc[c]
    BY <1>0
  <2>2. v.toProc[c] = p \o some
    BY <1>0, <1>1, <1>3, <2>1
  <2>3. Held(v, c) = Data(p \o some) \o Data(rest) /\ Held(w, c) = Data(p) \o Data(some \o rest)
    BY <1>1, <1>3, <2>1, <2>2 DEF Held
  <2>4. Data(p \o some) = Data(p) \o Data(some) /\ Data(some \o rest) = Data(some) \o Data(rest)
    BY DataFacts
  <2>5. Data(p) \in Seq(Item) /\ Data(some) \in Seq(Item) /\ Data(rest) \in Seq(Item)
    BY DataFacts
  <2>6. (Data(p) \o Data(some)) \o Data(rest) = Data(p) \o (Data(some) \o Data(rest))
    <3>1. PICK a \in Seq(Item), b \in Seq(Item), d \in Seq(Item) :
            a = Data(p) /\ b = Data(some) /\ d = Data(rest)
      BY <2>5
    <3>2. (a \o b) \o d = a \o (b \o d)
      BY ItemAssoc, SMTT(30)
    <3> QED
      BY <3>1, <3>2
  <2>7. Held(v, c) = Held(w, c)
    BY <2>3, <2>4, <2>6
  <2>8. w.sk[c].q \in Seq(AnyByte) => v.sk[c].q \in Seq(AnyByte)
    BY <1>1, <1>3, RestBytes
  <2> QED
    BY <1>0, <2>7, <2>8, HeldIs, StartsFacts DEF Holds
<1> QED
  BY <1>2, <1>3

\* FDE_WRITE.
LEMMA EventWriteHolds ==
    ASSUME NEW w, Good(w), NEW l \in Locals, w.sk[l].on \in {"list", "closing"}, w.sk[l].pend = {},
           w.sk[l].on = "list" => w.sk[l].q # << >>, NEW c \in Clients
    PROVE  Holds(w, EventWrite(w, l).w, c)
<1> DEFINE e == EventWrite(w, l).w
<1>1. /\ Safe(w, e)
      /\ \/ e = Close(w, l)
         \/ \E v : Wrote(w, v, l) /\ e \in {v, Close(v, l), PeerReady(v, l)}
  BY EventWriteOK
<1> HIDE DEF e
<1>2. CASE e = Close(w, l)
  BY <1>2, CloseHolds DEF e
<1>3. ASSUME NEW v, Wrote(w, v, l), e \in {v, Close(v, l), PeerReady(v, l)}
      PROVE  Holds(w, e, c)
  <2>1. Holds(w, v, c) /\ Safe(w, v) /\ Good(v) /\ v.sk[l].on \in {"list", "closing"}
    BY <1>3, WroteHolds DEF Wrote, Safe, Still
  <2>2. CASE e = v
    BY <2>1, <2>2
  <2>3. CASE e = Close(v, l)
    <3>1. Safe(v, Close(v, l)) /\ Holds(v, Close(v, l), c)
      BY <2>1, CloseOK, CloseHolds
    <3> QED
      BY <2>1, <2>3, <3>1, SafeHolds
  <2>4. CASE e = PeerReady(v, l)
    <3>1. Holds(v, e, c) /\ e.sk[c].on = v.sk[c].on
      BY <2>1, <2>4, PeerReadyHolds
    <3>2. w \in Record /\ v \in Record /\ e \in Record
      BY <1>1, <2>1 DEF Safe, Good
    <3> QED
      BY <2>1, <3>1, <3>2, HoldsTrans
  <2> QED
    BY <1>3, <2>2, <2>3, <2>4
<1> QED
  BY <1>1, <1>2, <1>3 DEF e

LEMMA PeerReadyPeers ==
    ASSUME NEW w, Good(w), NEW l \in Locals, NEW c \in Locals
    PROVE  PeerReady(w, l).sk[c].peer = w.sk[c].peer
<1> DEFINE p == w.sk[l].peer
<1>0. p \in Locals \cup {None, Smart, Remote} /\ w \in Record
  BY DEF Good, SkOK, Socket
<1>1. CASE p = Remote
  <2>1. PeerReady(w, l) = Send(w, "OKAY", l, << >>)
    BY <1>1, Distinct DEF PeerReady
  <2>2. Send(w, "OKAY", l, << >>).sk = w.sk
    BY <1>0 DEF Send, Record
  <2> QED
    BY <2>1, <2>2
<1>2. CASE p \in Locals
  <2>1. PeerReady(w, l) = Ready(w, p)
    BY <1>2, Distinct DEF PeerReady
  <2>2. w.sk[p].on = "list"
    BY <1>2, PeerIs
  <2> QED
    BY <1>2, <2>1, <2>2, ReadyOK
<1>3. CASE p = Smart
  BY <1>3, Distinct DEF PeerReady
<1>4. CASE p = None
  <2>1. PeerReady(w, l) = [w EXCEPT !.bad = TRUE]
    BY <1>4, Distinct DEF PeerReady
  <2>2. PeerReady(w, l).sk = w.sk
    BY <1>0, <2>1 DEF Record
  <2> QED
    BY <2>2
<1> QED
  BY <1>0, <1>1, <1>2, <1>3, <1>4

\* FDE_WRITE of another socket leaves client c its host service, or takes it away.
LEMMA EventWritePeer ==
    ASSUME NEW w, Good(w), NEW l \in Locals, w.sk[l].on \in {"list", "closing"}, w.sk[l].pend = {},
           w.sk[l].on = "list" => w.sk[l].q # << >>, NEW c \in Locals, c # l,
           EventWrite(w, l).w.sk[c].peer \in Services
    PROVE  w.sk[c].peer \in Services
<1> DEFINE e == EventWrite(w, l).w
<1>1. /\ Safe(w, e)
      /\ \/ e = Close(w, l)
         \/ \E v : Wrote(w, v, l) /\ e \in {v, Close(v, l), PeerReady(v, l)}
  BY EventWriteOK
<1>0. e.sk[c].peer \in Services
  OBVIOUS
<1> HIDE DEF e
<1>2. ASSUME NEW v, Good(v), v.sk[l].on \in {"list", "closing"}, e = Close(v, l)
      PROVE  v.sk[c].peer \in Services
  <2>1. Fewer(v, e) /\ Good(e)
    BY <1>2, CloseOK DEF Safe
  <2>2. e.sk[c].on = "list"
    BY <1>0, <2>1, Distinct DEF Good, SkOK, SockOK
  <2> QED
    BY <1>0, <2>1, <2>2 DEF Fewer, Alike
<1>3. CASE e = Close(w, l)
  BY <1>2, <1>3
<1>4. ASSUME NEW v, Wrote(w, v, l), e \in {v, Close(v, l), PeerReady(v, l)}
      PROVE  w.sk[c].peer \in Services
  <2>1. Good(v) /\ v.sk[l].on \in {"list", "closing"} /\ v.sk[c] = w.sk[c]
    BY <1>4 DEF Wrote, Safe, Still
  <2>2. CASE e = v
    BY <1>0, <2>1, <2>2
  <2>3. CASE e = Close(v, l)
    BY <1>2, <2>1, <2>3
  <2>4. CASE e = PeerReady(v, l)
    <3>1. e.sk[c].peer = v.sk[c].peer
      BY <2>1, <2>4, PeerReadyPeers
    <3> QED
      BY <1>0, <2>1, <3>1
  <2> QED
    BY <1>4, <2>2, <2>3, <2>4
<1> QED
  BY <1>1, <1>3, <1>4

\* What is so of a call of the peer's enqueue: where there is no host service the socket
\* is still there, unless the result says that it is not.
ReadSafe(w, e, l) == /\ Safe(w, e.w) /\ e.r \in {-1, 0, 1}
                     /\ Services = {} /\ e.r >= 0 => e.w.sk[l].on # "freed"

LEMMA PeerEnqueueOK ==
    ASSUME NEW w, Good(w), NEW l \in Locals, w.sk[l].peer # None, NEW bytes \in Seq(Item)
    PROVE  ReadSafe(w, PeerEnqueue(w, l, bytes), l)
<1> DEFINE p == w.sk[l].peer
           e == PeerEnqueue(w, l, bytes)
<1>0. p \in Locals \cup {Smart, Remote} /\ w.sk[l].on = "list"
  BY DEF Good, SkOK, Socket, SockOK
<1>1. CASE p = Remote
  <2> DEFINE v == Send(w, "WRTE", l, bytes)
  <2>1. e = [w |-> v, r |-> 1]
    BY <1>1, Distinct DEF PeerEnqueue
  <2>2. l \in Clients /\ w.disc # {}
    BY <1>1, RemoteIs
  <2>3. Safe(w, v) /\ v.sk = w.sk
    BY <2>2, SendSafe
  <2> HIDE DEF v
  <2> QED
    BY <1>0, <2>1, <2>3 DEF ReadSafe
<1>2. CASE p = Smart
  <2>1. e = SmartEnqueue(w, l, bytes)
    BY <1>2, Distinct DEF PeerEnqueue
  <2>2. SmartSafe(w, e, l)
    BY <1>2, <2>1, SmartEnqueueOK
  <2> QED
    BY <2>2 DEF ReadSafe, SmartSafe
<1>3. CASE p \in Locals
  <2>1. e = Enqueue(w, p, bytes)
    BY <1>3, Distinct DEF PeerEnqueue
  <2>2. w.sk[p].on = "list" /\ w.sk[p].peer = l /\ Services # {}
    BY <1>3, PeerIs
  <2>3. w.sk[p].peer \notin {None, Smart}
    BY <2>2, Distinct
  <2> HIDE DEF p
  <2>4. Safe(w, e.w) /\ e.r \in {0, 1}
    BY <1>3, <2>1, <2>2, <2>3, EnqueueOK
  <2> QED
    BY <2>2, <2>4 DEF ReadSafe
<1> QED
  BY <1>0, <1>1, <1>2, <1>3

\* Socket l reads no longer.
Halted(u, v, l) == /\ v.h2d = u.h2d /\ \A m \in Locals : m # l => v.sk[m] = u.sk[m]
                   /\ v.sk[l].on = u.sk[l].on /\ v.sk[l].peer = u.sk[l].peer
                   /\ v.sk[l].q = u.sk[l].q /\ "R" \notin v.sk[l].want
                   /\ v.sk[l].pend \subseteq u.sk[l].pend

\* A remote socket has sent what was read, and the device has not asked for more.
LEMMA HaltRemote ==
    ASSUME NEW w, Good(w), Saving(w.sk), NEW l \in Locals, w.sk[l].peer = Remote,
           "R" \in w.sk[l].want, w.sk[l].pend = {}, NEW u, u.sk = w.sk,
           Given(w, u, "WRTE", l), NEW v, Halted(u, v, l)
    PROVE  Even(w, v)
<1>0. /\ \A m \in Locals : m # l => v.sk[m] = w.sk[m]
      /\ v.sk[l].on = w.sk[l].on /\ v.sk[l].peer = w.sk[l].peer /\ v.sk[l].q = w.sk[l].q
      /\ "R" \notin v.sk[l].want /\ v.sk[l].pend = {} /\ v.h2d = u.h2d
  BY DEF Halted
<1>1. Saving(v.sk)
  <2>1. /\ \A m \in Locals : Len(v.sk[m].q) <= MAX_PAYLOAD
        /\ \A m \in Locals : v.sk[m].on = "list" /\ "R" \in v.sk[m].pend => "R" \in v.sk[m].want
    BY <1>0 DEF Saving
  <2>2. \A m \in Locals : /\ v.sk[m].peer = w.sk[m].peer /\ v.sk[m].q = w.sk[m].q
                             /\ ("R" \in v.sk[m].want => "R" \in w.sk[m].want)
    BY <1>0
  <2> QED
    BY <2>1, <2>2 DEF Saving
<1>2. ASSUME NEW c \in Clients PROVE Flow(w, v, c)
  <2>1. w.h2d \in Seq(Packet) /\ c \in Locals /\ w.sk[l].on = "list"
    BY Distinct DEF Good, SkOK, SockOK, Record
  <2>2. Okays(w.h2d, c) \in Nat /\ Writes(w.h2d, c) \in Nat
    BY <2>1, PlacesFinite DEF Okays, Writes
  <2>3. /\ Okays(v.h2d, c) = Okays(w.h2d, c) + One("WRTE" = "OKAY" /\ c = l)
        /\ Writes(v.h2d, c) = Writes(w.h2d, c) + One("WRTE" = "WRTE" /\ c = l)
    BY <1>0 DEF Given
  <2>4. Okays(v.h2d, c) = Okays(w.h2d, c)
    BY <2>2, <2>3 DEF One
  <2>5. CASE c = l
    <3>1. Writes(v.h2d, c) = Writes(w.h2d, c) + 1
      BY <2>3, <2>5 DEF One
    <3>2. Reads(v.sk[c]) = 0 /\ Reads(w.sk[c]) = 1 /\ Backlog(v.sk[c]) = Backlog(w.sk[c])
      BY <1>0, <2>5 DEF Reads, Backlog, One
    <3>3. /\ Backlog(v.sk[c]) + Okays(v.h2d, c) = Backlog(w.sk[c]) + Okays(w.h2d, c)
          /\ Reads(v.sk[c]) + Writes(v.h2d, c) = Reads(w.sk[c]) + Writes(w.h2d, c)
      BY <2>2, <2>4, <3>1, <3>2
    <3> QED
      BY <1>0, <2>1, <2>5, <3>3, Distinct DEF Flow
  <2>6. CASE c # l
    <3>1. Writes(v.h2d, c) = Writes(w.h2d, c)
      BY <2>2, <2>3, <2>6 DEF One
    <3> QED
      BY <1>0, <2>1, <2>4, <2>6, <3>1 DEF Flow, Uncounted
  <2> QED
    BY <2>5, <2>6
<1> QED
  BY <1>1, <1>2 DEF Even

\* The stream of l was asked for, and its client is not read until the device answers.
LEMMA HaltAsked ==
    ASSUME NEW w, Good(w), Saving(w.sk), NEW l \in Locals, w.sk[l].peer = Smart,
           w.sk[l].pend = {}, NEW u, Asked(w, u, l), NEW v, Halted(u, v, l)
    PROVE  Even(w, v)
<1>0. /\ \A m \in Locals : m # l => v.sk[m] = w.sk[m]
      /\ v.sk[l].peer = None /\ v.sk[l].q = << >> /\ "R" \notin v.sk[l].want
      /\ v.sk[l].pend = {} /\ \A c \in Clients : Uncounted(w, v, c)
  BY DEF Halted, Asked, Uncounted
<1>1. Saving(v.sk)
  <2>1. Len(<< >>) <= MAX_PAYLOAD
    BY SocketsAssumption
  <2>2. /\ \A m \in Locals : Len(v.sk[m].q) <= MAX_PAYLOAD
        /\ \A m \in Locals : v.sk[m].on = "list" /\ "R" \in v.sk[m].pend => "R" \in v.sk[m].want
    BY <1>0, <2>1 DEF Saving
  <2>3. ASSUME NEW m \in Locals, v.sk[m].peer \in Locals, v.sk[v.sk[m].peer].q # << >>
        PROVE  "R" \notin v.sk[m].want
    <3>1. m # l /\ v.sk[m] = w.sk[m]
      BY <1>0, <2>3, Distinct
    <3>2. w.sk[w.sk[m].peer].q # << >>
      BY <1>0, <2>3, <3>1
    <3> QED
      BY <2>3, <3>1, <3>2 DEF Saving
  <2> QED
    BY <2>2, <2>3 DEF Saving
<1>2. ASSUME NEW c \in Clients PROVE Flow(w, v, c)
  <2>1. c \in Locals /\ Uncounted(w, v, c)
    BY <1>0, Distinct
  <2>2. CASE c = l
    BY <1>0, <2>1, <2>2, Distinct DEF Flow
  <2>3. CASE c # l
    BY <1>0, <2>1, <2>3 DEF Flow, Uncounted
  <2> QED
    BY <2>2, <2>3
<1> QED
  BY <1>1, <1>2 DEF Even

\* The local peer of l has a backlog now, of a packet at most.
LEMMA HaltQueued ==
    ASSUME NEW w, Good(w), Saving(w.sk), NEW l \in Locals, NEW p \in Locals, w.sk[l].peer = p,
           "R" \in w.sk[l].want, w.sk[l].pend = {}, NEW bytes \in Seq(Item),
           Len(bytes) <= MAX_PAYLOAD, NEW u, Good(u), Queued(w, u, p, bytes),
           NEW v, Halted(u, v, l)
    PROVE  Even(w, v)
<1>1. w.sk[p].peer = l /\ l # p /\ w.sk[p].q = << >>
  <2>1. w.sk[p].peer = l /\ l # p
    BY PeerIs, Distinct DEF Good, SkOK, SockOK
  <2> QED
    BY <2>1 DEF Saving
<1>2. /\ \A m \in Locals : m \notin {l, p} => v.sk[m] = w.sk[m]
      /\ v.sk[l].on = w.sk[l].on /\ v.sk[l].peer = p /\ v.sk[l].q = w.sk[l].q
      /\ "R" \notin v.sk[l].want /\ v.sk[l].pend = {}
      /\ v.sk[p].on = w.sk[p].on /\ v.sk[p].peer = l /\ Len(v.sk[p].q) <= Len(bytes)
      /\ ("R" \in v.sk[p].want <=> "R" \in w.sk[p].want) /\ v.sk[p].pend \subseteq w.sk[p].pend
      /\ v.h2d = w.h2d
  BY <1>1 DEF Halted, Queued
<1>3. \A m \in Locals : Len(v.sk[m].q) <= MAX_PAYLOAD
  <2>1. Len(v.sk[p].q) \in Nat
    <3>1. v.sk[p].q = u.sk[p].q /\ u.sk[p].q \in Seq(Item)
      BY <1>1 DEF Halted, Good, SkOK, Socket
    <3> QED
      BY <3>1, LenProperties
  <2>2. Len(v.sk[p].q) <= MAX_PAYLOAD
    BY <1>2, <2>1, LenProperties, SocketsAssumption
  <2> QED
    BY <1>2, <2>2 DEF Saving
<1>4. \A m \in Locals : v.sk[m].on = "list" /\ "R" \in v.sk[m].pend => "R" \in v.sk[m].want
  BY <1>2 DEF Saving
<1>5. ASSUME NEW m \in Locals, v.sk[m].peer \in Locals, v.sk[v.sk[m].peer].q # << >>
      PROVE  "R" \notin v.sk[m].want
  <2>1. CASE m = l
    BY <1>2, <2>1
  <2>2. CASE m = p
    BY <1>1, <1>2, <1>5, <2>2 DEF Saving
  <2>3. CASE m \notin {l, p}
    <3>1. v.sk[m] = w.sk[m] /\ w.sk[w.sk[m].peer].peer = m
      BY <1>2, <1>5, <2>3 DEF Good, SkOK
    <3>2. w.sk[m].peer \notin {l, p}
      BY <1>1, <2>3, <3>1
    <3>3. w.sk[w.sk[m].peer].q # << >>
      BY <1>2, <1>5, <3>1, <3>2
    <3> QED
      BY <1>5, <3>1, <3>3 DEF Saving
  <2> QED
    BY <2>1, <2>2, <2>3
<1>6. ASSUME NEW c \in Clients PROVE Flow(w, v, c)
  <2>1. c \in Locals /\ Uncounted(w, v, c)
    BY <1>2, Distinct DEF Uncounted
  <2>2. CASE c \in {l, p}
    BY <1>1, <1>2, <2>1, <2>2, Distinct DEF Flow
  <2>3. CASE c \notin {l, p}
    BY <1>2, <2>1, <2>3 DEF Flow, Uncounted
  <2> QED
    BY <2>2, <2>3
<1> QED
  BY <1>3, <1>4, <1>5, <1>6 DEF Even, Saving

\* What a read keeps, once it no longer reads where the peer is not ready.
ReadEven(w, e, l) ==
    /\ e.r <= 0 => Even(w, e.w)
    /\ e.r > 0 => \/ e.w.sk[l].on # "list" /\ Fewer(w, e.w)
                  \/ e.w.sk[l].on = "list" /\ \A v : Halted(e.w, v, l) => Even(w, v)

LEMMA PeerEnqueueEven ==
    ASSUME NEW w, Good(w), NEW l \in Locals, w.sk[l].peer # None, NEW bytes \in Seq(Item),
           Saving(w.sk), "R" \in w.sk[l].want, w.sk[l].pend = {}, Len(bytes) <= MAX_PAYLOAD
    PROVE  ReadEven(w, PeerEnqueue(w, l, bytes), l)
<1> DEFINE p == w.sk[l].peer
           e == PeerEnqueue(w, l, bytes)
<1>0. p \in Locals \cup {Smart, Remote} /\ w.sk[l].on = "list"
  BY DEF Good, SkOK, Socket, SockOK
<1>1. CASE p = Remote
  <2> DEFINE u == Send(w, "WRTE", l, bytes)
  <2>1. e = [w |-> u, r |-> 1]
    BY <1>1, Distinct DEF PeerEnqueue
  <2>2. l \in Clients /\ w.disc # {}
    BY <1>1, RemoteIs
  <2>3. u.sk = w.sk /\ Given(w, u, "WRTE", l)
    BY <2>2, SendSafe
  <2> HIDE DEF u
  <2>4. \A v : Halted(u, v, l) => Even(w, v)
    BY <1>1, <2>3, HaltRemote
  <2> QED
    BY <1>0, <2>1, <2>3, <2>4 DEF ReadEven
<1>2. CASE p = Smart
  <2>1. e = SmartEnqueue(w, l, bytes)
    BY <1>2, Distinct DEF PeerEnqueue
  <2>2. SmartSafe(w, e, l)
    BY <1>2, <2>1, SmartEnqueueOK
  <2> HIDE DEF e
  <2>3. e.r > 0 => e.w.sk[l].on = "list" /\ \A v : Halted(e.w, v, l) => Even(w, v)
    BY <1>2, <2>2, HaltAsked DEF SmartSafe
  <2>4. e.r <= 0 => Even(w, e.w)
    BY <2>2 DEF SmartSafe
  <2> QED
    BY <2>3, <2>4 DEF ReadEven, e
<1>3. CASE p \in Locals
  <2>1. e = Enqueue(w, p, bytes)
    BY <1>3, Distinct DEF PeerEnqueue
  <2>2. w.sk[p].on = "list" /\ w.sk[p].peer = l
    BY <1>3, PeerIs
  <2>3. w.sk[p].peer \notin {None, Smart} /\ w.sk[l].peer = p
    BY <2>2, Distinct
  <2> HIDE DEF p, e
  <2>4. /\ Safe(w, e.w) /\ e.r \in {0, 1}
        /\ \/ e.r = 0 /\ e.w.sk = w.sk /\ e.w.h2d = w.h2d
           \/ e.r = 1 /\ e.w.sk[p].on # "list" /\ Fewer(w, e.w)
           \/ e.r = 1 /\ Queued(w, e.w, p, bytes)
    BY <1>3, <2>1, <2>2, <2>3, EnqueueOK
  <2>5. CASE e.r = 0 /\ e.w.sk = w.sk /\ e.w.h2d = w.h2d
    <3>1. Even(w, e.w)
      BY <2>4, <2>5, FewerSame, FewerEven DEF Safe
    <3> QED
      BY <2>5, <3>1 DEF ReadEven, e
  <2>6. CASE e.r = 1 /\ e.w.sk[p].on # "list" /\ Fewer(w, e.w)
    <3>1. e.w.sk[l].on # "list"
      <4>1. SUFFICES ASSUME e.w.sk[l].on = "list" PROVE FALSE
        OBVIOUS
      <4>2. e.w.sk[l].peer = p
        BY <2>3, <2>6, <4>1 DEF Fewer, Alike
      <4>3. e.w.sk[p].on = "list"
        BY <1>3, <2>4, <4>2, PeerIs DEF Safe
      <4> QED
        BY <2>6, <4>3
    <3> QED
      BY <2>6, <3>1 DEF ReadEven, e
  <2>7. CASE e.r = 1 /\ Queued(w, e.w, p, bytes)
    <3>1. \A v : Halted(e.w, v, l) => Even(w, v)
      BY <1>3, <2>3, <2>4, <2>7, HaltQueued DEF Safe
    <3>2. e.w.sk[l].on = "list"
      <4>1. p # l
        BY <1>3, <2>2, Distinct DEF Good, SkOK, SockOK
      <4> QED
        BY <1>0, <2>7, <4>1 DEF Queued
    <3> QED
      BY <2>7, <3>1, <3>2 DEF ReadEven, e
  <2> QED
    BY <2>4, <2>5, <2>6, <2>7
<1> QED
  BY <1>0, <1>1, <1>2, <1>3

LEMMA ReadLenOK ==
    ASSUME NEW l \in Locals, toServer \in [Locals -> Seq(Item)]
    PROVE  /\ ReadLen(l) \in 0..Len(toServer[l]) /\ toServer[l] \in Seq(Item)
           /\ SubSeq(toServer[l], 1, ReadLen(l)) \in Seq(Item)
           /\ Len(SubSeq(toServer[l], 1, ReadLen(l))) <= MAX_PAYLOAD
           /\ SubSeq(toServer[l], ReadLen(l) + 1, Len(toServer[l])) \in Seq(Item)
<1>1. MAX_PAYLOAD \in Nat /\ toServer[l] \in Seq(Item) /\ Len(toServer[l]) \in Nat
  BY SocketsAssumption, LenProperties
<1> DEFINE n == Len(toServer[l])
<1> HIDE DEF n
<1>2. Min({MAX_PAYLOAD, n}) = IF MAX_PAYLOAD <= n THEN MAX_PAYLOAD ELSE n
  BY <1>1, MinMax DEF n
<1>3. ReadLen(l) \in 0..Len(toServer[l]) /\ ReadLen(l) <= MAX_PAYLOAD
  BY <1>1, <1>2 DEF ReadLen, n
<1> QED
  BY <1>1, <1>3, Split

\* The peer's enqueue writes to no client but the peer.
LEMMA PeerEnqueueHolds ==
    ASSUME NEW w, Good(w), NEW l \in Locals, w.sk[l].peer # None, NEW bytes \in Seq(Item),
           NEW c \in Clients, c # w.sk[l].peer
    PROVE  Holds(w, PeerEnqueue(w, l, bytes).w, c)
<1> DEFINE p == w.sk[l].peer
           e == PeerEnqueue(w, l, bytes)
<1>0. p \in Locals \cup {Smart, Remote} /\ w \in Record
  BY DEF Good, SkOK, Socket
<1>1. CASE p = Remote
  <2>1. e.w = Send(w, "WRTE", l, bytes)
    BY <1>1, Distinct DEF PeerEnqueue
  <2> QED
    BY <1>0, <2>1, SendHolds
<1>2. CASE p = Smart
  <2>1. e = SmartEnqueue(w, l, bytes)
    BY <1>2, Distinct DEF PeerEnqueue
  <2> QED
    BY <1>0, <1>2, <2>1, SmartEnqueueIntact, IntactHolds
<1>3. CASE p \in Locals
  <2>1. e = Enqueue(w, p, bytes)
    BY <1>3, Distinct DEF PeerEnqueue
  <2>2. w.sk[p].on = "list"
    BY <1>3, PeerIs
  <2> QED
    BY <1>3, <2>1, <2>2, EnqueueGets
<1> QED
  BY <1>0, <1>1, <1>2, <1>3

\* FDE_READ.
LEMMA EventReadOK ==
    ASSUME NEW w, Good(w), NEW l \in Locals, w.sk[l].on \in {"list", "closing"},
           toServer \in [Locals -> Seq(Item)]
    PROVE  /\ Safe(w, EventRead(w, l))
           /\ Saving(w.sk) /\ w.sk[l].pend = {} /\ (w.sk[l].on = "list" => "R" \in w.sk[l].want)
                => Even(w, EventRead(w, l))
           /\ \A c \in Clients : c # w.sk[l].peer => Holds(w, EventRead(w, l), c)
<1> DEFINE bytes == SubSeq(toServer[l], 1, ReadLen(l))
           e == IF bytes = << >> \/ w.sk[l].peer = None
                  THEN [w |-> w, r |-> 0] ELSE PeerEnqueue(w, l, bytes)
           u == e.w
           dead == u.sk[l].on = "freed"
           x == IF e.r > 0 THEN [u EXCEPT !.sk = [u.sk EXCEPT ![l] = FdeDel(u.sk[l], "R")]] ELSE u
           reads == Saving(w.sk) /\ w.sk[l].pend = {} /\ (w.sk[l].on = "list" => "R" \in w.sk[l].want)
<1>0. EventRead(w, l) = IF e.r < 0 THEN u ELSE IF dead THEN [u EXCEPT !.bad = TRUE]
                        ELSE IF ReadEof(l) THEN Close(x, l) ELSE x
  BY DEF EventRead, HandOver
<1>1. /\ ReadSafe(w, e, l) /\ (reads => ReadEven(w, e, l))
      /\ \A c \in Clients : c # w.sk[l].peer => Holds(w, u, c)
  <2>1. bytes \in Seq(Item) /\ Len(bytes) <= MAX_PAYLOAD
    BY ReadLenOK
  <2> HIDE DEF bytes
  <2>2. CASE bytes = << >> \/ w.sk[l].peer = None
    <3>1. Saving(w.sk) => Even(w, w)
      BY FewerSame, FewerEven
    <3>2. \A c \in Clients : Holds(w, w, c)
      BY HoldsSame DEF Good
    <3> QED
      BY <2>2, <3>1, <3>2, SafeSame DEF ReadSafe, ReadEven
  <2>3. CASE ~(bytes = << >> \/ w.sk[l].peer = None)
    <3>1. w.sk[l].on = "list"
      BY <2>3 DEF Good, SkOK, SockOK
    <3>2. \A c \in Clients : c # w.sk[l].peer => Holds(w, PeerEnqueue(w, l, bytes).w, c)
      BY <2>1, <2>3, PeerEnqueueHolds
    <3> QED
      BY <2>1, <2>3, <3>1, <3>2, PeerEnqueueOK, PeerEnqueueEven
  <2> QED
    BY <2>2, <2>3
<1> HIDE DEF e
<1>2. /\ Safe(w, u) /\ e.r \in {-1, 0, 1} /\ (Services = {} /\ e.r >= 0 => u.sk[l].on # "freed")
      /\ Good(u) /\ u \in Record /\ u.sk \in [Locals -> Socket] /\ u.sk[l] \in Socket
      /\ SockOK(l, u.sk[l])
  BY <1>1 DEF ReadSafe, Safe, Good, SkOK
<1>13. \A c \in Clients : c # w.sk[l].peer => Holds(w, u, c)
  BY <1>1
<1>9. reads => ReadEven(w, e, l) /\ Saving(w.sk)
  BY <1>1
<1> HIDE DEF reads
<1>3. u.sk[l].on \in {"list", "closing", "freed"}
  <2>1. u.sk[l].on # "absent"
    BY <1>2 DEF Safe, Calm
  <2> QED
    BY <1>2, <2>1 DEF Socket
<1> HIDE DEF u
<1>10. e.w = u
  BY DEF u
<1>11. reads /\ e.r <= 0 => Even(w, u)
  BY <1>9, <1>10 DEF ReadEven
<1>12. reads /\ u.sk[l].on # "list" => Even(w, u)
  <2>1. e.r > 0 /\ reads /\ u.sk[l].on # "list" => Fewer(w, u)
    BY <1>9, <1>10 DEF ReadEven
  <2> QED
    BY <1>2, <1>9, <1>11, <2>1, FewerEven
<1>4. CASE e.r < 0
  BY <1>0, <1>2, <1>4, <1>11, <1>13 DEF reads
<1>5. CASE e.r >= 0 /\ dead
  <2> DEFINE v == [u EXCEPT !.bad = TRUE]
  <2>1. EventRead(w, l) = v
    BY <1>0, <1>2, <1>5
  <2>2. /\ v \in Record /\ v.sk = u.sk /\ v.disc = u.disc /\ v.h2d = u.h2d /\ Services # {}
        /\ v.toProc = u.toProc
    BY <1>2, <1>5 DEF Record
  <2> HIDE DEF v
  <2>3. Safe(u, v)
    BY <1>2, <2>2 DEF Safe, Good, Tame, Calm, Quiet
  <2>4. reads => Even(w, v)
    <3>1. reads => Even(w, u)
      BY <1>5, <1>12
    <3>2. Saving(u.sk) => Even(u, v)
      BY <1>2, <2>2, <2>3, FewerSame, FewerEven DEF Safe
    <3> QED
      BY <1>2, <3>1, <3>2, EvenTrans DEF Even
  <2>5. \A c \in Clients : c # w.sk[l].peer => Holds(w, v, c)
    <3>1. \A c \in Clients : Holds(u, v, c)
      BY <1>2, <2>2, HoldsSame
    <3> QED
      BY <1>2, <1>13, <2>3, <3>1, SafeHolds
  <2> QED
    BY <1>2, <2>1, <2>3, <2>4, <2>5, SafeTrans DEF reads
<1>6. CASE e.r >= 0 /\ ~dead
  <2>1. /\ Safe(u, x) /\ x.sk[l].on = u.sk[l].on /\ (reads => Even(w, x))
        /\ \A c \in Clients : Holds(u, x, c)
    <3>1. CASE e.r > 0
      <4> DEFINE r == FdeDel(u.sk[l], "R")
                 v == [u EXCEPT !.sk = [u.sk EXCEPT ![l] = r]]
      <4>1. x = v /\ u.sk[l].on \in {"list", "closing"}
        BY <1>3, <1>6, <3>1
      <4>7. "R" \notin r.want /\ r.pend \subseteq u.sk[l].pend
        BY <1>2 DEF FdeDel, FdeSet, Socket
      <4>2. r \in Socket /\ SockOK(l, r) /\ r = [u.sk[l] EXCEPT !.want = r.want, !.pend = r.pend]
        BY <1>2, <4>1, ReadMask
      <4> HIDE DEF r
      <4>3. /\ r.on = u.sk[l].on /\ r.peer = u.sk[l].peer /\ (Uses(r) => Uses(u.sk[l]))
            /\ r.q = u.sk[l].q
        BY <1>2, <4>2 DEF Socket, Uses
      <4>4. /\ v \in Record /\ v.sk = [u.sk EXCEPT ![l] = r] /\ v.disc = u.disc /\ v.h2d = u.h2d
            /\ v.bad = u.bad /\ v.toProc = u.toProc
        BY <1>2, <4>2 DEF Record
      <4> HIDE DEF v
      <4>5. Safe(u, v)
        BY <1>2, <4>2, <4>3, <4>4, Touch
      <4>10. \A c \in Clients : Holds(u, v, c)
        <5>1. \A c \in Clients : c \in Locals /\ v.sk[c].q = u.sk[c].q
          BY <1>2, <4>3, <4>4 DEF Locals
        <5> QED
          BY <1>2, <4>4, <5>1, HoldsSame
      <4>8. ASSUME reads, u.sk[l].on = "list" PROVE Even(w, v)
        <5>1. Halted(u, v, l)
          BY <1>2, <4>3, <4>4, <4>7 DEF Halted
        <5>2. \A z : Halted(u, z, l) => Even(w, z)
          BY <1>9, <1>10, <3>1, <4>8 DEF ReadEven
        <5> QED
          BY <5>1, <5>2
      <4>9. ASSUME reads, u.sk[l].on # "list" PROVE Even(w, v)
        <5>1. Even(w, u)
          BY <1>12, <4>9
        <5>2. Fewer(u, v)
          <6>1. \A c \in Clients : Uncounted(u, v, c)
            BY <4>4, UncountedSame
          <6>2. r.on # "list" /\ r.q \in {u.sk[l].q, << >>}
            BY <4>3, <4>9
          <6> QED
            BY <1>2, <4>4, <6>1, <6>2, FewerOne
        <5>3. Even(u, v)
          BY <1>2, <4>5, <5>1, <5>2, FewerEven DEF Safe, Even
        <5> QED
          BY <1>2, <5>1, <5>3, EvenTrans
      <4>6. v.sk[l].on = u.sk[l].on
        BY <1>2, <4>3, <4>4
      <4> QED
        BY <4>1, <4>5, <4>6, <4>8, <4>9, <4>10
    <3>2. CASE e.r = 0
      <4>1. \A c \in Clients : Holds(u, u, c)
        BY <1>2, HoldsSame
      <4> QED
        BY <1>2, <1>11, <3>2, <4>1, SafeSame
    <3>3. e.r > 0 \/ e.r = 0
      BY <1>2, <1>6
    <3> QED
      BY <3>1, <3>2, <3>3
  <2>2. EventRead(w, l) = IF ReadEof(l) THEN Close(x, l) ELSE x
    BY <1>0, <1>2, <1>6
  <2>3. ReadEof(l) => x.sk[l].on \in {"list", "closing"}
    BY <1>3, <1>6, <2>1
  <2> HIDE DEF x
  <2>4. Safe(w, x) /\ Good(x)
    BY <1>2, <2>1, SafeTrans DEF Safe
  <2>7. \A c \in Clients : c # w.sk[l].peer => Holds(w, x, c)
    BY <1>2, <1>13, <2>1, SafeHolds
  <2>5. CASE ReadEof(l)
    <3>1. Safe(x, Close(x, l)) /\ Fewer(x, Close(x, l))
      BY <2>3, <2>4, <2>5, CloseOK
    <3>2. reads => Even(x, Close(x, l))
      BY <2>1, <2>4, <3>1, FewerEven DEF Safe, Even
    <3>3. reads => Even(w, Close(x, l))
      BY <2>1, <2>4, <3>2, EvenTrans
    <3>4. \A c \in Clients : Holds(x, Close(x, l), c)
      BY <2>3, <2>4, <2>5, CloseHolds
    <3>5. \A c \in Clients : c # w.sk[l].peer => Holds(w, Close(x, l), c)
      BY <2>4, <2>7, <3>1, <3>4, SafeHolds
    <3> QED
      BY <2>2, <2>4, <2>5, <3>1, <3>3, <3>5, SafeTrans DEF reads
  <2>6. CASE ~ReadEof(l)
    BY <2>1, <2>2, <2>4, <2>6, <2>7 DEF reads
  <2> QED
    BY <2>5, <2>6
<1> QED
  BY <1>2, <1>4, <1>5, <1>6

-----------------------------------------------------------------------------
(* handle_packet *)

\* The device wants more of socket c: the first time, its remote socket is made.
Readied(w, v, c) ==
    /\ v.h2d = w.h2d /\ \A m \in Locals : m # c => v.sk[m] = w.sk[m]
    /\ v.sk[c].on = "list" /\ v.sk[c].q = w.sk[c].q /\ "R" \in v.sk[c].want
    /\ v.sk[c].peer = IF w.sk[c].peer = None THEN Remote ELSE w.sk[c].peer

\* The first OKAY makes the remote socket.
Made(w, c) == [w EXCEPT !.sk[c].peer = Remote, !.disc = @ \cup {c}]

LEMMA RemoteMade ==
    ASSUME NEW w, Good(w), NEW c \in Clients, tr = "on", w.sk[c].on = "list", w.sk[c].peer = None
    PROVE  LET x == Made(w, c)
           IN  /\ Safe(w, x) /\ x.h2d = w.h2d /\ x.toProc = w.toProc
               /\ x.sk[c].on = "list" /\ x.sk[c].peer = Remote /\ x.sk[c].q = w.sk[c].q
               /\ x.sk[c].notify = w.sk[c].notify
               /\ \A m \in Locals : m # c => x.sk[m] = w.sk[m]
<1> DEFINE x == Made(w, c)
<1>0. /\ w \in Record /\ w.sk \in [Locals -> Socket] /\ c \in Locals /\ w.sk[c] \in Socket
      /\ SockOK(c, w.sk[c]) /\ SkOK(w.sk, w.disc) /\ w.disc \subseteq Clients
  BY Distinct DEF Good, SkOK
<1>1. PICK s : s = [w.sk[c] EXCEPT !.peer = Remote]
  OBVIOUS
<1>2. /\ s \in Socket /\ s.on = "list" /\ s.peer = Remote /\ s.q = w.sk[c].q
      /\ s.want = w.sk[c].want /\ s.pend = w.sk[c].pend /\ s.trans = w.sk[c].trans
      /\ s.smartTrans = w.sk[c].smartTrans /\ s.notify = w.sk[c].notify
  BY <1>0, <1>1 DEF Socket
<1>3. SockOK(c, s)
  BY <1>0, <1>2, Distinct DEF SockOK
<1>4. x = [w EXCEPT !.sk = [w.sk EXCEPT ![c] = s], !.disc = w.disc \cup {c}]
  BY <1>1 DEF Made
<1> HIDE DEF x
<1>5. /\ x \in Record /\ x.sk = [w.sk EXCEPT ![c] = s] /\ x.disc = w.disc \cup {c}
      /\ x.h2d = w.h2d /\ x.bad = w.bad /\ x.toProc = w.toProc
  BY <1>0, <1>2, <1>4 DEF Record
<1>6. SkOK(x.sk, x.disc)
  <2>1. w.sk[c].peer \notin Locals /\ s.peer \notin Locals
    BY <1>2, Distinct
  <2>2. SkOK([w.sk EXCEPT ![c] = s], IF s.peer = Remote THEN w.disc \cup {c} ELSE w.disc \ {c})
    BY <1>0, <1>2, <1>3, <2>1, NewPeer, Zenon
  <2> QED
    BY <1>2, <1>5, <2>2
<1>7. \A m \in Locals : x.sk[m] = IF m = c THEN s ELSE w.sk[m]
  BY <1>0, <1>5
<1>8. Calm(w, x)
  BY <1>2, <1>5, <1>7 DEF Calm, Quiet, Locals
<1>9. Safe(w, x)
  BY <1>5, <1>6, <1>8 DEF Safe, Good, Tame
<1> QED
  BY <1>0, <1>2, <1>5, <1>7, <1>9 DEF x

LEMMA HandleOkayOK ==
    ASSUME NEW w, Good(w), NEW c \in Clients, tr = "on"
    PROVE  /\ Safe(w, HandleOkay(w, c))
           /\ w.sk[c].on # "list" => HandleOkay(w, c) = w
           /\ w.sk[c].on = "list" => Readied(w, HandleOkay(w, c), c)
           /\ HandleOkay(w, c).sk[c].on = "list" => HandleOkay(w, c).sk[c].peer # None
<1>0. c \in Locals
  BY Distinct
<1>1. CASE w.sk[c].on # "list"
  BY <1>1, SafeSame DEF HandleOkay
<1>2. CASE w.sk[c].on = "list" /\ w.sk[c].peer # None
  <2>1. HandleOkay(w, c) = Ready(w, c)
    BY <1>2 DEF HandleOkay
  <2>2. Safe(w, Ready(w, c)) /\ Awake(w, Ready(w, c), c)
    BY <1>0, <1>2, ReadyOK
  <2> QED
    BY <1>2, <2>1, <2>2 DEF Awake, Readied
<1>3. CASE w.sk[c].on = "list" /\ w.sk[c].peer = None
  <2> DEFINE x == Made(w, c)
  <2>1. HandleOkay(w, c) = Ready(x, c)
    BY <1>3 DEF HandleOkay, Made
  <2>8. /\ Safe(w, x) /\ x.h2d = w.h2d /\ x.sk[c].on = "list" /\ x.sk[c].peer = Remote
        /\ x.sk[c].q = w.sk[c].q /\ \A m \in Locals : m # c => x.sk[m] = w.sk[m]
    BY <1>3, RemoteMade
  <2> HIDE DEF x
  <2>9. x.sk[c].on = "list" /\ x.sk[c].peer # None
    BY <2>8, Distinct
  <2>10. /\ Safe(x, Ready(x, c)) /\ Ready(x, c).sk[c].peer = x.sk[c].peer
         /\ Awake(x, Ready(x, c), c)
    BY <1>0, <2>8, <2>9, ReadyOK DEF Safe
  <2>11. Readied(w, Ready(x, c), c)
    BY <1>0, <1>3, <2>8, <2>10 DEF Awake, Readied
  <2> QED
    BY <1>3, <2>1, <2>8, <2>9, <2>10, <2>11, SafeTrans
<1> QED
  BY <1>1, <1>2, <1>3

LEMMA HandleCloseOK ==
    ASSUME NEW w, Good(w), NEW c \in Clients
    PROVE  Safe(w, HandleClose(w, c)) /\ Fewer(w, HandleClose(w, c))
<1>1. CASE w.sk[c].on # "list"
  BY <1>1, SafeSame, FewerSame DEF HandleClose
<1>2. CASE w.sk[c].on = "list"
  BY <1>2, CloseOK, Distinct DEF HandleClose
<1> QED
  BY <1>1, <1>2

LEMMA HandleWriteOK ==
    ASSUME NEW w, Good(w), NEW c \in Clients, NEW bytes \in Seq(Item), tr = "on",
           w.sk[c].on = "list" => w.sk[c].peer \notin {None, Smart}
    PROVE  /\ Safe(w, HandleWrite(w, c, bytes))
           /\ w.sk[c].on # "list" => HandleWrite(w, c, bytes) = w
           /\ w.sk[c].on = "list" =>
                \/ /\ HandleWrite(w, c, bytes).sk = w.sk
                   /\ Given(w, HandleWrite(w, c, bytes), "OKAY", c)
                \/ /\ HandleWrite(w, c, bytes).sk[c].on # "list"
                   /\ Fewer(w, HandleWrite(w, c, bytes))
                \/ Queued(w, HandleWrite(w, c, bytes), c, bytes)
<1> DEFINE e == Enqueue(w, c, bytes)
<1>1. CASE w.sk[c].on # "list"
  BY <1>1, SafeSame DEF HandleWrite
<1>2. CASE w.sk[c].on = "list"
  <2>1. /\ Safe(w, e.w) /\ e.r \in {0, 1}
        /\ \/ e.r = 0 /\ e.w.sk = w.sk /\ e.w.h2d = w.h2d
           \/ e.r = 1 /\ e.w.sk[c].on # "list" /\ Fewer(w, e.w)
           \/ e.r = 1 /\ Queued(w, e.w, c, bytes)
    BY <1>2, EnqueueOK, Distinct
  <2>2. HandleWrite(w, c, bytes) = IF e.r = 0 THEN Send(e.w, "OKAY", c, << >>) ELSE e.w
    BY <1>2 DEF HandleWrite
  <2> DEFINE u == e.w
  <2> HIDE DEF e
  <2>3. /\ Safe(u, Send(u, "OKAY", c, << >>)) /\ Send(u, "OKAY", c, << >>).sk = u.sk
        /\ Given(u, Send(u, "OKAY", c, << >>), "OKAY", c)
    <3> HIDE DEF u
    <3>1. Good(u)
      BY <2>1 DEF Safe, u
    <3> QED
      BY <3>1, SendOkay
  <2>4. Safe(w, Send(u, "OKAY", c, << >>))
    BY <2>1, <2>3, SafeTrans
  <2>5. CASE e.r = 0 /\ u.sk = w.sk /\ u.h2d = w.h2d
    <3>1. HandleWrite(w, c, bytes) = Send(u, "OKAY", c, << >>)
      BY <2>2, <2>5
    <3>2. Given(w, Send(u, "OKAY", c, << >>), "OKAY", c)
      BY <2>3, <2>5 DEF Given
    <3> QED
      BY <1>2, <2>3, <2>4, <2>5, <3>1, <3>2
  <2>6. CASE e.r = 1
    BY <1>2, <2>1, <2>2, <2>6
  <2> QED
    BY <2>1, <2>5, <2>6
<1> QED
  BY <1>1, <1>2

(* What the packets of a stream bring to its client *)

\* s->ready(s) writes a status at most.
LEMMA ReadyTold ==
    ASSUME NEW w \in Record, NEW l \in Locals
    PROVE  Told(w, Ready(w, l))
<1> DEFINE x == Notified(w, l, "OKAY")
<1>1. x \in Record /\ Told(w, x)
  BY NotifiedIs, NotifiedTold DEF Hushed
<1>2. Ready(w, l) = [x EXCEPT !.sk[l] = FdeAdd(@, "R")]
  BY DEF Ready, Notified
<1> HIDE DEF x
<1>3. Ready(w, l).toProc = x.toProc
  BY <1>1, <1>2 DEF Record
<1> QED
  BY <1>1, <1>3 DEF Told

LEMMA HandleOkayHolds ==
    ASSUME NEW w, Good(w), NEW c \in Clients, tr = "on", NEW b \in Clients
    PROVE  Holds(w, HandleOkay(w, c), b)
<1>0. w \in Record /\ c \in Locals /\ b \in Locals /\ w.sk \in [Locals -> Socket]
  BY Distinct DEF Good, SkOK
<1>1. CASE w.sk[c].on # "list"
  BY <1>0, <1>1, HoldsSame DEF HandleOkay
<1>2. CASE w.sk[c].on = "list"
  <2>1. Readied(w, HandleOkay(w, c), c)
    BY <1>2, HandleOkayOK
  <2>2. HandleOkay(w, c).sk[b].q = w.sk[b].q
    BY <1>0, <2>1 DEF Readied
  <2>4. ASSUME w.sk[c].peer = None PROVE Told(w, HandleOkay(w, c))
    <3> DEFINE x == Made(w, c)
    <3>1. HandleOkay(w, c) = Ready(x, c)
      BY <1>2, <2>4 DEF HandleOkay, Made
    <3>2. Safe(w, x) /\ x.toProc = w.toProc
      BY <1>2, <2>4, RemoteMade
    <3> HIDE DEF x
    <3>3. Told(x, Ready(x, c))
      BY <1>0, <3>2, ReadyTold DEF Safe, Good
    <3> QED
      BY <3>1, <3>2, <3>3 DEF Told
  <2>5. ASSUME w.sk[c].peer # None PROVE Told(w, HandleOkay(w, c))
    <3>1. HandleOkay(w, c) = Ready(w, c)
      BY <1>2, <2>5 DEF HandleOkay
    <3> QED
      BY <1>0, <3>1, ReadyTold
  <2>6. Told(w, HandleOkay(w, c))
    BY <2>4, <2>5
  <2> QED
    BY <1>0, <2>2, <2>6, HoldsSame DEF Told
<1> QED
  BY <1>1, <1>2

LEMMA HandleCloseHolds ==
    ASSUME NEW w, Good(w), NEW c \in Clients, NEW b \in Clients
    PROVE  Holds(w, HandleClose(w, c), b)
<1>1. CASE w.sk[c].on # "list"
  BY <1>1, HoldsSame DEF HandleClose, Good
<1>2. CASE w.sk[c].on = "list"
  BY <1>2, CloseHolds, Distinct DEF HandleClose
<1> QED
  BY <1>1, <1>2

LEMMA HandleWriteGets ==
    ASSUME NEW w, Good(w), NEW c \in Clients, NEW bytes \in Seq(Item), tr = "on",
           w.sk[c].on = "list" => w.sk[c].peer \notin {None, Smart}, NEW b \in Clients
    PROVE  /\ b = c /\ w.sk[c].on = "list" => Gets(w, HandleWrite(w, c, bytes), b, bytes)
           /\ b # c => Holds(w, HandleWrite(w, c, bytes), b)
<1> DEFINE e == Enqueue(w, c, bytes)
<1>1. CASE w.sk[c].on # "list"
  BY <1>1, HoldsSame DEF HandleWrite, Good
<1>2. CASE w.sk[c].on = "list"
  <2>1. Safe(w, e.w)
    BY <1>2, EnqueueOK, Distinct
  <2>2. /\ b = c => Gets(w, e.w, b, bytes)
        /\ b # c => Holds(w, e.w, b)
    BY <1>2, EnqueueGets, Distinct
  <2>3. HandleWrite(w, c, bytes) = IF e.r = 0 THEN Send(e.w, "OKAY", c, << >>) ELSE e.w
    BY <1>2 DEF HandleWrite
  <2> HIDE DEF e
  <2>4. HandleWrite(w, c, bytes).sk = e.w.sk /\ HandleWrite(w, c, bytes).toProc = e.w.toProc
    <3> DEFINE u == e.w
    <3>1. u \in Record
      BY <2>1 DEF Safe, Good
    <3>2. Send(u, "OKAY", c, << >>).sk = u.sk /\ Send(u, "OKAY", c, << >>).toProc = u.toProc
      BY <3>1, SendHolds
    <3> QED
      BY <2>3, <3>2
  <2> QED
    BY <2>2, <2>4 DEF Gets, Holds, Held
<1> QED
  BY <1>1, <1>2

-----------------------------------------------------------------------------
(* Streams *)

\* A handler leaves the streams right.
LEMMA SafeStream ==
    ASSUME NEW w, NEW v, Good(w), Safe(w, v), NEW c \in Clients, NEW q, NEW st,
           StreamAt(c, w.sk[c], w.h2d, q, st)
    PROVE  StreamAt(c, v.sk[c], v.h2d, q, st)
<1>0. /\ c \in Locals /\ SockOK(c, w.sk[c]) /\ SockOK(c, v.sk[c])
      /\ Quiet(w, v, c) \/ Opened(w, v, c)
      /\ v.sk[c].on = "absent" => w.sk[c].on = "absent"
  BY Distinct DEF Safe, Calm, Good, SkOK
<1>1. CASE Quiet(w, v, c)
  <2>1. Early(v.sk[c]) => Early(w.sk[c])
    BY <1>0, <1>1, Distinct DEF Early, Quiet, SockOK
  <2>2. v.sk[c].on = "list" /\ v.sk[c].peer = None => w.sk[c].on = "list" /\ w.sk[c].peer = None
    BY <1>1, Distinct DEF Quiet, Locals
  <2>3. Opens(v.h2d, c) = Opens(w.h2d, c)
    BY <1>1 DEF Quiet
  <2> QED
    BY <2>1, <2>2, <2>3 DEF StreamAt
<1>2. CASE Opened(w, v, c)
  <2>1. Early(w.sk[c]) /\ w.sk[c].on = "list"
    BY <1>0, <1>2, Distinct DEF Early, Opened, SockOK
  <2>2. ~Early(v.sk[c])
    BY <1>0, <1>2, <2>1, Distinct DEF Early, Opened, SockOK
  <2>3. Opens(w.h2d, c) = {} /\ st = "none"
    BY <2>1 DEF StreamAt
  <2>4. PICK n \in Nat : Opens(v.h2d, c) = {n}
    BY <1>2, <2>3 DEF Opened
  <2>5. \A i \in 1..Len(q) : q[i].cmd # "SYNC0" => q[i].id # c
    BY <2>3 DEF StreamAt
  <2> QED
    BY <2>2, <2>3, <2>4, <2>5 DEF StreamAt, IsOf
<1> QED
  BY <1>0, <1>1, <1>2

\* The main thread takes a packet; the OKAY of a socket that waited for it was of use.
LEMMA TakeStream ==
    ASSUME NEW c \in Clients, NEW s, NEW h, NEW q \in Seq(Packet), q # << >>, NEW st,
           StreamAt(c, s, h, q, st),
           IsOf(q[1], "OKAY", c) => ~(s.on = "list" /\ s.peer = None)
    PROVE  StreamAt(c, s, h, Tail(q), st)
<1> DEFINE t == Tail(q)
<1>1. t \in Seq(Packet) /\ Len(q) \in Nat \ {0} /\ Len(t) = Len(q) - 1 /\ \A i \in 1..Len(t) : t[i] = q[i + 1]
  BY HeadTailProperties, EmptySeq, LenProperties
<1> HIDE DEF t
<1>2. \A i \in 1..Len(t) : i + 1 \in 1..Len(q)
  BY <1>1
<1>3. st = "none" => \A i \in 1..Len(t) : t[i].cmd # "SYNC0" => t[i].id # c
  BY <1>1, <1>2 DEF StreamAt
<1>4. ASSUME s.on = "list", s.peer = None
      PROVE  /\ \A i \in 1..Len(t) : IsOf(t[i], "WRTE", c) => \E j \in 1..(i - 1) : IsOf(t[j], "OKAY", c)
             /\ st = "open" => \E j \in 1..Len(t) : IsOf(t[j], "OKAY", c)
  <2>1. ASSUME NEW i \in 1..Len(t), IsOf(t[i], "WRTE", c) PROVE \E j \in 1..(i - 1) : IsOf(t[j], "OKAY", c)
    <3>1. IsOf(q[i + 1], "WRTE", c)
      BY <1>1, <2>1
    <3>2. PICK k \in 1..((i + 1) - 1) : IsOf(q[k], "OKAY", c)
      BY <1>2, <1>4, <3>1 DEF StreamAt
    <3>3. k # 1
      BY <1>4, <3>2
    <3>4. k - 1 \in 1..(i - 1) /\ k - 1 \in 1..Len(t) /\ (k - 1) + 1 = k
      BY <1>1, <3>2, <3>3
    <3>5. t[k - 1] = q[k]
      BY <1>1, <3>4
    <3> QED
      BY <3>2, <3>4, <3>5
  <2>2. ASSUME st = "open" PROVE \E j \in 1..Len(t) : IsOf(t[j], "OKAY", c)
    <3>1. PICK k \in 1..Len(q) : IsOf(q[k], "OKAY", c)
      BY <1>4, <2>2 DEF StreamAt
    <3>2. k # 1
      BY <1>4, <3>1
    <3>3. k - 1 \in 1..Len(t) /\ (k - 1) + 1 = k
      BY <1>1, <3>1, <3>2
    <3>4. t[k - 1] = q[k]
      BY <1>1, <3>3
    <3> QED
      BY <3>1, <3>3, <3>4
  <2> QED
    BY <2>1, <2>2
<1>5. StreamAt(c, s, h, t, st)
  BY <1>3, <1>4 DEF StreamAt
<1> QED
  BY <1>5 DEF t

LEMMA OpensTail ==
    ASSUME NEW h \in Seq(Packet), h # << >>, NEW c
    PROVE  \A i \in Opens(Tail(h), c) : i + 1 \in Opens(h, c) /\ i \in Nat \ {0}
<1> DEFINE t == Tail(h)
<1>1. t \in Seq(Packet) /\ Len(h) \in Nat \ {0} /\ Len(t) = Len(h) - 1 /\ \A i \in 1..Len(t) : t[i] = h[i + 1]
  BY HeadTailProperties, EmptySeq, LenProperties
<1> HIDE DEF t
<1>2. \A i \in Opens(t, c) : i + 1 \in Opens(h, c) /\ i \in Nat \ {0}
  BY <1>1 DEF Opens
<1> QED
  BY <1>2 DEF t

\* The device takes a packet that does not open a stream of c.
LEMMA TakenStream ==
    ASSUME NEW c \in Clients, NEW s, NEW h \in Seq(Packet), h # << >>, NEW q, NEW st,
           StreamAt(c, s, h, q, st)
    PROVE  StreamAt(c, s, Tail(h), q, st)
<1>1. \A i \in Opens(Tail(h), c) : i + 1 \in Opens(h, c) /\ i \in Nat \ {0}
  BY OpensTail
<1>2. \A i, j \in Opens(Tail(h), c) : i = j
  <2> TAKE i, j \in Opens(Tail(h), c)
  <2>1. i + 1 = j + 1 /\ i \in Nat /\ j \in Nat
    BY <1>1 DEF StreamAt
  <2> QED
    BY <2>1
<1>3. Opens(h, c) = {} => Opens(Tail(h), c) = {}
  BY <1>1
<1> QED
  BY <1>2, <1>3 DEF StreamAt

\* The device sends a packet of another stream, or of a stream that is open.
LEMMA ReplyStream ==
    ASSUME NEW c \in Clients, NEW s, NEW h, NEW q \in Seq(Packet), NEW p \in Packet, NEW st,
           NEW st2, StreamAt(c, s, h, q, st), p.cmd = "SYNC0" \/ p.id # c \/ st = "open",
           st2 = st \/ (st = "open" /\ st2 = "closed")
    PROVE  StreamAt(c, s, h, Append(q, p), st2)
<1> DEFINE a == Append(q, p)
<1>1. /\ Len(q) \in Nat /\ Len(a) = Len(q) + 1 /\ a[Len(q) + 1] = p
      /\ \A i \in 1..Len(q) : a[i] = q[i]
  BY AppendProperties, LenProperties
<1> HIDE DEF a
<1>2. \A i \in 1..Len(a) : i \in 1..Len(q) \/ i = Len(q) + 1
  BY <1>1
<1>3. st2 = "none" => \A i \in 1..Len(a) : a[i].cmd # "SYNC0" => a[i].id # c
  BY <1>1, <1>2 DEF StreamAt
<1>4. ASSUME s.on = "list", s.peer = None
      PROVE  /\ \A i \in 1..Len(a) : IsOf(a[i], "WRTE", c) => \E j \in 1..(i - 1) : IsOf(a[j], "OKAY", c)
             /\ st2 = "open" => \E j \in 1..Len(a) : IsOf(a[j], "OKAY", c)
  <2>1. st = "open" => \E j \in 1..Len(q) : IsOf(a[j], "OKAY", c)
    BY <1>1, <1>4 DEF StreamAt
  <2>2. ASSUME NEW i \in 1..Len(a), IsOf(a[i], "WRTE", c) PROVE \E j \in 1..(i - 1) : IsOf(a[j], "OKAY", c)
    <3>1. CASE i \in 1..Len(q)
      <4>1. PICK j \in 1..(i - 1) : IsOf(q[j], "OKAY", c)
        BY <1>1, <1>4, <2>2, <3>1 DEF StreamAt
      <4>2. j \in 1..Len(q)
        BY <1>1, <3>1, <4>1
      <4> QED
        BY <1>1, <4>1, <4>2
    <3>2. CASE i = Len(q) + 1
      <4>1. st = "open" /\ i - 1 = Len(q)
        BY <1>1, <2>2, <3>2 DEF IsOf
      <4> QED
        BY <2>1, <4>1
    <3> QED
      BY <1>2, <3>1, <3>2
  <2>3. 1..Len(q) \subseteq 1..Len(a)
    BY <1>1
  <2> QED
    BY <2>1, <2>2, <2>3
<1>5. StreamAt(c, s, h, a, st2)
  BY <1>3, <1>4 DEF StreamAt
<1> QED
  BY <1>5 DEF a

\* The device answers the OPEN of c.
LEMMA AnswerStream ==
    ASSUME NEW c \in Clients, NEW s, NEW h \in Seq(Packet), h # << >>, IsOf(h[1], "OPEN", c),
           NEW q \in Seq(Packet), NEW p \in Packet, NEW st, NEW st2, StreamAt(c, s, h, q, st),
           \/ IsOf(p, "OKAY", c) /\ st2 = "open"
           \/ IsOf(p, "CLSE", c) /\ st2 = "closed"
    PROVE  StreamAt(c, s, Tail(h), Append(q, p), st2)
<1>0. 1 \in Opens(h, c)
  <2>1. Len(h) \in Nat \ {0}
    BY EmptySeq, LenProperties
  <2> QED
    BY <2>1 DEF Opens, IsOf
<1>1. Opens(Tail(h), c) = {}
  <2>1. \A i \in Opens(Tail(h), c) : i + 1 \in Opens(h, c) /\ i \in Nat \ {0}
    BY OpensTail
  <2>2. \A i \in Opens(Tail(h), c) : i + 1 = 1 /\ i \in Nat \ {0}
    BY <1>0, <2>1 DEF StreamAt
  <2> QED
    BY <2>2
<1>2. ~Early(s) /\ st = "none"
  BY <1>0 DEF StreamAt
<1> DEFINE a == Append(q, p)
<1>3. /\ Len(q) \in Nat /\ Len(a) = Len(q) + 1 /\ a[Len(q) + 1] = p
      /\ \A i \in 1..Len(q) : a[i] = q[i]
  BY AppendProperties, LenProperties
<1> HIDE DEF a
<1>4. \A i \in 1..Len(a) : i \in 1..Len(q) \/ i = Len(q) + 1
  BY <1>3
<1>5. \A i \in 1..Len(q) : q[i].cmd # "SYNC0" => q[i].id # c
  BY <1>2 DEF StreamAt
<1>6. \A i \in 1..Len(a) : ~IsOf(a[i], "WRTE", c)
  BY <1>3, <1>4, <1>5 DEF IsOf
<1>7. st2 = "open" => IsOf(a[Len(q) + 1], "OKAY", c) /\ Len(q) + 1 \in 1..Len(a)
  BY <1>3 DEF IsOf
<1>8. StreamAt(c, s, Tail(h), a, st2)
  BY <1>1, <1>2, <1>6, <1>7 DEF StreamAt
<1> QED
  BY <1>8 DEF a

-----------------------------------------------------------------------------
(* The steps of the main thread *)

LEMMA BecomesIs == ASSUME NEW v \in Record, Becomes(v) PROVE W' = v
  BY DEF Becomes, W, Record

LEMMA WIs == /\ W.sk = sk /\ W.disc = disc /\ W.h2d = h2d /\ W.toProc = toProc /\ W.bad = bad
  BY DEF W

\* A handler that is safe keeps the invariant, as far as it is about sockets.
LEMMA HandlerStep ==
    ASSUME IInv, NEW v, Safe(W, v), Becomes(v), tr' = tr, dev' = dev
    PROVE  /\ Good(W)' /\ TransOK' /\ (Services = {} => ~bad')
           /\ tr = "on" => \A c \in Clients : StreamAt(c, sk'[c], h2d', d2h, dev[c].st)
<1>0. v \in Record /\ Good(v) /\ Good(W)
  BY DEF Safe, Good, IInv
<1>1. Good(W)'
  BY <1>0, BecomesIs
<1>2. sk' = v.sk /\ disc' = v.disc /\ h2d' = v.h2d /\ bad' = v.bad
  BY DEF Becomes
<1>3. TransOK'
  BY <1>2, WIs DEF IInv, TransOK, Safe, Tame
<1>4. Services = {} => ~bad'
  BY <1>2, WIs DEF IInv, Safe
<1>5. ASSUME tr = "on", NEW c \in Clients PROVE StreamAt(c, sk'[c], h2d', d2h, dev[c].st)
  <2>1. StreamAt(c, W.sk[c], W.h2d, d2h, dev[c].st)
    BY <1>5, WIs DEF IInv, StreamOK
  <2>2. StreamAt(c, v.sk[c], v.h2d, d2h, dev[c].st)
    BY <1>0, <2>1, SafeStream
  <2> QED
    BY <1>2, <2>2
<1> QED
  BY <1>1, <1>3, <1>4, <1>5

LEMMA QuietStep ==
    ASSUME IInv, NEW v, Safe(W, v), Becomes(v), UNCHANGED <<tr, d2h, gone, cl, dev>>,
           toServer' \in [Locals -> Seq(Item)]
    PROVE  IInv'
<1>1. /\ Good(W)' /\ TransOK' /\ (Services = {} => ~bad')
      /\ tr = "on" => \A c \in Clients : StreamAt(c, sk'[c], h2d', d2h, dev[c].st)
  BY HandlerStep
<1>2. RestOK'
  BY DEF IInv, RestOK
<1> QED
  BY <1>1, <1>2 DEF IInv, StreamOK

LEMMA SignalStep == ASSUME IInv, NEW l \in Locals, Signal(l) PROVE IInv'
<1> DEFINE r == [sk[l] EXCEPT !.pend = @ \cup sk[l].want]
           v == [W EXCEPT !.sk = [sk EXCEPT ![l] = r]]
<1>0. /\ Good(W) /\ W \in Record /\ sk \in [Locals -> Socket] /\ sk[l] \in Socket /\ SockOK(l, sk[l])
      /\ sk[l].on \in {"list", "closing"}
  BY WIs DEF IInv, Good, SkOK, Signal, Live
<1>1. /\ r \in Socket /\ r.on = sk[l].on /\ r.peer = sk[l].peer /\ r.q = sk[l].q /\ r.want = sk[l].want
      /\ r.pend = sk[l].pend \cup sk[l].want /\ r.trans = sk[l].trans /\ r.smartTrans = sk[l].smartTrans
  BY <1>0 DEF Socket
<1>2. sk' = [sk EXCEPT ![l] = r]
  BY DEF Signal
<1> HIDE DEF r
<1>3. SockOK(l, r) /\ (Uses(r) => Uses(sk[l]))
  BY <1>0, <1>1 DEF SockOK, Uses
<1>4. /\ v \in Record /\ v.sk = [W.sk EXCEPT ![l] = r] /\ v.disc = W.disc /\ v.h2d = W.h2d
      /\ v.bad = W.bad
  BY <1>0, <1>1, WIs DEF Record
<1>5. Becomes(v)
  BY <1>2, WIs DEF Becomes, Signal, W
<1> HIDE DEF v
<1>6. Safe(W, v)
  <2>1. /\ r.on = W.sk[l].on /\ r.peer = W.sk[l].peer /\ (Uses(r) => Uses(W.sk[l])) /\ r \in Socket
        /\ SockOK(l, r)
    BY <1>1, <1>3, <1>4, WIs
  <2> QED
    BY <1>0, <1>4, <2>1, Touch
<1>7. UNCHANGED <<tr, d2h, gone, cl, dev>> /\ toServer' \in [Locals -> Seq(Item)]
  BY DEF Signal, IInv, RestOK
<1> QED
  BY <1>5, <1>6, <1>7, QuietStep

LEMMA CallbackSafe ==
    ASSUME IInv, NEW l \in Locals, Callback(l)
    PROVE  /\ \E v : /\ Safe(W, v) /\ Becomes(v) /\ (Saving(sk) => Even(W, v))
                     /\ \A c \in Clients : sk[c].peer \notin Services => Holds(W, v, c)
           /\ UNCHANGED <<tr, d2h, gone, cl, dev>> /\ toServer' \in [Locals -> Seq(Item)]
<1> DEFINE r == [sk[l] EXCEPT !.pend = {}]
           w == [W EXCEPT !.sk = [sk EXCEPT ![l] = r]]
           ev == IF "W" \in sk[l].pend THEN EventWrite(w, l) ELSE [w |-> w, stop |-> FALSE]
           u == ev.w
           reads == "R" \in sk[l].pend /\ ~ev.stop
           v == IF reads THEN EventRead(u, l) ELSE u
<1>0. /\ Good(W) /\ W \in Record /\ sk \in [Locals -> Socket] /\ sk[l] \in Socket /\ SockOK(l, sk[l])
      /\ sk[l].on \in {"list", "closing"} /\ toServer \in [Locals -> Seq(Item)]
  BY WIs DEF IInv, Good, SkOK, Callback, Live, RestOK
<1>1. /\ Becomes(v)
      /\ toServer' = IF reads THEN [toServer EXCEPT ![l] = SubSeq(@, ReadLen(l) + 1, Len(@))] ELSE toServer
  BY WIs DEF Callback
<1>2. UNCHANGED <<tr, d2h, gone, cl, dev>>
  BY DEF Callback
<1>3. /\ r \in Socket /\ r.on = sk[l].on /\ r.peer = sk[l].peer /\ r.q = sk[l].q /\ r.want = sk[l].want
      /\ r.pend = {} /\ r.trans = sk[l].trans /\ r.smartTrans = sk[l].smartTrans
  BY <1>0 DEF Socket
<1> HIDE DEF r
<1>4. SockOK(l, r) /\ (Uses(r) => Uses(sk[l]))
  BY <1>0, <1>3 DEF SockOK, Uses
<1>5. /\ w \in Record /\ w.sk = [W.sk EXCEPT ![l] = r] /\ w.sk[l] = r /\ w.disc = W.disc
      /\ w.h2d = W.h2d /\ w.bad = W.bad /\ w.toProc = W.toProc
  BY <1>0, <1>3, WIs DEF Record
<1> HIDE DEF w
<1>6. Safe(W, w)
  <2>1. /\ r.on = W.sk[l].on /\ r.peer = W.sk[l].peer /\ (Uses(r) => Uses(W.sk[l])) /\ r \in Socket
        /\ SockOK(l, r)
    BY <1>3, <1>4, <1>5, WIs
  <2> QED
    BY <1>0, <1>5, <2>1, Touch
<1>11. Saving(sk) => Even(W, w)
  <2>1. /\ r.on = W.sk[l].on /\ r.peer = W.sk[l].peer /\ r.q = W.sk[l].q
        /\ r.want = W.sk[l].want /\ r.pend \subseteq W.sk[l].pend
        /\ Backlog(r) = Backlog(W.sk[l])
    BY <1>3, WIs DEF Backlog
  <2>2. \A c \in Clients : Uncounted(W, w, c)
    BY <1>5, UncountedSame
  <2>3. Saving(W.sk) => Len(r.q) <= MAX_PAYLOAD
    BY <2>1 DEF Saving
  <2>4. Saving(W.sk) => Even(W, w)
    BY <1>0, <1>5, <2>1, <2>2, <2>3, EvenOne
  <2> QED
    BY <2>4, WIs
<1>7. /\ Safe(w, u) /\ ev.stop \in BOOLEAN /\ (~ev.stop => u.sk[l].on \in {"list", "closing"})
      /\ Saving(w.sk) => Even(w, u)
      /\ ~ev.stop => /\ u.sk[l].pend = {} /\ (u.sk[l].on = "list" => sk[l].on = "list")
                     /\ ("R" \in sk[l].want => "R" \in u.sk[l].want)
      /\ \A c \in Clients : Holds(w, u, c)
      /\ \A c \in Locals : c # l /\ u.sk[c].peer \in Services => w.sk[c].peer \in Services
  <2>0. Good(w)
    BY <1>6 DEF Safe
  <2>1. CASE "W" \in sk[l].pend
    <3>1. sk[l].on = "list" => sk[l].q # << >>
      BY <1>0, <2>1 DEF SockOK
    <3>2. /\ Safe(w, EventWrite(w, l).w) /\ EventWrite(w, l).stop \in BOOLEAN
          /\ ~EventWrite(w, l).stop => /\ EventWrite(w, l).w.sk[l].on = "list"
                                       /\ EventWrite(w, l).w.sk[l].pend = {} /\ w.sk[l].on = "list"
                                       /\ "R" \in w.sk[l].want => "R" \in EventWrite(w, l).w.sk[l].want
          /\ Saving(w.sk) => Even(w, EventWrite(w, l).w)
          /\ \A c \in Clients : Holds(w, EventWrite(w, l).w, c)
          /\ \A c \in Locals : c # l /\ EventWrite(w, l).w.sk[c].peer \in Services
                                 => w.sk[c].peer \in Services
      <4>1. /\ w.sk[l].on \in {"list", "closing"} /\ w.sk[l].pend = {}
            /\ w.sk[l].on = "list" => w.sk[l].q # << >>
        BY <1>0, <1>3, <1>5, <3>1
      <4>2. \A c \in Clients : Holds(w, EventWrite(w, l).w, c)
        BY <2>0, <4>1, EventWriteHolds
      <4>3. \A c \in Locals : c # l /\ EventWrite(w, l).w.sk[c].peer \in Services
                                => w.sk[c].peer \in Services
        BY <2>0, <4>1, EventWritePeer
      <4> QED
        BY <2>0, <4>1, <4>2, <4>3, EventWriteOK
    <3> QED
      BY <1>3, <1>5, <2>1, <3>2
  <2>2. CASE "W" \notin sk[l].pend
    <3>1. Safe(w, w) /\ (Saving(w.sk) => Even(w, w))
      BY <2>0, SafeSame, FewerSame, FewerEven
    <3>2. \A c \in Clients : Holds(w, w, c)
      BY <1>5, HoldsSame
    <3> QED
      BY <1>0, <1>3, <1>5, <2>2, <3>1, <3>2
  <2> QED
    BY <2>1, <2>2
<1> HIDE DEF ev
<1>12. Saving(sk) => Even(w, v)
  <2>0. SUFFICES ASSUME Saving(sk) PROVE Even(w, v)
    OBVIOUS
  <2>1. Even(w, u) /\ Good(u) /\ Saving(u.sk)
    BY <1>7, <1>11, <2>0 DEF Even, Safe
  <2>2. CASE reads
    <3>1. u.sk[l].on = "list" => "R" \in u.sk[l].want
      BY <1>7, <2>0, <2>2 DEF Saving
    <3>2. Even(u, EventRead(u, l))
      <4>1. u.sk[l].on \in {"list", "closing"} /\ u.sk[l].pend = {}
        BY <1>7, <2>2
      <4> HIDE DEF u
      <4> QED
        BY <1>0, <2>1, <3>1, <4>1, EventReadOK
    <3> QED
      BY <2>1, <2>2, <3>2, EvenTrans
  <2>3. CASE ~reads
    BY <2>1, <2>3
  <2> QED
    BY <2>2, <2>3
<1>8. Safe(w, v)
  <2>1. CASE reads
    <3>1. Safe(u, EventRead(u, l))
      <4> HIDE DEF u
      <4>1. Good(u) /\ u.sk[l].on \in {"list", "closing"}
        BY <1>7, <2>1 DEF Safe
      <4> QED
        BY <1>0, <4>1, EventReadOK
    <3> QED
      BY <1>6, <1>7, <2>1, <3>1, SafeTrans DEF Safe
  <2>2. CASE ~reads
    BY <1>7, <2>2
  <2> QED
    BY <2>1, <2>2
<1>14. ASSUME NEW c \in Clients, sk[c].peer \notin Services PROVE Holds(w, v, c)
  <2>1. CASE reads
    <3> HIDE DEF u
    <3>1. Good(w) /\ Good(u) /\ Safe(w, u) /\ u.sk[l].on \in {"list", "closing"}
      BY <1>6, <1>7, <2>1 DEF Safe
    <3>2. c # u.sk[l].peer
      <4>1. SUFFICES ASSUME c = u.sk[l].peer PROVE FALSE
        OBVIOUS
      <4>2. c \in Locals /\ l \in Services /\ c # l /\ u.sk[c].peer = l
        BY <3>1, <4>1, Distinct DEF Good, SkOK, SockOK
      <4>3. w.sk[c] = sk[c]
        BY <1>0, <1>5, <4>2, WIs
      <4> QED
        BY <1>7, <1>14, <4>2, <4>3
    <3>3. Safe(u, EventRead(u, l)) /\ Holds(u, EventRead(u, l), c)
      BY <1>0, <3>1, <3>2, EventReadOK
    <3> QED
      BY <1>7, <2>1, <3>1, <3>3, SafeHolds
  <2>2. CASE ~reads
    BY <1>7, <2>2
  <2> QED
    BY <2>1, <2>2
<1> HIDE DEF v
<1>9. Safe(W, v)
  BY <1>0, <1>6, <1>8, SafeTrans
<1>15. ASSUME NEW c \in Clients, sk[c].peer \notin Services PROVE Holds(W, v, c)
  <2>1. c \in Locals /\ w.sk[c].q = W.sk[c].q
    BY <1>0, <1>3, <1>5, WIs, Distinct
  <2>2. Holds(W, w, c)
    BY <1>0, <1>5, <2>1, HoldsSame
  <2> QED
    BY <1>0, <1>6, <1>8, <1>14, <1>15, <2>2, SafeHolds
<1>10. toServer' \in [Locals -> Seq(Item)]
  <2>1. SubSeq(toServer[l], ReadLen(l) + 1, Len(toServer[l])) \in Seq(Item)
    BY <1>0, ReadLenOK
  <2> QED
    BY <1>0, <1>1, <2>1
<1>13. Saving(sk) => Even(W, v)
  BY <1>6, <1>11, <1>12, EvenTrans DEF Safe
<1> QED
  BY <1>1, <1>2, <1>9, <1>10, <1>13, <1>15

LEMMA CallbackStep == ASSUME IInv, NEW l \in Locals, Callback(l) PROVE IInv'
  BY CallbackSafe, QuietStep

\* A packet that is not SYNC(0).
LEMMA PacketIs == ASSUME NEW p \in Packet, p.cmd # "SYNC0"
                  PROVE  /\ p.cmd \in {"OPEN", "OKAY", "CLSE", "WRTE"} /\ p.id \in Clients
                         /\ p.data \in Seq(Item)
  BY DEF Packet

LEMMA TailIs == ASSUME NEW q \in Seq(Packet), q # << >>
                PROVE  /\ Len(q) \in Nat \ {0} /\ Head(q) = q[1] /\ q[1] \in Packet
                       /\ Tail(q) \in Seq(Packet) /\ Len(Tail(q)) = Len(q) - 1
                       /\ \A i \in 1..Len(Tail(q)) : Tail(q)[i] = q[i + 1] /\ i + 1 \in 1..Len(q)
<1>1. Len(q) \in Nat \ {0}
  BY EmptySeq, LenProperties
<1>2. Tail(q) \in Seq(Packet) /\ Len(Tail(q)) = Len(q) - 1 /\ \A i \in 1..Len(Tail(q)) : Tail(q)[i] = q[i + 1]
  BY HeadTailProperties
<1>3. Head(q) = q[1] /\ q[1] \in Packet
  BY <1>1, ElementOfSeq
<1> QED
  BY <1>1, <1>2, <1>3

LEMMA MainPacketStep == ASSUME IInv, MainPacket PROVE IInv'
<1> DEFINE p == Head(d2h)
           v == IF tr # "on" THEN W
                ELSE CASE p.cmd = "OKAY" -> HandleOkay(W, p.id)
                       [] p.cmd = "CLSE" -> HandleClose(W, p.id)
                       [] p.cmd = "WRTE" -> HandleWrite(W, p.id, p.data)
<1>0. /\ Good(W) /\ d2h \in Seq(Packet) /\ d2h # << >> /\ p.cmd # "SYNC0"
      /\ \A i \in 1..Len(d2h) : d2h[i].cmd # "OPEN"
      /\ Becomes(v) /\ d2h' = Tail(d2h) /\ UNCHANGED <<tr, toServer, gone, cl, dev>>
  BY DEF IInv, RestOK, MainPacket
<1>1. /\ Len(d2h) \in Nat \ {0} /\ p = d2h[1] /\ d2h[1] \in Packet /\ Tail(d2h) \in Seq(Packet)
      /\ \A i \in 1..Len(Tail(d2h)) : Tail(d2h)[i] = d2h[i + 1] /\ i + 1 \in 1..Len(d2h)
  BY <1>0, TailIs
<1> HIDE DEF p
<1>2. p.cmd \in {"OKAY", "CLSE", "WRTE"} /\ p.id \in Clients /\ p.data \in Seq(Item) /\ 1 \in 1..Len(d2h)
  BY <1>0, <1>1, PacketIs
<1>3. /\ Safe(W, v)
      /\ tr = "on" /\ p.cmd = "OKAY" => ~(v.sk[p.id].on = "list" /\ v.sk[p.id].peer = None)
  <2>1. CASE tr # "on"
    BY <1>0, <2>1, SafeSame
  <2>2. CASE tr = "on" /\ p.cmd = "OKAY"
    <3>1. v = HandleOkay(W, p.id)
      BY <2>2
    <3> QED
      BY <1>0, <1>2, <2>2, <3>1, HandleOkayOK
  <2>3. CASE tr = "on" /\ p.cmd = "CLSE"
    <3>1. v = HandleClose(W, p.id)
      BY <2>3
    <3> QED
      BY <1>0, <1>2, <2>3, <3>1, HandleCloseOK
  <2>4. CASE tr = "on" /\ p.cmd = "WRTE"
    <3>1. v = HandleWrite(W, p.id, p.data)
      BY <2>4
    <3>2. StreamAt(p.id, sk[p.id], h2d, d2h, dev[p.id].st)
      BY <1>2, <2>4 DEF IInv, StreamOK
    <3>3. IsOf(d2h[1], "WRTE", p.id)
      BY <1>1, <2>4 DEF IsOf
    <3>4. sk[p.id].on = "list" => sk[p.id].peer \notin {None, Smart}
      <4>1. ~Early(sk[p.id])
        BY <1>0, <1>1, <1>2, <3>2 DEF StreamAt
      <4>2. ~(sk[p.id].on = "list" /\ sk[p.id].peer = None)
        <5>1. ~\E j \in 1..(1 - 1) : TRUE
          OBVIOUS
        <5> QED
          BY <1>2, <3>2, <3>3, <5>1 DEF StreamAt
      <4> QED
        BY <4>1, <4>2 DEF Early
    <3>5. Safe(W, HandleWrite(W, p.id, p.data))
      BY <1>0, <1>2, <2>4, <3>4, WIs, HandleWriteOK
    <3> QED
      BY <2>4, <3>1, <3>5
  <2> QED
    BY <1>2, <2>1, <2>2, <2>3, <2>4
<1> HIDE DEF v
<1>4. /\ Good(W)' /\ TransOK' /\ (Services = {} => ~bad')
      /\ tr = "on" => \A c \in Clients : StreamAt(c, sk'[c], h2d', d2h, dev[c].st)
  BY <1>0, <1>3, HandlerStep
<1>5. ASSUME tr = "on", NEW c \in Clients PROVE StreamAt(c, sk'[c], h2d', Tail(d2h), dev[c].st)
  <2>1. IsOf(d2h[1], "OKAY", c) => ~(sk'[c].on = "list" /\ sk'[c].peer = None)
    BY <1>0, <1>1, <1>3, <1>5 DEF IsOf, Becomes
  <2> QED
    BY <1>0, <1>4, <1>5, <2>1, TakeStream
<1>6. RestOK'
  <2>1. \A i \in 1..Len(Tail(d2h)) : Tail(d2h)[i].cmd # "OPEN"
    BY <1>0, <1>1
  <2> QED
    BY <1>0, <1>1, <2>1 DEF IInv, RestOK
<1> QED
  BY <1>0, <1>4, <1>5, <1>6 DEF IInv, StreamOK

\* Sockets without local peers are gone from the list.
LEMMA ManyGone ==
    ASSUME NEW f, NEW d, SkOK(f, d), NEW S \in SUBSET Locals, \A l \in S : f[l].peer \notin Locals,
           NEW g \in [Locals -> Socket], \A l \in Locals \ S : g[l] = f[l],
           \A l \in S : SockOK(l, g[l]) /\ g[l].peer = None
    PROVE  SkOK(g, d \ S)
<1>1. d \ S \subseteq Clients /\ \A l \in Locals : SockOK(l, g[l])
  BY DEF SkOK
<1>2. ASSUME NEW l \in Locals, g[l].peer \in Locals PROVE g[g[l].peer].peer = l
  <2>1. l \notin S /\ g[l] = f[l]
    BY <1>2, Distinct
  <2>2. f[f[l].peer].peer = l /\ f[l].peer \in Locals
    BY <1>2, <2>1 DEF SkOK
  <2>3. f[l].peer \notin S
    BY <2>2
  <2> QED
    BY <2>1, <2>2, <2>3
<1>3. \A c \in Clients : c \in d \ S <=> g[c].peer = Remote
  BY Distinct DEF SkOK
<1> QED
  BY <1>1, <1>2, <1>3 DEF SkOK

\* remote_socket_disconnect, for a socket that has a remote one.
LEMMA DisconnectIs ==
    ASSUME IInv, NEW l \in disc
    PROVE  /\ l \in Locals /\ RemoteDisconnect(l).sk[l] \in Socket /\ SockOK(l, RemoteDisconnect(l).sk[l])
           /\ RemoteDisconnect(l).sk[l].peer = None /\ RemoteDisconnect(l).toProc[l] \in Seq(Item)
           /\ RemoteDisconnect(l).sk[l].on # "list" /\ RemoteDisconnect(l).sk[l].q \in {sk[l].q, << >>}
           /\ RemoteDisconnect(l).sk[l].on \in {"freed", "closing"} /\ sk[l].on = "list"
           /\ Data(RemoteDisconnect(l).toProc[l]) = Data(toProc[l])
<1> DEFINE s == [sk[l] EXCEPT !.peer = None]
           x == [W EXCEPT !.sk = [sk EXCEPT ![l] = s]]
           v == Close(x, l)
           t == Done(Hush(s))
<1>0. /\ W \in Record /\ sk \in [Locals -> Socket] /\ l \in Locals /\ sk[l] \in Socket
      /\ SockOK(l, sk[l]) /\ sk[l].peer = Remote
  <2>1. Good(W) /\ SkOK(sk, disc)
    BY WIs DEF IInv, Good
  <2> QED
    BY <2>1, Distinct DEF Good, SkOK
<1>1. RemoteDisconnect(l) = v
  BY WIs DEF RemoteDisconnect
<1>2. sk[l].on = "list"
  BY <1>0, Distinct DEF SockOK
<1>3. /\ s \in Socket /\ s.on = "list" /\ s.peer = None /\ s.q = sk[l].q /\ s.want = sk[l].want
      /\ s.pend = sk[l].pend
  BY <1>0, <1>2 DEF Socket
<1> HIDE DEF s
<1>4. x \in Record /\ x.sk = [sk EXCEPT ![l] = s] /\ x.sk[l] = s /\ x.toProc = toProc
  BY <1>0, <1>3, WIs DEF Record
<1> HIDE DEF x
<1>5. /\ Closed(x, v, l) /\ t \in Socket /\ SockOK(l, t) /\ t.peer = None
      /\ t.on # "list" /\ t.q \in {s.q, << >>} /\ t.on \in {"freed", "closing"}
  <2>1. x.sk[l].peer \notin Locals \cup {Remote}
    BY <1>3, <1>4, Distinct
  <2>2. /\ x.sk[l].on = "list" /\ ("W" \in x.sk[l].want <=> x.sk[l].q # << >>)
        /\ "W" \in x.sk[l].pend => "W" \in x.sk[l].want
    BY <1>0, <1>2, <1>3, <1>4 DEF SockOK
  <2>3. /\ Closed(x, Close(x, l), l) /\ Done(Hush(x.sk[l])) \in Socket
        /\ SockOK(l, Done(Hush(x.sk[l]))) /\ Done(Hush(x.sk[l])).peer = None
        /\ Done(Hush(x.sk[l])).on \in {"freed", "closing"}
    BY <1>0, <1>4, <2>1, <2>2, CloseAlone
  <2>4. t.q \in {s.q, << >>}
    <3>1. /\ Hush(s) \in Socket /\ Hush(s).on = s.on /\ Hush(s).q = s.q /\ Hush(s).want = s.want
          /\ Hush(s).pend = s.pend
      BY <1>3, HushOK
    <3> QED
      BY <1>3, <1>4, <2>2, <3>1, DoneOK
  <2> QED
    BY <1>4, <2>3, <2>4
<1>7. Data(v.toProc[l]) = Data(toProc[l])
  <2>1. x.sk[l].peer \notin Locals \cup {Remote}
    BY <1>3, <1>4, Distinct
  <2>2. Told(x, Close(x, l)) /\ l \in Clients
    BY <1>0, <1>4, <2>1, LoneTold, Distinct DEF SockOK
  <2> QED
    BY <1>4, <2>2 DEF Told
<1> HIDE DEF v, t
<1>6. v.sk[l] = t /\ v.toProc[l] \in Seq(Item)
  <2>1. v \in Record /\ v.sk = [x.sk EXCEPT ![l] = t] /\ x.sk \in [Locals -> Socket]
    BY <1>4, <1>5 DEF Closed, t, Record
  <2> QED
    BY <1>0, <2>1 DEF Record
<1> QED
  BY <1>0, <1>1, <1>2, <1>3, <1>5, <1>6, <1>7

LEMMA OfflineStep == ASSUME IInv, Offline PROVE IInv'
<1> DEFINE g == [l \in Locals |-> IF l \in disc THEN RemoteDisconnect(l).sk[l] ELSE sk[l]]
           h == [l \in Locals |-> IF l \in disc THEN RemoteDisconnect(l).toProc[l] ELSE toProc[l]]
           v == [W EXCEPT !.sk = g, !.toProc = h, !.disc = {}]
<1>0. /\ W \in Record /\ SkOK(sk, disc) /\ sk \in [Locals -> Socket] /\ toProc \in [Locals -> Seq(Item)]
      /\ disc \subseteq Locals
  BY WIs, Distinct DEF IInv, Good, SkOK, Record
<1>1. /\ Becomes(v) /\ d2h # << >> /\ d2h' = Tail(d2h) /\ tr' = "off"
      /\ UNCHANGED <<toServer, gone, cl, dev>>
  BY DEF Offline
<1>2. g \in [Locals -> Socket] /\ h \in [Locals -> Seq(Item)]
  BY <1>0, DisconnectIs
<1>3. /\ \A l \in Locals \ disc : g[l] = sk[l]
      /\ \A l \in disc : SockOK(l, g[l]) /\ g[l].peer = None
  BY <1>0, DisconnectIs
<1> HIDE DEF g, h
<1>4. v \in Record /\ v.sk = g /\ v.disc = {} /\ v.bad = bad
  BY <1>0, <1>2, WIs DEF Record
<1> HIDE DEF v
<1>5. SkOK(g, disc \ disc)
  <2>1. \A l \in disc : sk[l].peer \notin Locals
    BY <1>0, Distinct DEF SkOK
  <2> QED
    BY <1>0, <1>2, <1>3, <2>1, ManyGone
<1>6. Good(v)
  BY <1>4, <1>5 DEF Good
<1>7. Good(W)'
  BY <1>1, <1>4, <1>6, BecomesIs
<1>8. disc' = {} /\ bad' = bad
  BY <1>1, <1>4 DEF Becomes
<1>9. TransOK'
  BY <1>1, <1>8 DEF TransOK
<1>10. RestOK'
  <2>1. d2h \in Seq(Packet) /\ \A i \in 1..Len(d2h) : d2h[i].cmd # "OPEN"
    BY DEF IInv, RestOK
  <2>2. /\ Tail(d2h) \in Seq(Packet)
        /\ \A i \in 1..Len(Tail(d2h)) : Tail(d2h)[i] = d2h[i + 1] /\ i + 1 \in 1..Len(d2h)
    BY <1>1, <2>1, TailIs
  <2>3. \A i \in 1..Len(Tail(d2h)) : Tail(d2h)[i].cmd # "OPEN"
    BY <2>1, <2>2
  <2> QED
    BY <1>1, <2>2, <2>3 DEF IInv, RestOK
<1> QED
  BY <1>1, <1>7, <1>8, <1>9, <1>10 DEF IInv

LEMMA CloseAllStep == ASSUME IInv, CloseAll PROVE IInv'
<1> DEFINE S == {l \in Locals : OfTransport(l)}
           g == [l \in Locals |-> IF OfTransport(l) THEN CloseLocked(W, l).sk[l] ELSE sk[l]]
           v == [W EXCEPT !.sk = g]
<1>0. /\ W \in Record /\ Good(W) /\ SkOK(sk, disc) /\ sk \in [Locals -> Socket] /\ disc = {}
  BY WIs DEF IInv, Good, SkOK, TransOK, CloseAll
<1>1. /\ Becomes(v) /\ tr' = "swept" /\ UNCHANGED <<d2h, toServer, gone, cl, dev>>
  BY DEF CloseAll
<1>2. ASSUME NEW l \in S
      PROVE  /\ sk[l].peer \notin Locals /\ CloseLocked(W, l).sk[l] \in Socket
             /\ SockOK(l, CloseLocked(W, l).sk[l]) /\ CloseLocked(W, l).sk[l].peer = None
             /\ ~Uses(CloseLocked(W, l).sk[l])
  <2>0. l \in Locals /\ sk[l] \in Socket /\ SockOK(l, sk[l]) /\ sk[l].on = "list"
    BY <1>0 DEF SkOK, OfTransport
  <2>1. sk[l].peer \notin Locals
    BY <2>0, Distinct DEF OfTransport, SockOK
  <2>2. CloseLocked(W, l).sk[l] = Done(sk[l])
    BY <1>0, <2>0, WIs, CloseLockedOK
  <2>3. Done(sk[l]) \in Socket /\ SockOK(l, Done(sk[l])) /\ Done(sk[l]).peer = None /\ ~Uses(Done(sk[l]))
    BY <2>0, DoneOK DEF SockOK
  <2> QED
    BY <2>1, <2>2, <2>3
<1>3. /\ g \in [Locals -> Socket] /\ \A l \in Locals \ S : g[l] = sk[l]
      /\ \A l \in S : SockOK(l, g[l]) /\ g[l].peer = None /\ ~Uses(g[l])
  BY <1>0, <1>2
<1>4. \A l \in Locals : ~Uses(g[l])
  <2>1. \A l \in Locals \ S : ~Uses(sk[l])
    BY DEF OfTransport, Uses
  <2> QED
    BY <1>3, <2>1
<1> HIDE DEF g, S
<1>5. v \in Record /\ v.sk = g /\ v.disc = disc /\ v.bad = bad
  BY <1>0, <1>3, WIs DEF Record
<1> HIDE DEF v
<1>6. SkOK(g, disc \ S)
  <2>1. S \in SUBSET Locals /\ \A l \in S : sk[l].peer \notin Locals
    BY <1>2 DEF S
  <2> QED
    BY <1>0, <1>3, <2>1, ManyGone
<1>7. Good(v)
  BY <1>0, <1>5, <1>6 DEF Good
<1>8. Good(W)'
  BY <1>1, <1>5, <1>7, BecomesIs
<1>9. sk' = g /\ disc' = {} /\ bad' = bad
  BY <1>0, <1>1, <1>5 DEF Becomes
<1>10. TransOK'
  BY <1>4, <1>9 DEF TransOK
<1>11. RestOK'
  BY <1>1 DEF IInv, RestOK
<1> QED
  BY <1>1, <1>8, <1>9, <1>10, <1>11 DEF IInv

LEMMA FreeTransportStep == ASSUME IInv, FreeTransport PROVE IInv'
<1>1. W' = W
  BY DEF FreeTransport, W
<1>2. RestOK' /\ TransOK' /\ tr' = "freed"
  BY DEF IInv, RestOK, TransOK, FreeTransport
<1> QED
  BY <1>1, <1>2 DEF IInv, FreeTransport

\* A socket that is made for client c.
LEMMA NewSocket ==
    ASSUME IInv, NEW c \in Clients, sk[c].on = "absent", NEW r \in Socket, SockOK(c, r),
           r.peer \in {None, Smart}
    PROVE  SkOK([sk EXCEPT ![c] = r], disc)
<1>0. SkOK(sk, disc) /\ c \in Locals /\ sk[c].peer = None
  BY WIs, Distinct DEF IInv, Good, SkOK, SockOK, Blank
<1>1. sk[c].peer \notin Locals /\ r.peer \notin Locals /\ r.peer # Remote
  BY <1>0, Distinct
<1>2. SkOK([sk EXCEPT ![c] = r], IF r.peer = Remote THEN disc \cup {c} ELSE disc \ {c})
  BY <1>0, <1>1, NewPeer, Zenon
<1>3. disc \ {c} = disc
  BY <1>0, Distinct DEF SkOK
<1> QED
  BY <1>1, <1>2, <1>3

LEMMA AcceptStep == ASSUME IInv, NEW c \in Clients, Accept(c) PROVE IInv'
<1> DEFINE r == [Blank("list") EXCEPT !.peer = Smart, !.want = {"R"}]
<1>0. /\ sk[c].on = "absent" /\ sk' = [sk EXCEPT ![c] = r] /\ W \in Record /\ sk \in [Locals -> Socket]
      /\ c \in Locals /\ UNCHANGED <<disc, tr, h2d, d2h, toProc, toServer, gone, dev, bad>>
  BY WIs, Distinct DEF Accept, IInv, Good, SkOK
<1>1. /\ r \in Socket /\ r.on = "list" /\ r.peer = Smart /\ r.q = << >> /\ r.want = {"R"} /\ r.pend = {}
      /\ ~r.trans /\ ~r.smartTrans
  <2>1. << >> \in Seq(Item)
    BY EmptySeq
  <2> QED
    BY <2>1 DEF Blank, Socket
<1> HIDE DEF r
<1>2. SockOK(c, r) /\ ~Uses(r) /\ Early(r) /\ r.peer # None
  BY <1>1, Distinct DEF SockOK, Uses, Early, Locals
<1>3. SkOK(sk', disc')
  BY <1>0, <1>1, <1>2, NewSocket
<1>4. W' \in Record
  BY <1>0, <1>3 DEF W, Record, SkOK
<1>5. Good(W)'
  BY <1>3, <1>4 DEF Good, W
<1>6. \A l \in Locals : sk'[l] = IF l = c THEN r ELSE sk[l]
  BY <1>0
<1>7. TransOK'
  BY <1>0, <1>2, <1>6 DEF IInv, TransOK
<1>8. ASSUME tr = "on", NEW b \in Clients PROVE StreamAt(b, sk'[b], h2d, d2h, dev[b].st)
  <2>1. StreamAt(b, sk[b], h2d, d2h, dev[b].st)
    BY <1>8 DEF IInv, StreamOK
  <2>2. CASE b = c
    BY <1>0, <1>2, <1>6, <2>1, <2>2 DEF StreamAt, Early
  <2>3. CASE b # c
    BY <1>6, <2>1, <2>3, Distinct
  <2> QED
    BY <2>2, <2>3
<1>9. RestOK'
  <2>1. cl' \in [Clients -> [script : Seq(Item), pos : Nat, got : Seq(Item)]]
    <3>1. PICK script \in Scripts : cl' = [cl EXCEPT ![c].script = script]
      BY DEF Accept
    <3>2. script \in Seq(Item)
      BY SocketsAssumption
    <3> QED
      BY <3>1, <3>2 DEF IInv, RestOK
  <2> QED
    BY <1>0, <2>1 DEF IInv, RestOK
<1> QED
  BY <1>0, <1>5, <1>7, <1>8, <1>9 DEF IInv, StreamOK

LEMMA AcceptForwardStep == ASSUME IInv, NEW c \in Clients, AcceptForward(c) PROVE IInv'
<1> DEFINE r == [Blank("list") EXCEPT !.trans = TRUE]
           x == [W EXCEPT !.sk = [sk EXCEPT ![c] = r]]
           v == Send(x, "OPEN", c, << >>)
<1>0. /\ sk[c].on = "absent" /\ tr = "on" /\ Becomes(v) /\ W \in Record /\ sk \in [Locals -> Socket]
      /\ c \in Locals /\ UNCHANGED <<tr, d2h, toServer, gone, dev>>
  BY WIs, Distinct DEF AcceptForward, IInv, Good, SkOK
<1>1. /\ r \in Socket /\ r.on = "list" /\ r.peer = None /\ r.q = << >> /\ r.want = {} /\ r.pend = {}
      /\ r.trans /\ ~r.smartTrans
  <2>1. << >> \in Seq(Item)
    BY EmptySeq
  <2> QED
    BY <2>1 DEF Blank, Socket
<1> HIDE DEF r
<1>2. SockOK(c, r) /\ ~Early(r)
  BY <1>1, Distinct DEF SockOK, Early, Locals
<1>3. /\ x \in Record /\ x.sk = [sk EXCEPT ![c] = r] /\ x.disc = disc /\ x.h2d = h2d /\ x.bad = bad
  BY <1>0, <1>1, WIs DEF Record
<1> HIDE DEF x
<1>4. SentTo(x, v, "OPEN", c)
  BY <1>3, SendEmpty
<1> HIDE DEF v
<1>5. /\ v \in Record /\ v.sk = [sk EXCEPT ![c] = r] /\ v.disc = disc /\ v.bad = bad
      /\ \A b \in Clients : b # c => Opens(v.h2d, b) = Opens(h2d, b)
      /\ Opens(v.h2d, c) = Opens(h2d, c) \cup {Len(h2d) + 1}
  BY <1>3, <1>4 DEF SentTo, Record
<1>6. Good(v)
  BY <1>0, <1>1, <1>2, <1>5, NewSocket DEF Good
<1>7. Good(W)'
  BY <1>0, <1>5, <1>6, BecomesIs
<1>8. sk' = [sk EXCEPT ![c] = r] /\ disc' = disc /\ bad' = bad /\ h2d' = v.h2d
  BY <1>0, <1>5 DEF Becomes
<1>9. TransOK'
  BY <1>0, <1>8 DEF IInv, TransOK
<1>10. ASSUME NEW b \in Clients PROVE StreamAt(b, sk'[b], h2d', d2h, dev[b].st)
  <2>1. StreamAt(b, sk[b], h2d, d2h, dev[b].st)
    BY <1>0 DEF IInv, StreamOK
  <2>2. CASE b = c
    <3>1. Opens(h2d, c) = {} /\ dev[c].st = "none"
      BY <1>0, <2>1, <2>2 DEF StreamAt, Early
    <3>2. \A i \in 1..Len(d2h) : d2h[i].cmd # "SYNC0" => d2h[i].id # c
      BY <2>1, <2>2, <3>1 DEF StreamAt
    <3>3. Opens(h2d', c) = {Len(h2d) + 1} /\ sk'[c] = r
      BY <1>0, <1>5, <1>8, <3>1
    <3> QED
      BY <1>2, <2>2, <3>1, <3>2, <3>3 DEF StreamAt, IsOf
  <2>3. CASE b # c
    <3>1. sk'[b] = sk[b] /\ Opens(h2d', b) = Opens(h2d, b)
      BY <1>0, <1>5, <1>8, <2>3, Distinct
    <3> QED
      BY <2>1, <3>1 DEF StreamAt
  <2> QED
    BY <2>2, <2>3
<1>11. RestOK'
  <2>1. cl' \in [Clients -> [script : Seq(Item), pos : Nat, got : Seq(Item)]]
    <3>1. PICK script \in Scripts : cl' = [cl EXCEPT ![c].script = script, ![c].pos = 1]
      BY DEF AcceptForward
    <3>2. script \in Seq(Item)
      BY SocketsAssumption
    <3> QED
      BY <3>1, <3>2 DEF IInv, RestOK
  <2> QED
    BY <1>0, <2>1 DEF IInv, RestOK
<1> QED
  BY <1>0, <1>7, <1>8, <1>9, <1>10, <1>11 DEF IInv, StreamOK

-----------------------------------------------------------------------------
(* The clients, the services and the device *)

\* The sockets stay as they are.
LEMMA ProcessStep ==
    ASSUME IInv, UNCHANGED <<sk, disc, tr, h2d, d2h, dev, bad>>, gone' \subseteq Locals,
           toProc' \in [Locals -> Seq(Item)], toServer' \in [Locals -> Seq(Item)],
           cl' \in [Clients -> [script : Seq(Item), pos : Nat, got : Seq(Item)]]
    PROVE  IInv'
<1>0. W \in Record /\ SkOK(sk, disc)
  BY WIs DEF IInv, Good
<1>1. W' \in Record
  BY <1>0 DEF W, Record
<1>2. Good(W)'
  BY <1>0, <1>1 DEF Good, W
<1>3. TransOK' /\ RestOK'
  BY DEF IInv, TransOK, RestOK
<1>4. tr = "on" => \A c \in Clients : StreamOK(c)'
  BY DEF IInv, StreamOK
<1> QED
  BY <1>2, <1>3, <1>4 DEF IInv

LEMMA ClientStep ==
    ASSUME IInv, NEW c \in Clients, ClientSend(c) \/ ClientRead(c) \/ ClientLeave(c)
    PROVE  IInv'
<1>0. /\ c \in Locals /\ gone \subseteq Locals /\ toProc \in [Locals -> Seq(Item)]
      /\ toServer \in [Locals -> Seq(Item)]
      /\ cl \in [Clients -> [script : Seq(Item), pos : Nat, got : Seq(Item)]]
      /\ cl[c].script \in Seq(Item) /\ cl[c].pos \in Nat /\ cl[c].got \in Seq(Item)
      /\ toProc[c] \in Seq(Item) /\ toServer[c] \in Seq(Item)
  BY WIs, Distinct DEF IInv, RestOK, Good, Record
<1>1. CASE ClientSend(c)
  <2> DEFINE x == cl[c].script[cl[c].pos + 1]
             a == Append(toServer[c], x)
  <2>1. x \in Item
    <3>1. cl[c].pos + 1 \in 1..Len(cl[c].script)
      BY <1>0, <1>1, LenProperties DEF ClientSend
    <3> QED
      BY <1>0, <3>1, ElementOfSeq
  <2> HIDE DEF x
  <2>2. a \in Seq(Item)
    BY <1>0, <2>1, AppendProperties
  <2> DEFINE n == cl[c].pos + 1
  <2>3. toServer' = [toServer EXCEPT ![c] = a] /\ cl' = [cl EXCEPT ![c].pos = n] /\ n \in Nat
    BY <1>0, <1>1 DEF ClientSend, x
  <2> HIDE DEF a, n
  <2>4. /\ toServer' \in [Locals -> Seq(Item)]
        /\ cl' \in [Clients -> [script : Seq(Item), pos : Nat, got : Seq(Item)]]
    BY <1>0, <2>2, <2>3
  <2> QED
    BY <1>0, <1>1, <2>4, ProcessStep DEF ClientSend
<1>2. CASE ClientRead(c)
  <2> DEFINE a == Append(cl[c].got, Head(toProc[c]))
             t == Tail(toProc[c])
  <2>1. Head(toProc[c]) \in Item /\ t \in Seq(Item)
    BY <1>0, <1>2, HeadTailProperties DEF ClientRead
  <2>2. a \in Seq(Item)
    BY <1>0, <2>1, AppendProperties
  <2>3. toProc' = [toProc EXCEPT ![c] = t] /\ cl' = [cl EXCEPT ![c].got = a]
    BY <1>2 DEF ClientRead
  <2> HIDE DEF a, t
  <2>4. /\ toProc' \in [Locals -> Seq(Item)]
        /\ cl' \in [Clients -> [script : Seq(Item), pos : Nat, got : Seq(Item)]]
    BY <1>0, <2>1, <2>2, <2>3
  <2> QED
    BY <1>0, <1>2, <2>4, ProcessStep DEF ClientRead
<1>3. CASE ClientLeave(c)
  BY <1>0, <1>3, ProcessStep DEF ClientLeave
<1> QED
  BY <1>1, <1>2, <1>3

LEMMA ServiceStep == ASSUME IInv, NEW s \in Services, ServiceAnswer(s) PROVE IInv'
<1>0. /\ s \in Locals /\ gone \subseteq Locals /\ toProc \in [Locals -> Seq(Item)]
      /\ toServer \in [Locals -> Seq(Item)] /\ toServer[s] \in Seq(Item)
      /\ cl \in [Clients -> [script : Seq(Item), pos : Nat, got : Seq(Item)]]
  BY WIs, Distinct DEF IInv, RestOK, Good, Record
<1> DEFINE a == Append(toServer[s], Byte(1))
<1>1. Byte(1) \in Item
  BY DEF Byte, Item
<1>2. a \in Seq(Item)
  BY <1>0, <1>1, AppendProperties
<1>3. toServer' = [toServer EXCEPT ![s] = a] /\ gone' = gone \cup {s}
  BY DEF ServiceAnswer
<1> HIDE DEF a
<1>4. toServer' \in [Locals -> Seq(Item)] /\ gone' \subseteq Locals
  BY <1>0, <1>2, <1>3
<1> QED
  BY <1>0, <1>4, ProcessStep DEF ServiceAnswer

DevSet == [Clients -> [st : {"none", "open", "closed"}, may : BOOLEAN, owes : Nat,
                       sent : Seq(Item), got : Seq(Item)]]

\* A step of the device, whose packets and streams are right.
LEMMA DeviceStep ==
    ASSUME IInv, DevStep, tr = "on", h2d' \in Seq(Packet), d2h' \in Seq(Packet), dev' \in DevSet,
           \A i \in 1..Len(d2h') : d2h'[i].cmd # "OPEN",
           \A c \in Clients : StreamAt(c, sk[c], h2d', d2h', dev'[c].st)
    PROVE  IInv'
<1>0. W \in Record /\ SkOK(sk, disc) /\ UNCHANGED <<sk, disc, tr, toProc, toServer, gone, cl, bad>>
  BY WIs DEF IInv, Good, DevStep
<1>1. W' \in Record
  BY <1>0 DEF W, Record
<1>2. Good(W)'
  BY <1>0, <1>1 DEF Good, W
<1>3. TransOK' /\ RestOK'
  BY <1>0 DEF IInv, TransOK, RestOK, DevSet
<1>4. \A c \in Clients : StreamOK(c)'
  BY <1>0 DEF StreamOK
<1> QED
  BY <1>0, <1>2, <1>3, <1>4 DEF IInv

LEMMA AppendIs ==
    ASSUME NEW q \in Seq(Packet), NEW p \in Packet, \A i \in 1..Len(q) : q[i].cmd # "OPEN",
           p.cmd # "OPEN"
    PROVE  Append(q, p) \in Seq(Packet) /\ \A i \in 1..Len(Append(q, p)) : Append(q, p)[i].cmd # "OPEN"
<1> DEFINE a == Append(q, p)
<1>1. /\ a \in Seq(Packet) /\ Len(q) \in Nat /\ Len(a) = Len(q) + 1 /\ a[Len(q) + 1] = p
      /\ \A i \in 1..Len(q) : a[i] = q[i]
  BY AppendProperties, LenProperties
<1> HIDE DEF a
<1>2. \A i \in 1..Len(a) : i \in 1..Len(q) \/ i = Len(q) + 1
  BY <1>1
<1>3. a \in Seq(Packet) /\ \A i \in 1..Len(a) : a[i].cmd # "OPEN"
  BY <1>1, <1>2
<1> QED
  BY <1>3 DEF a

\* The device sends a packet of the open stream of c, and takes none.
LEMMA ReplyStep ==
    ASSUME IInv, DevStep, tr = "on", NEW c \in Clients, dev[c].st = "open",
           NEW cmd \in {"OKAY", "CLSE", "WRTE"}, NEW data \in Seq(Item), Reply(cmd, c, data),
           h2d' \in Seq(Packet),
           \A b \in Clients : StreamAt(b, sk[b], h2d', d2h, dev[b].st),
           NEW r \in [st : {"open", "closed"}, may : BOOLEAN, owes : Nat, sent : Seq(Item), got : Seq(Item)],
           dev' = [dev EXCEPT ![c] = r]
    PROVE  IInv'
<1> DEFINE p == [cmd |-> cmd, id |-> c, data |-> data]
<1>1. p \in Packet /\ p.cmd = cmd /\ p.id = c
  BY DEF Packet
<1>2. d2h' = Append(d2h, p)
  BY DEF Reply
<1> HIDE DEF p
<1>3. d2h \in Seq(Packet) /\ dev \in DevSet /\ \A i \in 1..Len(d2h) : d2h[i].cmd # "OPEN"
  BY DEF IInv, RestOK, DevSet
<1>4. d2h' \in Seq(Packet) /\ \A i \in 1..Len(d2h') : d2h'[i].cmd # "OPEN"
  BY <1>1, <1>2, <1>3, AppendIs
<1>5. dev' \in DevSet /\ dev'[c] = r /\ \A b \in Clients : b # c => dev'[b] = dev[b]
  BY <1>3 DEF DevSet
<1>6. ASSUME NEW b \in Clients PROVE StreamAt(b, sk[b], h2d', d2h', dev'[b].st)
  <2>1. p.cmd = "SYNC0" \/ p.id # b \/ dev[b].st = "open"
    BY <1>1
  <2>2. dev'[b].st = dev[b].st \/ (dev[b].st = "open" /\ dev'[b].st = "closed")
    BY <1>5
  <2> QED
    BY <1>1, <1>2, <1>3, <2>1, <2>2, ReplyStream
<1> QED
  BY <1>4, <1>5, <1>6, DeviceStep

LEMMA DevIs == ASSUME IInv, NEW c \in Clients
               PROVE  /\ dev \in DevSet /\ dev[c] \in [st : {"none", "open", "closed"}, may : BOOLEAN,
                             owes : Nat, sent : Seq(Item), got : Seq(Item)]
                      /\ dev[c].sent \in Seq(Item) /\ dev[c].got \in Seq(Item) /\ dev[c].owes \in Nat
                      /\ h2d \in Seq(Packet) /\ d2h \in Seq(Packet)
  BY WIs DEF IInv, RestOK, DevSet, Good, Record

LEMMA DevReadyStep == ASSUME IInv, NEW c \in Clients, DevReady(c) PROVE IInv'
<1> DEFINE n == dev[c].owes - 1
           r == [dev[c] EXCEPT !.owes = n]
           d == << >>
<1>0. /\ tr = "on" /\ DevStep /\ dev[c].st = "open" /\ dev[c].owes > 0 /\ dev' = [dev EXCEPT ![c] = r]
      /\ Reply("OKAY", c, d) /\ h2d' = h2d
  BY DEF DevReady, Plugged
<1>1. r \in [st : {"open", "closed"}, may : BOOLEAN, owes : Nat, sent : Seq(Item), got : Seq(Item)]
  <2>1. n \in Nat
    BY <1>0, DevIs
  <2> HIDE DEF n
  <2> QED
    BY <1>0, <2>1, DevIs
<1>2. d \in Seq(Item)
  BY EmptySeq
<1> HIDE DEF r, d
<1>3. h2d \in Seq(Packet) /\ \A b \in Clients : StreamAt(b, sk[b], h2d, d2h, dev[b].st)
  BY <1>0, DevIs DEF IInv, StreamOK
<1> QED
  BY <1>0, <1>1, <1>2, <1>3, ReplyStep

LEMMA DevSendStep == ASSUME IInv, NEW c \in Clients, DevSend(c) PROVE IInv'
<1>0. tr = "on" /\ DevStep /\ dev[c].st = "open" /\ h2d' = h2d
  BY DEF DevSend, Plugged
<1> DEFINE B(n) == [i \in 1..n |-> Byte(Len(dev[c].sent) + i)]
<1>1. PICK n \in 1..MAX_PAYLOAD :
        /\ dev' = [dev EXCEPT ![c].may = FALSE, ![c].sent = @ \o B(n)]
        /\ Reply("WRTE", c, B(n))
  BY DEF DevSend
<1> DEFINE bytes == B(n)
           all == dev[c].sent \o bytes
           r == [dev[c] EXCEPT !.may = FALSE, !.sent = all]
<1>2. bytes \in Seq(Item)
  <2>1. n \in Nat /\ Len(dev[c].sent) \in Nat
    BY DevIs, LenProperties, SocketsAssumption
  <2>2. \A i \in 1..n : Byte(Len(dev[c].sent) + i) \in Item
    BY <2>1 DEF Byte, Item
  <2>3. bytes \in [1..n -> Item]
    BY <2>2
  <2> HIDE DEF bytes
  <2> QED
    BY <2>1, <2>3, SeqDef
<1>3. dev' = [dev EXCEPT ![c].may = FALSE, ![c].sent = all] /\ Reply("WRTE", c, bytes)
  BY <1>1
<1> HIDE DEF bytes, B
<1>4. all \in Seq(Item)
  BY <1>2, DevIs, ConcatProperties
<1> HIDE DEF all
<1>5. r \in [st : {"open", "closed"}, may : BOOLEAN, owes : Nat, sent : Seq(Item), got : Seq(Item)]
  BY <1>0, <1>4, DevIs
<1>6. dev' = [dev EXCEPT ![c] = r]
  BY <1>3, DevIs DEF DevSet
<1> HIDE DEF r
<1>7. h2d \in Seq(Packet) /\ \A b \in Clients : StreamAt(b, sk[b], h2d, d2h, dev[b].st)
  BY <1>0, DevIs DEF IInv, StreamOK
<1> QED
  BY <1>0, <1>2, <1>3, <1>5, <1>6, <1>7, ReplyStep

LEMMA DevCloseStep == ASSUME IInv, NEW c \in Clients, DevClose(c) PROVE IInv'
<1> DEFINE r == [dev[c] EXCEPT !.st = "closed"]
           d == << >>
<1>0. /\ tr = "on" /\ DevStep /\ dev[c].st = "open" /\ dev' = [dev EXCEPT ![c] = r]
      /\ Reply("CLSE", c, d) /\ h2d' = h2d
  BY DEF DevClose, Plugged
<1>1. r \in [st : {"open", "closed"}, may : BOOLEAN, owes : Nat, sent : Seq(Item), got : Seq(Item)]
  BY <1>0, DevIs
<1>2. d \in Seq(Item)
  BY EmptySeq
<1> HIDE DEF r, d
<1>3. h2d \in Seq(Packet) /\ \A b \in Clients : StreamAt(b, sk[b], h2d, d2h, dev[b].st)
  BY <1>0, DevIs DEF IInv, StreamOK
<1> QED
  BY <1>0, <1>1, <1>2, <1>3, ReplyStep

LEMMA UnplugStep == ASSUME IInv, Unplug PROVE IInv'
<1> DEFINE p == [cmd |-> "SYNC0"]
<1>0. tr = "on" /\ DevStep /\ d2h' = Append(d2h, p) /\ h2d' = h2d /\ dev' = dev
  BY DEF Unplug, Plugged
<1>1. p \in Packet /\ p.cmd = "SYNC0"
  BY DEF Packet
<1> HIDE DEF p
<1>2. /\ d2h \in Seq(Packet) /\ h2d \in Seq(Packet) /\ dev \in DevSet
      /\ \A i \in 1..Len(d2h) : d2h[i].cmd # "OPEN"
  BY WIs DEF IInv, RestOK, DevSet, Good, Record
<1>3. d2h' \in Seq(Packet) /\ \A i \in 1..Len(d2h') : d2h'[i].cmd # "OPEN"
  BY <1>0, <1>1, <1>2, AppendIs
<1>4. ASSUME NEW b \in Clients PROVE StreamAt(b, sk[b], h2d', d2h', dev'[b].st)
  BY <1>0, <1>1, <1>2, ReplyStream DEF IInv, StreamOK
<1> QED
  BY <1>0, <1>2, <1>3, <1>4, DeviceStep

LEMMA DevTakeStep == ASSUME IInv, DevTake PROVE IInv'
<1> DEFINE p == Head(h2d)
           c == p.id
           d == << >>
<1>0. /\ tr = "on" /\ DevStep /\ h2d # << >> /\ h2d' = Tail(h2d) /\ h2d \in Seq(Packet)
      /\ d2h \in Seq(Packet) /\ dev \in DevSet /\ \A i \in 1..Len(d2h) : d2h[i].cmd # "OPEN"
  BY WIs DEF DevTake, Plugged, IInv, RestOK, DevSet, Good, Record
<1>1. p = h2d[1] /\ p \in Packet /\ h2d' \in Seq(Packet)
  BY <1>0, TailIs
<1>2. \A b \in Clients : StreamAt(b, sk[b], h2d, d2h, dev[b].st)
  BY <1>0 DEF IInv, StreamOK
<1>3. \A b \in Clients : StreamAt(b, sk[b], h2d', d2h, dev[b].st)
  BY <1>0, <1>2, TakenStream
<1>4. p.cmd # "SYNC0" => c \in Clients /\ p.data \in Seq(Item)
  BY <1>1, PacketIs
<1>5. d \in Seq(Item)
  BY EmptySeq
<1>6. ASSUME NEW cmd \in {"OKAY", "CLSE"}, NEW st \in {"open", "closed"},
             p.cmd = "OPEN", Reply(cmd, c, d), cmd = "OKAY" <=> st = "open",
             dev' \in DevSet, dev'[c].st = st, \A b \in Clients : b # c => dev'[b] = dev[b]
      PROVE  IInv'
  <2> DEFINE o == [cmd |-> cmd, id |-> c, data |-> d]
  <2>0. c \in Clients
    BY <1>4, <1>6
  <2> HIDE DEF c, d
  <2>1. o \in Packet /\ o.cmd = cmd /\ o.id = c
    BY <1>5, <2>0 DEF Packet
  <2>2. d2h' = Append(d2h, o)
    BY <1>6 DEF Reply
  <2> HIDE DEF o
  <2>3. d2h' \in Seq(Packet) /\ \A i \in 1..Len(d2h') : d2h'[i].cmd # "OPEN"
    BY <1>0, <2>1, <2>2, AppendIs
  <2>4. ASSUME NEW b \in Clients PROVE StreamAt(b, sk[b], h2d', d2h', dev'[b].st)
    <3>1. CASE b = c
      <4>1. IsOf(h2d[1], "OPEN", c)
        BY <1>1, <1>6 DEF IsOf, c
      <4>2. \/ IsOf(o, "OKAY", c) /\ dev'[c].st = "open"
            \/ IsOf(o, "CLSE", c) /\ dev'[c].st = "closed"
        BY <1>6, <2>1 DEF IsOf
      <4>3. StreamAt(c, sk[c], h2d, d2h, dev[c].st)
        BY <1>2, <2>0
      <4>4. StreamAt(c, sk[c], Tail(h2d), Append(d2h, o), dev'[c].st)
        BY <1>0, <2>0, <2>1, <4>1, <4>2, <4>3, AnswerStream
      <4> QED
        BY <1>0, <2>2, <3>1, <4>4
    <3>2. CASE b # c
      <4>1. StreamAt(b, sk[b], h2d', d2h, dev[b].st) /\ dev'[b].st = dev[b].st /\ o.id # b
        BY <1>3, <1>6, <2>1, <3>2
      <4> QED
        BY <1>0, <2>1, <2>2, <4>1, ReplyStream
    <3> QED
      BY <3>1, <3>2
  <2> QED
    BY <1>0, <1>1, <1>6, <2>3, <2>4, DeviceStep
<1>7. CASE /\ p.cmd = "OPEN" /\ Reply("OKAY", c, d)
           /\ dev' = [dev EXCEPT ![c] = [@ EXCEPT !.st = "open", !.may = TRUE]]
  <2>1. dev' \in DevSet /\ dev'[c].st = "open" /\ \A b \in Clients : b # c => dev'[b] = dev[b]
    BY <1>0, <1>4, <1>7 DEF DevSet
  <2> QED
    BY <1>6, <1>7, <2>1
<1>8. CASE p.cmd = "OPEN" /\ Reply("CLSE", c, d) /\ dev' = [dev EXCEPT ![c].st = "closed"]
  <2>1. dev' \in DevSet /\ dev'[c].st = "closed" /\ \A b \in Clients : b # c => dev'[b] = dev[b]
    BY <1>0, <1>4, <1>8 DEF DevSet
  <2> QED
    BY <1>6, <1>8, <2>1
<1>9. ASSUME d2h' = d2h, dev' \in DevSet, \A b \in Clients : dev'[b].st = dev[b].st PROVE IInv'
  BY <1>0, <1>1, <1>3, <1>9, DeviceStep
<1>10. CASE /\ p.cmd = "WRTE" /\ dev[c].st = "open" /\ d2h' = d2h
            /\ dev' = [dev EXCEPT ![c].got = @ \o p.data, ![c].owes = @ + 1]
  <2> DEFINE a == dev[c].got \o p.data
             n == dev[c].owes + 1
  <2>1. c \in Clients /\ a \in Seq(Item) /\ n \in Nat
    <3>1. c \in Clients /\ p.data \in Seq(Item)
      BY <1>4, <1>10
    <3>2. dev[c].got \in Seq(Item) /\ dev[c].owes \in Nat
      BY <3>1, DevIs
    <3> QED
      BY <3>1, <3>2, ConcatProperties
  <2>2. dev' = [dev EXCEPT ![c].got = a, ![c].owes = n]
    BY <1>10
  <2> HIDE DEF a, n, c
  <2>3. dev' \in DevSet /\ \A b \in Clients : dev'[b].st = dev[b].st
    BY <1>0, <2>1, <2>2 DEF DevSet
  <2> QED
    BY <1>9, <1>10, <2>3
<1>11. CASE /\ p.cmd = "OKAY" /\ dev[c].st = "open" /\ d2h' = d2h
            /\ dev' = [dev EXCEPT ![c].may = TRUE]
  <2>1. dev' \in DevSet /\ \A b \in Clients : dev'[b].st = dev[b].st
    BY <1>0, <1>4, <1>11, ZenonT(30) DEF DevSet
  <2> QED
    BY <1>9, <1>11, <2>1
<1>12. CASE /\ p.cmd = "CLSE" /\ dev[c].st = "open" /\ Reply("CLSE", c, d)
            /\ dev' = [dev EXCEPT ![c].st = "closed"]
  <2> DEFINE r == [dev[c] EXCEPT !.st = "closed"]
  <2>0. c \in Clients
    BY <1>4, <1>12
  <2>1. r \in [st : {"open", "closed"}, may : BOOLEAN, owes : Nat, sent : Seq(Item), got : Seq(Item)]
    BY <2>0, DevIs
  <2>2. dev' = [dev EXCEPT ![c] = r]
    BY <1>12
  <2> HIDE DEF r, d, c
  <2> QED
    BY <1>0, <1>1, <1>3, <1>5, <1>12, <2>0, <2>1, <2>2, ReplyStep
<1>13. CASE p.cmd # "OPEN" /\ dev[c].st # "open" /\ UNCHANGED <<d2h, dev>>
  BY <1>0, <1>9, <1>13
<1> QED
  BY <1>7, <1>8, <1>10, <1>11, <1>12, <1>13 DEF DevTake

-----------------------------------------------------------------------------
(* Flow control *)

\* The numbers of an account.
LEMMA Numbers ==
    ASSUME NEW h \in Seq(Packet), NEW c, NEW s
    PROVE  /\ Okays(h, c) \in Nat /\ Writes(h, c) \in Nat
           /\ Backlog(s) \in {0, 1} /\ Reads(s) \in {0, 1}
           /\ (Backlog(s) = 0 <=> s.q = << >>) /\ (Reads(s) = 0 <=> "R" \notin s.want)
  BY PlacesFinite DEF Okays, Writes, Backlog, Reads, One

\* A call that keeps the permissions of a stream keeps its account.
LEMMA FlowAccount ==
    ASSUME NEW w, NEW v, NEW c \in Clients, Good(w), Good(v), Flow(w, v, c),
           NEW q \in Seq(Packet), NEW r, Okays(r, c) = Okays(q, c), Writes(r, c) = Writes(q, c),
           NEW d, d.owes \in Nat, Account(c, w.sk[c], w.h2d, q, d), Early(w.sk[c]) => d.st = "none"
    PROVE  Account(c, v.sk[c], v.h2d, r, d)
<1> DEFINE s == w.sk[c]
           t == v.sk[c]
<1>0. /\ w.h2d \in Seq(Packet) /\ v.h2d \in Seq(Packet) /\ c \in Locals
      /\ t.peer # None => t.on = "list"
  BY Distinct DEF Good, Record, SkOK, SockOK
<1>1. /\ Okays(w.h2d, c) \in Nat /\ Writes(w.h2d, c) \in Nat /\ Okays(v.h2d, c) \in Nat
      /\ Writes(v.h2d, c) \in Nat /\ Reads(s) \in {0, 1} /\ Reads(t) \in {0, 1}
      /\ Backlog(s) \in {0, 1} /\ Backlog(t) \in {0, 1}
      /\ (Reads(s) = 0 <=> "R" \notin s.want) /\ (Reads(t) = 0 <=> "R" \notin t.want)
  BY <1>0, Numbers
<1>2. ASSUME t.on = "list", t.peer \in {None, Remote}, d.st # "none"
      PROVE  /\ s.on = "list" /\ s.peer = t.peer
             /\ Backlog(t) + Okays(v.h2d, c) = Backlog(s) + Okays(w.h2d, c)
             /\ Reads(t) + Writes(v.h2d, c) = Reads(s) + Writes(w.h2d, c)
  BY <1>2 DEF Flow, Early
<1>3. ASSUME d.st = "none"
      PROVE  /\ Okays(v.h2d, c) = 0 /\ Writes(v.h2d, c) = 0 /\ d.owes = 0 /\ t.peer # Remote
  <2>1. s.peer # Remote
    BY <1>3 DEF Account
  <2>2. t.peer # Remote
    BY <1>0, <2>1, Distinct DEF Flow
  <2> QED
    BY <1>3, <2>1, <2>2 DEF Account, Flow, Uncounted
<1>4. ASSUME t.on = "list", t.peer = None PROVE "R" \notin t.want
  <2>1. CASE s.peer = Smart /\ "R" \notin t.want
    BY <2>1
  <2>2. CASE /\ s.on = "list" /\ s.peer = t.peer
             /\ Reads(t) + Writes(v.h2d, c) = Reads(s) + Writes(w.h2d, c)
    <3>1. Writes(v.h2d, c) = Writes(w.h2d, c)
      BY <1>4, <2>2, Distinct DEF Flow, Uncounted
    <3>2. "R" \notin s.want
      BY <1>4, <2>2 DEF Account
    <3> QED
      BY <1>1, <2>2, <3>1, <3>2
  <2> QED
    BY <1>4, <2>1, <2>2 DEF Flow
<1>5. ASSUME t.on = "list", t.peer \in {None, Remote}, d.st = "open"
      PROVE  /\ One(d.may) + Writes(r, c) + Backlog(t) + Okays(v.h2d, c) = 1
             /\ Reads(t) + Writes(v.h2d, c) + d.owes + Okays(r, c) = 1
  <2>1. /\ One(d.may) + Writes(q, c) + Backlog(s) + Okays(w.h2d, c) = 1
        /\ Reads(s) + Writes(w.h2d, c) + d.owes + Okays(q, c) = 1
    BY <1>2, <1>5 DEF Account
  <2>2. One(d.may) \in {0, 1} /\ Writes(q, c) \in Nat /\ Okays(q, c) \in Nat
    BY Numbers DEF One
  <2>3. /\ Backlog(t) + Okays(v.h2d, c) = Backlog(s) + Okays(w.h2d, c)
        /\ Reads(t) + Writes(v.h2d, c) = Reads(s) + Writes(w.h2d, c)
    BY <1>2, <1>5
  <2> HIDE DEF s, t
  <2> QED
    BY <1>1, <2>1, <2>2, <2>3
<1>6. ASSUME t.on = "list", t.peer \in {None, Remote}, d.st = "closed"
      PROVE  Writes(r, c) + Backlog(t) + Okays(v.h2d, c) <= 1
  <2>1. Writes(q, c) + Backlog(s) + Okays(w.h2d, c) <= 1
    BY <1>2, <1>6 DEF Account
  <2>2. Writes(q, c) \in Nat
    BY Numbers
  <2>3. Backlog(t) + Okays(v.h2d, c) = Backlog(s) + Okays(w.h2d, c)
    BY <1>2, <1>6
  <2> HIDE DEF s, t
  <2> QED
    BY <1>1, <2>1, <2>2, <2>3
<1> QED
  BY <1>3, <1>4, <1>5, <1>6 DEF Account

\* A handler that keeps every permission to send keeps the invariant.
LEMMA EvenCredit ==
    ASSUME IInv, CreditInv, NEW v, Good(v), Even(W, v), Becomes(v), tr' = tr, dev' = dev,
           SmallPackets',
           tr = "on" => \A c \in Clients : /\ Okays(d2h', c) = Okays(d2h, c)
                                           /\ Writes(d2h', c) = Writes(d2h, c)
    PROVE  CreditInv'
<1>1. sk' = v.sk /\ h2d' = v.h2d
  BY DEF Becomes
<1>2. Saving(sk')
  BY <1>1 DEF Even
<1>3. ASSUME tr = "on", NEW c \in Clients PROVE Account(c, sk'[c], h2d', d2h', dev[c])
  <2>1. /\ Account(c, W.sk[c], W.h2d, d2h, dev[c]) /\ (Early(W.sk[c]) => dev[c].st = "none")
        /\ Good(W) /\ d2h \in Seq(Packet) /\ dev[c].owes \in Nat /\ Flow(W, v, c)
    BY <1>3, WIs DEF CreditInv, IInv, StreamOK, StreamAt, RestOK, Even
  <2>2. Okays(d2h', c) = Okays(d2h, c) /\ Writes(d2h', c) = Writes(d2h, c)
    BY <1>3
  <2>3. Account(c, v.sk[c], v.h2d, d2h', dev[c])
    <3> DEFINE q == d2h'
    <3> HIDE DEF q
    <3>1. Okays(q, c) = Okays(d2h, c) /\ Writes(q, c) = Writes(d2h, c)
      BY <2>2 DEF q
    <3>2. Account(c, v.sk[c], v.h2d, q, dev[c])
      BY <2>1, <3>1, FlowAccount
    <3> QED
      BY <3>2 DEF q
  <2> QED
    BY <1>1, <2>3
<1> QED
  BY <1>2, <1>3 DEF CreditInv

\* A packet leaves the queue.
LEMMA TakenPacket ==
    ASSUME NEW q \in Seq(Packet), q # << >>, NEW c
    PROVE  /\ Okays(q, c) = Okays(Tail(q), c) + One(IsOf(Head(q), "OKAY", c))
           /\ Writes(q, c) = Writes(Tail(q), c) + One(IsOf(Head(q), "WRTE", c))
           /\ Okays(Tail(q), c) \in Nat /\ Writes(Tail(q), c) \in Nat
  BY PacketsTail, TailIs, Numbers DEF Okays, Writes

LEMMA SmallTail == ASSUME d2h \in Seq(Packet), d2h # << >>, d2h' = Tail(d2h), SmallPackets
                   PROVE  SmallPackets'
  BY TailIs DEF SmallPackets

LEMMA SignalCredit == ASSUME IInv, CreditInv, NEW l \in Locals, Signal(l) PROVE CreditInv'
<1> DEFINE r == [sk[l] EXCEPT !.pend = @ \cup sk[l].want]
<1>0. sk \in [Locals -> Socket]
  BY WIs DEF IInv, Good, SkOK
<1>1. /\ r.on = sk[l].on /\ r.peer = sk[l].peer /\ r.q = sk[l].q /\ r.want = sk[l].want
      /\ r.pend = sk[l].pend \cup sk[l].want
  BY <1>0 DEF Socket
<1>2. sk' = [sk EXCEPT ![l] = r] /\ UNCHANGED <<tr, h2d, d2h, dev>>
  BY DEF Signal
<1> HIDE DEF r
<1>3. \A m \in Locals : /\ sk'[m].on = sk[m].on /\ sk'[m].peer = sk[m].peer
                         /\ sk'[m].q = sk[m].q /\ sk'[m].want = sk[m].want
                         /\ sk'[m].pend \subseteq sk[m].pend \cup sk[m].want
  BY <1>0, <1>1, <1>2
<1>4. Saving(sk')
  BY <1>3 DEF CreditInv, Saving
<1>5. ASSUME tr = "on", NEW c \in Clients PROVE Account(c, sk'[c], h2d', d2h', dev'[c])
  <2>1. Account(c, sk[c], h2d, d2h, dev[c]) /\ c \in Locals
    BY <1>5, Distinct DEF CreditInv
  <2> QED
    BY <1>2, <1>3, <2>1 DEF Account, Backlog, Reads
<1> QED
  BY <1>2, <1>4, <1>5 DEF CreditInv, SmallPackets

LEMMA CallbackCredit == ASSUME IInv, CreditInv, NEW l \in Locals, Callback(l) PROVE CreditInv'
<1>1. PICK v : Safe(W, v) /\ Becomes(v) /\ Even(W, v)
  BY CallbackSafe DEF CreditInv
<1>2. UNCHANGED <<tr, d2h, dev>> /\ SmallPackets'
  BY CallbackSafe DEF CreditInv, SmallPackets
<1> QED
  BY <1>1, <1>2, EvenCredit DEF Safe

\* The account of a stream that a step leaves alone.
LEMMA SameAccount ==
    ASSUME NEW c, NEW s, NEW t, Alike(s, t), NEW h, NEW k, Okays(k, c) = Okays(h, c),
           Writes(k, c) = Writes(h, c), NEW q, NEW r, Okays(r, c) = Okays(q, c),
           Writes(r, c) = Writes(q, c), NEW d, Account(c, s, h, q, d)
    PROVE  Account(c, t, k, r, d)
  BY DEF Alike, Account, Backlog, Reads

\* What is so when the main thread takes an OKAY or a WRTE of c.
LEMMA MainPacketIs ==
    ASSUME IInv, CreditInv, tr = "on", d2h # << >>, NEW c \in Clients,
           NEW cmd \in {"OKAY", "WRTE"}, IsOf(Head(d2h), cmd, c)
    PROVE  /\ Good(W) /\ d2h \in Seq(Packet) /\ h2d \in Seq(Packet) /\ c \in Locals
           /\ sk \in [Locals -> Socket] /\ SockOK(c, sk[c]) /\ dev[c].st \in {"open", "closed"}
           /\ Account(c, sk[c], h2d, d2h, dev[c]) /\ dev[c].owes \in Nat
           /\ sk[c].on = "list" => sk[c].peer \in {None, Remote}
           /\ sk[c].on = "list" /\ cmd = "WRTE" => sk[c].peer = Remote
           /\ Saving(sk)
           /\ \A b \in Clients : /\ Okays(d2h, b) = Okays(Tail(d2h), b) + One(cmd = "OKAY" /\ b = c)
                                 /\ Writes(d2h, b) = Writes(Tail(d2h), b) + One(cmd = "WRTE" /\ b = c)
                                 /\ Okays(Tail(d2h), b) \in Nat /\ Writes(Tail(d2h), b) \in Nat
<1>1. /\ Good(W) /\ d2h \in Seq(Packet) /\ h2d \in Seq(Packet) /\ c \in Locals
      /\ sk \in [Locals -> Socket] /\ SockOK(c, sk[c]) /\ dev[c].owes \in Nat
      /\ dev[c].st \in {"none", "open", "closed"}
      /\ Account(c, sk[c], h2d, d2h, dev[c]) /\ StreamAt(c, sk[c], h2d, d2h, dev[c].st) /\ Saving(sk)
  BY WIs, Distinct DEF IInv, RestOK, Good, SkOK, Record, CreditInv, StreamOK
<1>2. 1 \in 1..Len(d2h) /\ IsOf(d2h[1], cmd, c)
  BY <1>1, TailIs
<1>3. dev[c].st # "none"
  BY <1>1, <1>2 DEF StreamAt, IsOf
<1>4. sk[c].on = "list" => sk[c].peer \in {None, Remote}
  BY <1>1, <1>3 DEF StreamAt, Early, Socket
<1>5. sk[c].on = "list" /\ cmd = "WRTE" => sk[c].peer = Remote
  <2>1. ~\E j \in 1..(1 - 1) : TRUE
    OBVIOUS
  <2> QED
    BY <1>1, <1>2, <1>4, <2>1 DEF StreamAt
<1>6. ASSUME NEW b \in Clients
      PROVE  /\ Okays(d2h, b) = Okays(Tail(d2h), b) + One(cmd = "OKAY" /\ b = c)
             /\ Writes(d2h, b) = Writes(Tail(d2h), b) + One(cmd = "WRTE" /\ b = c)
             /\ Okays(Tail(d2h), b) \in Nat /\ Writes(Tail(d2h), b) \in Nat
  <2>1. /\ Okays(d2h, b) = Okays(Tail(d2h), b) + One(IsOf(Head(d2h), "OKAY", b))
        /\ Writes(d2h, b) = Writes(Tail(d2h), b) + One(IsOf(Head(d2h), "WRTE", b))
        /\ Okays(Tail(d2h), b) \in Nat /\ Writes(Tail(d2h), b) \in Nat
    BY <1>1, TakenPacket
  <2>2. /\ IsOf(Head(d2h), "OKAY", b) <=> (cmd = "OKAY" /\ b = c)
        /\ IsOf(Head(d2h), "WRTE", b) <=> (cmd = "WRTE" /\ b = c)
    BY DEF IsOf
  <2> QED
    BY <2>1, <2>2 DEF One
<1> QED
  BY <1>1, <1>3, <1>4, <1>5, <1>6

\* The one permission is here.
LEMMA LastOne ==
    ASSUME NEW x \in Nat, NEW y \in Nat, NEW z \in Nat, NEW n \in Nat, x + y + z + (n + 1) = 1
    PROVE  x = 0 /\ y = 0 /\ z = 0 /\ n = 0
  OBVIOUS

\* A_OKAY: the socket was not reading, since one OKAY is on its way at most.
LEMMA OkayCredit ==
    ASSUME IInv, CreditInv, tr = "on", d2h # << >>, NEW c \in Clients,
           IsOf(Head(d2h), "OKAY", c), NEW v, v = HandleOkay(W, c), Becomes(v),
           d2h' = Tail(d2h), tr' = tr, dev' = dev
    PROVE  CreditInv'
<1>1. /\ Good(W) /\ d2h \in Seq(Packet) /\ h2d \in Seq(Packet) /\ c \in Locals
      /\ sk \in [Locals -> Socket] /\ SockOK(c, sk[c]) /\ dev[c].st \in {"open", "closed"}
      /\ Account(c, sk[c], h2d, d2h, dev[c]) /\ dev[c].owes \in Nat
      /\ sk[c].on = "list" => sk[c].peer \in {None, Remote}
      /\ Saving(sk)
      /\ \A b \in Clients : /\ Okays(d2h, b) = Okays(Tail(d2h), b) + One("OKAY" = "OKAY" /\ b = c)
                            /\ Writes(d2h, b) = Writes(Tail(d2h), b) + One("OKAY" = "WRTE" /\ b = c)
                            /\ Okays(Tail(d2h), b) \in Nat /\ Writes(Tail(d2h), b) \in Nat
  BY MainPacketIs
<1>2. sk' = v.sk /\ h2d' = v.h2d /\ SmallPackets'
  BY <1>1, SmallTail DEF Becomes, CreditInv
<1>3. /\ \A b \in Clients : Writes(d2h, b) = Writes(d2h', b)
      /\ \A b \in Clients : b # c => Okays(d2h, b) = Okays(d2h', b)
      /\ Okays(d2h, c) = Okays(d2h', c) + 1 /\ Okays(d2h', c) \in Nat
  BY <1>1 DEF One
<1>4. /\ Safe(W, v) /\ (sk[c].on # "list" => v = W) /\ (sk[c].on = "list" => Readied(W, v, c))
  BY <1>1, WIs, HandleOkayOK
<1>5. CASE sk[c].on # "list"
  <2>1. sk' = sk /\ h2d' = h2d
    BY <1>2, <1>4, <1>5, WIs
  <2>2. ASSUME NEW b \in Clients PROVE Account(b, sk'[b], h2d', d2h', dev'[b])
    <3>1. Account(b, sk[b], h2d, d2h, dev[b])
      BY DEF CreditInv
    <3>2. CASE b = c
      BY <1>1, <1>5, <2>1, <3>2 DEF Account
    <3>3. CASE b # c
      <4> DEFINE q == d2h'
      <4>1. Okays(q, b) = Okays(d2h, b) /\ Writes(q, b) = Writes(d2h, b)
        BY <1>3, <3>3
      <4> HIDE DEF q
      <4>2. Account(b, sk[b], h2d, q, dev[b])
        BY <3>1, <4>1, AlikeSame, SameAccount
      <4> QED
        BY <2>1, <4>2 DEF q
    <3> QED
      BY <3>2, <3>3
  <2> QED
    BY <1>1, <1>2, <2>1, <2>2 DEF CreditInv
<1>6. CASE sk[c].on = "list"
  <2>1. /\ h2d' = h2d /\ \A m \in Locals : m # c => sk'[m] = sk[m]
        /\ sk'[c].on = "list" /\ sk'[c].q = sk[c].q /\ "R" \in sk'[c].want
        /\ sk'[c].peer = Remote
    BY <1>1, <1>2, <1>4, <1>6, WIs, Distinct DEF Readied
  <2>2. Saving(sk')
    <3>1. /\ \A m \in Locals : Len(sk'[m].q) <= MAX_PAYLOAD
          /\ \A m \in Locals : sk'[m].on = "list" /\ "R" \in sk'[m].pend => "R" \in sk'[m].want
      BY <1>1, <2>1 DEF Saving
    <3>2. ASSUME NEW m \in Locals, sk'[m].peer \in Locals, sk'[sk'[m].peer].q # << >>
          PROVE  "R" \notin sk'[m].want
      <4>1. m # c /\ sk'[m] = sk[m]
        BY <2>1, <3>2, Distinct
      <4>2. sk[sk[m].peer].q # << >>
        BY <2>1, <3>2, <4>1
      <4> QED
        BY <1>1, <3>2, <4>1, <4>2 DEF Saving
    <3> QED
      BY <3>1, <3>2 DEF Saving
  <2>3. ASSUME NEW b \in Clients PROVE Account(b, sk'[b], h2d', d2h', dev'[b])
    <3>1. Account(b, sk[b], h2d, d2h, dev[b]) /\ b \in Locals
      BY Distinct DEF CreditInv
    <3>2. CASE b # c
      <4> DEFINE q == d2h'
      <4>1. Okays(q, b) = Okays(d2h, b) /\ Writes(q, b) = Writes(d2h, b)
        BY <1>3, <3>2
      <4> HIDE DEF q
      <4>2. Account(b, sk[b], h2d, q, dev[b])
        BY <3>1, <4>1, AlikeSame, SameAccount
      <4> QED
        BY <2>1, <3>1, <3>2, <4>2 DEF q
    <3>3. CASE b = c
      <4>1. Backlog(sk'[c]) = Backlog(sk[c]) /\ Reads(sk'[c]) = 1 /\ Reads(sk[c]) \in {0, 1}
        BY <2>1 DEF Backlog, Reads, One
      <4>2. Writes(h2d, c) \in Nat
        BY <1>1, Numbers
      <4>3. CASE dev[c].st = "open"
        <5>1. /\ One(dev[c].may) + Writes(d2h, c) + Backlog(sk[c]) + Okays(h2d, c) = 1
              /\ Reads(sk[c]) + Writes(h2d, c) + dev[c].owes + Okays(d2h, c) = 1
          BY <1>1, <1>6, <4>3 DEF Account
        <5>2. One(dev[c].may) + Writes(d2h', c) + Backlog(sk'[c]) + Okays(h2d', c) = 1
          BY <1>3, <2>1, <4>1, <5>1
        <5>3. Reads(sk'[c]) + Writes(h2d', c) + dev[c].owes + Okays(d2h', c) = 1
          <6>1. Okays(d2h, c) = Okays(d2h', c) + 1 /\ Okays(d2h', c) \in Nat /\ dev[c].owes \in Nat
            BY <1>1, <1>3
          <6>2. Reads(sk[c]) + Writes(h2d, c) + dev[c].owes + (Okays(d2h', c) + 1) = 1
            BY <5>1, <6>1
          <6>3. Writes(h2d, c) = 0 /\ dev[c].owes = 0 /\ Okays(d2h', c) = 0
            BY <4>1, <4>2, <6>1, <6>2, LastOne
          <6>4. Writes(h2d', c) = 0
            BY <2>1, <6>3
          <6> QED
            BY <4>1, <6>3, <6>4
        <5> QED
          BY <2>1, <3>3, <4>3, <5>2, <5>3, Distinct DEF Account
      <4>4. CASE dev[c].st = "closed"
        <5>1. Writes(d2h, c) + Backlog(sk[c]) + Okays(h2d, c) <= 1
          BY <1>1, <1>6, <4>4 DEF Account
        <5>2. Writes(d2h', c) + Backlog(sk'[c]) + Okays(h2d', c) <= 1
          BY <1>3, <2>1, <4>1, <5>1
        <5> QED
          BY <2>1, <3>3, <4>4, <5>2, Distinct DEF Account
      <4> QED
        BY <1>1, <4>3, <4>4
    <3> QED
      BY <3>2, <3>3
  <2> QED
    BY <1>2, <2>2, <2>3 DEF CreditInv
<1> QED
  BY <1>5, <1>6

\* A_WRTE: its permission goes back to the device in an OKAY, or stays with the backlog.
LEMMA WriteCredit ==
    ASSUME IInv, CreditInv, tr = "on", d2h # << >>, NEW c \in Clients, NEW bytes \in Seq(Item),
           IsOf(Head(d2h), "WRTE", c), Len(bytes) <= MAX_PAYLOAD,
           NEW v, v = HandleWrite(W, c, bytes), Becomes(v), d2h' = Tail(d2h), tr' = tr, dev' = dev
    PROVE  CreditInv'
<1> DEFINE q == Tail(d2h)
<1>1. /\ Good(W) /\ d2h \in Seq(Packet) /\ h2d \in Seq(Packet) /\ c \in Locals
      /\ sk \in [Locals -> Socket] /\ SockOK(c, sk[c]) /\ dev[c].st \in {"open", "closed"}
      /\ Account(c, sk[c], h2d, d2h, dev[c]) /\ dev[c].owes \in Nat
      /\ sk[c].on = "list" => sk[c].peer = Remote
      /\ Saving(sk)
      /\ \A b \in Clients : /\ Okays(d2h, b) = Okays(q, b) + One("WRTE" = "OKAY" /\ b = c)
                            /\ Writes(d2h, b) = Writes(q, b) + One("WRTE" = "WRTE" /\ b = c)
                            /\ Okays(q, b) \in Nat /\ Writes(q, b) \in Nat
  BY MainPacketIs
<1>2. sk' = v.sk /\ h2d' = v.h2d /\ d2h' = q /\ q \in Seq(Packet) /\ SmallPackets'
  BY <1>1, SmallTail, TailIs DEF Becomes, CreditInv
<1> HIDE DEF q
<1>3. /\ \A b \in Clients : Okays(q, b) = Okays(d2h, b)
      /\ \A b \in Clients : b # c => Writes(q, b) = Writes(d2h, b)
      /\ Writes(d2h, c) = Writes(q, c) + 1 /\ Writes(q, c) \in Nat
  BY <1>1 DEF One
<1>4. /\ Safe(W, v) /\ (sk[c].on # "list" => v = W)
      /\ sk[c].on = "list" => \/ v.sk = W.sk /\ Given(W, v, "OKAY", c)
                              \/ v.sk[c].on # "list" /\ Fewer(W, v)
                              \/ Queued(W, v, c, bytes)
  <2>1. W.sk[c].on = "list" => W.sk[c].peer \notin {None, Smart}
    BY <1>1, WIs, Distinct
  <2> QED
    BY <1>1, <2>1, WIs, HandleWriteOK
<1>5. ASSUME Saving(v.sk), \A b \in Clients : Account(b, v.sk[b], v.h2d, q, dev[b])
      PROVE  CreditInv'
  BY <1>2, <1>5 DEF CreditInv
<1>6. \A b \in Clients : Account(b, sk[b], h2d, d2h, dev[b])
  BY DEF CreditInv
<1>7. CASE sk[c].on # "list"
  <2>1. v.sk = sk /\ v.h2d = h2d
    BY <1>4, <1>7, WIs
  <2>2. ASSUME NEW b \in Clients PROVE Account(b, sk[b], h2d, q, dev[b])
    <3>1. CASE b = c
      BY <1>1, <1>7, <3>1 DEF Account
    <3>2. CASE b # c
      BY <1>3, <1>6, <3>2, AlikeSame, SameAccount
    <3> QED
      BY <3>1, <3>2
  <2> QED
    BY <1>1, <1>5, <2>1, <2>2
<1>8. CASE sk[c].on = "list" /\ v.sk = W.sk /\ Given(W, v, "OKAY", c)
  <2>1. /\ v.sk = sk /\ Okays(v.h2d, c) = Okays(h2d, c) + 1 /\ Writes(v.h2d, c) = Writes(h2d, c)
        /\ \A b \in Clients : b # c => /\ Okays(v.h2d, b) = Okays(h2d, b)
                                       /\ Writes(v.h2d, b) = Writes(h2d, b)
    <3>1. \A b \in Clients : Okays(h2d, b) \in Nat /\ Writes(h2d, b) \in Nat
      BY <1>1, Numbers
    <3> QED
      BY <1>8, <3>1, WIs DEF Given, One
  <2>2. ASSUME NEW b \in Clients, b # c PROVE Account(b, sk[b], v.h2d, q, dev[b])
    BY <1>3, <1>6, <2>1, <2>2, AlikeSame, SameAccount
  <2>3. Account(c, sk[c], v.h2d, q, dev[c])
    <3>0. Okays(h2d, c) \in Nat /\ Backlog(sk[c]) \in {0, 1} /\ One(dev[c].may) \in {0, 1}
      BY <1>1, Numbers DEF One
    <3>1. CASE dev[c].st = "open"
      <4>1. /\ One(dev[c].may) + Writes(d2h, c) + Backlog(sk[c]) + Okays(h2d, c) = 1
            /\ Reads(sk[c]) + Writes(h2d, c) + dev[c].owes + Okays(d2h, c) = 1
        BY <1>1, <1>8, <3>1 DEF Account
      <4>2. One(dev[c].may) + Writes(q, c) + Backlog(sk[c]) + Okays(v.h2d, c) = 1
        BY <1>3, <2>1, <3>0, <4>1
      <4>3. Reads(sk[c]) + Writes(v.h2d, c) + dev[c].owes + Okays(q, c) = 1
        BY <1>3, <2>1, <4>1
      <4> QED
        BY <1>1, <1>8, <3>1, <4>2, <4>3, Distinct DEF Account
    <3>2. CASE dev[c].st = "closed"
      <4>1. Writes(d2h, c) + Backlog(sk[c]) + Okays(h2d, c) <= 1
        BY <1>1, <1>8, <3>2 DEF Account
      <4>2. Writes(q, c) + Backlog(sk[c]) + Okays(v.h2d, c) <= 1
        BY <1>3, <2>1, <3>0, <4>1
      <4> QED
        BY <1>1, <1>8, <3>2, <4>2, Distinct DEF Account
    <3> QED
      BY <1>1, <3>1, <3>2
  <2> QED
    BY <1>1, <1>5, <2>1, <2>2, <2>3
<1>9. CASE sk[c].on = "list" /\ v.sk[c].on # "list" /\ Fewer(W, v)
  <2>1. Good(v) /\ Even(W, v)
    BY <1>1, <1>4, <1>9, WIs, FewerEven DEF Safe
  <2>2. ASSUME NEW b \in Clients, b # c PROVE Account(b, v.sk[b], v.h2d, q, dev[b])
    <3>1. /\ Account(b, W.sk[b], W.h2d, d2h, dev[b]) /\ Flow(W, v, b)
          /\ Early(W.sk[b]) => dev[b].st = "none"
          /\ dev[b].owes \in Nat
      BY <1>6, <2>1, WIs DEF Even, IInv, StreamOK, StreamAt, RestOK
    <3>2. Okays(q, b) = Okays(d2h, b) /\ Writes(q, b) = Writes(d2h, b)
      BY <1>3, <2>2
    <3> QED
      BY <1>1, <2>1, <3>1, <3>2, FlowAccount
  <2>3. Account(c, v.sk[c], v.h2d, q, dev[c])
    <3>1. v.sk[c].peer # Remote /\ dev[c].st # "none"
      BY <1>1, <1>9, <2>1, Distinct DEF Good, SkOK, SockOK
    <3> QED
      BY <1>9, <3>1 DEF Account
  <2> QED
    BY <1>5, <2>1, <2>2, <2>3 DEF Even
<1>10. CASE sk[c].on = "list" /\ Queued(W, v, c, bytes)
  <2>1. /\ v.h2d = h2d /\ \A m \in Locals : m # c => v.sk[m] = sk[m]
        /\ v.sk[c].on = "list" /\ v.sk[c].peer = Remote /\ v.sk[c].q # << >>
        /\ sk[c].q = << >> => Len(v.sk[c].q) <= Len(bytes)
        /\ ("R" \in v.sk[c].want <=> "R" \in sk[c].want) /\ v.sk[c].pend \subseteq sk[c].pend
    BY <1>1, <1>10, WIs DEF Queued
  <2>2. Backlog(v.sk[c]) = 1 /\ Reads(v.sk[c]) = Reads(sk[c])
    BY <2>1 DEF Backlog, Reads, One
  <2>3. Okays(h2d, c) \in Nat /\ Backlog(sk[c]) \in {0, 1} /\ One(dev[c].may) \in {0, 1}
    BY <1>1, Numbers DEF One
  <2>4. Backlog(sk[c]) = 0 /\ Account(c, v.sk[c], v.h2d, q, dev[c])
    <3>1. CASE dev[c].st = "open"
      <4>1. /\ One(dev[c].may) + Writes(d2h, c) + Backlog(sk[c]) + Okays(h2d, c) = 1
            /\ Reads(sk[c]) + Writes(h2d, c) + dev[c].owes + Okays(d2h, c) = 1
        BY <1>1, <1>10, <3>1 DEF Account
      <4>2. One(dev[c].may) + Writes(q, c) + 1 + Okays(h2d, c) = 1 /\ Backlog(sk[c]) = 0
        BY <1>3, <2>3, <4>1
      <4>3. Reads(sk[c]) + Writes(h2d, c) + dev[c].owes + Okays(q, c) = 1
        BY <1>3, <4>1
      <4> QED
        BY <2>1, <2>2, <3>1, <4>2, <4>3, Distinct DEF Account
    <3>2. CASE dev[c].st = "closed"
      <4>1. Writes(d2h, c) + Backlog(sk[c]) + Okays(h2d, c) <= 1
        BY <1>1, <1>10, <3>2 DEF Account
      <4>2. Writes(q, c) + 1 + Okays(h2d, c) <= 1 /\ Backlog(sk[c]) = 0
        BY <1>3, <2>3, <4>1
      <4> QED
        BY <2>1, <2>2, <3>2, <4>2, Distinct DEF Account
    <3> QED
      BY <1>1, <3>1, <3>2
  <2>5. ASSUME NEW b \in Clients, b # c PROVE Account(b, v.sk[b], v.h2d, q, dev[b])
    <3>1. v.sk[b] = sk[b]
      BY <2>1, <2>5, Distinct
    <3>2. Account(b, sk[b], h2d, q, dev[b])
      BY <1>3, <1>6, <2>5, AlikeSame, SameAccount
    <3> QED
      BY <2>1, <3>1, <3>2
  <2>6. Saving(v.sk)
    <3>1. Len(v.sk[c].q) <= MAX_PAYLOAD
      <4>1. sk[c].q = << >>
        BY <2>4 DEF Backlog, One
      <4>2. Len(v.sk[c].q) <= Len(bytes) /\ Len(bytes) \in Nat /\ MAX_PAYLOAD \in Nat
        BY <2>1, <4>1, LenProperties, SocketsAssumption
      <4>3. Len(v.sk[c].q) \in Nat
        BY <1>1, <1>4, LenProperties DEF Safe, Good, SkOK, Socket
      <4> QED
        BY <4>2, <4>3
    <3>2. /\ \A m \in Locals : Len(v.sk[m].q) <= MAX_PAYLOAD
          /\ \A m \in Locals : v.sk[m].on = "list" /\ "R" \in v.sk[m].pend => "R" \in v.sk[m].want
      BY <1>1, <1>10, <2>1, <3>1 DEF Saving
    <3>3. ASSUME NEW m \in Locals, v.sk[m].peer \in Locals, v.sk[v.sk[m].peer].q # << >>
          PROVE  "R" \notin v.sk[m].want
      <4> DEFINE p == v.sk[m].peer
      <4>1. m # c /\ v.sk[m] = sk[m]
        BY <2>1, <3>3, Distinct
      <4>2. p # c
        <5>1. sk[sk[m].peer].peer = m
          BY <1>1, <3>3, <4>1, WIs DEF Good, SkOK
        <5> QED
          BY <1>1, <1>10, <4>1, <5>1, Distinct
      <4>3. sk[sk[m].peer].q # << >>
        BY <2>1, <3>3, <4>1, <4>2
      <4> QED
        BY <1>1, <3>3, <4>1, <4>3 DEF Saving
    <3> QED
      BY <3>2, <3>3 DEF Saving
  <2> QED
    BY <1>5, <2>4, <2>5, <2>6
<1> QED
  BY <1>4, <1>7, <1>8, <1>9, <1>10

LEMMA MainPacketCredit == ASSUME IInv, CreditInv, MainPacket PROVE CreditInv'
<1> DEFINE p == Head(d2h)
           v == IF tr # "on" THEN W
                ELSE CASE p.cmd = "OKAY" -> HandleOkay(W, p.id)
                       [] p.cmd = "CLSE" -> HandleClose(W, p.id)
                       [] p.cmd = "WRTE" -> HandleWrite(W, p.id, p.data)
<1>0. /\ Good(W) /\ d2h \in Seq(Packet) /\ d2h # << >> /\ p.cmd # "SYNC0"
      /\ \A i \in 1..Len(d2h) : d2h[i].cmd # "OPEN"
      /\ Becomes(v) /\ d2h' = Tail(d2h) /\ tr' = tr /\ dev' = dev
  BY DEF IInv, RestOK, MainPacket
<1>1. p = d2h[1] /\ p \in Packet /\ 1 \in 1..Len(d2h) /\ SmallPackets' /\ Saving(W.sk)
  BY <1>0, TailIs, SmallTail, WIs DEF CreditInv
<1> HIDE DEF p
<1>2. p.cmd \in {"OKAY", "CLSE", "WRTE"} /\ p.id \in Clients /\ p.data \in Seq(Item)
  BY <1>0, <1>1, PacketIs
<1>3. CASE tr # "on"
  <2>1. Becomes(W)
    BY <1>0, <1>3
  <2>2. Even(W, W)
    BY <1>0, <1>1, FewerSame, FewerEven
  <2> QED
    BY <1>0, <1>1, <1>3, <2>1, <2>2, EvenCredit
<1>4. CASE tr = "on" /\ p.cmd = "OKAY"
  <2>1. v = HandleOkay(W, p.id) /\ IsOf(Head(d2h), "OKAY", p.id)
    BY <1>4 DEF IsOf, p
  <2> HIDE DEF v
  <2> QED
    BY <1>0, <1>2, <1>4, <2>1, OkayCredit
<1>5. CASE tr = "on" /\ p.cmd = "WRTE"
  <2>1. v = HandleWrite(W, p.id, p.data) /\ IsOf(Head(d2h), "WRTE", p.id)
    BY <1>5 DEF IsOf, p
  <2>2. Len(p.data) <= MAX_PAYLOAD
    BY <1>1, <1>5 DEF CreditInv, SmallPackets
  <2> HIDE DEF v
  <2> QED
    BY <1>0, <1>2, <1>5, <2>1, <2>2, WriteCredit
<1>6. CASE tr = "on" /\ p.cmd = "CLSE"
  <2>1. v = HandleClose(W, p.id)
    BY <1>6
  <2> HIDE DEF v
  <2>2. Good(v) /\ Fewer(W, v)
    BY <1>0, <1>2, <2>1, HandleCloseOK DEF Safe
  <2>3. Even(W, v)
    BY <1>0, <1>1, <2>2, FewerEven
  <2> DEFINE q == Tail(d2h)
  <2>4. ASSUME NEW c \in Clients PROVE Okays(q, c) = Okays(d2h, c) /\ Writes(q, c) = Writes(d2h, c)
    <3>1. /\ Okays(d2h, c) = Okays(q, c) + One(IsOf(Head(d2h), "OKAY", c))
          /\ Writes(d2h, c) = Writes(q, c) + One(IsOf(Head(d2h), "WRTE", c))
          /\ Okays(q, c) \in Nat /\ Writes(q, c) \in Nat
      BY <1>0, TakenPacket
    <3>2. ~IsOf(Head(d2h), "OKAY", c) /\ ~IsOf(Head(d2h), "WRTE", c)
      BY <1>6 DEF IsOf, p
    <3> QED
      BY <3>1, <3>2 DEF One
  <2> QED
    BY <1>0, <1>1, <2>2, <2>3, <2>4, EvenCredit
<1> QED
  BY <1>2, <1>3, <1>4, <1>5, <1>6

\* Sockets are closed, and the transport is not on line: only memory counts.
LEMMA ClosedCredit ==
    ASSUME IInv, CreditInv, NEW v, Good(v), Fewer(W, v), sk' = v.sk, tr' # "on", SmallPackets'
    PROVE  CreditInv'
<1>1. Good(W) /\ Saving(W.sk)
  BY WIs DEF IInv, CreditInv
<1>2. Even(W, v)
  BY <1>1, FewerEven
<1> QED
  BY <1>2 DEF CreditInv, Even

LEMMA OfflineCredit == ASSUME IInv, CreditInv, Offline PROVE CreditInv'
<1> DEFINE g == [l \in Locals |-> IF l \in disc THEN RemoteDisconnect(l).sk[l] ELSE sk[l]]
           h == [l \in Locals |-> IF l \in disc THEN RemoteDisconnect(l).toProc[l] ELSE toProc[l]]
           v == [W EXCEPT !.sk = g, !.toProc = h, !.disc = {}]
<1>0. /\ W \in Record /\ sk \in [Locals -> Socket] /\ toProc \in [Locals -> Seq(Item)]
      /\ disc \subseteq Locals /\ d2h \in Seq(Packet)
  BY WIs, Distinct DEF IInv, Good, SkOK, Record, RestOK
<1>1. /\ Becomes(v) /\ d2h # << >> /\ d2h' = Tail(d2h) /\ tr' = "off"
  BY DEF Offline
<1>2. g \in [Locals -> Socket] /\ h \in [Locals -> Seq(Item)]
  BY <1>0, DisconnectIs
<1>3. \A l \in Locals : g[l] = sk[l] \/ (g[l].on # "list" /\ g[l].q \in {sk[l].q, << >>})
  BY <1>0, DisconnectIs
<1> HIDE DEF g, h
<1>4. v \in Record /\ v.sk = g /\ v.h2d = W.h2d
  BY <1>0, <1>2 DEF Record
<1> HIDE DEF v
<1>5. Fewer(W, v)
  BY <1>3, <1>4, WIs, AlikeSame, UncountedSame DEF Fewer
<1>6. Good(v)
  <2>1. Good(W)'
    BY OfflineStep DEF IInv
  <2>2. W' = v
    BY <1>1, <1>4, BecomesIs
  <2> QED
    BY <2>1, <2>2
<1>7. SmallPackets'
  BY <1>0, <1>1, SmallTail DEF CreditInv
<1> QED
  BY <1>1, <1>5, <1>6, <1>7, ClosedCredit DEF Becomes

LEMMA CloseAllCredit == ASSUME IInv, CreditInv, CloseAll PROVE CreditInv'
<1> DEFINE g == [l \in Locals |-> IF OfTransport(l) THEN CloseLocked(W, l).sk[l] ELSE sk[l]]
           v == [W EXCEPT !.sk = g]
<1>0. /\ W \in Record /\ Good(W) /\ SkOK(sk, disc) /\ sk \in [Locals -> Socket]
  BY WIs DEF IInv, Good, SkOK
<1>1. /\ Becomes(v) /\ tr' = "swept" /\ d2h' = d2h
  BY DEF CloseAll
<1>2. ASSUME NEW l \in Locals, OfTransport(l)
      PROVE  /\ CloseLocked(W, l).sk[l] \in Socket /\ CloseLocked(W, l).sk[l].on # "list"
             /\ CloseLocked(W, l).sk[l].q \in {sk[l].q, << >>}
  <2>0. sk[l] \in Socket /\ SockOK(l, sk[l]) /\ sk[l].on = "list"
    BY <1>0, <1>2 DEF SkOK, OfTransport
  <2>1. CloseLocked(W, l).sk[l] = Done(sk[l])
    BY <1>0, <2>0, WIs, CloseLockedOK
  <2>2. Done(sk[l]) \in Socket /\ Done(sk[l]).on # "list" /\ Done(sk[l]).q \in {sk[l].q, << >>}
    BY <2>0, DoneOK DEF SockOK
  <2> QED
    BY <2>1, <2>2
<1>3. /\ g \in [Locals -> Socket]
      /\ \A l \in Locals : g[l] = sk[l] \/ (g[l].on # "list" /\ g[l].q \in {sk[l].q, << >>})
  BY <1>0, <1>2
<1> HIDE DEF g
<1>4. v \in Record /\ v.sk = g /\ v.h2d = W.h2d
  BY <1>0, <1>3 DEF Record
<1> HIDE DEF v
<1>5. Fewer(W, v)
  BY <1>3, <1>4, WIs, AlikeSame, UncountedSame DEF Fewer
<1>6. Good(v)
  <2>1. Good(W)'
    BY CloseAllStep DEF IInv
  <2>2. W' = v
    BY <1>1, <1>4, BecomesIs
  <2> QED
    BY <2>1, <2>2
<1>7. SmallPackets'
  BY <1>1 DEF CreditInv, SmallPackets
<1> QED
  BY <1>1, <1>5, <1>6, <1>7, ClosedCredit DEF Becomes

\* The sockets, their packets and the device stay as they are.
LEMMA SameCredit ==
    ASSUME CreditInv, sk' = sk, h2d' = h2d, d2h' = d2h, dev' = dev, tr' = "on" => tr = "on"
    PROVE  CreditInv'
  BY DEF CreditInv, SmallPackets

LEMMA FreeTransportCredit == ASSUME CreditInv, FreeTransport PROVE CreditInv'
  BY SameCredit DEF FreeTransport

\* A socket is made for client c, whose stream has not begun.
LEMMA NewCredit ==
    ASSUME IInv, CreditInv, NEW c \in Clients, sk[c].on = "absent", NEW r,
           sk' = [sk EXCEPT ![c] = r], r.peer \in {None, Smart}, r.q = << >>, r.pend = {},
           r.peer = None => "R" \notin r.want, NEW h, h2d' = h,
           \A b \in Clients : Okays(h, b) = Okays(h2d, b) /\ Writes(h, b) = Writes(h2d, b),
           tr' = tr, d2h' = d2h, dev' = dev
    PROVE  CreditInv'
<1>0. /\ sk \in [Locals -> Socket] /\ c \in Locals /\ Saving(sk) /\ MAX_PAYLOAD \in Nat
      /\ \A m \in Locals : sk'[m] = IF m = c THEN r ELSE sk[m]
  <2>1. sk \in [Locals -> Socket]
    BY WIs DEF IInv, Good, SkOK
  <2> QED
    BY <2>1, Distinct, SocketsAssumption DEF CreditInv
<1>1. Saving(sk')
  <2>1. Len(r.q) = 0
    OBVIOUS
  <2>2. /\ \A m \in Locals : Len(sk'[m].q) <= MAX_PAYLOAD
        /\ \A m \in Locals : sk'[m].on = "list" /\ "R" \in sk'[m].pend => "R" \in sk'[m].want
    BY <1>0, <2>1 DEF Saving
  <2>3. ASSUME NEW m \in Locals, sk'[m].peer \in Locals, sk'[sk'[m].peer].q # << >>
        PROVE  "R" \notin sk'[m].want
    <3>1. m # c /\ sk'[m] = sk[m]
      BY <1>0, <2>3, Distinct
    <3>2. sk[sk[m].peer].q # << >>
      BY <1>0, <2>3, <3>1
    <3> QED
      BY <1>0, <2>3, <3>1, <3>2 DEF Saving
  <2> QED
    BY <2>2, <2>3 DEF Saving
<1>2. ASSUME tr = "on", NEW b \in Clients PROVE Account(b, sk'[b], h, d2h, dev[b])
  <2>1. Account(b, sk[b], h2d, d2h, dev[b]) /\ b \in Locals
    BY <1>2, Distinct DEF CreditInv
  <2>2. CASE b = c
    <3>1. dev[c].st = "none"
      BY <1>2 DEF IInv, StreamOK, StreamAt, Early
    <3>2. sk'[c] = r
      BY <1>0
    <3> QED
      BY <2>1, <2>2, <3>1, <3>2, Distinct DEF Account
  <2>3. CASE b # c
    <3>1. sk'[b] = sk[b]
      BY <1>0, <2>1, <2>3
    <3>2. Account(b, sk[b], h, d2h, dev[b])
      BY <2>1, AlikeSame, SameAccount
    <3> QED
      BY <3>1, <3>2
  <2> QED
    BY <2>2, <2>3
<1> QED
  BY <1>1, <1>2 DEF CreditInv, SmallPackets

LEMMA AcceptCredit == ASSUME IInv, CreditInv, NEW c \in Clients, Accept(c) PROVE CreditInv'
<1> DEFINE r == [Blank("list") EXCEPT !.peer = Smart, !.want = {"R"}]
<1>1. /\ sk[c].on = "absent" /\ sk' = [sk EXCEPT ![c] = r] /\ h2d' = h2d /\ tr' = tr
      /\ d2h' = d2h /\ dev' = dev
  BY DEF Accept
<1>2. r.peer = Smart /\ r.q = << >> /\ r.pend = {}
  BY DEF Blank
<1> HIDE DEF r
<1> QED
  BY <1>1, <1>2, NewCredit, Distinct

LEMMA AcceptForwardCredit ==
    ASSUME IInv, CreditInv, NEW c \in Clients, AcceptForward(c) PROVE CreditInv'
<1> DEFINE r == [Blank("list") EXCEPT !.trans = TRUE]
           x == [W EXCEPT !.sk = [sk EXCEPT ![c] = r]]
           v == Send(x, "OPEN", c, << >>)
<1>0. /\ sk[c].on = "absent" /\ Becomes(v) /\ W \in Record /\ sk \in [Locals -> Socket]
      /\ tr' = tr /\ d2h' = d2h /\ dev' = dev
  BY WIs DEF AcceptForward, IInv, Good, SkOK
<1>1. r \in Socket /\ r.peer = None /\ r.q = << >> /\ r.want = {} /\ r.pend = {}
  <2>1. << >> \in Seq(Item)
    BY EmptySeq
  <2> QED
    BY <2>1 DEF Blank, Socket
<1> HIDE DEF r
<1>2. x \in Record /\ x.sk = [sk EXCEPT ![c] = r] /\ x.h2d = h2d
  BY <1>0, <1>1, WIs DEF Record
<1> HIDE DEF x
<1>3. SentTo(x, v, "OPEN", c)
  BY <1>2, SendEmpty
<1> HIDE DEF v
<1>4. v.sk = [sk EXCEPT ![c] = r] /\ \A b \in Clients : Uncounted(x, v, b)
  BY <1>2, <1>3, SentUncounted DEF SentTo, Record
<1>5. \A b \in Clients : Okays(v.h2d, b) = Okays(h2d, b) /\ Writes(v.h2d, b) = Writes(h2d, b)
  BY <1>2, <1>4 DEF Uncounted
<1>6. sk' = [sk EXCEPT ![c] = r] /\ h2d' = v.h2d
  BY <1>0, <1>4 DEF Becomes
<1> QED
  BY <1>0, <1>1, <1>5, <1>6, NewCredit

LEMMA ProcessCredit ==
    ASSUME CreditInv,
           \/ \E c \in Clients : ClientSend(c) \/ ClientRead(c) \/ ClientLeave(c)
           \/ \E s \in Services : ServiceAnswer(s)
    PROVE  CreditInv'
<1>1. sk' = sk /\ h2d' = h2d /\ d2h' = d2h /\ dev' = dev /\ tr' = tr
  BY DEF ClientSend, ClientRead, ClientLeave, ServiceAnswer
<1> QED
  BY <1>1, SameCredit

\* A step of the device, with the account of every stream.
LEMMA DeviceStepCredit ==
    ASSUME CreditInv, DevStep, SmallPackets',
           \A b \in Clients : Account(b, sk[b], h2d', d2h', dev'[b])
    PROVE  CreditInv'
  BY DEF CreditInv, DevStep

\* The device sends a packet.
LEMMA SentPacket ==
    ASSUME IInv, CreditInv, NEW p \in Packet, d2h' = Append(d2h, p),
           p.cmd = "WRTE" => Len(p.data) <= MAX_PAYLOAD
    PROVE  /\ SmallPackets'
           /\ \A b \in Clients : /\ Okays(d2h', b) = Okays(d2h, b) + One(IsOf(p, "OKAY", b))
                                 /\ Writes(d2h', b) = Writes(d2h, b) + One(IsOf(p, "WRTE", b))
                                 /\ Okays(d2h, b) \in Nat /\ Writes(d2h, b) \in Nat
<1> DEFINE q == Append(d2h, p)
<1>0. d2h \in Seq(Packet)
  BY DEF IInv, RestOK
<1>1. /\ Len(d2h) \in Nat /\ Len(q) = Len(d2h) + 1 /\ q[Len(d2h) + 1] = p
      /\ \A i \in 1..Len(d2h) : q[i] = d2h[i]
  BY <1>0, AppendProperties, LenProperties
<1>2. \A b \in Clients : /\ Okays(q, b) = Okays(d2h, b) + One(IsOf(p, "OKAY", b))
                         /\ Writes(q, b) = Writes(d2h, b) + One(IsOf(p, "WRTE", b))
                         /\ Okays(d2h, b) \in Nat /\ Writes(d2h, b) \in Nat
  BY <1>0, PacketsAppend, Numbers DEF Okays, Writes
<1> HIDE DEF q
<1>3. \A i \in 1..Len(q) : i \in 1..Len(d2h) \/ i = Len(d2h) + 1
  BY <1>1
<1>4. \A i \in 1..Len(q) : q[i].cmd = "WRTE" => Len(q[i].data) <= MAX_PAYLOAD
  BY <1>1, <1>3 DEF CreditInv, SmallPackets
<1>5. SmallPackets'
  <2>1. d2h' = q
    BY DEF q
  <2> QED
    BY <1>4, <2>1 DEF SmallPackets
<1> QED
  BY <1>2, <1>5 DEF q

LEMMA DevReadyCredit ==
    ASSUME IInv, CreditInv, NEW c \in Clients, DevReady(c) PROVE CreditInv'
<1> DEFINE n == dev[c].owes - 1
           r == [dev[c] EXCEPT !.owes = n]
           d == << >>
           p == [cmd |-> "OKAY", id |-> c, data |-> d]
           q == d2h'
<1>0. /\ tr = "on" /\ DevStep /\ dev[c].st = "open" /\ dev[c].owes > 0 /\ dev' = [dev EXCEPT ![c] = r]
      /\ q = Append(d2h, p) /\ h2d' = h2d
  BY DEF DevReady, Plugged, Reply
<1>1. d \in Seq(Item)
  BY EmptySeq
<1> HIDE DEF d
<1>2. p \in Packet /\ p.cmd = "OKAY" /\ p.id = c
  BY <1>1 DEF Packet
<1> HIDE DEF p
<1>3. /\ SmallPackets'
      /\ \A b \in Clients : /\ Okays(q, b) = Okays(d2h, b) + One(IsOf(p, "OKAY", b))
                            /\ Writes(q, b) = Writes(d2h, b) + One(IsOf(p, "WRTE", b))
                            /\ Okays(d2h, b) \in Nat /\ Writes(d2h, b) \in Nat
  BY <1>0, <1>2, SentPacket
<1> HIDE DEF q
<1>4. /\ r.st = "open" /\ r.may = dev[c].may /\ r.owes = n /\ dev[c].owes \in Nat
      /\ dev'[c] = r /\ \A b \in Clients : b # c => dev'[b] = dev[b]
  BY <1>0, DevIs DEF DevSet
<1> HIDE DEF r
<1>5. \A b \in Clients : Account(b, sk[b], h2d, d2h, dev[b])
  BY <1>0 DEF CreditInv
<1>6. ASSUME NEW b \in Clients PROVE Account(b, sk[b], h2d, q, dev'[b])
  <2>1. CASE b = c
    <3>1. Okays(q, c) = Okays(d2h, c) + 1 /\ Writes(q, c) = Writes(d2h, c)
      BY <1>2, <1>3 DEF IsOf, One
    <3>2. ASSUME sk[c].on = "list", sk[c].peer \in {None, Remote}
          PROVE  /\ One(r.may) + Writes(q, c) + Backlog(sk[c]) + Okays(h2d, c) = 1
                 /\ Reads(sk[c]) + Writes(h2d, c) + r.owes + Okays(q, c) = 1
      <4>1. /\ One(dev[c].may) + Writes(d2h, c) + Backlog(sk[c]) + Okays(h2d, c) = 1
            /\ Reads(sk[c]) + Writes(h2d, c) + dev[c].owes + Okays(d2h, c) = 1
        BY <1>0, <1>5, <3>2 DEF Account
      <4>2. Reads(sk[c]) \in {0, 1} /\ Writes(h2d, c) \in Nat /\ Okays(d2h, c) \in Nat
        BY <1>3, DevIs, Numbers
      <4> QED
        BY <1>4, <3>1, <4>1, <4>2
    <3> QED
      BY <1>4, <1>5, <2>1, <3>2 DEF Account
  <2>2. CASE b # c
    <3>1. Okays(q, b) = Okays(d2h, b) /\ Writes(q, b) = Writes(d2h, b)
      BY <1>2, <1>3, <2>2 DEF IsOf, One
    <3>2. Account(b, sk[b], h2d, q, dev[b])
      BY <1>5, <3>1, AlikeSame, SameAccount
    <3> QED
      BY <1>4, <2>2, <3>2
  <2> QED
    BY <2>1, <2>2
<1> QED
  BY <1>0, <1>3, <1>6, DeviceStepCredit DEF q

LEMMA DevSendCredit ==
    ASSUME IInv, CreditInv, NEW c \in Clients, DevSend(c) PROVE CreditInv'
<1>0. tr = "on" /\ DevStep /\ dev[c].st = "open" /\ h2d' = h2d /\ dev[c].may
  BY DEF DevSend, Plugged
<1> DEFINE B(n) == [i \in 1..n |-> Byte(Len(dev[c].sent) + i)]
           q == d2h'
<1>1. PICK n \in 1..MAX_PAYLOAD :
        /\ dev' = [dev EXCEPT ![c].may = FALSE, ![c].sent = @ \o B(n)]
        /\ Reply("WRTE", c, B(n))
  BY DEF DevSend
<1> DEFINE bytes == B(n)
           all == dev[c].sent \o bytes
           p == [cmd |-> "WRTE", id |-> c, data |-> bytes]
<1>2. bytes \in Seq(Item) /\ Len(bytes) <= MAX_PAYLOAD
  <2>1. n \in Nat /\ Len(dev[c].sent) \in Nat /\ n <= MAX_PAYLOAD
    BY DevIs, LenProperties, SocketsAssumption
  <2>2. \A i \in 1..n : Byte(Len(dev[c].sent) + i) \in Item
    BY <2>1 DEF Byte, Item
  <2>3. bytes \in [1..n -> Item]
    BY <2>2
  <2> HIDE DEF bytes
  <2>4. bytes \in Seq(Item)
    BY <2>1, <2>3, SeqDef
  <2>5. Len(bytes) = n
    BY <2>1, <2>3, <2>4, LenProperties
  <2> QED
    BY <2>1, <2>4, <2>5
<1>3. dev' = [dev EXCEPT ![c].may = FALSE, ![c].sent = all] /\ q = Append(d2h, p)
  BY <1>1 DEF Reply
<1> HIDE DEF bytes, B, all
<1>4. p \in Packet /\ p.cmd = "WRTE" /\ p.id = c /\ p.data = bytes
  BY <1>2 DEF Packet
<1> HIDE DEF p
<1>5. /\ SmallPackets'
      /\ \A b \in Clients : /\ Okays(q, b) = Okays(d2h, b) + One(IsOf(p, "OKAY", b))
                            /\ Writes(q, b) = Writes(d2h, b) + One(IsOf(p, "WRTE", b))
                            /\ Okays(d2h, b) \in Nat /\ Writes(d2h, b) \in Nat
  BY <1>2, <1>3, <1>4, SentPacket
<1> HIDE DEF q
<1>6. /\ dev'[c].st = "open" /\ dev'[c].may = FALSE /\ dev'[c].owes = dev[c].owes
      /\ \A b \in Clients : b # c => dev'[b] = dev[b]
  BY <1>0, <1>3, DevIs DEF DevSet
<1>7. \A b \in Clients : Account(b, sk[b], h2d, d2h, dev[b])
  BY <1>0 DEF CreditInv
<1>8. ASSUME NEW b \in Clients PROVE Account(b, sk[b], h2d, q, dev'[b])
  <2>1. CASE b = c
    <3>1. Okays(q, c) = Okays(d2h, c) /\ Writes(q, c) = Writes(d2h, c) + 1
      BY <1>4, <1>5 DEF IsOf, One
    <3> DEFINE d == dev'[c]
    <3>2. d.st = "open" /\ d.may = FALSE /\ d.owes = dev[c].owes
      BY <1>6
    <3> HIDE DEF d
    <3>3. ASSUME sk[c].on = "list", sk[c].peer \in {None, Remote}
          PROVE  /\ One(d.may) + Writes(q, c) + Backlog(sk[c]) + Okays(h2d, c) = 1
                 /\ Reads(sk[c]) + Writes(h2d, c) + d.owes + Okays(q, c) = 1
      <4>1. /\ One(dev[c].may) + Writes(d2h, c) + Backlog(sk[c]) + Okays(h2d, c) = 1
            /\ Reads(sk[c]) + Writes(h2d, c) + dev[c].owes + Okays(d2h, c) = 1
        BY <1>0, <1>7, <3>3 DEF Account
      <4>2. One(dev[c].may) = 1 /\ One(d.may) = 0
        BY <1>0, <3>2 DEF One
      <4>3. Backlog(sk[c]) \in {0, 1} /\ Writes(d2h, c) \in Nat /\ Okays(h2d, c) \in Nat
        BY <1>5, DevIs, Numbers
      <4> QED
        BY <3>1, <3>2, <4>1, <4>2, <4>3
    <3>4. Account(c, sk[c], h2d, q, d)
      BY <1>0, <1>7, <3>2, <3>3 DEF Account
    <3> QED
      BY <2>1, <3>4 DEF d
  <2>2. CASE b # c
    <3>1. Okays(q, b) = Okays(d2h, b) /\ Writes(q, b) = Writes(d2h, b)
      BY <1>4, <1>5, <2>2 DEF IsOf, One
    <3>2. Account(b, sk[b], h2d, q, dev[b])
      BY <1>7, <3>1, AlikeSame, SameAccount
    <3> QED
      BY <1>6, <2>2, <3>2
  <2> QED
    BY <2>1, <2>2
<1> QED
  BY <1>0, <1>5, <1>8, DeviceStepCredit DEF q

\* The device closes the stream: what is on its way to it is of no use.
LEMMA ClosedAccount ==
    ASSUME NEW c, NEW s, NEW h \in Seq(Packet), NEW k, NEW q \in Seq(Packet), NEW r,
           Okays(k, c) = Okays(h, c), Writes(r, c) = Writes(q, c), NEW d, NEW e,
           d.st = "open", e.st = "closed", Account(c, s, h, q, d)
    PROVE  Account(c, s, k, r, e)
<1>1. ASSUME s.on = "list", s.peer \in {None, Remote}
      PROVE  Writes(r, c) + Backlog(s) + Okays(k, c) <= 1
  <2>1. One(d.may) + Writes(q, c) + Backlog(s) + Okays(h, c) = 1
    BY <1>1 DEF Account
  <2>2. One(d.may) \in {0, 1} /\ Writes(q, c) \in Nat /\ Backlog(s) \in {0, 1} /\ Okays(h, c) \in Nat
    BY Numbers DEF One
  <2> QED
    BY <2>1, <2>2
<1> QED
  BY <1>1 DEF Account

LEMMA DevCloseCredit ==
    ASSUME IInv, CreditInv, NEW c \in Clients, DevClose(c) PROVE CreditInv'
<1> DEFINE r == [dev[c] EXCEPT !.st = "closed"]
           d == << >>
           p == [cmd |-> "CLSE", id |-> c, data |-> d]
           q == d2h'
<1>0. /\ tr = "on" /\ DevStep /\ dev[c].st = "open" /\ dev' = [dev EXCEPT ![c] = r]
      /\ q = Append(d2h, p) /\ h2d' = h2d
  BY DEF DevClose, Plugged, Reply
<1>1. d \in Seq(Item)
  BY EmptySeq
<1> HIDE DEF d
<1>2. p \in Packet /\ p.cmd = "CLSE" /\ p.id = c
  BY <1>1 DEF Packet
<1> HIDE DEF p
<1>3. /\ SmallPackets'
      /\ \A b \in Clients : /\ Okays(q, b) = Okays(d2h, b) + One(IsOf(p, "OKAY", b))
                            /\ Writes(q, b) = Writes(d2h, b) + One(IsOf(p, "WRTE", b))
                            /\ Okays(d2h, b) \in Nat /\ Writes(d2h, b) \in Nat
  BY <1>0, <1>2, SentPacket
<1> HIDE DEF q
<1>4. /\ r.st = "closed" /\ dev'[c] = r /\ \A b \in Clients : b # c => dev'[b] = dev[b]
      /\ h2d \in Seq(Packet) /\ d2h \in Seq(Packet)
  BY <1>0, DevIs DEF DevSet
<1> HIDE DEF r
<1>5. \A b \in Clients : Account(b, sk[b], h2d, d2h, dev[b])
  BY <1>0 DEF CreditInv
<1>6. ASSUME NEW b \in Clients PROVE Account(b, sk[b], h2d, q, dev'[b])
  <2>1. Okays(q, b) = Okays(d2h, b) /\ Writes(q, b) = Writes(d2h, b)
    BY <1>2, <1>3 DEF IsOf, One
  <2>2. CASE b = c
    <3>1. Account(c, sk[c], h2d, q, r)
      BY <1>0, <1>4, <1>5, <2>1, <2>2, ClosedAccount
    <3> QED
      BY <1>4, <2>2, <3>1
  <2>3. CASE b # c
    <3>1. Account(b, sk[b], h2d, q, dev[b])
      BY <1>5, <2>1, AlikeSame, SameAccount
    <3> QED
      BY <1>4, <2>3, <3>1
  <2> QED
    BY <2>2, <2>3
<1> QED
  BY <1>0, <1>3, <1>6, DeviceStepCredit DEF q

LEMMA UnplugCredit == ASSUME IInv, CreditInv, Unplug PROVE CreditInv'
<1> DEFINE p == [cmd |-> "SYNC0"]
           q == d2h'
<1>0. tr = "on" /\ DevStep /\ q = Append(d2h, p) /\ h2d' = h2d /\ dev' = dev
  BY DEF Unplug, Plugged
<1>1. p \in Packet /\ p.cmd = "SYNC0"
  BY DEF Packet
<1> HIDE DEF p
<1>2. /\ SmallPackets'
      /\ \A b \in Clients : /\ Okays(q, b) = Okays(d2h, b) + One(IsOf(p, "OKAY", b))
                            /\ Writes(q, b) = Writes(d2h, b) + One(IsOf(p, "WRTE", b))
                            /\ Okays(d2h, b) \in Nat /\ Writes(d2h, b) \in Nat
  BY <1>0, <1>1, SentPacket
<1> HIDE DEF q
<1>3. ASSUME NEW b \in Clients PROVE Account(b, sk[b], h2d, q, dev[b])
  <2>1. Account(b, sk[b], h2d, d2h, dev[b])
    BY <1>0 DEF CreditInv
  <2>2. Okays(q, b) = Okays(d2h, b) /\ Writes(q, b) = Writes(d2h, b)
    BY <1>1, <1>2 DEF IsOf, One
  <2> QED
    BY <2>1, <2>2, AlikeSame, SameAccount
<1> QED
  BY <1>0, <1>2, <1>3, DeviceStepCredit DEF q

\* The device takes a packet of a stream that it has not open.
LEMMA LessAccount ==
    ASSUME NEW c, NEW s, NEW h \in Seq(Packet), NEW k \in Seq(Packet), NEW q \in Seq(Packet), NEW d,
           Account(c, s, h, q, d), Okays(k, c) <= Okays(h, c), Writes(k, c) <= Writes(h, c),
           d.st # "open"
    PROVE  Account(c, s, k, q, d)
<1>1. /\ Okays(h, c) \in Nat /\ Writes(h, c) \in Nat /\ Okays(k, c) \in Nat /\ Writes(k, c) \in Nat
      /\ Writes(q, c) \in Nat /\ Backlog(s) \in {0, 1}
  BY Numbers
<1>2. ASSUME d.st = "none" PROVE Okays(k, c) = 0 /\ Writes(k, c) = 0
  <2>1. Okays(h, c) = 0 /\ Writes(h, c) = 0
    BY <1>2 DEF Account
  <2> QED
    BY <1>1, <2>1
<1>3. ASSUME s.on = "list", s.peer \in {None, Remote}, d.st = "closed"
      PROVE  Writes(q, c) + Backlog(s) + Okays(k, c) <= 1
  <2>1. Writes(q, c) + Backlog(s) + Okays(h, c) <= 1
    BY <1>3 DEF Account
  <2> QED
    BY <1>1, <2>1
<1> QED
  BY <1>2, <1>3 DEF Account

\* The device answers an OPEN: both permissions are where the stream begins.
LEMMA OpenedAccount ==
    ASSUME NEW c, NEW s \in Socket, SockOK(c, s), NEW h, NEW k, NEW q \in Seq(Packet), NEW r, NEW d,
           NEW e, Account(c, s, h, q, d), d.st = "none", Okays(k, c) = Okays(h, c),
           Writes(k, c) = Writes(h, c), Okays(q, c) = 0, Writes(q, c) = 0, Writes(r, c) = 0,
           \/ e.st = "open" /\ e.may = TRUE /\ e.owes = d.owes /\ Okays(r, c) = 1
           \/ e.st = "closed"
    PROVE  Account(c, s, k, r, e)
<1>1. Okays(k, c) = 0 /\ Writes(k, c) = 0 /\ d.owes = 0 /\ s.peer # Remote
  BY DEF Account
<1>2. ASSUME s.on = "list", s.peer \in {None, Remote}
      PROVE  s.peer = None /\ Backlog(s) = 0 /\ Reads(s) = 0
  <2>1. s.peer = None /\ s.q = << >> /\ "R" \notin s.want
    BY <1>1, <1>2 DEF Account, SockOK
  <2> QED
    BY <2>1 DEF Backlog, Reads, One
<1>3. s.on = "list" /\ s.peer = None => "R" \notin s.want
  BY DEF Account
<1>4. CASE e.st = "open" /\ e.may = TRUE /\ e.owes = d.owes /\ Okays(r, c) = 1
  <2>1. One(e.may) = 1 /\ e.owes = 0
    BY <1>1, <1>4 DEF One
  <2>2. ASSUME s.on = "list", s.peer \in {None, Remote}
        PROVE  /\ One(e.may) + Writes(r, c) + Backlog(s) + Okays(k, c) = 1
               /\ Reads(s) + Writes(k, c) + e.owes + Okays(r, c) = 1
    BY <1>1, <1>2, <1>4, <2>1, <2>2
  <2> QED
    BY <1>3, <1>4, <2>2 DEF Account
<1>5. CASE e.st = "closed"
  <2>1. ASSUME s.on = "list", s.peer \in {None, Remote}
        PROVE  Writes(r, c) + Backlog(s) + Okays(k, c) <= 1
    BY <1>1, <1>2, <2>1
  <2> QED
    BY <1>3, <1>5, <2>1 DEF Account
<1> QED
  BY <1>4, <1>5

LEMMA DevTakeCredit == ASSUME IInv, CreditInv, DevTake PROVE CreditInv'
<1> DEFINE p == Head(h2d)
           c == p.id
           k == Tail(h2d)
           d == << >>
<1>0. /\ tr = "on" /\ DevStep /\ h2d # << >> /\ h2d' = k /\ h2d \in Seq(Packet) /\ k \in Seq(Packet)
      /\ d2h \in Seq(Packet) /\ dev \in DevSet /\ p = h2d[1] /\ p \in Packet /\ 1 \in 1..Len(h2d)
      /\ SmallPackets
  <2>1. h2d # << >> /\ h2d \in Seq(Packet)
    BY WIs DEF DevTake, IInv, Good, Record
  <2>2. /\ p = h2d[1] /\ p \in Packet /\ 1 \in 1..Len(h2d) /\ k \in Seq(Packet)
    BY <2>1, TailIs
  <2>3. tr = "on" /\ DevStep /\ h2d' = k
    BY DEF DevTake, Plugged
  <2>4. d2h \in Seq(Packet) /\ dev \in DevSet /\ SmallPackets
    BY DEF IInv, RestOK, DevSet, CreditInv
  <2> QED
    BY ONLY <2>1, <2>2, <2>3, <2>4
<1>1. \A b \in Clients : Account(b, sk[b], h2d, d2h, dev[b]) /\ StreamAt(b, sk[b], h2d, d2h, dev[b].st)
  BY <1>0 DEF CreditInv, IInv, StreamOK
<1>2. \A b \in Clients : /\ Okays(h2d, b) = Okays(k, b) + One(IsOf(p, "OKAY", b))
                         /\ Writes(h2d, b) = Writes(k, b) + One(IsOf(p, "WRTE", b))
                         /\ Okays(k, b) \in Nat /\ Writes(k, b) \in Nat
  BY <1>0, TakenPacket
<1>3. p.cmd # "SYNC0" => c \in Clients
  BY <1>0, PacketIs
<1>4. d \in Seq(Item)
  BY EmptySeq
<1> HIDE DEF p, k, d
<1>5. \A b \in Clients : (p.cmd \notin {"OKAY", "WRTE"} \/ c # b) =>
        Okays(k, b) = Okays(h2d, b) /\ Writes(k, b) = Writes(h2d, b)
  BY <1>2 DEF IsOf, One
<1>6. ASSUME NEW b \in Clients, p.cmd \notin {"OKAY", "WRTE"} \/ c # b
      PROVE  Account(b, sk[b], k, d2h, dev[b])
  BY <1>1, <1>5, <1>6, AlikeSame, SameAccount
<1>7. ASSUME NEW cmd \in {"OKAY", "CLSE"}, c \in Clients, Reply(cmd, c, d)
      PROVE  /\ SmallPackets'
             /\ \A b \in Clients : /\ Okays(d2h', b) = Okays(d2h, b) + One(cmd = "OKAY" /\ c = b)
                                   /\ Writes(d2h', b) = Writes(d2h, b)
                                   /\ Okays(d2h, b) \in Nat /\ Writes(d2h, b) \in Nat
  <2> HIDE DEF c
  <2> DEFINE o == [cmd |-> cmd, id |-> c, data |-> d]
  <2>1. o \in Packet /\ o.cmd = cmd /\ o.id = c
    BY <1>4, <1>7 DEF Packet
  <2>2. d2h' = Append(d2h, o)
    BY <1>7 DEF Reply
  <2> HIDE DEF o
  <2>3. /\ SmallPackets'
        /\ \A b \in Clients : /\ Okays(d2h', b) = Okays(d2h, b) + One(IsOf(o, "OKAY", b))
                              /\ Writes(d2h', b) = Writes(d2h, b) + One(IsOf(o, "WRTE", b))
                              /\ Okays(d2h, b) \in Nat /\ Writes(d2h, b) \in Nat
    BY <2>1, <2>2, SentPacket
  <2>4. \A b \in Clients : ~IsOf(o, "WRTE", b) /\ (IsOf(o, "OKAY", b) <=> (cmd = "OKAY" /\ c = b))
    BY <2>1 DEF IsOf
  <2> QED
    BY <2>3, <2>4 DEF One
<1> DEFINE q == d2h'
<1>8. ASSUME NEW cmd \in {"OKAY", "CLSE"}, NEW e, p.cmd = "OPEN", Reply(cmd, c, d), dev'[c] = e,
             \A b \in Clients : b # c => dev'[b] = dev[b],
             \/ cmd = "OKAY" /\ e.st = "open" /\ e.may = TRUE /\ e.owes = dev[c].owes
             \/ cmd = "CLSE" /\ e.st = "closed"
      PROVE  CreditInv'
  <2>0. c \in Clients
    BY <1>3, <1>8
  <2>1. /\ SmallPackets'
        /\ \A b \in Clients : /\ Okays(q, b) = Okays(d2h, b) + One(cmd = "OKAY" /\ c = b)
                              /\ Writes(q, b) = Writes(d2h, b)
                              /\ Okays(d2h, b) \in Nat /\ Writes(d2h, b) \in Nat
    BY <1>7, <1>8, <2>0
  <2> HIDE DEF q
  <2>2. ASSUME NEW b \in Clients PROVE Account(b, sk[b], k, q, dev'[b])
    <3>1. CASE b = c
      <4>1. 1 \in Opens(h2d, c)
        BY <1>0, <1>8 DEF Opens
      <4>2. dev[c].st = "none"
        BY <1>1, <2>0, <4>1 DEF StreamAt
      <4>3. \A i \in 1..Len(d2h) : ~IsOf(d2h[i], "OKAY", c) /\ ~IsOf(d2h[i], "WRTE", c)
        BY <1>1, <2>0, <4>2 DEF StreamAt, IsOf
      <4> HIDE DEF c
      <4>4. Okays(d2h, c) = 0 /\ Writes(d2h, c) = 0
        BY <1>0, <4>3, PacketsZero DEF Okays, Writes
      <4>5. Writes(q, c) = 0 /\ (cmd = "OKAY" => Okays(q, c) = 1)
        BY <2>0, <2>1, <4>4 DEF One
      <4>6. sk[c] \in Socket /\ SockOK(c, sk[c])
        BY <2>0, WIs, Distinct DEF IInv, Good, SkOK
      <4>7. Okays(k, c) = Okays(h2d, c) /\ Writes(k, c) = Writes(h2d, c)
        BY <1>5, <1>8, <2>0
      <4>8. Account(c, sk[c], h2d, d2h, dev[c])
        BY <1>1, <2>0
      <4>9. Account(c, sk[c], k, q, e)
        BY <1>0, <1>8, <4>2, <4>4, <4>5, <4>6, <4>7, <4>8, OpenedAccount
      <4> QED
        BY <1>8, <3>1, <4>9
    <3>2. CASE b # c
      <4>1. Account(b, sk[b], k, d2h, dev[b])
        BY <1>6, <3>2
      <4>2. Okays(q, b) = Okays(d2h, b) /\ Writes(q, b) = Writes(d2h, b)
        BY <2>1, <3>2 DEF One
      <4>3. Account(b, sk[b], k, q, dev[b])
        BY <4>1, <4>2, AlikeSame, SameAccount
      <4> QED
        BY <1>8, <3>2, <4>3
    <3> QED
      BY <3>1, <3>2
  <2> QED
    BY <1>0, <2>1, <2>2, DeviceStepCredit DEF q
<1>9. CASE /\ p.cmd = "OPEN" /\ Reply("OKAY", c, d)
           /\ dev' = [dev EXCEPT ![c] = [@ EXCEPT !.st = "open", !.may = TRUE]]
  <2> DEFINE e == dev'[c]
  <2>1. /\ e.st = "open" /\ e.may = TRUE /\ e.owes = dev[c].owes
        /\ \A b \in Clients : b # c => dev'[b] = dev[b]
    BY <1>0, <1>3, <1>9 DEF DevSet
  <2>2. e = dev'[c]
    OBVIOUS
  <2> HIDE DEF e
  <2> QED
    BY <1>8, <1>9, <2>1, <2>2
<1>10. CASE p.cmd = "OPEN" /\ Reply("CLSE", c, d) /\ dev' = [dev EXCEPT ![c].st = "closed"]
  <2> DEFINE e == dev'[c]
  <2>1. e.st = "closed" /\ \A b \in Clients : b # c => dev'[b] = dev[b]
    BY <1>0, <1>3, <1>10 DEF DevSet
  <2>2. e = dev'[c]
    OBVIOUS
  <2> HIDE DEF e
  <2> QED
    BY <1>8, <1>10, <2>1, <2>2
<1>11. ASSUME d2h' = d2h, NEW e, c \in Clients, dev'[c] = e, Account(c, sk[c], k, d2h, e),
              \A b \in Clients : b # c => dev'[b] = dev[b]
       PROVE  CreditInv'
  <2>1. ASSUME NEW b \in Clients PROVE Account(b, sk[b], k, d2h, dev'[b])
    BY <1>6, <1>11
  <2>2. SmallPackets'
    BY <1>0, <1>11 DEF SmallPackets
  <2> QED
    BY <1>0, <1>11, <2>1, <2>2, DeviceStepCredit
<1>12. CASE /\ p.cmd = "WRTE" /\ dev[c].st = "open" /\ d2h' = d2h
            /\ dev' = [dev EXCEPT ![c].got = @ \o p.data, ![c].owes = @ + 1]
  <2> DEFINE e == dev'[c]
  <2>0. c \in Clients
    BY <1>3, <1>12
  <2>1. /\ e.st = "open" /\ e.may = dev[c].may /\ e.owes = dev[c].owes + 1 /\ dev[c].owes \in Nat
        /\ \A b \in Clients : b # c => dev'[b] = dev[b]
    BY <1>0, <1>12, <2>0 DEF DevSet
  <2>2. e = dev'[c] /\ Account(c, sk[c], h2d, d2h, dev[c])
    BY <1>1, <2>0
  <2>3. Okays(k, c) = Okays(h2d, c) /\ Writes(h2d, c) = Writes(k, c) + 1 /\ Writes(k, c) \in Nat
    BY <1>2, <1>12, <2>0 DEF IsOf, One
  <2> HIDE DEF e, c
  <2>4. ASSUME sk[c].on = "list", sk[c].peer \in {None, Remote}
        PROVE  /\ One(e.may) + Writes(d2h, c) + Backlog(sk[c]) + Okays(k, c) = 1
               /\ Reads(sk[c]) + Writes(k, c) + e.owes + Okays(d2h, c) = 1
    <3>1. /\ One(dev[c].may) + Writes(d2h, c) + Backlog(sk[c]) + Okays(h2d, c) = 1
          /\ Reads(sk[c]) + Writes(h2d, c) + dev[c].owes + Okays(d2h, c) = 1
      BY <1>12, <2>2, <2>4 DEF Account
    <3>2. Reads(sk[c]) \in {0, 1} /\ Okays(d2h, c) \in Nat
      BY <1>0, Numbers
    <3> QED
      BY <2>1, <2>3, <3>1, <3>2
  <2>5. Account(c, sk[c], k, d2h, e)
    BY <2>1, <2>2, <2>4 DEF Account
  <2> QED
    BY <1>11, <1>12, <2>0, <2>1, <2>2, <2>5
<1>13. CASE /\ p.cmd = "OKAY" /\ dev[c].st = "open" /\ d2h' = d2h
            /\ dev' = [dev EXCEPT ![c].may = TRUE]
  <2> DEFINE e == dev'[c]
  <2>0. c \in Clients
    BY <1>3, <1>13
  <2>1. /\ e.st = "open" /\ e.may = TRUE /\ e.owes = dev[c].owes
        /\ \A b \in Clients : b # c => dev'[b] = dev[b]
    BY <1>0, <1>13, <2>0 DEF DevSet
  <2>2. e = dev'[c] /\ Account(c, sk[c], h2d, d2h, dev[c])
    BY <1>1, <2>0
  <2>3. Writes(k, c) = Writes(h2d, c) /\ Okays(h2d, c) = Okays(k, c) + 1 /\ Okays(k, c) \in Nat
    BY <1>2, <1>13, <2>0 DEF IsOf, One
  <2> HIDE DEF e, c
  <2>4. ASSUME sk[c].on = "list", sk[c].peer \in {None, Remote}
        PROVE  /\ One(e.may) + Writes(d2h, c) + Backlog(sk[c]) + Okays(k, c) = 1
               /\ Reads(sk[c]) + Writes(k, c) + e.owes + Okays(d2h, c) = 1
    <3>1. /\ One(dev[c].may) + Writes(d2h, c) + Backlog(sk[c]) + Okays(h2d, c) = 1
          /\ Reads(sk[c]) + Writes(h2d, c) + dev[c].owes + Okays(d2h, c) = 1
      BY <1>13, <2>2, <2>4 DEF Account
    <3>2. Backlog(sk[c]) \in {0, 1} /\ Writes(d2h, c) \in Nat /\ One(dev[c].may) \in {0, 1}
      BY <1>0, Numbers DEF One
    <3>3. One(e.may) = 1
      BY <2>1 DEF One
    <3>4. Writes(d2h, c) = 0 /\ Backlog(sk[c]) = 0 /\ Okays(k, c) = 0
      BY <2>3, <3>1, <3>2
    <3> QED
      BY <2>1, <2>3, <3>1, <3>3, <3>4
  <2>5. Account(c, sk[c], k, d2h, e)
    BY <2>1, <2>2, <2>4 DEF Account
  <2> QED
    BY <1>11, <1>13, <2>0, <2>1, <2>2, <2>5
<1>14. CASE /\ p.cmd = "CLSE" /\ dev[c].st = "open" /\ Reply("CLSE", c, d)
            /\ dev' = [dev EXCEPT ![c].st = "closed"]
  <2> DEFINE e == dev'[c]
  <2>0. c \in Clients
    BY <1>3, <1>14
  <2>1. e.st = "closed" /\ e = dev'[c] /\ \A b \in Clients : b # c => dev'[b] = dev[b]
    BY <1>0, <1>14, <2>0 DEF DevSet
  <2>2. /\ SmallPackets'
        /\ \A b \in Clients : /\ Okays(q, b) = Okays(d2h, b) + One("CLSE" = "OKAY" /\ c = b)
                              /\ Writes(q, b) = Writes(d2h, b)
                              /\ Okays(d2h, b) \in Nat /\ Writes(d2h, b) \in Nat
    BY <1>7, <1>14, <2>0
  <2> HIDE DEF e, c, q
  <2>3. ASSUME NEW b \in Clients PROVE Account(b, sk[b], k, q, dev'[b])
    <3>1. Okays(q, b) = Okays(d2h, b) /\ Writes(q, b) = Writes(d2h, b)
      BY <2>2 DEF One
    <3>2. Account(b, sk[b], k, d2h, dev[b])
      BY <1>6, <1>14
    <3>3. CASE b = c
      <4>1. Account(c, sk[c], k, q, e)
        BY <1>0, <1>14, <2>1, <3>1, <3>2, <3>3, ClosedAccount
      <4> QED
        BY <2>1, <3>3, <4>1
    <3>4. CASE b # c
      <4>1. Account(b, sk[b], k, q, dev[b])
        BY <3>1, <3>2, AlikeSame, SameAccount
      <4> QED
        BY <2>1, <3>4, <4>1
    <3> QED
      BY <3>3, <3>4
  <2> QED
    BY <1>0, <2>2, <2>3, DeviceStepCredit DEF q
<1>15. CASE p.cmd # "OPEN" /\ dev[c].st # "open" /\ UNCHANGED <<d2h, dev>>
  <2>1. ASSUME NEW b \in Clients PROVE Account(b, sk[b], k, d2h, dev[b])
    <3>1. CASE p.cmd \in {"OKAY", "WRTE"} /\ c = b
      <4>1. Okays(k, b) <= Okays(h2d, b) /\ Writes(k, b) <= Writes(h2d, b)
        BY <1>2 DEF One
      <4>2. Account(b, sk[b], h2d, d2h, dev[b]) /\ dev[b].st # "open"
        BY <1>1, <1>15, <3>1
      <4> QED
        BY <1>0, <4>1, <4>2, LessAccount
    <3>2. CASE p.cmd \notin {"OKAY", "WRTE"} \/ c # b
      BY <1>6, <3>2
    <3> QED
      BY <3>1, <3>2
  <2>2. SmallPackets'
    BY <1>0, <1>15 DEF SmallPackets
  <2> QED
    BY <1>0, <1>15, <2>1, <2>2, DeviceStepCredit
<1> QED
  BY <1>9, <1>10, <1>12, <1>13, <1>14, <1>15 DEF DevTake, p, c, d, k

LEMMA InitCredit == Init => CreditInv
<1> SUFFICES ASSUME Init PROVE CreditInv
  OBVIOUS
<1> DEFINE e == << >>
<1>0. e \in Seq(Packet) /\ Len(e) = 0 /\ MAX_PAYLOAD \in Nat
  BY EmptySeq, SocketsAssumption
<1>1. Blank("absent").peer = None /\ Blank("absent").on = "absent" /\ Blank("absent").q = e
  BY DEF Blank
<1>2. /\ sk = [l \in Locals |-> Blank("absent")] /\ h2d = e /\ d2h = e
      /\ dev = [c \in Clients |-> [st |-> "none", may |-> FALSE, owes |-> 0, sent |-> e, got |-> e]]
  BY DEF Init
<1> HIDE DEF e
<1>3. /\ \A l \in Locals : sk[l].peer = None /\ sk[l].on = "absent" /\ sk[l].q = e
      /\ \A c \in Clients : dev[c].st = "none" /\ dev[c].owes = 0
  BY <1>1, <1>2
<1>4. Saving(sk) /\ SmallPackets
  BY <1>0, <1>2, <1>3, Distinct DEF Saving, SmallPackets
<1>5. ASSUME NEW c \in Clients PROVE Account(c, sk[c], h2d, d2h, dev[c])
  <2>1. Okays(e, c) = 0 /\ Writes(e, c) = 0
    <3>1. \A i \in 1..Len(e) : ~IsOf(e[i], "OKAY", c) /\ ~IsOf(e[i], "WRTE", c)
      BY <1>0
    <3> QED
      BY <1>0, <3>1, PacketsZero DEF Okays, Writes
  <2>2. sk[c].on = "absent" /\ sk[c].peer = None /\ dev[c].st = "none" /\ dev[c].owes = 0
    BY <1>3, Distinct
  <2> QED
    BY <1>2, <2>1, <2>2, Distinct DEF Account
<1> QED
  BY <1>4, <1>5 DEF CreditInv

LEMMA NextCredit == IInv /\ CreditInv /\ [Next]_vars => CreditInv'
<1> SUFFICES ASSUME IInv, CreditInv, [Next]_vars PROVE CreditInv'
  OBVIOUS
<1>1. CASE MainPacket
  BY <1>1, MainPacketCredit
<1>2. CASE Offline
  BY <1>2, OfflineCredit
<1>3. CASE CloseAll
  BY <1>3, CloseAllCredit
<1>4. CASE FreeTransport
  BY <1>4, FreeTransportCredit
<1>5. ASSUME NEW l \in Locals, Signal(l) \/ Callback(l) PROVE CreditInv'
  BY <1>5, SignalCredit, CallbackCredit
<1>6. ASSUME NEW c \in Clients, Accept(c) \/ AcceptForward(c) PROVE CreditInv'
  BY <1>6, AcceptCredit, AcceptForwardCredit
<1>7. CASE \/ \E c \in Clients : ClientSend(c) \/ ClientRead(c) \/ ClientLeave(c)
           \/ \E s \in Services : ServiceAnswer(s)
  BY <1>7, ProcessCredit
<1>8. ASSUME NEW c \in Clients, DevReady(c) \/ DevSend(c) \/ DevClose(c) PROVE CreditInv'
  BY <1>8, DevReadyCredit, DevSendCredit, DevCloseCredit
<1>9. CASE DevTake
  BY <1>9, DevTakeCredit
<1>10. CASE Unplug
  BY <1>10, UnplugCredit
<1>11. CASE UNCHANGED vars
  BY <1>11, SameCredit DEF vars
<1> QED
  BY <1>1, <1>2, <1>3, <1>4, <1>5, <1>6, <1>7, <1>8, <1>9, <1>10, <1>11 DEF Next

-----------------------------------------------------------------------------
(* The order of the bytes *)

\* What packet p carries for client c.
Carried(p, c) == IF p.cmd = "WRTE" /\ p.id = c THEN p.data ELSE << >>

\* Client c may have a stream: it asked for one, or it may still ask.
Known(w, c, st) == \/ Opens(w.h2d, c) # {} \/ st # "none"
                   \/ w.sk[c].on \in {"absent", "list"} /\ w.sk[c].peer \notin Services

\* With the device's end d and what the client has received: what is received and held is the
\* beginning of what the device sent.
Ordered(w, c, d, got) ==
    /\ Early(w.sk[c]) => Opens(w.h2d, c) = {} /\ d.st = "none"
    /\ Known(w, c, d.st) => /\ w.sk[c].q \in Seq(AnyByte)
                            /\ Starts(Data(got) \o Held(w, c), d.sent)

\* With the packets q on the way to the server: nothing is missing while the stream lives.
Whole(w, c, q, d, got) ==
    w.sk[c].on \in {"absent", "list"} /\ w.sk[c].peer \notin Services =>
        (Data(got) \o Held(w, c)) \o InFlight(q, c) = d.sent

WritesBytes == \A i \in 1..Len(d2h) : d2h[i].cmd = "WRTE" => d2h[i].data \in Seq(AnyByte)

OrderInv ==
    /\ WritesBytes
    /\ \A c \in Clients : Ordered(W, c, dev[c], cl[c].got)
    /\ tr = "on" => \A c \in Clients : Whole(W, c, d2h, dev[c], cl[c].got)

LEMMA CarriedIs == ASSUME NEW p \in Packet, NEW c PROVE Carried(p, c) \in Seq(Item)
<1>1. << >> \in Seq(Item)
  BY EmptySeq
<1>2. p.cmd = "WRTE" => p.data \in Seq(Item)
  BY DEF Packet
<1> QED
  BY <1>1, <1>2 DEF Carried

\* What the packets of a queue carry for client c, one list for each.
Loads(q, c) == [i \in DOMAIN q |-> Carried(q[i], c)]

LEMMA LoadsIs == ASSUME NEW q \in Seq(Packet), NEW c
                 PROVE  /\ Loads(q, c) \in Seq(Seq(Item)) /\ InFlight(q, c) = FlattenSeq(Loads(q, c))
                        /\ Len(Loads(q, c)) = Len(q) /\ Len(q) \in Nat
                        /\ \A i \in 1..Len(q) : Loads(q, c)[i] = Carried(q[i], c)
<1>1. Len(q) \in Nat /\ DOMAIN q = 1..Len(q) /\ \A i \in 1..Len(q) : q[i] \in Packet
  BY LenProperties, ElementOfSeq
<1>2. \A i \in 1..Len(q) : Carried(q[i], c) \in Seq(Item)
  BY <1>1, CarriedIs
<1>3. InFlight(q, c) = FlattenSeq(Loads(q, c))
  BY DEF InFlight, Loads, Carried
<1> HIDE DEF Carried
<1>4. Loads(q, c) \in [1..Len(q) -> Seq(Item)]
  BY <1>1, <1>2 DEF Loads
<1>5. Loads(q, c) \in Seq(Seq(Item)) /\ Len(Loads(q, c)) = Len(q)
  <2>1. Loads(q, c) \in Seq(Seq(Item))
    BY <1>1, <1>4, SeqDef
  <2>2. DOMAIN Loads(q, c) = 1..Len(q)
    BY <1>4
  <2> QED
    BY <1>1, <2>1, <2>2, LenProperties
<1> QED
  BY <1>1, <1>3, <1>5 DEF Loads

LEMMA InFlightFacts ==
    ASSUME NEW q \in Seq(Packet), NEW c
    PROVE  /\ InFlight(q, c) \in Seq(Item)
           /\ \A p \in Packet : InFlight(Append(q, p), c) = InFlight(q, c) \o Carried(p, c)
           /\ q # << >> => InFlight(q, c) = Carried(Head(q), c) \o InFlight(Tail(q), c)
<1>1. InFlight(q, c) \in Seq(Item)
  <2> DEFINE s == << >>
  <2>1. s \in Seq(Item)
    BY EmptySeq
  <2> HIDE DEF s
  <2>2. FlattenSeq(Loads(q, c)) \in Seq(Item)
    BY <2>1, LoadsIs, FlattenAppend
  <2> QED
    BY <2>2, LoadsIs
<1>2. ASSUME NEW p \in Packet PROVE InFlight(Append(q, p), c) = InFlight(q, c) \o Carried(p, c)
  <2> DEFINE a == Append(q, p)
             k == Carried(p, c)
  <2>1. /\ a \in Seq(Packet) /\ Len(a) = Len(q) + 1 /\ a[Len(q) + 1] = p /\ Len(q) \in Nat
        /\ \A i \in 1..Len(q) : a[i] = q[i]
    BY AppendProperties, LenProperties
  <2>2. k \in Seq(Item)
    BY CarriedIs
  <2> HIDE DEF a, k
  <2>3. Loads(a, c) = Append(Loads(q, c), k)
    <3> DEFINE b == Append(Loads(q, c), k)
    <3>1. /\ b \in Seq(Seq(Item)) /\ Len(b) = Len(q) + 1 /\ b[Len(q) + 1] = k
          /\ \A i \in 1..Len(q) : b[i] = Loads(q, c)[i]
      BY <2>2, LoadsIs, AppendProperties
    <3> HIDE DEF b
    <3>2. /\ Loads(a, c) \in Seq(Seq(Item)) /\ Len(Loads(a, c)) = Len(q) + 1
          /\ \A i \in 1..Len(q) + 1 : Loads(a, c)[i] = Carried(a[i], c)
      BY <2>1, LoadsIs
    <3>3. ASSUME NEW i \in 1..Len(q) + 1 PROVE Loads(a, c)[i] = b[i]
      <4>1. CASE i = Len(q) + 1
        BY <2>1, <3>1, <3>2, <4>1 DEF k
      <4>2. CASE i # Len(q) + 1
        <5>1. i \in 1..Len(q)
          BY <2>1, <4>2
        <5> QED
          BY <2>1, <3>1, <3>2, <5>1, LoadsIs
      <4> QED
        BY <4>1, <4>2
    <3>4. Loads(a, c) = b
      BY <3>1, <3>2, <3>3, SeqEqual
    <3> QED
      BY <3>4 DEF b
  <2>4. FlattenSeq(Append(Loads(q, c), k)) = FlattenSeq(Loads(q, c)) \o k
    BY <2>2, LoadsIs, FlattenAppend
  <2>5. InFlight(a, c) = FlattenSeq(Loads(a, c)) /\ InFlight(q, c) = FlattenSeq(Loads(q, c))
    BY <2>1, LoadsIs
  <2> QED
    BY <2>3, <2>4, <2>5 DEF a, k
<1>3. ASSUME q # << >> PROVE InFlight(q, c) = Carried(Head(q), c) \o InFlight(Tail(q), c)
  <2> DEFINE t == Tail(q)
             ss == Loads(q, c)
  <2>1. /\ t \in Seq(Packet) /\ Len(t) = Len(q) - 1 /\ Len(q) \in Nat \ {0} /\ Head(q) = q[1]
        /\ \A i \in 1..Len(t) : t[i] = q[i + 1] /\ i + 1 \in 1..Len(q)
    BY <1>3, TailIs
  <2> HIDE DEF t
  <2>2. /\ ss \in Seq(Seq(Item)) /\ Len(ss) = Len(q) /\ InFlight(q, c) = FlattenSeq(ss)
        /\ \A i \in 1..Len(q) : ss[i] = Carried(q[i], c)
    BY LoadsIs
  <2> HIDE DEF ss
  <2>3. ss # << >> /\ Head(ss) = Carried(Head(q), c)
    <3>1. ss # << >>
      BY <2>1, <2>2, EmptySeq
    <3>2. Head(ss) = ss[1] /\ 1 \in 1..Len(q)
      BY <2>1, <2>2, <3>1, HeadTailProperties
    <3> QED
      BY <2>1, <2>2, <3>1, <3>2
  <2>4. Tail(ss) = Loads(t, c)
    <3> DEFINE b == Tail(ss)
    <3>1. /\ b \in Seq(Seq(Item)) /\ Len(b) = Len(t) /\ \A i \in 1..Len(t) : b[i] = ss[i + 1]
      BY <2>1, <2>2, <2>3, HeadTailProperties
    <3> HIDE DEF b
    <3>2. /\ Loads(t, c) \in Seq(Seq(Item)) /\ Len(Loads(t, c)) = Len(t)
          /\ \A i \in 1..Len(t) : Loads(t, c)[i] = Carried(t[i], c)
      BY <2>1, LoadsIs
    <3>3. \A i \in 1..Len(t) : b[i] = Loads(t, c)[i]
      BY <2>1, <2>2, <3>1, <3>2
    <3>4. b = Loads(t, c)
      BY <3>1, <3>2, <3>3, SeqEqual
    <3> QED
      BY <3>4 DEF b
  <2>5. FlattenSeq(ss) = Head(ss) \o FlattenSeq(Tail(ss))
    BY <2>2, <2>3, FlattenTail
  <2>6. InFlight(t, c) = FlattenSeq(Loads(t, c))
    BY <2>1, LoadsIs
  <2> QED
    BY <2>2, <2>3, <2>4, <2>5, <2>6 DEF t
<1> QED
  BY <1>1, <1>2, <1>3

\* What is known of a client after a call was known before it.
LEMMA KnownBack ==
    ASSUME NEW w, NEW v, Good(w), Safe(w, v), NEW c \in Clients
    PROVE  /\ Early(v.sk[c]) => Early(w.sk[c]) /\ Opens(v.h2d, c) = Opens(w.h2d, c)
           /\ v.sk[c].on \in {"absent", "list"} /\ v.sk[c].peer \notin Services =>
                w.sk[c].on \in {"absent", "list"} /\ w.sk[c].peer \notin Services
           /\ \A st : Known(v, c, st) => Known(w, c, st)
<1>0. /\ c \in Locals /\ SockOK(c, w.sk[c]) /\ SockOK(c, v.sk[c])
      /\ Quiet(w, v, c) \/ Opened(w, v, c)
      /\ v.sk[c].on = "absent" => w.sk[c].on = "absent"
  BY Distinct DEF Safe, Calm, Good, SkOK
<1>1. Services \subseteq Locals /\ Smart \notin Services /\ None \notin Services
  BY Distinct DEF Locals
<1>2. w.sk[c].on = "absent" => w.sk[c].peer = None
  BY <1>0 DEF SockOK, Blank
<1>3. CASE Quiet(w, v, c)
  <2>1. Early(v.sk[c]) => Early(w.sk[c])
    BY <1>0, <1>3, Distinct DEF Early, Quiet, SockOK
  <2>2. Opens(v.h2d, c) = Opens(w.h2d, c)
    BY <1>3 DEF Quiet
  <2>3. v.sk[c].on \in {"absent", "list"} /\ v.sk[c].peer \notin Services =>
          w.sk[c].on \in {"absent", "list"} /\ w.sk[c].peer \notin Services
    BY <1>0, <1>1, <1>2, <1>3 DEF Quiet
  <2> QED
    BY <2>1, <2>2, <2>3 DEF Known
<1>4. CASE Opened(w, v, c)
  <2>1. w.sk[c].on = "list" /\ w.sk[c].peer = Smart
    BY <1>0, <1>4, Distinct DEF Opened, SockOK
  <2>2. ~Early(v.sk[c])
    BY <1>0, <1>4, <2>1, Distinct DEF Early, Opened, SockOK
  <2> QED
    BY <1>1, <2>1, <2>2 DEF Known
<1> QED
  BY <1>0, <1>3, <1>4

\* A client that may have a stream has no host service.
LEMMA KnownPeer ==
    ASSUME NEW w, NEW c, NEW d, NEW got, Ordered(w, c, d, got), Known(w, c, d.st)
    PROVE  w.sk[c].peer \notin Services
  BY DEF Ordered, Known, Early, Locals

LEMMA OrderedIs ==
    ASSUME NEW w \in Record, NEW c \in Clients, NEW got \in Seq(Item)
    PROVE  /\ Held(w, c) \in Seq(Item) /\ Data(got) \in Seq(Item)
           /\ Data(got) \o Held(w, c) \in Seq(Item)
  BY HeldIs, DataFacts, ItemSeq

\* A call that loses nothing keeps the order.
LEMMA SafeOrdered ==
    ASSUME NEW w, NEW v, Good(w), Safe(w, v), NEW c \in Clients, NEW d, d.sent \in Seq(Item),
           NEW got \in Seq(Item), Ordered(w, c, d, got),
           w.sk[c].peer \notin Services => Holds(w, v, c)
    PROVE  /\ Ordered(v, c, d, got)
           /\ \A q : Whole(w, c, q, d, got) => Whole(v, c, q, d, got)
<1>0. w \in Record /\ v \in Record
  BY DEF Safe, Good
<1>1. /\ Early(v.sk[c]) => Early(w.sk[c]) /\ Opens(v.h2d, c) = Opens(w.h2d, c)
      /\ v.sk[c].on \in {"absent", "list"} /\ v.sk[c].peer \notin Services =>
           w.sk[c].on \in {"absent", "list"} /\ w.sk[c].peer \notin Services
      /\ Known(v, c, d.st) => Known(w, c, d.st)
  BY KnownBack
<1>2. ASSUME Known(v, c, d.st)
      PROVE  v.sk[c].q \in Seq(AnyByte) /\ Starts(Data(got) \o Held(v, c), d.sent)
  <2>1. Known(w, c, d.st)
    BY <1>1, <1>2
  <2>2. Holds(w, v, c)
    BY <2>1, KnownPeer
  <2>3. w.sk[c].q \in Seq(AnyByte) /\ Starts(Data(got) \o Held(w, c), d.sent)
    BY <2>1 DEF Ordered
  <2>4. /\ Held(w, c) \in Seq(Item) /\ Held(v, c) \in Seq(Item) /\ Data(got) \in Seq(Item)
        /\ Data(got) \o Held(w, c) \in Seq(Item) /\ Data(got) \o Held(v, c) \in Seq(Item)
    BY <1>0, OrderedIs
  <2>5. Starts(Data(got) \o Held(v, c), Data(got) \o Held(w, c))
    <3>1. PICK g \in Seq(Item), a \in Seq(Item), b \in Seq(Item) :
            g = Data(got) /\ a = Held(v, c) /\ b = Held(w, c)
      BY <2>4
    <3>2. Starts(a, b)
      BY <2>2, <3>1 DEF Holds
    <3>3. Starts(g \o a, g \o b)
      BY <3>2, StartsFacts
    <3> QED
      BY <3>1, <3>3
  <2>6. Starts(Data(got) \o Held(v, c), d.sent)
    <3>1. PICK a \in Seq(Item), b \in Seq(Item), s \in Seq(Item) :
            a = Data(got) \o Held(v, c) /\ b = Data(got) \o Held(w, c) /\ s = d.sent
      BY <1>0, <2>4
    <3> QED
      BY <2>3, <2>5, <3>1, StartsFacts
  <2> QED
    BY <2>2, <2>3, <2>6 DEF Holds
<1>3. Ordered(v, c, d, got)
  BY <1>1, <1>2 DEF Ordered
<1>4. ASSUME NEW q, Whole(w, c, q, d, got) PROVE Whole(v, c, q, d, got)
  BY <1>1, <1>4 DEF Whole, Holds
<1> QED
  BY <1>3, <1>4

LEMMA OrderIs == ASSUME IInv, OrderInv, NEW c \in Clients
                 PROVE  /\ dev[c].sent \in Seq(Item) /\ cl[c].got \in Seq(Item) /\ Good(W)
                        /\ d2h \in Seq(Packet) /\ h2d \in Seq(Packet) /\ c \in Locals
                        /\ Ordered(W, c, dev[c], cl[c].got)
                        /\ tr = "on" => Whole(W, c, d2h, dev[c], cl[c].got)
  BY WIs, Distinct DEF IInv, RestOK, Good, Record, OrderInv

\* A handler that loses nothing keeps the order.
LEMMA HandlerOrder ==
    ASSUME IInv, OrderInv, NEW v, Safe(W, v), Becomes(v), tr' = tr, d2h' = d2h, dev' = dev, cl' = cl,
           \A c \in Clients : sk[c].peer \notin Services => Holds(W, v, c)
    PROVE  OrderInv'
<1>0. W' = v
  BY BecomesIs DEF Safe, Good
<1>1. WritesBytes'
  BY DEF OrderInv, WritesBytes
<1>2. ASSUME NEW c \in Clients
      PROVE  /\ Ordered(v, c, dev[c], cl[c].got)
             /\ tr = "on" => Whole(v, c, d2h, dev[c], cl[c].got)
  BY OrderIs, WIs, SafeOrdered
<1> QED
  BY <1>0, <1>1, <1>2 DEF OrderInv

LEMMA CallbackOrder == ASSUME IInv, OrderInv, NEW l \in Locals, Callback(l) PROVE OrderInv'
  BY CallbackSafe, HandlerOrder

\* Nothing changes that the order depends on.
LEMMA SameOrder ==
    ASSUME OrderInv, h2d' = h2d, d2h' = d2h, toProc' = toProc, dev' = dev, tr' = "on" => tr = "on",
           \A c \in Clients : /\ sk'[c].on = sk[c].on /\ sk'[c].peer = sk[c].peer
                              /\ sk'[c].q = sk[c].q /\ cl'[c].got = cl[c].got
    PROVE  OrderInv'
<1>1. WritesBytes'
  BY DEF OrderInv, WritesBytes
<1>2. W'.sk = sk' /\ W'.h2d = h2d' /\ W'.toProc = toProc'
  BY DEF W
<1>3. ASSUME NEW c \in Clients
      PROVE  /\ Ordered(W', c, dev'[c], cl'[c].got)
             /\ tr' = "on" => Whole(W', c, d2h', dev'[c], cl'[c].got)
  <2>1. /\ Ordered(W, c, dev[c], cl[c].got)
        /\ tr = "on" => Whole(W, c, d2h, dev[c], cl[c].got)
    BY DEF OrderInv
  <2>2. Held(W', c) = Held(W, c)
    BY <1>2, WIs DEF Held
  <2>3. /\ W'.sk[c].on = W.sk[c].on /\ W'.sk[c].peer = W.sk[c].peer /\ W'.sk[c].q = W.sk[c].q
        /\ W'.h2d = W.h2d /\ cl'[c].got = cl[c].got /\ dev'[c] = dev[c]
    BY <1>2, WIs
  <2>4. Ordered(W', c, dev'[c], cl'[c].got)
    BY <2>1, <2>2, <2>3 DEF Ordered, Known, Early
  <2>5. tr' = "on" => Whole(W', c, d2h', dev'[c], cl'[c].got)
    BY <2>1, <2>2, <2>3 DEF Whole
  <2> QED
    BY <2>4, <2>5
<1> QED
  BY <1>1, <1>3 DEF OrderInv

LEMMA SignalOrder == ASSUME IInv, OrderInv, NEW l \in Locals, Signal(l) PROVE OrderInv'
<1>0. sk \in [Locals -> Socket]
  BY WIs DEF IInv, Good, SkOK
<1>1. sk' = [sk EXCEPT ![l].pend = @ \cup sk[l].want] /\ UNCHANGED <<tr, h2d, d2h, toProc, dev, cl>>
  BY DEF Signal
<1>2. \A c \in Clients : /\ sk'[c].on = sk[c].on /\ sk'[c].peer = sk[c].peer /\ sk'[c].q = sk[c].q
  BY <1>0, <1>1, Distinct DEF Socket
<1> QED
  BY <1>1, <1>2, SameOrder

\* The main thread takes a packet that brings nothing to client c.
LEMMA TailWhole ==
    ASSUME NEW w, NEW c, NEW q \in Seq(Packet), q # << >>, NEW d, NEW got,
           ~(Head(q).cmd = "WRTE" /\ Head(q).id = c), Whole(w, c, q, d, got)
    PROVE  Whole(w, c, Tail(q), d, got)
<1>1. Carried(Head(q), c) = << >>
  BY DEF Carried
<1>2. InFlight(q, c) = Carried(Head(q), c) \o InFlight(Tail(q), c)
  BY InFlightFacts
<1>3. InFlight(Tail(q), c) \in Seq(Item)
  BY TailIs, InFlightFacts
<1>4. InFlight(q, c) = InFlight(Tail(q), c)
  BY <1>1, <1>2, <1>3, ItemSeq
<1> QED
  BY <1>4 DEF Whole

\* The bytes b of a packet, moved from what is in flight to the end of what is held.
Shifted(g, h, b, f) == (g \o h) \o (b \o f) = (g \o (h \o b)) \o f

LEMMA ShiftedIs == \A g, h, b, f \in Seq(Item) : Shifted(g, h, b, f)
<1>1. ASSUME NEW g \in Seq(Item), NEW h \in Seq(Item), NEW b \in Seq(Item), NEW f \in Seq(Item)
      PROVE  Shifted(g, h, b, f)
  <2>1. PICK t \in Seq(Item) : t = g \o h
    BY ItemSeq
  <2>2. t \o (b \o f) = (t \o b) \o f
    BY ItemAssoc
  <2>3. (g \o h) \o b = g \o (h \o b)
    BY ItemAssoc, SMTT(30)
  <2> QED
    BY <2>1, <2>2, <2>3 DEF Shifted
<1> QED
  BY <1>1

\* The bytes of a WRTE are put after what is held, or lost with the socket.
LEMMA GetsOrdered ==
    ASSUME NEW w, NEW v, Good(w), Safe(w, v), NEW c \in Clients, NEW d, d.sent \in Seq(Item),
           NEW got \in Seq(Item), Ordered(w, c, d, got), NEW q \in Seq(Packet), q # << >>,
           Whole(w, c, q, d, got), w.sk[c].on = "list", w.sk[c].peer \notin Services,
           NEW bytes \in Seq(AnyByte), Carried(Head(q), c) = bytes, Gets(w, v, c, bytes)
    PROVE  Ordered(v, c, d, got) /\ Whole(v, c, Tail(q), d, got)
<1> DEFINE F == InFlight(Tail(q), c)
           G == Data(got)
           H == Held(w, c)
           K == Held(v, c)
<1>0. w \in Record /\ v \in Record /\ bytes \in Seq(Item)
  BY ItemSeq DEF Safe, Good
<1>1. F \in Seq(Item) /\ G \in Seq(Item) /\ H \in Seq(Item) /\ K \in Seq(Item) /\ Data(bytes) = bytes
  BY <1>0, TailIs, InFlightFacts, OrderedIs, DataFacts
<1>2. d.sent = (G \o H) \o (bytes \o F)
  BY InFlightFacts DEF Whole
<1>3. /\ Starts(K, H \o bytes) /\ (v.sk[c].on \in {"absent", "list"} => K = H \o bytes)
      /\ w.sk[c].q \in Seq(AnyByte) => v.sk[c].q \in Seq(AnyByte)
  BY <1>1 DEF Gets
<1> HIDE DEF F, G, H, K
<1>4. d.sent = (G \o (H \o bytes)) \o F /\ H \o bytes \in Seq(Item) /\ G \o K \in Seq(Item)
      /\ G \o (H \o bytes) \in Seq(Item)
  <2>1. PICK b \in Seq(Item) : b = bytes
    BY <1>0
  <2>2. Shifted(G, H, b, F)
    BY <1>1, ShiftedIs
  <2>3. H \o b \in Seq(Item) /\ G \o K \in Seq(Item)
    BY <1>1, ItemSeq
  <2>4. G \o (H \o b) \in Seq(Item)
    BY <1>1, <2>3, ItemSeq
  <2> QED
    BY <1>2, <2>1, <2>2, <2>3, <2>4 DEF Shifted
<1>5. Starts(G \o K, d.sent)
  <2>1. PICK s \in Seq(Item) : s = H \o bytes
    BY <1>4
  <2>2. Starts(G \o K, G \o s)
    BY <1>1, <1>3, <2>1, StartsFacts
  <2>3. PICK t \in Seq(Item) : t = G \o s
    BY <1>4, <2>1
  <2>4. Starts(G \o K, t \o F)
    BY <1>1, <1>4, <2>2, <2>3, StartsFacts
  <2> QED
    BY <1>4, <2>1, <2>3, <2>4
<1>6. w.sk[c].q \in Seq(AnyByte)
  BY DEF Ordered, Known
<1>7. Ordered(v, c, d, got)
  <2>1. /\ Early(v.sk[c]) => Early(w.sk[c]) /\ Opens(v.h2d, c) = Opens(w.h2d, c)
    BY KnownBack
  <2> QED
    BY <1>3, <1>5, <1>6, <2>1 DEF Ordered, G, K
<1>8. Whole(v, c, Tail(q), d, got)
  BY <1>3, <1>4 DEF Whole, F, G, K
<1> QED
  BY <1>7, <1>8

LEMMA TailWrites == ASSUME d2h \in Seq(Packet), d2h # << >>, d2h' = Tail(d2h), WritesBytes
                    PROVE  WritesBytes'
  BY TailIs DEF WritesBytes

LEMMA MainPacketOrder == ASSUME IInv, OrderInv, MainPacket PROVE OrderInv'
<1> DEFINE p == Head(d2h)
           v == IF tr # "on" THEN W
                ELSE CASE p.cmd = "OKAY" -> HandleOkay(W, p.id)
                       [] p.cmd = "CLSE" -> HandleClose(W, p.id)
                       [] p.cmd = "WRTE" -> HandleWrite(W, p.id, p.data)
<1>0. /\ Good(W) /\ W \in Record /\ d2h \in Seq(Packet) /\ d2h # << >> /\ p.cmd # "SYNC0"
      /\ \A i \in 1..Len(d2h) : d2h[i].cmd # "OPEN"
      /\ Becomes(v) /\ d2h' = Tail(d2h) /\ UNCHANGED <<tr, cl, dev>>
  BY DEF IInv, RestOK, MainPacket, Good
<1>1. Len(d2h) \in Nat \ {0} /\ p = d2h[1] /\ d2h[1] \in Packet /\ 1 \in 1..Len(d2h)
  BY <1>0, TailIs
<1> HIDE DEF p
<1>2. p.cmd \in {"OKAY", "CLSE", "WRTE"} /\ p.id \in Clients /\ p.data \in Seq(Item)
  BY <1>0, <1>1, PacketIs
<1>3. WritesBytes'
  BY <1>0, TailWrites DEF OrderInv
<1>4. ASSUME NEW x \in Record, Becomes(x),
             \A c \in Clients : /\ Ordered(x, c, dev[c], cl[c].got)
                                /\ tr = "on" => Whole(x, c, Tail(d2h), dev[c], cl[c].got)
      PROVE  OrderInv'
  <2>1. W' = x
    BY <1>4, BecomesIs
  <2> QED
    BY <1>0, <1>3, <1>4, <2>1 DEF OrderInv
<1>5. CASE tr # "on"
  <2>1. Becomes(W)
    BY <1>0, <1>5
  <2> QED
    BY <1>0, <1>4, <1>5, <2>1 DEF OrderInv
\* A handler that loses nothing of a client, or of no client but the one of a WRTE.
<1>6. ASSUME tr = "on", NEW x, Safe(W, x), NEW c \in Clients, Holds(W, x, c),
             ~(p.cmd = "WRTE" /\ p.id = c)
      PROVE  Ordered(x, c, dev[c], cl[c].got) /\ Whole(x, c, Tail(d2h), dev[c], cl[c].got)
  <2>1. Ordered(x, c, dev[c], cl[c].got) /\ Whole(x, c, d2h, dev[c], cl[c].got)
    BY <1>6, OrderIs, SafeOrdered
  <2> QED
    BY <1>0, <1>6, <2>1, TailWhole DEF p
<1>7. CASE tr = "on" /\ p.cmd = "OKAY"
  <2> DEFINE x == HandleOkay(W, p.id)
  <2>1. v = x
    BY <1>7
  <2>2. Safe(W, x) /\ \A c \in Clients : Holds(W, x, c)
    BY <1>0, <1>2, <1>7, HandleOkayOK, HandleOkayHolds
  <2> HIDE DEF x, v
  <2>3. x \in Record
    BY <2>2 DEF Safe, Good
  <2> QED
    BY <1>0, <1>4, <1>6, <1>7, <2>1, <2>2, <2>3
<1>8. CASE tr = "on" /\ p.cmd = "CLSE"
  <2> DEFINE x == HandleClose(W, p.id)
  <2>1. v = x
    BY <1>8
  <2>2. Safe(W, x) /\ \A c \in Clients : Holds(W, x, c)
    BY <1>0, <1>2, <1>8, HandleCloseOK, HandleCloseHolds
  <2> HIDE DEF x, v
  <2>3. x \in Record
    BY <2>2 DEF Safe, Good
  <2> QED
    BY <1>0, <1>4, <1>6, <1>8, <2>1, <2>2, <2>3
<1>9. CASE tr = "on" /\ p.cmd = "WRTE"
  <2> DEFINE x == HandleWrite(W, p.id, p.data)
  <2>1. v = x
    BY <1>9
  <2>2. StreamAt(p.id, sk[p.id], h2d, d2h, dev[p.id].st) /\ IsOf(d2h[1], "WRTE", p.id)
    BY <1>1, <1>2, <1>9 DEF IInv, StreamOK, IsOf
  <2>3. ~Early(sk[p.id]) /\ ~(sk[p.id].on = "list" /\ sk[p.id].peer = None)
    <3>1. ~Early(sk[p.id])
      BY <1>0, <1>1, <1>2, <2>2 DEF StreamAt
    <3>2. ~\E j \in 1..(1 - 1) : TRUE
      OBVIOUS
    <3> QED
      BY <1>1, <2>2, <3>1, <3>2 DEF StreamAt
  <2>4. sk[p.id].on = "list" => sk[p.id].peer \notin {None, Smart}
    BY <2>3 DEF Early
  <2>5. /\ Safe(W, x) /\ (sk[p.id].on # "list" => x = W)
        /\ sk[p.id].on = "list" => Gets(W, x, p.id, p.data)
        /\ \A b \in Clients : b # p.id => Holds(W, x, b)
    BY <1>0, <1>2, <1>9, <2>4, WIs, HandleWriteOK, HandleWriteGets
  <2> HIDE DEF x, v
  <2>6. x \in Record
    BY <2>5 DEF Safe, Good
  <2>7. Ordered(x, p.id, dev[p.id], cl[p.id].got) /\ Whole(x, p.id, Tail(d2h), dev[p.id], cl[p.id].got)
    <3>1. CASE sk[p.id].on # "list"
      <4>1. sk[p.id].on # "absent"
        BY <2>3 DEF Early
      <4> QED
        BY <1>2, <2>5, <3>1, <4>1, WIs, OrderIs DEF Whole
    <3>2. CASE sk[p.id].on = "list"
      <4>1. W.sk[p.id].peer \notin Services /\ W.sk[p.id].on = "list"
        BY <2>3, <3>2, WIs DEF Early, Locals
      <4>2. p.data \in Seq(AnyByte) /\ Carried(Head(d2h), p.id) = p.data
        BY <1>1, <1>9 DEF OrderInv, WritesBytes, Carried, p
      <4> DEFINE c == p.id
                 bytes == p.data
                 d == dev[c]
                 got == cl[c].got
      <4>3. /\ d.sent \in Seq(Item) /\ got \in Seq(Item) /\ Ordered(W, c, d, got)
            /\ Whole(W, c, d2h, d, got) /\ c \in Clients /\ bytes \in Seq(AnyByte)
            /\ Gets(W, x, c, bytes) /\ Carried(Head(d2h), c) = bytes
            /\ W.sk[c].peer \notin Services /\ W.sk[c].on = "list"
        BY <1>2, <1>9, <2>5, <3>2, <4>1, <4>2, OrderIs
      <4> HIDE DEF c, bytes, d, got
      <4>4. Ordered(x, c, d, got) /\ Whole(x, c, Tail(d2h), d, got)
        BY <1>0, <2>5, <4>3, GetsOrdered
      <4> QED
        BY <4>4 DEF c, d, got
    <3> QED
      BY <3>1, <3>2
  <2>8. ASSUME NEW c \in Clients
        PROVE  Ordered(x, c, dev[c], cl[c].got) /\ Whole(x, c, Tail(d2h), dev[c], cl[c].got)
    <3>1. CASE c = p.id
      BY <2>7, <3>1
    <3>2. CASE c # p.id
      BY <1>6, <1>9, <2>5, <3>2
    <3> QED
      BY <3>1, <3>2
  <2> QED
    BY <1>0, <1>4, <2>1, <2>6, <2>8
<1> QED
  BY <1>2, <1>5, <1>7, <1>8, <1>9

\* The transport goes: its sockets are closed, each by itself.
LEMMA ClosingOrder ==
    ASSUME IInv, OrderInv, NEW v, Good(v), Becomes(v), Told(W, v), v.disc \subseteq disc, v.h2d = h2d,
           v.bad = bad, tr' # "on", dev' = dev, cl' = cl, WritesBytes',
           \A l \in Locals : \/ v.sk[l] = sk[l]
                             \/ /\ sk[l].on = "list" /\ v.sk[l].on \in {"freed", "closing"}
                                /\ v.sk[l].q \in {sk[l].q, << >>}
    PROVE  OrderInv'
<1>0. Good(W) /\ W' = v
  BY BecomesIs DEF IInv, Good
<1>1. Tame(W, v)
  BY WIs DEF Tame, Uses
<1>2. Calm(W, v)
  <2>1. \A l \in Locals : v.sk[l].on = "absent" => W.sk[l].on = "absent"
    BY WIs
  <2>2. \A c \in Clients : W.sk[c].on = "absent" => v.sk[c].on = "absent"
    BY WIs, Distinct
  <2>3. \A c \in Clients : v.sk[c].on = "list" => v.sk[c] = W.sk[c]
    BY WIs, Distinct
  <2>4. \A c \in Clients : Quiet(W, v, c)
    BY <2>3, WIs DEF Quiet
  <2> QED
    BY <2>1, <2>2, <2>4 DEF Calm
<1>3. Safe(W, v)
  BY <1>1, <1>2, WIs DEF Safe
<1>4. Fewer(W, v)
  BY WIs, AlikeSame, UncountedSame DEF Fewer
<1>5. ASSUME NEW c \in Clients PROVE Ordered(v, c, dev[c], cl[c].got)
  <2>1. Holds(W, v, c)
    BY <1>0, <1>3, <1>4, FewerHolds
  <2> QED
    BY <1>0, <1>3, <2>1, OrderIs, SafeOrdered
<1> QED
  BY <1>0, <1>5 DEF OrderInv

LEMMA OfflineOrder == ASSUME IInv, OrderInv, Offline PROVE OrderInv'
<1> DEFINE g == [l \in Locals |-> IF l \in disc THEN RemoteDisconnect(l).sk[l] ELSE sk[l]]
           h == [l \in Locals |-> IF l \in disc THEN RemoteDisconnect(l).toProc[l] ELSE toProc[l]]
           v == [W EXCEPT !.sk = g, !.toProc = h, !.disc = {}]
<1>0. /\ W \in Record /\ sk \in [Locals -> Socket] /\ toProc \in [Locals -> Seq(Item)]
      /\ disc \subseteq Locals /\ d2h \in Seq(Packet)
  BY WIs, Distinct DEF IInv, Good, SkOK, Record, RestOK
<1>1. /\ Becomes(v) /\ d2h # << >> /\ d2h' = Tail(d2h) /\ tr' = "off" /\ dev' = dev /\ cl' = cl
  BY DEF Offline
<1>2. g \in [Locals -> Socket] /\ h \in [Locals -> Seq(Item)]
  BY <1>0, DisconnectIs
<1>3. \A l \in Locals : \/ g[l] = sk[l]
                        \/ /\ sk[l].on = "list" /\ g[l].on \in {"freed", "closing"}
                           /\ g[l].q \in {sk[l].q, << >>}
  BY <1>0, DisconnectIs
<1>4. \A c \in Clients : Data(h[c]) = Data(toProc[c])
  BY <1>0, DisconnectIs, Distinct
<1> HIDE DEF g, h
<1>5. /\ v \in Record /\ v.sk = g /\ v.toProc = h /\ v.h2d = W.h2d /\ v.disc = {} /\ v.bad = W.bad
  BY <1>0, <1>2 DEF Record
<1> HIDE DEF v
<1>6. Good(v)
  <2>1. Good(W)'
    BY OfflineStep DEF IInv
  <2>2. W' = v
    BY <1>1, <1>5, BecomesIs
  <2> QED
    BY <2>1, <2>2
<1>7. WritesBytes'
  BY <1>0, <1>1, TailWrites DEF OrderInv
<1>8. Told(W, v)
  BY <1>4, <1>5, WIs DEF Told
<1> QED
  BY <1>1, <1>3, <1>5, <1>6, <1>7, <1>8, WIs, ClosingOrder

LEMMA CloseAllOrder == ASSUME IInv, OrderInv, CloseAll PROVE OrderInv'
<1> DEFINE g == [l \in Locals |-> IF OfTransport(l) THEN CloseLocked(W, l).sk[l] ELSE sk[l]]
           v == [W EXCEPT !.sk = g]
<1>0. /\ W \in Record /\ Good(W) /\ SkOK(sk, disc) /\ sk \in [Locals -> Socket]
  BY WIs DEF IInv, Good, SkOK
<1>1. /\ Becomes(v) /\ tr' = "swept" /\ d2h' = d2h /\ dev' = dev /\ cl' = cl
  BY DEF CloseAll
<1>2. ASSUME NEW l \in Locals, OfTransport(l)
      PROVE  /\ CloseLocked(W, l).sk[l] \in Socket /\ CloseLocked(W, l).sk[l].on \in {"freed", "closing"}
             /\ CloseLocked(W, l).sk[l].q \in {sk[l].q, << >>} /\ sk[l].on = "list"
  <2>0. sk[l] \in Socket /\ SockOK(l, sk[l]) /\ sk[l].on = "list"
    BY <1>0, <1>2 DEF SkOK, OfTransport
  <2>1. CloseLocked(W, l).sk[l] = Done(sk[l])
    BY <1>0, <2>0, WIs, CloseLockedOK
  <2>2. /\ Done(sk[l]) \in Socket /\ Done(sk[l]).on \in {"freed", "closing"}
        /\ Done(sk[l]).q \in {sk[l].q, << >>}
    BY <2>0, DoneOK DEF SockOK
  <2> QED
    BY <2>0, <2>1, <2>2
<1>3. /\ g \in [Locals -> Socket]
      /\ \A l \in Locals : \/ g[l] = sk[l]
                           \/ /\ sk[l].on = "list" /\ g[l].on \in {"freed", "closing"}
                              /\ g[l].q \in {sk[l].q, << >>}
  BY <1>0, <1>2
<1> HIDE DEF g
<1>4. /\ v \in Record /\ v.sk = g /\ v.h2d = W.h2d /\ v.toProc = W.toProc /\ v.disc = W.disc
      /\ v.bad = W.bad
  BY <1>0, <1>3 DEF Record
<1> HIDE DEF v
<1>5. Good(v)
  <2>1. Good(W)'
    BY CloseAllStep DEF IInv
  <2>2. W' = v
    BY <1>1, <1>4, BecomesIs
  <2> QED
    BY <2>1, <2>2
<1>6. WritesBytes'
  BY <1>1 DEF OrderInv, WritesBytes
<1>7. Told(W, v)
  BY <1>4 DEF Told
<1> QED
  BY <1>1, <1>3, <1>4, <1>5, <1>6, <1>7, WIs, ClosingOrder

LEMMA FreeTransportOrder == ASSUME OrderInv, FreeTransport PROVE OrderInv'
  BY SameOrder DEF FreeTransport

\* A socket is made for client c, and perhaps an OPEN sent.
LEMMA NewOrder ==
    ASSUME IInv, OrderInv, NEW c \in Clients, sk[c].on = "absent", NEW r, sk' = [sk EXCEPT ![c] = r],
           r.on = "list", r.q = << >>, r.peer \in {None, Smart}, toProc' = toProc, d2h' = d2h, dev' = dev,
           tr' = tr, \A b \in Clients : cl'[b].got = cl[b].got,
           \A b \in Clients : b # c => Opens(h2d', b) = Opens(h2d, b),
           r.peer = Smart => Opens(h2d', c) = Opens(h2d, c)
    PROVE  OrderInv'
<1>0. /\ sk \in [Locals -> Socket] /\ c \in Locals /\ SockOK(c, sk[c])
      /\ W'.sk = sk' /\ W'.h2d = h2d' /\ W'.toProc = toProc'
  BY WIs, Distinct DEF W, IInv, Good, SkOK
<1>1. WritesBytes'
  BY DEF OrderInv, WritesBytes
<1>2. sk[c].peer = None /\ sk[c].q = << >>
  BY <1>0 DEF SockOK, Blank
<1>3. ASSUME NEW b \in Clients
      PROVE  /\ Ordered(W', b, dev'[b], cl'[b].got)
             /\ tr' = "on" => Whole(W', b, d2h', dev'[b], cl'[b].got)
  <2>1. /\ Ordered(W, b, dev[b], cl[b].got)
        /\ tr = "on" => Whole(W, b, d2h, dev[b], cl[b].got)
    BY DEF OrderInv
  <2>2. CASE b # c
    <3>1. W'.sk[b] = W.sk[b] /\ W'.toProc = W.toProc /\ Opens(W'.h2d, b) = Opens(W.h2d, b)
      BY <1>0, <2>2, WIs, Distinct
    <3> QED
      BY <2>1, <3>1 DEF Ordered, Whole, Known, Held
  <2>3. CASE b = c
    <3>1. W'.sk[c] = r /\ W.sk[c].q = << >> /\ W.sk[c].on = "absent" /\ W.sk[c].peer = None
      BY <1>0, <1>2, WIs
    <3>2. Held(W', c) = Held(W, c)
      BY <1>0, <3>1, WIs DEF Held
    <3>3. None \notin Services /\ Smart \notin Services
      BY Distinct DEF Locals
    <3>4. /\ W.sk[c].q \in Seq(AnyByte) /\ Starts(Data(cl[c].got) \o Held(W, c), dev[c].sent)
          /\ Opens(h2d, c) = {} /\ dev[c].st = "none"
      BY <2>1, <2>3, <3>1, <3>3, WIs DEF Ordered, Known, Early
    <3>5. Early(r) => r.peer = Smart
      BY Distinct DEF Early
    <3>6. Ordered(W', b, dev'[b], cl'[b].got)
      BY <1>0, <2>3, <3>1, <3>2, <3>4, <3>5, WIs DEF Ordered
    <3>7. tr' = "on" => Whole(W', b, d2h', dev'[b], cl'[b].got)
      BY <2>1, <2>3, <3>1, <3>2, <3>3 DEF Whole
    <3> QED
      BY <3>6, <3>7
  <2> QED
    BY <2>2, <2>3
<1> QED
  BY <1>1, <1>3 DEF OrderInv

LEMMA AcceptOrder == ASSUME IInv, OrderInv, NEW c \in Clients, Accept(c) PROVE OrderInv'
<1> DEFINE r == [Blank("list") EXCEPT !.peer = Smart, !.want = {"R"}]
<1>1. /\ sk[c].on = "absent" /\ sk' = [sk EXCEPT ![c] = r]
      /\ UNCHANGED <<tr, h2d, d2h, toProc, dev>>
  BY DEF Accept
<1>2. r.on = "list" /\ r.q = << >> /\ r.peer = Smart
  BY DEF Blank
<1> HIDE DEF r
<1>3. \A b \in Clients : cl'[b].got = cl[b].got
  BY DEF Accept, IInv, RestOK
<1> QED
  BY <1>1, <1>2, <1>3, NewOrder

LEMMA AcceptForwardOrder == ASSUME IInv, OrderInv, NEW c \in Clients, AcceptForward(c) PROVE OrderInv'
<1> DEFINE r == [Blank("list") EXCEPT !.trans = TRUE]
           x == [W EXCEPT !.sk = [sk EXCEPT ![c] = r]]
           v == Send(x, "OPEN", c, << >>)
<1>0. /\ sk[c].on = "absent" /\ Becomes(v) /\ W \in Record /\ sk \in [Locals -> Socket]
      /\ c \in Locals /\ UNCHANGED <<tr, d2h, dev>>
  BY WIs, Distinct DEF AcceptForward, IInv, Good, SkOK
<1>1. r \in Socket /\ r.on = "list" /\ r.peer = None /\ r.q = << >>
  <2>1. << >> \in Seq(Item)
    BY EmptySeq
  <2> QED
    BY <2>1 DEF Blank, Socket
<1> HIDE DEF r
<1>2. x \in Record /\ x.sk = [sk EXCEPT ![c] = r] /\ x.h2d = h2d /\ x.toProc = toProc
  BY <1>0, <1>1, WIs DEF Record
<1> HIDE DEF x
<1>3. SentTo(x, v, "OPEN", c)
  BY <1>2, SendEmpty
<1> HIDE DEF v
<1>4. \A b \in Clients : b # c => Opens(v.h2d, b) = Opens(h2d, b)
  BY <1>2, <1>3 DEF SentTo
<1>8. v.sk = x.sk /\ v.toProc = x.toProc
  BY <1>2, <1>3 DEF SentTo, Record
<1>5. sk' = [sk EXCEPT ![c] = r] /\ toProc' = toProc /\ h2d' = v.h2d
  BY <1>0, <1>2, <1>8 DEF Becomes
<1>6. \A b \in Clients : cl'[b].got = cl[b].got
  BY DEF AcceptForward, IInv, RestOK
<1>7. r.peer # Smart
  BY <1>1, Distinct
<1> QED
  BY <1>0, <1>1, <1>4, <1>5, <1>6, <1>7, NewOrder

\* A client reads an item: what it has received and what waits for it are the same together.
Moves(g, t, q) == Data(Append(g, Head(t))) \o (Data(Tail(t)) \o q) = Data(g) \o (Data(t) \o q)

\* The bytes b, between what was read and the rest, read first or left first.
Passed(a, b, d, q) == (a \o b) \o (d \o q) = a \o ((b \o d) \o q)

LEMMA PassedIs == \A a, b, d, q \in Seq(Item) : Passed(a, b, d, q)
<1>1. ASSUME NEW a \in Seq(Item), NEW b \in Seq(Item), NEW d \in Seq(Item), NEW q \in Seq(Item)
      PROVE  Passed(a, b, d, q)
  <2>1. PICK r \in Seq(Item) : r = d \o q
    BY ItemSeq
  <2>2. (a \o b) \o r = a \o (b \o r)
    BY ItemAssoc, SMTT(30)
  <2>3. (b \o d) \o q = b \o (d \o q)
    BY ItemAssoc, SMTT(30)
  <2> QED
    BY <2>1, <2>2, <2>3 DEF Passed
<1> QED
  BY <1>1

LEMMA ReadMoves ==
    ASSUME NEW g \in Seq(Item), NEW t \in Seq(Item), t # << >>, NEW q \in Seq(Item)
    PROVE  Moves(g, t, q)
<1> DEFINE h == Head(t)
           one == <<h>>
           rest == Tail(t)
           all == Append(g, h)
<1>1. h \in Item /\ rest \in Seq(Item) /\ all \in Seq(Item)
  BY HeadTailProperties, AppendProperties
<1>2. one \in Seq(Item) /\ all = g \o one
  BY <1>1, AppendIsConcat
<1>3. t = one \o rest
  <2>1. /\ Len(t) \in Nat \ {0} /\ h = t[1] /\ Len(rest) = Len(t) - 1
        /\ \A i \in 1..Len(rest) : rest[i] = t[i + 1]
    BY HeadTailProperties, EmptySeq, LenProperties
  <2>2. Len(one) = 1 /\ one[1] = h
    OBVIOUS
  <2> HIDE DEF one, rest, h
  <2> DEFINE u == one \o rest
  <2>3. /\ u \in Seq(Item) /\ Len(u) = 1 + Len(rest)
        /\ \A i \in 1..1 + Len(rest) : u[i] = IF i <= 1 THEN one[i] ELSE rest[i - 1]
    BY <1>1, <1>2, <2>2, ConcatProperties
  <2> HIDE DEF u
  <2>4. Len(u) = Len(t)
    BY <2>1, <2>3
  <2>5. ASSUME NEW i \in 1..Len(t) PROVE t[i] = u[i]
    <3>1. CASE i = 1
      BY <2>1, <2>2, <2>3, <3>1
    <3>2. CASE i # 1
      <4>1. i - 1 \in 1..Len(rest) /\ (i - 1) + 1 = i /\ i \in 1..1 + Len(rest) /\ ~(i <= 1)
        BY <2>1, <3>2
      <4> QED
        BY <2>1, <2>3, <4>1
    <3> QED
      BY <3>1, <3>2
  <2>6. t = u
    BY <2>3, <2>4, <2>5, SeqEqual
  <2> QED
    BY <2>6 DEF u
<1> HIDE DEF h, one, rest, all
<1>4. /\ Data(all) = Data(g) \o Data(one) /\ Data(t) = Data(one) \o Data(rest)
      /\ Data(g) \in Seq(Item) /\ Data(one) \in Seq(Item) /\ Data(rest) \in Seq(Item)
  BY <1>1, <1>2, <1>3, DataFacts
<1>5. Data(all) \o (Data(rest) \o q) = Data(g) \o (Data(t) \o q)
  <2>1. PICK a \in Seq(Item), b \in Seq(Item), d \in Seq(Item) :
          a = Data(g) /\ b = Data(one) /\ d = Data(rest)
    BY <1>4
  <2>2. Passed(a, b, d, q)
    BY PassedIs
  <2>3. Data(all) = a \o b /\ Data(t) = b \o d /\ Data(rest) = d /\ Data(g) = a
    BY <1>4, <2>1
  <2> QED
    BY ONLY <2>2, <2>3 DEF Passed
<1> QED
  BY <1>1, <1>5 DEF all, rest, h, Moves

LEMMA ClientReadOrder == ASSUME IInv, OrderInv, NEW c \in Clients, ClientRead(c) PROVE OrderInv'
<1> DEFINE t == toProc[c]
           g == cl[c].got
           x == [cl[c] EXCEPT !.got = Append(g, Head(t))]
<1>0. /\ t # << >> /\ UNCHANGED <<sk, h2d, d2h, dev, tr>> /\ cl' = [cl EXCEPT ![c] = x]
      /\ toProc' = [toProc EXCEPT ![c] = Tail(t)]
  BY DEF ClientRead
<1>1. /\ t \in Seq(Item) /\ g \in Seq(Item) /\ c \in Locals /\ toProc \in [Locals -> Seq(Item)]
      /\ cl \in [Clients -> [script : Seq(Item), pos : Nat, got : Seq(Item)]]
      /\ sk[c].q \in Seq(Item) /\ Clients \subseteq Locals
  BY WIs, HeldIs DEF IInv, RestOK, Good, Record, Locals
<1>2. Data(sk[c].q) \in Seq(Item)
  BY <1>1, DataFacts
<1>3. Data(x.got) \o (Data(Tail(t)) \o Data(sk[c].q)) = Data(g) \o (Data(t) \o Data(sk[c].q))
  <2>1. x.got = Append(g, Head(t))
    BY <1>1
  <2> DEFINE b == Data(sk[c].q)
  <2>2. b \in Seq(Item)
    BY <1>2
  <2> HIDE DEF x, t, g, b
  <2>3. Moves(g, t, b)
    BY <1>0, <1>1, <2>2, ReadMoves
  <2> QED
    BY <2>1, <2>3 DEF b, Moves
<1>4. cl'[c].got = x.got /\ \A b \in Clients : b # c => cl'[b].got = cl[b].got
  BY <1>0, <1>1
<1>5. toProc'[c] = Tail(t) /\ \A b \in Clients : b # c => toProc'[b] = toProc[b]
  BY <1>0, <1>1
<1> HIDE DEF x
<1>6. W'.sk = sk /\ W'.toProc = toProc' /\ W'.h2d = h2d
  BY <1>0 DEF W
<1>7. Data(cl'[c].got) \o Held(W', c) = Data(cl[c].got) \o Held(W, c)
  BY <1>3, <1>4, <1>5, <1>6, WIs DEF Held
<1>8. ASSUME NEW b \in Clients
      PROVE  Data(cl'[b].got) \o Held(W', b) = Data(cl[b].got) \o Held(W, b)
  <2>1. CASE b = c
    BY <1>7, <2>1
  <2>2. CASE b # c
    BY <1>4, <1>5, <1>6, <2>2, WIs DEF Held
  <2> QED
    BY <2>1, <2>2
<1>9. ASSUME NEW b \in Clients
      PROVE  /\ Ordered(W', b, dev'[b], cl'[b].got)
             /\ tr' = "on" => Whole(W', b, d2h', dev'[b], cl'[b].got)
  BY <1>0, <1>6, <1>8, WIs DEF OrderInv, Ordered, Known, Whole
<1>10. WritesBytes'
  BY <1>0 DEF OrderInv, WritesBytes
<1> QED
  BY <1>9, <1>10 DEF OrderInv

LEMMA ProcessOrder ==
    ASSUME IInv, OrderInv,
           \/ \E c \in Clients : ClientSend(c) \/ ClientRead(c) \/ ClientLeave(c)
           \/ \E s \in Services : ServiceAnswer(s)
    PROVE  OrderInv'
<1>0. cl \in [Clients -> [script : Seq(Item), pos : Nat, got : Seq(Item)]]
  BY DEF IInv, RestOK
<1>1. ASSUME NEW c \in Clients, ClientSend(c) PROVE OrderInv'
  <2>1. UNCHANGED <<sk, h2d, d2h, dev, tr, toProc>> /\ cl' = [cl EXCEPT ![c].pos = @ + 1]
    BY <1>1 DEF ClientSend
  <2>2. \A b \in Clients : cl'[b].got = cl[b].got
    BY <1>0, <2>1
  <2> QED
    BY <2>1, <2>2, SameOrder
<1>2. ASSUME NEW c \in Clients, ClientLeave(c) PROVE OrderInv'
  BY <1>2, SameOrder DEF ClientLeave
<1>3. ASSUME NEW s \in Services, ServiceAnswer(s) PROVE OrderInv'
  BY <1>3, SameOrder DEF ServiceAnswer
<1> QED
  BY <1>1, <1>2, <1>3, ClientReadOrder

\* A step of the device: what it sends is behind what it has sent.
LEMMA DeviceOrder ==
    ASSUME IInv, OrderInv, IInv', DevStep, tr = "on", WritesBytes',
           \A c \in Clients : Opens(h2d', c) # {} \/ dev'[c].st # "none" =>
                                Opens(h2d, c) # {} \/ dev[c].st # "none",
           \A c \in Clients : \E e \in Seq(Item) : /\ dev'[c].sent = dev[c].sent \o e
                                                   /\ InFlight(d2h', c) = InFlight(d2h, c) \o e
    PROVE  OrderInv'
<1>1. W'.sk = sk /\ W'.toProc = toProc /\ W'.h2d = h2d' /\ sk' = sk /\ toProc' = toProc /\ cl' = cl /\ tr' = tr
  BY DEF W, DevStep
<1>2. ASSUME NEW c \in Clients
      PROVE  /\ Ordered(W', c, dev'[c], cl'[c].got)
             /\ tr' = "on" => Whole(W', c, d2h', dev'[c], cl'[c].got)
  <2> DEFINE A == Data(cl[c].got) \o Held(W, c)
             F == InFlight(d2h, c)
  <2>0. /\ Ordered(W, c, dev[c], cl[c].got) /\ Whole(W, c, d2h, dev[c], cl[c].got)
        /\ dev[c].sent \in Seq(Item) /\ W \in Record /\ cl[c].got \in Seq(Item) /\ d2h \in Seq(Packet)
    BY OrderIs DEF Good
  <2>1. A \in Seq(Item) /\ F \in Seq(Item)
    BY <2>0, OrderedIs, InFlightFacts
  <2>2. Held(W', c) = Held(W, c)
    BY <1>1, WIs DEF Held
  <2>3. PICK e \in Seq(Item) : dev'[c].sent = dev[c].sent \o e /\ InFlight(d2h', c) = F \o e
    OBVIOUS
  <2>4. StreamAt(c, sk[c], h2d', d2h', dev'[c].st)
    BY <1>1 DEF IInv, StreamOK
  <2>5. Data(cl'[c].got) \o Held(W', c) = A
    BY <1>1, <2>2
  <2>6. Starts(A, dev[c].sent) => Starts(A, dev'[c].sent)
    <3>1. PICK a \in Seq(Item), s \in Seq(Item) : a = A /\ s = dev[c].sent
      BY <2>0, <2>1
    <3>2. Starts(a, s) => Starts(a, s \o e)
      BY StartsFacts
    <3> QED
      BY <2>3, <3>1, <3>2
  <2>7. A \o F = dev[c].sent => A \o InFlight(d2h', c) = dev'[c].sent
    <3>1. (A \o F) \o e = A \o (F \o e)
      <4>1. PICK a \in Seq(Item), f \in Seq(Item), k \in Seq(Item) : a = A /\ f = F /\ k = e
        BY <2>1, <2>3
      <4>2. (a \o f) \o k = a \o (f \o k)
        BY ItemAssoc
      <4> QED
        BY <4>1, <4>2
    <3> QED
      BY <2>3, <3>1
  <2>8. Known(W', c, dev'[c].st) => Known(W, c, dev[c].st)
    BY <1>1, WIs DEF Known
  <2>9. Early(W'.sk[c]) => Opens(W'.h2d, c) = {} /\ dev'[c].st = "none"
    BY <1>1, <2>4 DEF StreamAt
  <2>10. /\ Known(W, c, dev[c].st) => W.sk[c].q \in Seq(AnyByte) /\ Starts(A, dev[c].sent)
         /\ W.sk[c].on \in {"absent", "list"} /\ W.sk[c].peer \notin Services => A \o F = dev[c].sent
    BY <2>0 DEF Ordered, Whole
  <2> HIDE DEF A, F
  <2>11. Ordered(W', c, dev'[c], cl'[c].got)
    BY <1>1, <2>5, <2>6, <2>8, <2>9, <2>10, WIs DEF Ordered
  <2>12. Whole(W', c, d2h', dev'[c], cl'[c].got)
    BY <1>1, <2>5, <2>7, <2>10, WIs DEF Whole
  <2> QED
    BY <2>11, <2>12
<1> QED
  BY <1>2 DEF OrderInv

\* The device answers, takes a packet, or both, and sends no bytes.
LEMMA AnswerOrder ==
    ASSUME IInv, OrderInv, IInv', DevStep, tr = "on", h2d' = h2d \/ (h2d # << >> /\ h2d' = Tail(h2d)),
           d2h' = d2h \/ \E p \in Packet : d2h' = Append(d2h, p) /\ p.cmd # "WRTE",
           \A c \in Clients : /\ dev'[c].sent = dev[c].sent
                              /\ dev'[c].st # "none" => Opens(h2d, c) # {} \/ dev[c].st # "none"
    PROVE  OrderInv'
<1>0. d2h \in Seq(Packet) /\ h2d \in Seq(Packet) /\ WritesBytes
  BY WIs DEF IInv, RestOK, Good, Record, OrderInv
<1>1. WritesBytes'
  <2>1. CASE d2h' = d2h
    BY <1>0, <2>1 DEF WritesBytes
  <2>2. ASSUME NEW p \in Packet, d2h' = Append(d2h, p), p.cmd # "WRTE" PROVE WritesBytes'
    <3>1. /\ Len(d2h) \in Nat /\ Len(d2h') = Len(d2h) + 1 /\ d2h'[Len(d2h) + 1] = p
          /\ \A i \in 1..Len(d2h) : d2h'[i] = d2h[i]
      BY <1>0, <2>2, AppendProperties, LenProperties
    <3>2. \A i \in 1..Len(d2h') : i \in 1..Len(d2h) \/ i = Len(d2h) + 1
      BY <3>1
    <3> QED
      BY <1>0, <2>2, <3>1, <3>2 DEF WritesBytes
  <2> QED
    BY <2>1, <2>2
<1>2. \A c \in Clients : Opens(h2d', c) # {} => Opens(h2d, c) # {}
  BY <1>0, OpensTail
<1>3. ASSUME NEW c \in Clients
      PROVE  \E e \in Seq(Item) : /\ dev'[c].sent = dev[c].sent \o e
                                  /\ InFlight(d2h', c) = InFlight(d2h, c) \o e
  <2> DEFINE e == << >>
  <2>1. dev[c].sent \in Seq(Item) /\ InFlight(d2h, c) \in Seq(Item) /\ e \in Seq(Item)
    BY <1>0, DevIs, InFlightFacts, ItemSeq
  <2>2. \A s \in Seq(Item) : s \o e = s
    BY ItemSeq
  <2>3. \A p \in Packet : p.cmd # "WRTE" => Carried(p, c) = e
    BY DEF Carried
  <2> HIDE DEF e
  <2>4. CASE d2h' = d2h
    BY <2>1, <2>2, <2>4
  <2>5. ASSUME NEW p \in Packet, d2h' = Append(d2h, p), p.cmd # "WRTE"
        PROVE  InFlight(d2h', c) = InFlight(d2h, c) \o e
    BY <1>0, <2>3, <2>5, InFlightFacts
  <2> QED
    BY <2>1, <2>2, <2>4, <2>5
<1> QED
  BY <1>1, <1>2, <1>3, DeviceOrder

\* A reply without bytes.
LEMMA ReplyIs ==
    ASSUME NEW cmd \in {"OKAY", "CLSE"}, NEW c \in Clients, Reply(cmd, c, << >>)
    PROVE  \E p \in Packet : d2h' = Append(d2h, p) /\ p.cmd # "WRTE"
<1> DEFINE d == << >>
           p == [cmd |-> cmd, id |-> c, data |-> d]
<1>1. d \in Seq(Item)
  BY EmptySeq
<1>2. d2h' = Append(d2h, p)
  BY DEF Reply
<1> HIDE DEF d
<1>3. p \in Packet /\ p.cmd # "WRTE"
  BY <1>1 DEF Packet
<1> QED
  BY <1>2, <1>3

LEMMA AnsweringOrder ==
    ASSUME IInv, OrderInv, NEW c \in Clients, DevReady(c) \/ DevClose(c) PROVE OrderInv'
<1>0. dev \in DevSet /\ IInv' /\ DevStep /\ tr = "on" /\ h2d' = h2d
  BY DevIs, DevReadyStep, DevCloseStep DEF DevReady, DevClose, Plugged
<1>1. \E p \in Packet : d2h' = Append(d2h, p) /\ p.cmd # "WRTE"
  BY ReplyIs DEF DevReady, DevClose
<1>2. ASSUME NEW b \in Clients
      PROVE  /\ dev'[b].sent = dev[b].sent
             /\ dev'[b].st # "none" => dev[b].st # "none"
  <2>1. CASE DevReady(c)
    <3> DEFINE n == dev[c].owes - 1
    <3>1. dev' = [dev EXCEPT ![c].owes = n]
      BY <2>1 DEF DevReady
    <3> HIDE DEF n
    <3> QED
      BY <1>0, <3>1 DEF DevSet
  <2>2. CASE DevClose(c)
    BY <1>0, <2>2 DEF DevSet, DevClose
  <2> QED
    BY <2>1, <2>2
<1> QED
  BY <1>0, <1>1, <1>2, AnswerOrder

LEMMA UnplugOrder == ASSUME IInv, OrderInv, Unplug PROVE OrderInv'
<1> DEFINE p == [cmd |-> "SYNC0"]
<1>1. /\ IInv' /\ DevStep /\ tr = "on" /\ h2d' = h2d /\ dev' = dev /\ d2h' = Append(d2h, p)
  BY UnplugStep DEF Unplug, Plugged
<1>2. p \in Packet /\ p.cmd # "WRTE"
  BY DEF Packet
<1> HIDE DEF p
<1> QED
  BY <1>1, <1>2, AnswerOrder

LEMMA DevTakeOrder == ASSUME IInv, OrderInv, DevTake PROVE OrderInv'
<1> DEFINE p == Head(h2d)
           c == p.id
<1>0. /\ tr = "on" /\ DevStep /\ h2d # << >> /\ h2d' = Tail(h2d) /\ h2d \in Seq(Packet)
      /\ dev \in DevSet /\ IInv'
  BY WIs, DevTakeStep DEF DevTake, Plugged, IInv, RestOK, DevSet, Good, Record
<1>1. p = h2d[1] /\ p \in Packet /\ 1 \in 1..Len(h2d)
  BY <1>0, TailIs
<1>2. p.cmd # "SYNC0" => c \in Clients /\ p.data \in Seq(Item)
  BY <1>1, PacketIs
<1>3. p.cmd = "OPEN" => Opens(h2d, c) # {}
  BY <1>1 DEF Opens
<1>4. ASSUME d2h' = d2h \/ (p.cmd # "SYNC0" /\ (Reply("OKAY", c, << >>) \/ Reply("CLSE", c, << >>))),
             \A b \in Clients : dev'[b].sent = dev[b].sent,
             \A b \in Clients : dev'[b].st # "none" => (p.cmd = "OPEN" /\ b = c) \/ dev[b].st # "none"
      PROVE  OrderInv'
  <2>1. d2h' = d2h \/ \E a \in Packet : d2h' = Append(d2h, a) /\ a.cmd # "WRTE"
    BY <1>2, <1>4, ReplyIs
  <2> HIDE DEF p, c
  <2> QED
    BY <1>0, <1>3, <1>4, <2>1, AnswerOrder
<1>5. CASE /\ p.cmd = "OPEN" /\ Reply("OKAY", c, << >>)
           /\ dev' = [dev EXCEPT ![c] = [@ EXCEPT !.st = "open", !.may = TRUE]]
  <2>1. \A b \in Clients : dev'[b].sent = dev[b].sent /\ (dev'[b].st = dev[b].st \/ b = c)
    BY <1>0, <1>5 DEF DevSet
  <2> QED
    BY <1>4, <1>5, <2>1
<1>6. CASE p.cmd = "OPEN" /\ Reply("CLSE", c, << >>) /\ dev' = [dev EXCEPT ![c].st = "closed"]
  <2>1. \A b \in Clients : dev'[b].sent = dev[b].sent /\ (dev'[b].st = dev[b].st \/ b = c)
    BY <1>0, <1>6 DEF DevSet
  <2> QED
    BY <1>4, <1>6, <2>1
<1>7. CASE /\ p.cmd = "WRTE" /\ dev[c].st = "open" /\ d2h' = d2h
           /\ dev' = [dev EXCEPT ![c].got = @ \o p.data, ![c].owes = @ + 1]
  <2> DEFINE a == dev[c].got \o p.data
             n == dev[c].owes + 1
  <2>1. dev' = [dev EXCEPT ![c].got = a, ![c].owes = n]
    BY <1>7
  <2> HIDE DEF a, n
  <2>2. \A b \in Clients : dev'[b].sent = dev[b].sent /\ dev'[b].st = dev[b].st
    BY <1>0, <2>1 DEF DevSet
  <2> QED
    BY <1>4, <1>7, <2>2
<1>8. CASE /\ p.cmd = "OKAY" /\ dev[c].st = "open" /\ d2h' = d2h
           /\ dev' = [dev EXCEPT ![c].may = TRUE]
  <2>1. \A b \in Clients : dev'[b].sent = dev[b].sent /\ dev'[b].st = dev[b].st
    BY <1>0, <1>8 DEF DevSet
  <2> QED
    BY <1>4, <1>8, <2>1
<1>9. CASE /\ p.cmd = "CLSE" /\ dev[c].st = "open" /\ Reply("CLSE", c, << >>)
           /\ dev' = [dev EXCEPT ![c].st = "closed"]
  <2>1. \A b \in Clients : dev'[b].sent = dev[b].sent /\ (dev'[b].st = dev[b].st \/ b = c)
    BY <1>0, <1>9 DEF DevSet
  <2> QED
    BY <1>4, <1>9, <2>1
<1>10. CASE p.cmd # "OPEN" /\ dev[c].st # "open" /\ UNCHANGED <<d2h, dev>>
  BY <1>4, <1>10
<1> QED
  BY <1>5, <1>6, <1>7, <1>8, <1>9, <1>10 DEF DevTake

LEMMA DevSendOrder == ASSUME IInv, OrderInv, NEW c \in Clients, DevSend(c) PROVE OrderInv'
<1> DEFINE B(n) == [i \in 1..n |-> Byte(Len(dev[c].sent) + i)]
<1>1. PICK n \in 1..MAX_PAYLOAD :
        /\ dev' = [dev EXCEPT ![c].may = FALSE, ![c].sent = @ \o B(n)]
        /\ Reply("WRTE", c, B(n))
  BY DEF DevSend
<1> DEFINE bytes == B(n)
           all == dev[c].sent \o bytes
           p == [cmd |-> "WRTE", id |-> c, data |-> bytes]
<1>2. bytes \in Seq(AnyByte)
  <2>1. n \in Nat /\ Len(dev[c].sent) \in Nat
    BY DevIs, LenProperties, SocketsAssumption
  <2>2. \A i \in 1..n : Byte(Len(dev[c].sent) + i) \in AnyByte
    BY <2>1 DEF Byte, AnyByte
  <2>3. bytes \in [1..n -> AnyByte]
    BY <2>2
  <2> HIDE DEF bytes
  <2> QED
    BY <2>1, <2>3, SeqDef
<1>3. dev' = [dev EXCEPT ![c].may = FALSE, ![c].sent = all] /\ d2h' = Append(d2h, p)
  BY <1>1 DEF Reply
<1>4. /\ tr = "on" /\ DevStep /\ h2d' = h2d /\ dev[c].st = "open" /\ IInv' /\ dev \in DevSet
      /\ d2h \in Seq(Packet) /\ WritesBytes
  BY DevIs, DevSendStep DEF DevSend, Plugged, OrderInv
<1>5. bytes \in Seq(Item)
  BY <1>2, ItemSeq
<1> HIDE DEF bytes, B
<1>6. p \in Packet /\ p.cmd = "WRTE" /\ p.id = c /\ p.data = bytes
  BY <1>5 DEF Packet
<1> HIDE DEF p
<1>7. WritesBytes'
  <2>1. /\ Len(d2h) \in Nat /\ Len(d2h') = Len(d2h) + 1 /\ d2h'[Len(d2h) + 1] = p
        /\ \A i \in 1..Len(d2h) : d2h'[i] = d2h[i]
    BY <1>3, <1>4, <1>6, AppendProperties, LenProperties
  <2>2. \A i \in 1..Len(d2h') : i \in 1..Len(d2h) \/ i = Len(d2h) + 1
    BY <2>1
  <2> QED
    BY <1>2, <1>4, <1>6, <2>1, <2>2 DEF WritesBytes
<1>8. ASSUME NEW b \in Clients
      PROVE  InFlight(d2h', b) = InFlight(d2h, b) \o Carried(p, b)
  BY <1>3, <1>4, <1>6, InFlightFacts
<1>9. /\ dev'[c].sent = all /\ \A b \in Clients : b # c => dev'[b].sent = dev[b].sent
      /\ \A b \in Clients : dev'[b].st = dev[b].st
  <2> HIDE DEF all
  <2> QED
    BY <1>3, <1>4 DEF DevSet
<1>10. ASSUME NEW b \in Clients
       PROVE  \E e \in Seq(Item) : /\ dev'[b].sent = dev[b].sent \o e
                                   /\ InFlight(d2h', b) = InFlight(d2h, b) \o e
  <2>1. CASE b = c
    <3>1. Carried(p, b) = bytes
      BY <1>6, <2>1 DEF Carried
    <3> QED
      BY <1>5, <1>8, <1>9, <2>1, <3>1
  <2>2. CASE b # c
    <3> DEFINE e == << >>
    <3>1. Carried(p, b) = e
      BY <1>6, <2>2 DEF Carried
    <3>2. e \in Seq(Item) /\ dev[b].sent \o e = dev[b].sent
      BY DevIs, ItemSeq
    <3> HIDE DEF e
    <3> QED
      BY <1>8, <1>9, <2>2, <3>1, <3>2
  <2> QED
    BY <2>1, <2>2
<1> QED
  BY <1>4, <1>7, <1>9, <1>10, DeviceOrder

LEMMA NothingInFlight == \A c : InFlight(<< >>, c) = << >>
<1> DEFINE e == << >>
<1>1. e \in Seq(Packet) /\ e \in Seq(Seq(Item)) /\ Len(e) = 0
  BY EmptySeq
<1>2. \A ss \in Seq(Seq(Item)) : Len(ss) = 0 => ss = e
  BY EmptySeq
<1>3. PICK f : Flows(e, f)
  BY <1>1, FlowsExists
<1>4. f[0] = e
  BY <1>3 DEF Flows
<1> HIDE DEF e
<1>5. FlattenSeq(e) = e
  BY <1>1, <1>3, <1>4, FlattenRuns
<1>6. ASSUME NEW c PROVE InFlight(e, c) = e
  <2>1. /\ Loads(e, c) \in Seq(Seq(Item)) /\ InFlight(e, c) = FlattenSeq(Loads(e, c))
        /\ Len(Loads(e, c)) = 0
    BY <1>1, LoadsIs
  <2> QED
    BY <1>2, <1>5, <2>1
<1> QED
  BY <1>6 DEF e

LEMMA InitOrder == Init => OrderInv
<1> SUFFICES ASSUME Init PROVE OrderInv
  OBVIOUS
<1> DEFINE e == << >>
<1>1. /\ sk = [l \in Locals |-> Blank("absent")] /\ h2d = e /\ d2h = e
      /\ toProc = [l \in Locals |-> e]
      /\ cl = [c \in Clients |-> [script |-> e, pos |-> 0, got |-> e]]
      /\ dev = [c \in Clients |-> [st |-> "none", may |-> FALSE, owes |-> 0, sent |-> e, got |-> e]]
  BY DEF Init
<1>2. /\ e \in Seq(Item) /\ e \in Seq(AnyByte) /\ Len(e) = 0 /\ Data(e) = e /\ e \o e = e
  BY EmptySeq, DataFacts, ItemSeq
<1>3. \A c : InFlight(e, c) = e
  BY NothingInFlight
<1>4. Blank("absent").q = e
  BY DEF Blank
<1>5. Starts(e, e)
  BY StartsFacts, ItemSeq
<1> HIDE DEF e
<1>6. WritesBytes /\ \A c : Opens(h2d, c) = {}
  BY <1>1, <1>2 DEF WritesBytes, Opens
<1>7. ASSUME NEW c \in Clients
      PROVE  Ordered(W, c, dev[c], cl[c].got) /\ Whole(W, c, d2h, dev[c], cl[c].got)
  <2>1. /\ sk[c].q = e /\ toProc[c] = e /\ cl[c].got = e /\ dev[c].sent = e /\ dev[c].st = "none"
    BY <1>1, <1>4 DEF Locals
  <2>2. Held(W, c) = e
    BY <1>2, <2>1, WIs DEF Held
  <2>3. Data(cl[c].got) \o Held(W, c) = e
    BY <1>2, <2>1, <2>2
  <2> QED
    BY <1>1, <1>2, <1>3, <1>5, <1>6, <2>1, <2>3, WIs DEF Ordered, Whole
<1> QED
  BY <1>6, <1>7 DEF OrderInv

LEMMA NextOrder == IInv /\ OrderInv /\ [Next]_vars => OrderInv'
<1> SUFFICES ASSUME IInv, OrderInv, [Next]_vars PROVE OrderInv'
  OBVIOUS
<1>1. CASE MainPacket
  BY <1>1, MainPacketOrder
<1>2. CASE Offline
  BY <1>2, OfflineOrder
<1>3. CASE CloseAll
  BY <1>3, CloseAllOrder
<1>4. CASE FreeTransport
  BY <1>4, FreeTransportOrder
<1>5. ASSUME NEW l \in Locals, Signal(l) \/ Callback(l) PROVE OrderInv'
  BY <1>5, SignalOrder, CallbackOrder
<1>6. ASSUME NEW c \in Clients, Accept(c) \/ AcceptForward(c) PROVE OrderInv'
  BY <1>6, AcceptOrder, AcceptForwardOrder
<1>7. CASE \/ \E c \in Clients : ClientSend(c) \/ ClientRead(c) \/ ClientLeave(c)
           \/ \E s \in Services : ServiceAnswer(s)
  BY <1>7, ProcessOrder
<1>8. ASSUME NEW c \in Clients, DevReady(c) \/ DevSend(c) \/ DevClose(c) PROVE OrderInv'
  BY <1>8, AnsweringOrder, DevSendOrder
<1>9. CASE DevTake
  BY <1>9, DevTakeOrder
<1>10. CASE Unplug
  BY <1>10, UnplugOrder
<1>11. CASE UNCHANGED vars
  BY <1>11, SameOrder DEF vars
<1> QED
  BY <1>1, <1>2, <1>3, <1>4, <1>5, <1>6, <1>7, <1>8, <1>9, <1>10, <1>11 DEF Next

-----------------------------------------------------------------------------
(* The theorems *)

LEMMA InitIInv == Init => IInv
<1> SUFFICES ASSUME Init PROVE IInv
  OBVIOUS
<1> DEFINE e == << >>
<1>0. e \in Seq(Item) /\ e \in Seq(Packet) /\ Len(e) = 0
  BY EmptySeq
<1>1. Blank("absent") \in Socket /\ Blank("absent").peer = None /\ Blank("absent").on = "absent"
      /\ \A l : SockOK(l, Blank("absent"))
  BY BlankOK DEF Blank
<1>2. /\ sk = [l \in Locals |-> Blank("absent")] /\ disc = {} /\ tr = "on" /\ h2d = e /\ d2h = e
      /\ toProc = [l \in Locals |-> e] /\ toServer = [l \in Locals |-> e] /\ gone = {} /\ bad = FALSE
      /\ cl = [c \in Clients |-> [script |-> e, pos |-> 0, got |-> e]]
      /\ dev = [c \in Clients |-> [st |-> "none", may |-> FALSE, owes |-> 0, sent |-> e, got |-> e]]
  BY DEF Init
<1> HIDE DEF e
<1>3. W \in Record
  BY <1>0, <1>1, <1>2 DEF W, Record
<1>4. SkOK(sk, disc)
  BY <1>1, <1>2, Distinct DEF SkOK
<1>5. Good(W)
  BY <1>3, <1>4, WIs DEF Good
<1>6. RestOK
  BY <1>0, <1>2 DEF RestOK
<1>7. TransOK
  BY <1>2 DEF TransOK
<1>8. ASSUME NEW c \in Clients PROVE StreamOK(c)
  <2>1. sk[c].on = "absent" /\ dev[c].st = "none"
    BY <1>1, <1>2, Distinct
  <2>2. Opens(h2d, c) = {} /\ 1..Len(d2h) = {}
    BY <1>0, <1>2 DEF Opens
  <2> QED
    BY <2>1, <2>2 DEF StreamOK, StreamAt
<1> QED
  BY <1>2, <1>5, <1>6, <1>7, <1>8 DEF IInv

LEMMA NextIInv == IInv /\ [Next]_vars => IInv'
<1> SUFFICES ASSUME IInv, [Next]_vars PROVE IInv'
  OBVIOUS
<1>1. CASE MainPacket
  BY <1>1, MainPacketStep
<1>2. CASE Offline
  BY <1>2, OfflineStep
<1>3. CASE CloseAll
  BY <1>3, CloseAllStep
<1>4. CASE FreeTransport
  BY <1>4, FreeTransportStep
<1>5. ASSUME NEW l \in Locals, Signal(l) \/ Callback(l) PROVE IInv'
  BY <1>5, SignalStep, CallbackStep
<1>6. ASSUME NEW c \in Clients, Accept(c) \/ AcceptForward(c) PROVE IInv'
  BY <1>6, AcceptStep, AcceptForwardStep
<1>7. ASSUME NEW c \in Clients, ClientSend(c) \/ ClientRead(c) \/ ClientLeave(c) PROVE IInv'
  BY <1>7, ClientStep
<1>8. ASSUME NEW s \in Services, ServiceAnswer(s) PROVE IInv'
  BY <1>8, ServiceStep
<1>9. ASSUME NEW c \in Clients, DevReady(c) \/ DevSend(c) \/ DevClose(c) PROVE IInv'
  BY <1>9, DevReadyStep, DevSendStep, DevCloseStep
<1>10. CASE DevTake
  BY <1>10, DevTakeStep
<1>11. CASE Unplug
  BY <1>11, UnplugStep
<1>12. CASE UNCHANGED vars
  <2>1. W' = W /\ UNCHANGED <<sk, disc, tr, h2d, d2h, toServer, gone, cl, dev, bad>>
    BY <1>12 DEF vars, W
  <2>2. TransOK' /\ RestOK'
    BY <2>1 DEF IInv, TransOK, RestOK
  <2>3. tr = "on" => \A c \in Clients : StreamOK(c)'
    BY <2>1 DEF IInv, StreamOK
  <2> QED
    BY <2>1, <2>2, <2>3 DEF IInv
<1> QED
  BY <1>1, <1>2, <1>3, <1>4, <1>5, <1>6, <1>7, <1>8, <1>9, <1>10, <1>11, <1>12 DEF Next

LEMMA AlwaysIInv == Spec => []IInv
  BY InitIInv, NextIInv, PTL DEF Spec

\* Whatever the clients, the services and the device do, and in whatever order their streams
\* are closed: peers point at each other, the transport's disconnect list holds exactly the
\* remote sockets, and a socket has a peer only while it is on the list (sockets.cpp,
\* local_socket_close_locked, remote_socket_close, handle_packet A_OKAY).
THEOREM PointersSafe == Spec => []PeersLinked
<1>1. IInv => PeersLinked
  BY WIs, Distinct DEF IInv, Good, SkOK, SockOK, PeersLinked, Locals
<1> QED
  BY <1>1, AlwaysIInv, PTL

\* No socket on the list keeps a freed transport, by itself or through its smart socket
\* (close_all_sockets).
THEOREM TransportForgotten == Spec => []TransportUnused
<1>1. IInv => TransportUnused
  BY DEF IInv, TransOK, Uses, TransportUnused
<1> QED
  BY <1>1, AlwaysIInv, PTL

\* Only sockets are named in the log.
LEMMA LogStep == traced \subseteq Locals /\ [Next]_vars => (traced \subseteq Locals)'
<1> SUFFICES ASSUME traced \subseteq Locals, [Next]_vars PROVE traced' \subseteq Locals
  OBVIOUS
<1>1. CASE traced' = traced
  BY <1>1
<1>2. ASSUME NEW l \in Locals, Callback(l) PROVE traced' \subseteq Locals
  <2>1. traced' = traced \/ traced' = traced \cup {l}
    BY <1>2 DEF Callback
  <2> QED
    BY <2>1
<1>3. CASE UNCHANGED vars
  BY <1>1, <1>3 DEF vars
<1>4. ASSUME NEW l \in Locals, Signal(l) PROVE traced' = traced
  BY <1>4 DEF Signal
<1>5. CASE MainPacket \/ Offline \/ CloseAll \/ FreeTransport
  BY <1>1, <1>5 DEF MainPacket, Offline, CloseAll, FreeTransport
<1>6. ASSUME NEW c \in Clients,
             \/ Accept(c) \/ AcceptForward(c) \/ ClientSend(c) \/ ClientRead(c)
             \/ ClientLeave(c) \/ DevReady(c) \/ DevSend(c) \/ DevClose(c)
      PROVE  traced' = traced
  BY <1>6 DEF Accept, AcceptForward, ClientSend, ClientRead, ClientLeave, DevReady, DevSend,
              DevClose, DevStep
<1>7. ASSUME NEW s \in Services, ServiceAnswer(s) PROVE traced' = traced
  BY <1>7 DEF ServiceAnswer
<1>8. CASE DevTake \/ Unplug
  BY <1>1, <1>8 DEF DevTake, Unplug, DevStep
<1> QED
  BY <1>1, <1>2, <1>3, <1>4, <1>5, <1>6, <1>7, <1>8 DEF Next

LEMMA AlwaysLogged == Spec => [](traced \subseteq Locals)
<1>1. Init => traced \subseteq Locals
  BY DEF Init
<1> QED
  BY <1>1, LogStep, PTL DEF Spec

\* Where no host service is asked for, no handler goes on with a socket that one of its calls
\* has freed, and no backlog is written for a socket without a peer: a WRTE never finds a
\* socket that waits for its OKAY.  What the log is told of a socket that a smart socket has
\* just closed (sockets.cpp 361) is apart: NoUseAfterFree leaves that line out.
THEOREM SocketsSafe ==
    ASSUME Services = {}
    PROVE  Spec => []SocketsInv
<1>1. IInv /\ traced \subseteq Locals => SocketsInv
  BY WIs DEF IInv, RestOK, Good, Record, SocketsInv, TypeOK, NoUseAfterFree
<1> QED
  BY <1>1, AlwaysIInv, AlwaysLogged, PTL

\* Whatever closes, leaves or is unplugged: on a stream that is open at both ends the
\* permission of each end to send is in one place, so one packet is on its way in each
\* direction, and no socket keeps more than one packet of backlog (local_socket_enqueue,
\* local_socket_ready, handle_packet A_OKAY and A_WRTE).
THEOREM FlowControlled == Spec => []FlowControl
<1>1. ASSUME IInv, CreditInv, NEW c \in Clients, Open(c)
      PROVE  /\ One(dev[c].may) + Writes(d2h, c) + Backlog(sk[c]) + Okays(h2d, c) = 1
             /\ Reads(sk[c]) + Writes(h2d, c) + dev[c].owes + Okays(d2h, c) = 1
  <2>1. c \in Locals /\ sk[c].peer = Remote /\ dev[c].st = "open" /\ tr = "on"
    BY <1>1, Distinct DEF Open, Plugged
  <2>2. sk[c].on = "list"
    BY <1>1, <2>1, WIs, Distinct DEF IInv, Good, SkOK, SockOK
  <2> QED
    BY <1>1, <2>1, <2>2 DEF CreditInv, Account
<1>2. IInv /\ CreditInv => FlowControl
  <2> SUFFICES ASSUME IInv, CreditInv PROVE FlowControl
    OBVIOUS
  <2>1. DeviceCredit
    BY <1>1 DEF DeviceCredit, Writes, Okays, Backlog
  <2>2. ClientCredit
    BY <1>1 DEF ClientCredit, Writes, Okays, Reads
  <2>3. BacklogBounded
    BY DEF CreditInv, Saving, BacklogBounded
  <2> QED
    BY <2>1, <2>2, <2>3 DEF FlowControl
<1>3. Init => CreditInv
  BY InitCredit
<1>4. IInv /\ CreditInv /\ [Next]_vars => CreditInv'
  BY NextCredit
<1> QED
  BY <1>2, <1>3, <1>4, AlwaysIInv, PTL DEF Spec

\* However slowly a client reads and whoever closes first: what the device sent reaches the
\* client in order and without a gap.  What the client received, what the kernel and the
\* backlog hold for it and the WRTE packets on the way are together what the device sent while
\* the stream is open, and a beginning of it afterwards (local_socket_enqueue,
\* local_socket_event_func, handle_packet A_WRTE, the closing list of local_socket_close_locked).
THEOREM ToClientWhole == Spec => []ToClientInOrder
<1>1. ASSUME IInv, OrderInv, NEW c \in Clients
      PROVE  LET arrived == Data(cl[c].got) \o Data(toProc[c]) \o sk[c].q
             IN  IF sk[c].peer = Remote THEN arrived \o InFlight(d2h, c) = dev[c].sent
                 ELSE dev[c].st # "none" => IsPrefix(arrived, dev[c].sent)
  <2> DEFINE A == Data(cl[c].got) \o Held(W, c)
  <2>1. /\ Ordered(W, c, dev[c], cl[c].got) /\ (tr = "on" => Whole(W, c, d2h, dev[c], cl[c].got))
        /\ dev[c].sent \in Seq(Item) /\ W \in Record /\ cl[c].got \in Seq(Item) /\ c \in Locals
    BY <1>1, OrderIs DEF Good
  <2>2. A \in Seq(Item)
    BY <2>1, OrderedIs
  <2>3. CASE Known(W, c, dev[c].st)
    <3>1. sk[c].q \in Seq(AnyByte) /\ Starts(A, dev[c].sent)
      BY <2>1, <2>3, WIs DEF Ordered
    <3>2. Data(cl[c].got) \o Data(toProc[c]) \o sk[c].q = A
      <4>1. PICK q \in Seq(Item) : q = sk[c].q /\ Data(q) = q
        BY <3>1, DataFacts, ItemSeq
      <4>2. PICK g \in Seq(Item), t \in Seq(Item) : g = Data(cl[c].got) /\ t = Data(toProc[c])
        BY <2>1, WIs, HeldIs, DataFacts
      <4>3. (g \o t) \o q = g \o (t \o q)
        BY ItemSeq
      <4> QED
        BY <4>1, <4>2, <4>3, WIs DEF Held
    <3>3. IsPrefix(A, dev[c].sent)
      BY <2>1, <2>2, <3>1, StartsIsPrefix
    <3>4. sk[c].peer = Remote => A \o InFlight(d2h, c) = dev[c].sent
      <4>1. sk[c].peer = Remote => sk[c].on = "list" /\ c \in disc
        BY <1>1, <2>1, WIs, Distinct DEF IInv, Good, SkOK, SockOK
      <4>2. sk[c].peer = Remote => tr = "on"
        BY <1>1, <4>1 DEF IInv, TransOK
      <4> QED
        BY <2>1, <4>1, <4>2, WIs, Distinct DEF Whole, Locals
    <3> HIDE DEF A
    <3> QED
      BY <3>2, <3>3, <3>4
  <2>4. CASE ~Known(W, c, dev[c].st)
    <3>1. sk[c].peer # Remote
      BY <1>1, <2>1, <2>4, WIs, Distinct DEF Known, IInv, Good, SkOK, SockOK, Locals
    <3>2. dev[c].st = "none"
      BY <2>4 DEF Known
    <3> QED
      BY <3>1, <3>2
  <2> QED
    BY <2>3, <2>4
<1>2. IInv /\ OrderInv => ToClientInOrder
  BY <1>1 DEF ToClientInOrder
<1>3. Init => OrderInv
  BY InitOrder
<1>4. IInv /\ OrderInv /\ [Next]_vars => OrderInv'
  BY NextOrder
<1> QED
  BY <1>2, <1>3, <1>4, AlwaysIInv, PTL DEF Spec

\* No handler sends a packet to a transport that is off line: by then no remote socket is
\* left to send one (handle_offline, run_transport_disconnects), and requests are refused.
THEOREM SilentOffline == Spec => NoSendOffline
<1>1. ASSUME IInv, Next, tr # "on" PROVE h2d' = h2d
  <2>0. disc = {}
    BY <1>1 DEF IInv, TransOK
  <2>1. CASE MainPacket
    BY <1>1, <2>1, WIs DEF MainPacket, Becomes
  <2>2. CASE Offline \/ CloseAll \/ FreeTransport
    BY <2>2 DEF Offline, CloseAll, FreeTransport, Becomes, W
  <2>3. ASSUME NEW l \in Locals, Signal(l) \/ Callback(l) PROVE h2d' = h2d
    <3>1. CASE Signal(l)
      BY <3>1 DEF Signal
    <3>2. CASE Callback(l)
      <4>1. PICK v : Safe(W, v) /\ Becomes(v)
        BY <1>1, <3>2, CallbackSafe
      <4> QED
        BY <1>1, <2>0, <4>1, WIs DEF Safe, Tame, Becomes
    <3> QED
      BY <2>3, <3>1, <3>2
  <2>4. ASSUME NEW c \in Clients, Accept(c) \/ AcceptForward(c) PROVE h2d' = h2d
    BY <1>1, <2>4 DEF Accept, AcceptForward
  <2>5. ASSUME NEW c \in Clients, ClientSend(c) \/ ClientRead(c) \/ ClientLeave(c) PROVE h2d' = h2d
    BY <2>5 DEF ClientSend, ClientRead, ClientLeave
  <2>6. ASSUME NEW s \in Services, ServiceAnswer(s) PROVE h2d' = h2d
    BY <2>6 DEF ServiceAnswer
  <2>7. ASSUME NEW c \in Clients, DevReady(c) \/ DevSend(c) \/ DevClose(c) PROVE h2d' = h2d
    BY <2>7 DEF DevReady, DevSend, DevClose
  <2>8. CASE DevTake \/ Unplug
    BY <1>1, <2>8 DEF DevTake, Unplug, Plugged
  <2> QED
    BY <1>1, <2>1, <2>2, <2>3, <2>4, <2>5, <2>6, <2>7, <2>8 DEF Next
<1>2. IInv /\ [Next]_vars => [tr # "on" => h2d' = h2d]_vars
  BY <1>1
<1> QED
  BY <1>2, AlwaysIInv, PTL DEF Spec, NoSendOffline
=============================================================================
