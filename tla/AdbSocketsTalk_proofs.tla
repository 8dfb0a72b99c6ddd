------------------------ MODULE AdbSocketsTalk_proofs ------------------------
(***************************************************************************)
(* Proofs about what the clients of AdbSockets and the server say to each  *)
(* other, for any clients, services and sizes, and any scripts that are    *)
(* Polite: what a client sends reaches the device in order and without a   *)
(* gap, and each request is answered by one status, before the first byte  *)
(* of a stream.  The server counts neither requests nor statuses, so the   *)
(* invariant keeps an account of both for each client, and each call has a *)
(* lemma that says which turn of the conversation it takes.                *)
(***************************************************************************)
EXTENDS AdbSockets_proofs

-----------------------------------------------------------------------------
(* Counting what travels *)

\* The places of the items of some kinds.
Spots(s, S) == {i \in DOMAIN s : s[i][1] \in S}

LEMMA SpotsIs ==
    ASSUME NEW s \in Seq(Item), NEW S
    PROVE  /\ Len(s) \in Nat /\ DOMAIN s = 1..Len(s)
           /\ Spots(s, S) \subseteq 1..Len(s) /\ IsFiniteSet(Spots(s, S))
           /\ Count(s, S) = Cardinality(Spots(s, S)) /\ Count(s, S) \in Nat
<1>1. Len(s) \in Nat /\ DOMAIN s = 1..Len(s)
  BY LenProperties
<1>2. IsFiniteSet(1..Len(s))
  BY <1>1, FS_Interval
<1>3. Spots(s, S) \in SUBSET (1..Len(s))
  BY <1>1 DEF Spots
<1>4. IsFiniteSet(Spots(s, S))
  BY <1>2, <1>3, FS_Subset
<1> QED
  BY <1>1, <1>3, <1>4, FS_CardinalityType DEF Count, Spots

\* There are none, or there is one.
LEMMA CountZero ==
    ASSUME NEW s \in Seq(Item), NEW S
    PROVE  /\ Count(s, S) = 0 <=> \A i \in 1..Len(s) : s[i][1] \notin S
           /\ Count(s, S) > 0 <=> \E i \in 1..Len(s) : s[i][1] \in S
<1>1. Spots(s, S) = {} <=> \A i \in 1..Len(s) : s[i][1] \notin S
  BY SpotsIs DEF Spots
<1>2. Count(s, S) = 0 <=> Spots(s, S) = {}
  BY SpotsIs, FS_EmptySet
<1>3. Count(s, S) \in Nat
  BY SpotsIs
<1>4. Count(s, S) > 0 <=> Count(s, S) # 0
  BY <1>3
<1> QED
  BY <1>1, <1>2, <1>4

LEMMA CountConcat ==
    ASSUME NEW s \in Seq(Item), NEW t \in Seq(Item), NEW S
    PROVE  Count(s \o t, S) = Count(s, S) + Count(t, S)
<1> DEFINE u == s \o t
           A == Spots(s, S)
           B == Spots(t, S)
           U == Spots(u, S)
           m == Len(s)
           n == Len(t)
           f == [i \in B |-> m + i]
<1>1. /\ u \in Seq(Item) /\ Len(u) = m + n /\ m \in Nat /\ n \in Nat
      /\ \A i \in 1..m : u[i] = s[i]
      /\ \A i \in 1..n : u[m + i] = t[i]
  <2>1. u \in Seq(Item) /\ Len(u) = m + n /\ \A i \in 1..(m + n) : u[i] = IF i <= m THEN s[i] ELSE t[i - m]
    BY ConcatProperties
  <2>2. m \in Nat /\ n \in Nat
    BY LenProperties
  <2> HIDE DEF u, m, n
  <2>3. ASSUME NEW i \in 1..m PROVE u[i] = s[i]
    BY <2>1, <2>2
  <2>4. ASSUME NEW i \in 1..n PROVE u[m + i] = t[i]
    <3>1. m + i \in 1..(m + n) /\ ~(m + i <= m) /\ (m + i) - m = i
      BY <2>2
    <3> QED
      BY <2>1, <3>1
  <2> QED
    BY <2>1, <2>2, <2>3, <2>4
<1>2. DOMAIN u = 1..(m + n) /\ DOMAIN s = 1..m /\ DOMAIN t = 1..n
  BY <1>1, LenProperties
<1>3. IsFiniteSet(A) /\ IsFiniteSet(B) /\ IsFiniteSet(U) /\ A \subseteq 1..m /\ B \subseteq 1..n
  BY <1>1, SpotsIs
<1> HIDE DEF u, m, n
<1>4. A \subseteq U
  BY <1>1, <1>2 DEF Spots
<1>5. U \ A = {m + i : i \in B}
  <2>1. ASSUME NEW i \in B PROVE m + i \in U \ A
    <3>1. i \in 1..n /\ m + i \in 1..(m + n) /\ m + i \notin 1..m
      BY <1>1, <1>3
    <3>2. u[m + i] = t[i] /\ t[i][1] \in S
      BY <1>1, <3>1 DEF Spots
    <3> QED
      BY <1>2, <3>1, <3>2 DEF Spots
  <2>2. ASSUME NEW i \in U \ A PROVE \E j \in B : i = m + j
    <3>1. i \in 1..(m + n) /\ u[i][1] \in S
      BY <1>2 DEF Spots
    <3>2. i \notin 1..m
      BY <1>1, <1>2, <3>1 DEF Spots
    <3>3. i - m \in 1..n /\ i = m + (i - m)
      BY <1>1, <3>1, <3>2
    <3>4. t[i - m] = u[i]
      BY <1>1, <3>3
    <3>5. i - m \in B
      BY <1>2, <3>1, <3>3, <3>4 DEF Spots
    <3> QED
      BY <3>3, <3>5
  <2> QED
    BY <2>1, <2>2
<1> HIDE DEF A, B, U
<1>6. f \in Bijection(B, U \ A)
  BY <1>1, <1>3, <1>5 DEF Bijection, Injection, Surjection, IsInjective
<1>7. Cardinality(U \ A) = Cardinality(B) /\ IsFiniteSet(U \ A)
  BY <1>3, <1>6, FS_Bijection DEF ExistsBijection
<1>8. Cardinality(U) = Cardinality(A) + Cardinality(U \ A)
  <2>1. U = A \cup (U \ A) /\ A \cap (U \ A) = {}
    BY <1>4
  <2>2. Cardinality(A \cup (U \ A)) =
          Cardinality(A) + Cardinality(U \ A) - Cardinality(A \cap (U \ A))
    BY <1>3, <1>7, FS_Union
  <2>3. Cardinality({}) = 0 /\ Cardinality(A) \in Nat /\ Cardinality(U \ A) \in Nat
    BY <1>3, <1>7, FS_EmptySet, FS_CardinalityType
  <2>4. PICK a \in Nat, b \in Nat : a = Cardinality(A) /\ b = Cardinality(U \ A)
    BY <2>3
  <2>5. Cardinality(U) = a + b - 0
    BY <2>1, <2>2, <2>3, <2>4
  <2>6. a + b - 0 = a + b
    OBVIOUS
  <2> QED
    BY <2>4, <2>5, <2>6
<1>9. Count(u, S) = Cardinality(U) /\ Count(s, S) = Cardinality(A) /\ Count(t, S) = Cardinality(B)
  BY <1>1, SpotsIs DEF A, B, U
<1> QED
  BY <1>7, <1>8, <1>9 DEF u

\* A kind is counted with any set of kinds it is in.
LEMMA CountMore ==
    ASSUME NEW s \in Seq(Item), NEW S, NEW T, S \subseteq T
    PROVE  Count(s, S) <= Count(s, T)
<1>1. Spots(s, S) \subseteq Spots(s, T)
  BY DEF Spots
<1> QED
  BY <1>1, SpotsIs, FS_Subset

LEMMA CountOne ==
    ASSUME NEW x \in Item, NEW S
    PROVE  /\ <<x>> \in Seq(Item) /\ Count(<<x>>, S) = One(x[1] \in S)
           /\ \A s \in Seq(Item) : Append(s, x) = s \o <<x>>
<1>1. <<x>> \in Seq(Item) /\ Len(<<x>>) = 1 /\ <<x>>[1] = x
  OBVIOUS
<1>2. Spots(<<x>>, S) = IF x[1] \in S THEN {1} ELSE {}
  BY DEF Spots
<1>3. Cardinality({1}) = 1 /\ Cardinality({}) = 0
  BY FS_Singleton, FS_EmptySet
<1>4. Count(<<x>>, S) = One(x[1] \in S)
  BY <1>1, <1>2, <1>3, SpotsIs DEF One
<1> QED
  BY <1>1, <1>4, AppendIsConcat

LEMMA CountAppend ==
    ASSUME NEW s \in Seq(Item), NEW x \in Item, NEW S
    PROVE  Count(Append(s, x), S) = Count(s, S) + One(x[1] \in S)
<1>1. <<x>> \in Seq(Item) /\ Count(<<x>>, S) = One(x[1] \in S)
  BY CountOne
<1>2. Append(s, x) = s \o <<x>>
  BY CountOne
<1>3. Count(s \o <<x>>, S) = Count(s, S) + Count(<<x>>, S)
  BY <1>1, CountConcat
<1> QED
  BY <1>1, <1>2, <1>3

LEMMA CountEmpty == \A S : Count(<< >>, S) = 0
<1> SUFFICES ASSUME NEW S PROVE Count(<< >>, S) = 0
  OBVIOUS
<1>1. << >> \in Seq(Item) /\ 1..Len(<< >>) = {}
  BY EmptySeq
<1> QED
  BY <1>1, CountZero

-----------------------------------------------------------------------------
(* What a client and the server say to each other *)

\* What the server does not keep: what client c has to send, what it has sent, what of it the
\* server has not read, and what the client has received.
TalkSet == [script : Seq(Item), sent : Seq(Item), line : Seq(Item), got : Seq(Item)]
Talk(c) == [script |-> cl[c].script, sent |-> SubSeq(cl[c].script, 1, cl[c].pos),
            line |-> toServer[c], got |-> cl[c].got]

\* The client makes requests, waits for the device to answer an OPEN, or has its stream or
\* its host service.
Asking(s)  == s.on = "list" /\ s.peer = Smart
Waiting(s) == s.on = "list" /\ s.peer = None
Bound(s)   == s.on = "closing" \/ (s.on = "list" /\ s.peer \in Services \cup {Remote})

Words == {"OKAY", "FAIL"}
All(w, c, e) == e.got \o w.toProc[c]
Wanted(e) == Count(e.sent, Awaited)

\* While a client makes requests, those the server has not acted on are the last it has sent,
\* each of them is still to be answered, and the last of all is among them.
AskingOK(w, c, e) == Asking(w.sk[c]) =>
    /\ Count(e.sent, {"byte"}) = 0 /\ Count(All(w, c, e), {"byte"}) = 0
    /\ \E u \in Seq(Item) : e.sent = u \o (w.sk[c].req \o e.line)
    /\ Count(All(w, c, e), Words) + Count(w.sk[c].req \o e.line, Awaited) <= Wanted(e)
    /\ Count(e.sent, Finals) > 0 => w.sk[c].req \o e.line # << >>
    /\ e.script # << >> /\ e.script[1][1] # "forward"

\* While it waits, one answer is missing, unless it has not asked.
WaitingOK(w, c, e) == Waiting(w.sk[c]) =>
    /\ Count(e.sent, Finals) > 0 /\ Count(All(w, c, e), {"byte"}) = 0 /\ e.line \in Seq(AnyByte)
    /\ Count(All(w, c, e), Words) + One(w.sk[c].notify) <= Wanted(e)
    /\ Wanted(e) <= Count(All(w, c, e), {"OKAY"}) + One(w.sk[c].notify)

\* Then every request was answered.
BoundOK(w, c, e) == Bound(w.sk[c]) =>
    /\ Count(e.sent, Finals) > 0
    /\ c \notin gone => Count(All(w, c, e), {"OKAY"}) = Wanted(e)
    /\ w.sk[c].peer = Remote => e.line \in Seq(AnyByte)

\* What the client gets: StatusFirst.
AnswersOK(all, e) ==
    /\ \A i, j \in 1..Len(all) : i < j /\ all[j][1] \in Words => all[i][1] # "byte"
    /\ e.script # << >> /\ Last(e.script) # Word("devices") => Count(all, Words) <= Wanted(e)
    /\ Count(all, {"byte"}) > 0 => Count(e.sent, Finals) > 0 /\ Count(all, {"OKAY"}) = Wanted(e)

Spoken(w, c, e) == /\ AskingOK(w, c, e) /\ WaitingOK(w, c, e) /\ BoundOK(w, c, e)
                   /\ AnswersOK(All(w, c, e), e)

\* What is known of the part that the server does not keep: a client sends its script, and
\* has no more than one request to be answered.
TalkOK(e) == /\ e \in TalkSet
             /\ \E r \in Seq(Item) : e.script = e.sent \o r
             /\ e.script = << >> \/ Polite(e.script)
             /\ Wanted(e) <= Count(e.got, {"OKAY"}) + 1

\* A socket waits to tell its client only while the client waits, and has bytes to tell.
Fit(w) == \A c \in Clients : /\ w.sk[c].notify => Waiting(w.sk[c])
                             /\ w.sk[c].q \in Seq(AnyByte)

\* What a call may do to client c: nothing, or hand it bytes of its stream; end its
\* socket, with the status it waits for; or begin its stream.
Ended(s, t) == /\ t.on \in {"freed", "closing"} /\ t.peer = None /\ ~t.notify
               /\ t.on = "closing" => Bound(s)
Begun(s, t) == Waiting(s) /\ t.on = "list" /\ t.peer = Remote /\ ~t.notify
Said(w, v, c, b) == v.toProc[c] = w.toProc[c] \o b
Turn(w, v, c) ==
    /\ InFlight(v.h2d, c) = InFlight(w.h2d, c)
    /\ \/ Still(w.sk[c], v.sk[c]) /\ v.toProc[c] = w.toProc[c]
       \/ /\ Still(w.sk[c], v.sk[c]) /\ Bound(w.sk[c]) /\ c \notin gone
          /\ \E b \in Seq(AnyByte) : Said(w, v, c, b)
       \/ Ended(w.sk[c], v.sk[c]) /\ v.toProc[c] = w.toProc[c]
       \/ Ended(w.sk[c], v.sk[c]) /\ w.sk[c].notify /\ Said(w, v, c, <<Word("FAIL")>>)
       \/ /\ Begun(w.sk[c], v.sk[c]) /\ (w.sk[c].notify => c \in gone)
          /\ v.toProc[c] = w.toProc[c]
       \/ Begun(w.sk[c], v.sk[c]) /\ w.sk[c].notify /\ Said(w, v, c, <<Word("OKAY")>>)
Turns(w, v) == Fit(v) /\ \A c \in Clients : Turn(w, v, c)

LEMMA BytesCount ==
    ASSUME NEW b \in Seq(AnyByte)
    PROVE  b \in Seq(Item) /\ \A S : "byte" \notin S => Count(b, S) = 0
<1>1. b \in Seq(Item)
  BY ItemSeq
<1>2. ASSUME NEW i \in 1..Len(b) PROVE b[i][1] = "byte"
  BY <1>2, ElementOfSeq DEF AnyByte
<1>3. ASSUME NEW S, "byte" \notin S PROVE Count(b, S) = 0
  BY <1>1, <1>2, <1>3, CountZero
<1> QED
  BY <1>1, <1>3

LEMMA WordIs ==
    ASSUME NEW word \in Words
    PROVE  /\ Word(word) \in Item /\ Word(word) \notin AnyByte /\ <<Word(word)>> \in Seq(Item)
           /\ \A S : Count(<<Word(word)>>, S) = One(word \in S)
<1>1. Word(word) \in Item /\ Word(word) \notin AnyByte /\ Word(word)[1] = word
  BY DEF Word, Item, AnyByte, Words
<1> HIDE DEF Word
<1> QED
  BY <1>1, CountOne

\* What client c gets when something is written for it.
Counted(u, all, b) == u = all \o b /\ \A S : Count(u, S) = Count(all, S) + Count(b, S)

LEMMA AllSaid ==
    ASSUME NEW w \in Record, NEW v, NEW c \in Clients, NEW e \in TalkSet, NEW b \in Seq(Item),
           Said(w, v, c, b)
    PROVE  All(w, c, e) \in Seq(Item) /\ Counted(All(v, c, e), All(w, c, e), b)
<1>1. w.toProc[c] \in Seq(Item) /\ e.got \in Seq(Item)
  BY DEF Record, Locals, TalkSet
<1>2. All(w, c, e) \in Seq(Item)
  BY <1>1, ItemSeq DEF All
<1>3. All(v, c, e) = All(w, c, e) \o b
  <2>1. PICK g \in Seq(Item), p \in Seq(Item) : g = e.got /\ p = w.toProc[c]
    BY <1>1
  <2>2. (g \o p) \o b = g \o (p \o b)
    BY ItemAssoc
  <2>3. v.toProc[c] = p \o b
    BY <2>1 DEF Said
  <2> QED
    BY <2>1, <2>2, <2>3 DEF All
<1> HIDE DEF All
<1> QED
  BY <1>2, <1>3, CountConcat DEF Counted

\* Bytes behind the answers.
LEMMA AnswersBytes ==
    ASSUME NEW all \in Seq(Item), NEW e, AnswersOK(all, e), NEW b \in Seq(AnyByte),
           Count(e.sent, Finals) > 0, Count(all, {"OKAY"}) = Wanted(e)
    PROVE  AnswersOK(all \o b, e)
<1> DEFINE u == all \o b
<1>1. /\ u \in Seq(Item) /\ \A S : "byte" \notin S => Count(b, S) = 0
      /\ \A i \in 1..Len(b) : b[i][1] = "byte"
  <2>1. ASSUME NEW i \in 1..Len(b) PROVE b[i][1] = "byte"
    BY <2>1, ElementOfSeq DEF AnyByte
  <2> QED
    BY <2>1, BytesCount, ItemSeq
<1>2. \A S : "byte" \notin S => Count(u, S) = Count(all, S)
  <2> SUFFICES ASSUME NEW S, "byte" \notin S PROVE Count(u, S) = Count(all, S)
    OBVIOUS
  <2>1. Count(u, S) = Count(all, S) + Count(b, S) /\ Count(b, S) = 0 /\ Count(all, S) \in Nat
    BY <1>1, BytesCount, CountConcat, SpotsIs
  <2> HIDE DEF u
  <2> QED
    BY <2>1
<1>3. ASSUME NEW i \in 1..Len(u), NEW j \in 1..Len(u), i < j, u[j][1] \in Words
      PROVE  u[i][1] # "byte"
  <2>1. /\ Len(all) \in Nat /\ Len(b) \in Nat /\ Len(u) = Len(all) + Len(b)
        /\ \A k \in 1..(Len(all) + Len(b)) : u[k] = IF k <= Len(all) THEN all[k] ELSE b[k - Len(all)]
    BY BytesCount, ConcatProperties, LenProperties
  <2> HIDE DEF u
  <2>2. j <= Len(all)
    <3> SUFFICES ASSUME ~(j <= Len(all)) PROVE FALSE
      OBVIOUS
    <3>1. u[j] = b[j - Len(all)] /\ j - Len(all) \in 1..Len(b)
      BY <2>1
    <3>2. u[j][1] = "byte"
      BY <1>1, <3>1
    <3> QED
      BY <1>3, <3>2 DEF Words
  <2>3. i \in 1..Len(all) /\ j \in 1..Len(all) /\ u[i] = all[i] /\ u[j] = all[j]
    BY <1>3, <2>1, <2>2
  <2> QED
    BY <1>3, <2>3 DEF AnswersOK
<1>4. "byte" \notin Words /\ "byte" \notin {"OKAY"}
  BY DEF Words
<1> HIDE DEF u
<1> QED
  BY <1>2, <1>3, <1>4 DEF AnswersOK, u

\* A status behind the answers, when there were no bytes.
LEMMA AnswersWord ==
    ASSUME NEW all \in Seq(Item), NEW e, NEW word \in Words, Count(all, {"byte"}) = 0,
           Wanted(e) \in Nat,
           e.script # << >> /\ Last(e.script) # Word("devices") => Count(all, Words) + 1 <= Wanted(e)
    PROVE  AnswersOK(all \o <<Word(word)>>, e)
<1> DEFINE u == all \o <<Word(word)>>
<1>1. u \in Seq(Item) /\ \A S : Count(u, S) = Count(all, S) + One(word \in S)
  <2>1. PICK b \in Seq(Item) : b = <<Word(word)>>
    BY WordIs
  <2>2. \A S : Count(b, S) = One(word \in S)
    BY <2>1, WordIs
  <2>3. \A S : Count(all \o b, S) = Count(all, S) + Count(b, S)
    BY CountConcat
  <2>4. all \o b \in Seq(Item)
    BY ItemSeq
  <2> QED
    BY <2>1, <2>2, <2>3, <2>4
<1> HIDE DEF u
<1>2. Count(u, {"byte"}) = 0 /\ Count(u, Words) = Count(all, Words) + 1
  BY <1>1 DEF One, Words
<1>3. \A i \in 1..Len(u) : u[i][1] # "byte"
  BY <1>1, <1>2, CountZero
<1> QED
  BY <1>2, <1>3 DEF AnswersOK, u

LEMMA PhasesApart ==
    ASSUME NEW s
    PROVE  /\ Bound(s) => ~Asking(s) /\ ~Waiting(s)
           /\ Waiting(s) => ~Asking(s)
  BY Distinct DEF Bound, Asking, Waiting

\* A call that does one of these things keeps what client and server have said in order.
LEMMA TurnKeeps ==
    ASSUME NEW w \in Record, NEW v, NEW c \in Clients, NEW e, TalkOK(e), Spoken(w, c, e),
           w.sk[c].notify \in BOOLEAN, w.sk[c].notify => Waiting(w.sk[c]), Turn(w, v, c)
    PROVE  Spoken(v, c, e)
<1> DEFINE s == w.sk[c]
           t == v.sk[c]
           all == All(w, c, e)
           n == Wanted(e)
<1>0. /\ e \in TalkSet /\ all \in Seq(Item) /\ n \in Nat
      /\ \A S : Count(all, S) \in Nat
      /\ Count(all, {"OKAY"}) <= Count(all, Words)
  <2>1. e \in TalkSet /\ e.sent \in Seq(Item)
    BY DEF TalkOK, TalkSet
  <2>2. w.toProc[c] \in Seq(Item) /\ e.got \in Seq(Item)
    BY <2>1 DEF Record, Locals, TalkSet
  <2>3. all \in Seq(Item)
    BY <2>2, ItemSeq DEF All
  <2> HIDE DEF all
  <2> QED
    BY <2>1, <2>3, SpotsIs, CountMore DEF Wanted, Words
<1>1. /\ Bound(s) => ~Asking(s) /\ ~Waiting(s)
      /\ Bound(t) => ~Asking(t) /\ ~Waiting(t)
      /\ Waiting(s) => ~Asking(s) /\ ~Bound(s)
  BY PhasesApart
<1>2. CASE Still(s, t) /\ v.toProc[c] = w.toProc[c]
  BY <1>2 DEF Spoken, AskingOK, WaitingOK, BoundOK, All, Still, Asking, Waiting, Bound
<1>3. CASE Still(s, t) /\ Bound(s) /\ c \notin gone /\ \E b \in Seq(AnyByte) : Said(w, v, c, b)
  <2>1. PICK b \in Seq(AnyByte) : Said(w, v, c, b)
    BY <1>3
  <2>2. b \in Seq(Item) /\ \A S : "byte" \notin S => Count(b, S) = 0
    BY BytesCount
  <2>3. /\ All(v, c, e) = all \o b
        /\ \A S : Count(All(v, c, e), S) = Count(all, S) + Count(b, S)
    <3>1. Counted(All(v, c, e), all, b)
      BY <1>0, <2>1, <2>2, AllSaid
    <3> QED
      BY <3>1 DEF Counted
  <2>4. Bound(t) /\ ~Asking(t) /\ ~Waiting(t)
    <3>1. Bound(t)
      BY <1>3 DEF Still, Bound
    <3> QED
      BY <1>1, <3>1
  <2>5. Count(e.sent, Finals) > 0 /\ Count(all, {"OKAY"}) = n /\ (s.peer = Remote => e.line \in Seq(AnyByte))
    BY <1>3 DEF Spoken, BoundOK
  <2>6. Count(All(v, c, e), {"OKAY"}) = n
    <3>1. Count(b, {"OKAY"}) = 0
      BY <2>2
    <3> HIDE DEF all, n
    <3> QED
      BY <1>0, <2>3, <2>5, <3>1
  <2>7. AnswersOK(All(v, c, e), e)
    BY <1>0, <2>3, <2>5, AnswersBytes DEF Spoken
  <2>8. BoundOK(v, c, e)
    BY <1>3, <2>5, <2>6 DEF BoundOK, Still
  <2> QED
    BY <2>4, <2>7, <2>8 DEF Spoken, AskingOK, WaitingOK
<1>4. CASE Ended(s, t) /\ v.toProc[c] = w.toProc[c]
  <2>1. ~Asking(t) /\ ~Waiting(t) /\ t.peer # Remote /\ (Bound(t) => Bound(s))
    BY <1>4, Distinct DEF Ended, Asking, Waiting, Bound
  <2>2. All(v, c, e) = all
    BY <1>4 DEF All
  <2> QED
    BY <2>1, <2>2 DEF Spoken, AskingOK, WaitingOK, BoundOK
<1>5. CASE Ended(s, t) /\ s.notify /\ Said(w, v, c, <<Word("FAIL")>>)
  <2>1. ~Asking(t) /\ ~Waiting(t) /\ ~Bound(t)
    BY <1>1, <1>5, Distinct DEF Ended, Asking, Waiting, Bound
  <2>2. Count(all, {"byte"}) = 0 /\ Count(all, Words) + 1 <= n
    BY <1>5 DEF Spoken, WaitingOK, One
  <2>3. All(v, c, e) = all \o <<Word("FAIL")>>
    <3>1. PICK b \in Seq(Item) : b = <<Word("FAIL")>>
      BY WordIs DEF Words
    <3>2. Said(w, v, c, b)
      BY <1>5, <3>1
    <3>3. Counted(All(v, c, e), all, b)
      BY <1>0, <3>2, AllSaid
    <3> QED
      BY <3>1, <3>3 DEF Counted
  <2>4. AnswersOK(all \o <<Word("FAIL")>>, e)
    BY <1>0, <2>2, AnswersWord DEF Words
  <2> QED
    BY <2>1, <2>3, <2>4 DEF Spoken, AskingOK, WaitingOK, BoundOK
<1>6. ASSUME Begun(s, t)
      PROVE  /\ Bound(t) /\ ~Asking(t) /\ ~Waiting(t) /\ e.line \in Seq(AnyByte)
             /\ Count(e.sent, Finals) > 0 /\ Count(all, {"byte"}) = 0
             /\ Count(all, Words) + One(s.notify) <= n
             /\ Count(all, {"OKAY"}) + One(s.notify) = n
  <2>1. Bound(t) /\ Waiting(s)
    BY <1>6 DEF Begun, Bound
  <2>2. /\ Count(all, Words) + One(s.notify) <= n /\ n <= Count(all, {"OKAY"}) + One(s.notify)
        /\ e.line \in Seq(AnyByte) /\ Count(e.sent, Finals) > 0 /\ Count(all, {"byte"}) = 0
    BY <2>1 DEF Spoken, WaitingOK
  <2>3. One(s.notify) \in Nat
    BY DEF One
  <2> HIDE DEF all, n
  <2>4. Count(all, {"OKAY"}) + One(s.notify) = n
    BY <1>0, <2>2, <2>3
  <2> QED
    BY <1>1, <2>1, <2>2, <2>4
<1>7. CASE Begun(s, t) /\ (s.notify => c \in gone) /\ v.toProc[c] = w.toProc[c]
  <2>1. All(v, c, e) = all
    BY <1>7 DEF All
  <2>2. c \notin gone => Count(all, {"OKAY"}) = n
    <3> HIDE DEF all, n
    <3> QED
      BY <1>0, <1>6, <1>7 DEF One
  <2>3. BoundOK(v, c, e)
    BY <1>6, <1>7, <2>1, <2>2 DEF BoundOK
  <2> QED
    BY <1>6, <1>7, <2>1, <2>3 DEF Spoken, AskingOK, WaitingOK
<1>8. CASE Begun(s, t) /\ s.notify /\ Said(w, v, c, <<Word("OKAY")>>)
  <2>1. /\ All(v, c, e) = all \o <<Word("OKAY")>>
        /\ \A S : Count(All(v, c, e), S) = Count(all, S) + Count(<<Word("OKAY")>>, S)
    <3>1. PICK b \in Seq(Item) : b = <<Word("OKAY")>>
      BY WordIs DEF Words
    <3>2. Said(w, v, c, b)
      BY <1>8, <3>1
    <3>3. Counted(All(v, c, e), all, b)
      BY <1>0, <3>2, AllSaid
    <3> QED
      BY <3>1, <3>3 DEF Counted
  <2>2. Count(<<Word("OKAY")>>, {"OKAY"}) = 1 /\ One(s.notify) = 1
    BY <1>8, WordIs DEF One, Words
  <2>3. Count(All(v, c, e), {"OKAY"}) = n /\ Count(all, Words) + 1 <= n
    BY <1>6, <1>8, <2>1, <2>2
  <2>4. AnswersOK(all \o <<Word("OKAY")>>, e)
    BY <1>0, <1>6, <1>8, <2>3, AnswersWord DEF Words
  <2>5. BoundOK(v, c, e)
    BY <1>6, <1>8, <2>3 DEF BoundOK
  <2> QED
    BY <1>6, <1>8, <2>1, <2>4, <2>5 DEF Spoken, AskingOK, WaitingOK
<1> HIDE DEF s, t, all, n
<1>9. \/ Still(s, t) /\ v.toProc[c] = w.toProc[c]
      \/ Still(s, t) /\ Bound(s) /\ c \notin gone /\ \E b \in Seq(AnyByte) : Said(w, v, c, b)
      \/ Ended(s, t) /\ v.toProc[c] = w.toProc[c]
      \/ Ended(s, t) /\ s.notify /\ Said(w, v, c, <<Word("FAIL")>>)
      \/ Begun(s, t) /\ (s.notify => c \in gone) /\ v.toProc[c] = w.toProc[c]
      \/ Begun(s, t) /\ s.notify /\ Said(w, v, c, <<Word("OKAY")>>)
  BY Zenon DEF Turn, s, t
<1> QED
  BY <1>2, <1>3, <1>4, <1>5, <1>7, <1>8, <1>9

\* While the stream of c may still be open, nothing is missing between what its client has
\* sent and what the device, its end d, has received; what the device has received is the
\* beginning of what was sent.
Flowing(w, c, e, d) ==
    /\ tr = "on" /\ w.sk[c].on \in {"absent", "list"} /\ w.sk[c].peer \notin Services
         /\ d.st # "closed" => (d.got \o InFlight(w.h2d, c)) \o Data(e.line) = Data(e.sent)
    /\ Starts(d.got, Data(e.sent))
    /\ d.st # "closed" => Starts(d.got \o InFlight(w.h2d, c), Data(e.sent))

\* Nobody has spoken on a connection that was not made yet.
Fresh(w, c, e) == w.sk[c].on = "absent" =>
    w.toProc[c] = << >> /\ e.sent = << >> /\ e.line = << >> /\ e.got = << >>

\* With the part E that the server does not keep, for each client.
TalksOK(E) == \A c \in Clients : TalkOK(E[c])
Speaks(w, E) ==
    /\ Fit(w)
    /\ \A c \in Clients : Spoken(w, c, E[c]) /\ Flowing(w, c, E[c], dev[c]) /\ Fresh(w, c, E[c])

LEMMA TurnFlows ==
    ASSUME NEW w, NEW v, NEW c \in Clients, NEW e, NEW d, Turn(w, v, c)
    PROVE  /\ Flowing(w, c, e, d) => Flowing(v, c, e, d)
           /\ Fresh(w, c, e) => Fresh(v, c, e)
<1>1. /\ InFlight(v.h2d, c) = InFlight(w.h2d, c)
      /\ v.sk[c].on \in {"absent", "list"} /\ v.sk[c].peer \notin Services =>
           w.sk[c].on \in {"absent", "list"} /\ w.sk[c].peer \notin Services
      /\ v.sk[c].on = "absent" => w.sk[c].on = "absent" /\ v.toProc[c] = w.toProc[c]
  BY Distinct DEF Turn, Still, Ended, Begun, Waiting, Bound
<1> QED
  BY <1>1 DEF Flowing, Fresh

\* A call that does one of these things to each client keeps everything said in order.
LEMMA TurnsSpeak ==
    ASSUME NEW w, Good(w), NEW v, NEW E, TalksOK(E), Speaks(w, E), Turns(w, v)
    PROVE  Speaks(v, E)
<1>1. ASSUME NEW c \in Clients
      PROVE  Spoken(v, c, E[c]) /\ Flowing(v, c, E[c], dev[c]) /\ Fresh(v, c, E[c])
  <2>1. w \in Record /\ TalkOK(E[c]) /\ Spoken(w, c, E[c]) /\ Turn(w, v, c)
    BY DEF Good, TalksOK, Speaks, Turns
  <2>2. w.sk[c].notify \in BOOLEAN /\ (w.sk[c].notify => Waiting(w.sk[c]))
    BY DEF Good, Record, Locals, Socket, Speaks, Fit
  <2>3. Spoken(v, c, E[c])
    BY <2>1, <2>2, TurnKeeps
  <2> QED
    BY <2>1, <2>3, TurnFlows DEF Speaks
<1> QED
  BY <1>1 DEF Speaks, Turns

-----------------------------------------------------------------------------
(* What the calls do to each client *)

LEMMA MaskStill ==
    ASSUME NEW s \in Socket, NEW want
    PROVE  Still(s, FdeSet(s, want)) /\ FdeSet(s, want).q = s.q
  BY DEF FdeSet, Socket, Still

\* A call keeps what a socket waits for, and the bytes of a backlog.
LEMMA FitBack ==
    ASSUME NEW w, Fit(w), NEW v, \A c \in Clients : Turn(w, v, c),
           \A c \in Clients : v.sk[c].q \in Seq(AnyByte)
    PROVE  Turns(w, v)
<1>1. ASSUME NEW c \in Clients PROVE v.sk[c].notify => Waiting(v.sk[c])
  <2>1. Turn(w, v, c) /\ (w.sk[c].notify => Waiting(w.sk[c]))
    BY DEF Fit
  <2>2. Still(w.sk[c], v.sk[c]) \/ ~v.sk[c].notify
    BY <2>1 DEF Turn, Ended, Begun
  <2> QED
    BY <2>1, <2>2 DEF Still, Waiting
<1> QED
  BY <1>1 DEF Turns, Fit

\* Packets that carry no bytes.
LEMMA CarriesNone ==
    ASSUME NEW w \in Record, NEW cmd \in {"OPEN", "OKAY", "CLSE"}, NEW b \in Clients
    PROVE  /\ Send(w, cmd, b, << >>).sk = w.sk /\ Send(w, cmd, b, << >>).toProc = w.toProc
           /\ \A c : InFlight(Send(w, cmd, b, << >>).h2d, c) = InFlight(w.h2d, c)
<1> DEFINE p == [cmd |-> cmd, id |-> b, data |-> << >>]
<1>1. p \in Packet /\ p.cmd # "WRTE"
  BY EmptySeq DEF Packet
<1>2. /\ w.h2d \in Seq(Packet) /\ Send(w, cmd, b, << >>).h2d = Append(w.h2d, p)
      /\ Send(w, cmd, b, << >>).sk = w.sk /\ Send(w, cmd, b, << >>).toProc = w.toProc
  BY DEF Send, Record
<1> HIDE DEF p
<1>3. ASSUME NEW c PROVE InFlight(Append(w.h2d, p), c) = InFlight(w.h2d, c)
  <2>1. InFlight(Append(w.h2d, p), c) = InFlight(w.h2d, c) \o Carried(p, c)
    BY <1>1, <1>2, InFlightFacts
  <2>2. Carried(p, c) = << >>
    BY <1>1 DEF Carried
  <2>3. InFlight(w.h2d, c) \in Seq(Item)
    BY <1>2, InFlightFacts
  <2> QED
    BY <2>1, <2>2, <2>3, ItemSeq
<1> QED
  BY <1>2, <1>3

\* A socket that is finished, once it has nobody to tell.
LEMMA DoneEnds ==
    ASSUME NEW l \in Clients, NEW s \in Socket, SockOK(l, s), s.on \in {"list", "closing"},
           s.notify => Waiting(s), NEW t \in Socket, t.on = s.on, t.q = s.q,
           t.notify \in {s.notify, FALSE}
    PROVE  Ended(s, Done(t)) /\ Done(t).q \in {s.q, << >>}
<1>1. CASE t.on = "closing" \/ t.q = << >>
  <2>1. Done(t) = Blank("freed")
    BY <1>1 DEF Done
  <2> QED
    BY <2>1 DEF Ended, Blank
<1>2. CASE t.on = "list" /\ t.q # << >>
  <2> DEFINE u == [t EXCEPT !.on = "closing", !.peer = None]
  <2>1. Done(t) = FdeSet(u, u.want \ {"R"})
    BY <1>2 DEF Done, FdeDel
  <2>2. u \in Socket /\ u.on = "closing" /\ u.peer = None /\ u.notify = t.notify /\ u.q = t.q
    BY DEF Socket
  <2> HIDE DEF u
  <2>3. Still(u, Done(t)) /\ Done(t).q = u.q
    BY <2>1, <2>2, MaskStill
  <2>4. s.peer \notin {None, Smart} /\ s.on = "list"
    BY <1>2 DEF SockOK
  <2>5. ~t.notify /\ s.peer \in Services \cup {Remote}
    <3>1. s.peer \in Locals \cup {None, Smart, Remote} /\ s.peer \notin Clients
      BY Distinct DEF Socket, SockOK
    <3>2. ~s.notify
      BY <2>4 DEF Waiting
    <3> QED
      BY <2>4, <3>1, <3>2 DEF Locals
  <2> QED
    BY <2>2, <2>3, <2>4, <2>5 DEF Ended, Still, Bound
<1> QED
  BY <1>1, <1>2

\* Who waits to be told: only a client, on the list, without a peer.
LEMMA FitIs ==
    ASSUME NEW w, Good(w), Fit(w), NEW c \in Clients
    PROVE  /\ c \in Locals /\ w.sk[c] \in Socket /\ SockOK(c, w.sk[c]) /\ w.toProc[c] \in Seq(Item)
           /\ w.sk[c].notify \in BOOLEAN /\ (w.sk[c].notify => Waiting(w.sk[c]))
           /\ w.sk[c].q \in Seq(AnyByte) /\ w \in Record
  BY Distinct DEF Good, SkOK, Record, Fit, Socket

LEMMA CutTurns ==
    ASSUME NEW w, Good(w), Fit(w), NEW l \in Locals, w.sk[l].on \in {"list", "closing"},
           NEW v, Cut(w, v, l), v.toProc = w.toProc
    PROVE  Turns(w, v)
<1>1. \A c \in Clients : InFlight(v.h2d, c) = InFlight(w.h2d, c)
  BY CarriesNone DEF Cut, Good
<1>2. ASSUME NEW c \in Clients PROVE Turn(w, v, c) /\ v.sk[c].q \in Seq(AnyByte)
  <2> DEFINE s == w.sk[c]
  <2>0. /\ c \in Locals /\ s \in Socket /\ SockOK(c, s) /\ (s.notify => Waiting(s))
        /\ s.q \in Seq(AnyByte)
    BY FitIs
  <2>1. CASE c = l
    <3>1. v.sk[c] = Done(s)
      BY <2>0, <2>1 DEF Cut
    <3>2. Ended(s, Done(s)) /\ Done(s).q \in {s.q, << >>}
      BY <2>0, <2>1, DoneEnds
    <3> QED
      BY <1>1, <2>0, <3>1, <3>2, ByteSeq DEF Turn
  <2>2. CASE c # l /\ c = w.sk[l].peer
    <3> DEFINE t == [s EXCEPT !.peer = None]
    <3>1. v.sk[c] = Done(t)
      BY <2>0, <2>2 DEF Cut
    <3>2. t \in Socket /\ t.on = s.on /\ t.q = s.q /\ t.notify = s.notify
      BY <2>0 DEF Socket
    <3>3. s.on = "list"
      BY <2>0, <2>2, PeerIs
    <3> HIDE DEF t, s
    <3>4. Ended(s, Done(t)) /\ Done(t).q \in {s.q, << >>}
      BY <2>0, <3>2, <3>3, DoneEnds
    <3> QED
      BY <1>1, <2>0, <3>1, <3>4, ByteSeq DEF Turn, s
  <2>3. CASE c # l /\ c # w.sk[l].peer
    <3>1. v.sk[c] = s
      BY <2>0, <2>3 DEF Cut
    <3> QED
      BY <1>1, <2>0, <3>1 DEF Turn, Still
  <2> QED
    BY <2>1, <2>2, <2>3
<1> QED
  BY <1>2, FitBack

\* The client that waits is told, if it still listens.
LEMMA NotifiedSays ==
    ASSUME NEW w \in Record, NEW l \in Locals, NEW status \in {"OKAY", "FAIL"}, NEW x,
           x = Notified(w, l, status)
    PROVE  /\ \A c \in Locals : c # l => x.toProc[c] = w.toProc[c]
           /\ w.sk[l].notify /\ l \notin gone => Said(w, x, l, <<Word(status)>>)
           /\ ~(w.sk[l].notify /\ l \notin gone) => x.toProc[l] = w.toProc[l]
<1>0. w.toProc \in [Locals -> Seq(Item)]
  BY DEF Record
<1>1. CASE w.sk[l].notify /\ l \notin gone
  <2>1. x.toProc = [w.toProc EXCEPT ![l] = Append(@, Word(status))]
    BY <1>1 DEF Notified, Tell, Record
  <2>2. PICK q \in Seq(Item) : q = w.toProc[l]
    BY <1>0
  <2>3. x.toProc[l] = Append(q, Word(status)) /\ \A c \in Locals : c # l => x.toProc[c] = w.toProc[c]
    BY <1>0, <2>1, <2>2
  <2>4. Word(status) \in Item
    BY WordIs DEF Words
  <2>5. Append(q, Word(status)) = q \o <<Word(status)>>
    BY <2>4, CountOne
  <2> QED
    BY <1>1, <2>2, <2>3, <2>5 DEF Said
<1>2. CASE ~(w.sk[l].notify /\ l \notin gone)
  <2>1. x.toProc = w.toProc
    BY <1>2 DEF Notified, Tell, Record
  <2> QED
    BY <1>2, <2>1
<1> QED
  BY <1>1, <1>2

\* s->close(s).
LEMMA CloseTurns ==
    ASSUME NEW w, Good(w), Fit(w), NEW l \in Locals, w.sk[l].on \in {"list", "closing"}
    PROVE  Turns(w, Close(w, l))
<1> DEFINE x == Notified(w, l, "FAIL")
           v == CloseLocked(x, l)
<1>1. Close(w, l) = v
  BY DEF Close, Notified
<1>2. /\ Good(x) /\ x.sk[l] = Hush(w.sk[l]) /\ x.h2d = w.h2d
      /\ \A m \in Locals : m # l => x.sk[m] = w.sk[m]
      /\ \A m \in Locals : x.sk[m].on = w.sk[m].on /\ x.sk[m].peer = w.sk[m].peer
  BY NotifiedOK DEF Safe
<1>3. /\ \A c \in Locals : c # l => x.toProc[c] = w.toProc[c]
      /\ w.sk[l].notify /\ l \notin gone => Said(w, x, l, <<Word("FAIL")>>)
      /\ ~(w.sk[l].notify /\ l \notin gone) => x.toProc[l] = w.toProc[l]
  BY NotifiedSays DEF Good
<1> HIDE DEF x
<1>4. Fit(x)
  <2>1. ASSUME NEW c \in Clients PROVE (x.sk[c].notify => Waiting(x.sk[c])) /\ x.sk[c].q \in Seq(AnyByte)
    <3>0. c \in Locals /\ w.sk[c] \in Socket /\ (w.sk[c].notify => Waiting(w.sk[c])) /\ w.sk[c].q \in Seq(AnyByte)
      BY FitIs
    <3>1. x.sk[c] = w.sk[c] \/ x.sk[c] = Hush(w.sk[c])
      BY <1>2, <3>0
    <3>2. Hush(w.sk[c]).notify = FALSE /\ Hush(w.sk[c]).q = w.sk[c].q
      BY <3>0 DEF Hush, Socket
    <3> QED
      BY <3>0, <3>1, <3>2
  <2> QED
    BY <2>1 DEF Fit
<1>5. Cut(x, v, l) /\ v.toProc = x.toProc
  BY <1>2, CloseLockedOK
<1> HIDE DEF v
<1>6. Turns(x, v)
  BY <1>2, <1>4, <1>5, CutTurns
<1>7. ASSUME NEW c \in Clients PROVE Turn(w, v, c)
  <2>0. Turn(x, v, c) /\ c \in Locals
    BY <1>6, FitIs DEF Turns
  <2>1. CASE c # l
    <3>1. x.sk[c] = w.sk[c] /\ x.toProc[c] = w.toProc[c]
      BY <1>2, <1>3, <2>0, <2>1
    <3> QED
      BY <1>2, <2>0, <3>1 DEF Turn, Said
  <2>2. CASE c = l
    <3>0. w.sk[l] \in Socket /\ SockOK(l, w.sk[l]) /\ (w.sk[l].notify => Waiting(w.sk[l]))
      BY <2>2, FitIs
    <3>1. v.sk[l] = Done(Hush(w.sk[l]))
      BY <1>2, <1>5 DEF Cut
    <3>2. Ended(w.sk[l], Done(Hush(w.sk[l])))
      <4>1. /\ Hush(w.sk[l]) \in Socket /\ Hush(w.sk[l]).on = w.sk[l].on
            /\ Hush(w.sk[l]).q = w.sk[l].q /\ Hush(w.sk[l]).notify = FALSE
        BY <3>0, HushOK DEF Hush, Socket
      <4> QED
        BY <2>2, <3>0, <4>1, DoneEnds
    <3>3. InFlight(v.h2d, c) = InFlight(w.h2d, c)
      BY <1>2, <2>0 DEF Turn
    <3>4. v.toProc[c] = x.toProc[c] /\ x.sk[c].peer = w.sk[c].peer
      BY <1>2, <1>5, <2>2
    <3> QED
      BY <1>3, <2>2, <3>1, <3>2, <3>3, <3>4 DEF Turn, Said
  <2> QED
    BY <2>1, <2>2
<1>8. \A c \in Clients : v.sk[c].q \in Seq(AnyByte)
  BY <1>6 DEF Turns, Fit
<1>9. Turns(w, v)
  BY <1>7, <1>8, FitBack
<1> QED
  BY <1>1, <1>9

\* s->ready(s).
LEMMA ReadyIs ==
    ASSUME NEW w, Good(w), NEW l \in Locals, w.sk[l].on = "list"
    PROVE  /\ Ready(w, l).toProc = Notified(w, l, "OKAY").toProc /\ Ready(w, l).h2d = w.h2d
           /\ Still(Hush(w.sk[l]), Ready(w, l).sk[l]) /\ Ready(w, l).sk[l].q = w.sk[l].q
           /\ \A m \in Locals : m # l => Ready(w, l).sk[m] = w.sk[m]
<1> DEFINE x == Notified(w, l, "OKAY")
           v == Ready(w, l)
<1>1. /\ Good(x) /\ x.sk[l] = Hush(w.sk[l]) /\ x.h2d = w.h2d
      /\ \A m \in Locals : m # l => x.sk[m] = w.sk[m]
  BY NotifiedOK DEF Safe
<1>2. v = [x EXCEPT !.sk[l] = FdeAdd(@, "R")]
  BY DEF Ready, Notified
<1> HIDE DEF x, v
<1>3. x \in Record /\ x.sk \in [Locals -> Socket] /\ x.sk[l] \in Socket
  BY <1>1 DEF Good, SkOK
<1>4. /\ v.toProc = x.toProc /\ v.h2d = x.h2d /\ v.sk[l] = FdeSet(x.sk[l], x.sk[l].want \cup {"R"})
      /\ \A m \in Locals : m # l => v.sk[m] = x.sk[m]
  BY <1>2, <1>3 DEF Record, FdeAdd
<1>5. Still(x.sk[l], v.sk[l]) /\ v.sk[l].q = x.sk[l].q
  BY <1>3, <1>4, MaskStill
<1>6. Hush(w.sk[l]).q = w.sk[l].q
  BY HushOK DEF Good, SkOK
<1> QED
  BY <1>1, <1>4, <1>5, <1>6 DEF x, v

LEMMA ReadyTurns ==
    ASSUME NEW w, Good(w), Fit(w), NEW l \in Locals, w.sk[l].on = "list",
           l \in Clients => ~w.sk[l].notify
    PROVE  Turns(w, Ready(w, l))
<1> DEFINE v == Ready(w, l)
<1>1. /\ v.toProc = Notified(w, l, "OKAY").toProc /\ v.h2d = w.h2d
      /\ Still(Hush(w.sk[l]), v.sk[l]) /\ v.sk[l].q = w.sk[l].q
      /\ \A m \in Locals : m # l => v.sk[m] = w.sk[m]
  BY ReadyIs
<1>2. /\ \A c \in Locals : c # l => v.toProc[c] = w.toProc[c]
      /\ ~w.sk[l].notify => v.toProc[l] = w.toProc[l]
  <2>1. PICK x : x = Notified(w, l, "OKAY")
    OBVIOUS
  <2>2. w \in Record
    BY DEF Good
  <2> QED
    BY <1>1, <2>1, <2>2, NotifiedSays
<1> HIDE DEF v
<1>3. ASSUME NEW c \in Clients PROVE Turn(w, v, c) /\ v.sk[c].q \in Seq(AnyByte)
  <2>0. c \in Locals /\ w.sk[c] \in Socket /\ w.sk[c].q \in Seq(AnyByte) /\ w.sk[c].notify \in BOOLEAN
    BY FitIs
  <2>1. CASE c = l
    <3>1. Hush(w.sk[c]) = w.sk[c]
      BY <2>0, <2>1, HushOK
    <3> QED
      BY <1>1, <1>2, <2>0, <2>1, <3>1 DEF Turn
  <2>2. CASE c # l
    BY <1>1, <1>2, <2>0, <2>2 DEF Turn, Still
  <2> QED
    BY <2>1, <2>2
<1>4. Turns(w, v)
  BY <1>3, FitBack
<1> QED
  BY <1>4 DEF v

LEMMA FirstBytes ==
    ASSUME NEW some \in Seq(Item), NEW rest \in Seq(Item), some \o rest \in Seq(AnyByte)
    PROVE  some \in Seq(AnyByte)
<1>1. Len(some) \in Nat /\ Len(rest) \in Nat /\ Len(some \o rest) = Len(some) + Len(rest)
  BY LenProperties, ConcatProperties
<1>2. ASSUME NEW i \in 1..Len(some) PROVE some[i] \in AnyByte
  <2>1. i \in 1..(Len(some) + Len(rest)) /\ i <= Len(some)
    BY <1>1
  <2>2. (some \o rest)[i] = some[i]
    BY <2>1, ConcatProperties
  <2>3. (some \o rest)[i] \in AnyByte
    BY <1>1, <2>1, ElementOfSeq
  <2> QED
    BY <2>2, <2>3
<1>3. some = [i \in 1..Len(some) |-> some[i]]
  OBVIOUS
<1> QED
  BY <1>1, <1>2, <1>3, IsASeq

\* A socket of a client with a stream or a host service.
LEMMA BoundIs ==
    ASSUME NEW c \in Clients, NEW s \in Socket, SockOK(c, s), s.on \in {"list", "closing"},
           s.on = "list" => s.peer \notin {None, Smart}
    PROVE  Bound(s)
<1>1. s.peer \in Locals \cup {None, Smart, Remote} /\ s.peer \notin Clients
  BY Distinct DEF Socket, SockOK
<1> QED
  BY <1>1 DEF Bound, Locals

\* local_socket_enqueue.
LEMMA EnqueueTurns ==
    ASSUME NEW w, Good(w), Fit(w), NEW l \in Locals, w.sk[l].on = "list",
           w.sk[l].peer \notin {None, Smart}, NEW bytes \in Seq(Item),
           l \in Clients => bytes \in Seq(AnyByte)
    PROVE  Turns(w, Enqueue(w, l, bytes).w)
<1> DEFINE n == IF w.sk[l].q = << >> THEN Fits(w, l, bytes) ELSE 0
           some == SubSeq(bytes, 1, n)
           rest == SubSeq(bytes, n + 1, Len(bytes))
           x == [w EXCEPT !.toProc[l] = @ \o some]
           t == [w.sk[l] EXCEPT !.q = w.sk[l].q \o rest]
           r == FdeAdd(t, "W")
           v == [x EXCEPT !.sk = [x.sk EXCEPT ![l] = r]]
           y == Enqueue(w, l, bytes).w
<1>0. /\ w \in Record /\ w.sk \in [Locals -> Socket] /\ w.sk[l] \in Socket
      /\ SockOK(l, w.sk[l]) /\ w.sk[l].q \in Seq(Item) /\ w.toProc \in [Locals -> Seq(Item)]
  BY DEF Good, SkOK, Record, Socket
<1>1. /\ w.sk[l].q = << >> /\ l \in gone => y = Close(w, l)
      /\ ~(w.sk[l].q = << >> /\ l \in gone) => y \in {x, v}
  <2>1. x.sk = w.sk
    BY <1>0 DEF Record
  <2>2. Enqueue(w, l, bytes) =
          IF w.sk[l].q = << >> /\ l \in gone
            THEN [w |-> Close(w, l), r |-> 1]
            ELSE IF rest = << >> THEN [w |-> x, r |-> 0]
                 ELSE [w |-> [x EXCEPT !.sk = [x.sk EXCEPT ![l] =
                                FdeAdd([x.sk[l] EXCEPT !.q = w.sk[l].q \o rest], "W")]], r |-> 1]
    BY DEF Enqueue
  <2>3. FdeAdd([x.sk[l] EXCEPT !.q = w.sk[l].q \o rest], "W") = r
    BY <2>1
  <2> HIDE DEF x, r, rest, n, some
  <2> QED
    BY <2>2, <2>3, SMTT(30)
<1>2. n \in 0..Len(bytes)
  BY <1>0, FitsOK, LenProperties
<1>3. some \in Seq(Item) /\ rest \in Seq(Item) /\ some \o rest = bytes
  BY <1>2, Split, SplitWhole
<1>4. w.sk[l].q # << >> => some = << >>
  BY <1>2 DEF n
<1> HIDE DEF n, some, rest, y
<1>5. CASE w.sk[l].q = << >> /\ l \in gone
  BY <1>1, <1>5, CloseTurns DEF y
<1>6. CASE ~(w.sk[l].q = << >> /\ l \in gone)
  <2>1. t \in Socket /\ Still(w.sk[l], t)
    <3>1. w.sk[l].q \o rest \in Seq(Item)
      BY <1>0, <1>3, ItemSeq
    <3> QED
      BY <1>0, <3>1 DEF Socket, Still
  <2>2. Still(w.sk[l], r)
    <3>1. r = FdeSet(t, t.want \cup {"W"})
      BY DEF FdeAdd
    <3> HIDE DEF r, t
    <3> QED
      BY <2>1, <3>1, MaskStill DEF Still
  <2> HIDE DEF r
  <2>3. /\ y.toProc = [w.toProc EXCEPT ![l] = w.toProc[l] \o some] /\ y.h2d = w.h2d
        /\ \A m \in Locals : m # l => y.sk[m] = w.sk[m]
        /\ Still(w.sk[l], y.sk[l])
    <3>1. /\ x.toProc = [w.toProc EXCEPT ![l] = w.toProc[l] \o some] /\ x.h2d = w.h2d /\ x.sk = w.sk
          /\ v.toProc = x.toProc /\ v.h2d = x.h2d /\ v.sk = [x.sk EXCEPT ![l] = r]
      BY <1>0 DEF Record
    <3> HIDE DEF x, v
    <3>2. Still(w.sk[l], w.sk[l])
      BY DEF Still
    <3> QED
      BY <1>0, <1>1, <1>6, <2>2, <3>1, <3>2
  <2>4. ASSUME NEW c \in Clients PROVE Turn(w, y, c)
    <3>0. c \in Locals /\ InFlight(y.h2d, c) = InFlight(w.h2d, c)
      BY <2>3, FitIs
    <3>1. CASE c # l
      BY <1>0, <2>3, <3>0, <3>1 DEF Turn, Still
    <3>2. CASE c = l
      <4>1. some \in Seq(AnyByte)
        BY <1>3, <3>2, FirstBytes
      <4>2. Said(w, y, c, some)
        BY <1>0, <2>3, <3>2 DEF Said
      <4>3. CASE w.sk[l].q = << >>
        <5>1. Bound(w.sk[c])
          BY <1>0, <3>2, BoundIs
        <5> QED
          BY <1>6, <2>3, <3>0, <3>2, <4>1, <4>2, <4>3, <5>1 DEF Turn
      <4>4. CASE w.sk[l].q # << >>
        <5>1. w.toProc[l] \in Seq(Item)
          BY <1>0
        <5>2. y.toProc[c] = w.toProc[c]
          BY <1>4, <3>2, <4>2, <4>4, <5>1, ItemSeq DEF Said
        <5> QED
          BY <2>3, <3>0, <3>2, <5>2 DEF Turn
      <4> QED
        BY <4>3, <4>4
    <3> QED
      BY <3>1, <3>2
  <2>5. ASSUME NEW c \in Clients PROVE y.sk[c].q \in Seq(AnyByte)
    <3>1. w.sk[c].q \in Seq(AnyByte)
      BY FitIs
    <3>2. /\ c = l => Gets(w, y, c, bytes)
          /\ c # l => Holds(w, y, c)
      BY EnqueueGets DEF y
    <3> QED
      BY <3>1, <3>2 DEF Gets, Holds
  <2>6. Turns(w, y)
    BY <2>4, <2>5, FitBack
  <2> QED
    BY <2>6 DEF y
<1> QED
  BY <1>5, <1>6

\* The peer's ready.
LEMMA PeerReadyTurns ==
    ASSUME NEW w, Good(w), Fit(w), NEW l \in Locals
    PROVE  Turns(w, PeerReady(w, l))
<1> DEFINE p == w.sk[l].peer
<1>0. p \in Locals \cup {None, Smart, Remote}
  BY DEF Good, SkOK, Socket
<1>1. CASE p \in Locals
  <2>1. PeerReady(w, l) = Ready(w, p)
    BY <1>1, Distinct DEF PeerReady
  <2>2. w.sk[p].on = "list" /\ w.sk[p].peer = l
    BY <1>1, PeerIs
  <2>3. p \in Clients => ~w.sk[p].notify
    <3>1. w.sk[p].peer # None
      BY <2>2, Distinct
    <3> QED
      BY <3>1, FitIs DEF Waiting
  <2> HIDE DEF p
  <2>4. Turns(w, Ready(w, p))
    BY <1>1, <2>2, <2>3, ReadyTurns
  <2> QED
    BY <2>1, <2>4
<1>2. ASSUME NEW v, v.sk = w.sk, v.toProc = w.toProc, \A c : InFlight(v.h2d, c) = InFlight(w.h2d, c)
      PROVE  Turns(w, v)
  <2>1. ASSUME NEW c \in Clients PROVE Turn(w, v, c) /\ v.sk[c].q \in Seq(AnyByte)
    BY <1>2, FitIs DEF Turn, Still
  <2> QED
    BY <2>1, FitBack
<1>3. CASE p = Remote
  <2>1. PeerReady(w, l) = Send(w, "OKAY", l, << >>) /\ l \in Clients /\ w \in Record
    BY <1>3, RemoteIs, Distinct DEF PeerReady, Good
  <2>2. /\ Send(w, "OKAY", l, << >>).sk = w.sk /\ Send(w, "OKAY", l, << >>).toProc = w.toProc
        /\ \A c : InFlight(Send(w, "OKAY", l, << >>).h2d, c) = InFlight(w.h2d, c)
    BY <2>1, CarriesNone
  <2> QED
    BY <1>2, <2>1, <2>2
<1>4. CASE p = Smart
  <2>1. PeerReady(w, l) = w
    BY <1>4, Distinct DEF PeerReady
  <2> QED
    BY <1>2, <2>1
<1>5. CASE p = None
  <2>1. PeerReady(w, l) = [w EXCEPT !.bad = TRUE] /\ w \in Record
    BY <1>5, Distinct DEF PeerReady, Good
  <2>2. /\ PeerReady(w, l).sk = w.sk /\ PeerReady(w, l).toProc = w.toProc
        /\ PeerReady(w, l).h2d = w.h2d
    BY <2>1 DEF Record
  <2> QED
    BY <1>2, <2>2
<1> QED
  BY <1>0, <1>1, <1>3, <1>4, <1>5

LEMMA WroteTurns ==
    ASSUME NEW w, Good(w), Fit(w), NEW l \in Locals, w.sk[l].on \in {"list", "closing"},
           w.sk[l].on = "list" => w.sk[l].q # << >>, NEW v, Wrote(w, v, l)
    PROVE  Turns(w, v)
<1>1. PICK some \in Seq(Item), rest \in Seq(Item) :
        /\ w.sk[l].q = some \o rest /\ v.sk[l].q = rest
        /\ v.toProc = [w.toProc EXCEPT ![l] = @ \o some]
  BY DEF Wrote
<1>2. /\ \A m \in Locals : m # l => v.sk[m] = w.sk[m]
      /\ Still(w.sk[l], v.sk[l]) /\ v.h2d = w.h2d /\ l \notin gone
  BY DEF Wrote
<1>3. w.toProc \in [Locals -> Seq(Item)]
  BY DEF Good, Record
<1>4. ASSUME NEW c \in Clients PROVE Turn(w, v, c) /\ v.sk[c].q \in Seq(AnyByte)
  <2>0. c \in Locals /\ w.sk[c] \in Socket /\ SockOK(c, w.sk[c]) /\ w.sk[c].q \in Seq(AnyByte)
    BY FitIs
  <2>1. CASE c # l
    BY <1>1, <1>2, <1>3, <2>0, <2>1 DEF Turn, Still
  <2>2. CASE c = l
    <3>1. some \in Seq(AnyByte) /\ rest \in Seq(AnyByte)
      BY <1>1, <2>0, <2>2, FirstBytes, RestBytes
    <3>2. Bound(w.sk[c])
      <4>1. w.sk[c].on = "list" => w.sk[c].peer \notin {None, Smart}
        BY <2>0, <2>2 DEF SockOK
      <4> QED
        BY <2>0, <2>2, <4>1, BoundIs
    <3>3. Said(w, v, c, some)
      BY <1>1, <1>3, <2>2 DEF Said
    <3> QED
      BY <1>1, <1>2, <2>2, <3>1, <3>2, <3>3 DEF Turn
  <2> QED
    BY <2>1, <2>2
<1> QED
  BY <1>4, FitBack

\* FDE_WRITE.
LEMMA EventWriteSpeaks ==
    ASSUME NEW w, Good(w), NEW l \in Locals, w.sk[l].on \in {"list", "closing"}, w.sk[l].pend = {},
           w.sk[l].on = "list" => w.sk[l].q # << >>, NEW E, TalksOK(E), Speaks(w, E)
    PROVE  /\ Speaks(EventWrite(w, l).w, E)
           /\ ~EventWrite(w, l).stop => EventWrite(w, l).w.sk[l].peer = w.sk[l].peer
<1> DEFINE u == EventWrite(w, l).w
<1>0. Fit(w)
  BY DEF Speaks
<1>1. /\ ~EventWrite(w, l).stop => u.sk[l].on = "list" /\ w.sk[l].on = "list"
      /\ \/ u = Close(w, l)
         \/ \E v : Wrote(w, v, l) /\ u \in {v, Close(v, l), PeerReady(v, l)}
  BY EventWriteOK
<1> HIDE DEF u
<1>2. CASE u = Close(w, l)
  <2>1. Speaks(u, E)
    BY <1>0, <1>2, CloseTurns, TurnsSpeak
  <2>2. u.sk[l].on # "list"
    BY <1>2, CloseLeaves
  <2> QED
    BY <1>1, <2>1, <2>2 DEF u
<1>3. ASSUME NEW v, Wrote(w, v, l), u \in {v, Close(v, l), PeerReady(v, l)}
      PROVE  Speaks(u, E) /\ (u.sk[l].on = "list" /\ w.sk[l].on = "list" => u.sk[l].peer = w.sk[l].peer)
  <2>1. Turns(w, v)
    BY <1>0, <1>3, WroteTurns
  <2>2. Good(v) /\ Speaks(v, E) /\ Fit(v) /\ v.sk[l].peer = w.sk[l].peer /\ v.sk[l].on = w.sk[l].on
    <3>1. Good(v) /\ v.sk[l].peer = w.sk[l].peer /\ v.sk[l].on = w.sk[l].on
      BY <1>3 DEF Wrote, Safe, Still
    <3>2. Speaks(v, E)
      BY <2>1, TurnsSpeak
    <3> QED
      BY <3>1, <3>2 DEF Speaks
  <2>3. CASE u = v
    BY <2>2, <2>3
  <2>4. CASE u = Close(v, l)
    <3>1. Speaks(u, E)
      BY <2>2, <2>4, CloseTurns, TurnsSpeak
    <3>2. u.sk[l].on # "list"
      BY <2>2, <2>4, CloseLeaves
    <3> QED
      BY <3>1, <3>2
  <2>5. CASE u = PeerReady(v, l)
    <3>1. Speaks(u, E)
      BY <2>2, <2>5, PeerReadyTurns, TurnsSpeak
    <3>2. u.sk[l].peer = v.sk[l].peer
      BY <2>2, <2>5, PeerReadyPeers
    <3> QED
      BY <2>2, <3>1, <3>2
  <2> QED
    BY <1>3, <2>3, <2>4, <2>5
<1> QED
  BY <1>1, <1>2, <1>3 DEF u

-----------------------------------------------------------------------------
(* The requests that a client makes *)

\* Two things make two.
LEMMA TwoApart ==
    ASSUME NEW i, NEW j, i # j
    PROVE  IsFiniteSet({i} \cup {j}) /\ Cardinality({i} \cup {j}) = 2
<1>1. IsFiniteSet({i}) /\ Cardinality({i}) = 1
  BY FS_Singleton
<1>2. j \notin {i}
  OBVIOUS
<1>3. IsFiniteSet({i} \cup {j}) /\ Cardinality({i} \cup {j}) = Cardinality({i}) + 1
  BY <1>1, <1>2, FS_AddElement
<1>4. PICK n : n = Cardinality({i} \cup {j})
  OBVIOUS
<1>5. n = 1 + 1
  BY <1>1, <1>3, <1>4
<1> QED
  BY <1>3, <1>4, <1>5

\* And two places hold two items.
LEMMA CountTwo ==
    ASSUME NEW s \in Seq(Item), NEW S, NEW i \in 1..Len(s), NEW j \in 1..Len(s), i # j,
           s[i][1] \in S, s[j][1] \in S
    PROVE  Count(s, S) >= 2
<1>1. DOMAIN s = 1..Len(s) /\ IsFiniteSet(Spots(s, S)) /\ Count(s, S) = Cardinality(Spots(s, S))
  BY SpotsIs
<1>2. {i} \cup {j} \subseteq Spots(s, S)
  BY <1>1 DEF Spots
<1>3. IsFiniteSet({i} \cup {j}) /\ Cardinality({i} \cup {j}) = 2
  BY TwoApart
<1>4. Cardinality({i} \cup {j}) <= Cardinality(Spots(s, S))
  BY <1>1, <1>2, FS_Subset
<1> QED
  BY <1>1, <1>3, <1>4

\* Item k of the part s.
LEMMA Placed ==
    ASSUME NEW u \in Seq(Item), NEW s \in Seq(Item), NEW t \in Seq(Item), NEW k \in 1..Len(s)
    PROVE  /\ Len(u) \in Nat /\ Len(s) \in Nat /\ Len(t) \in Nat
           /\ Len(u \o (s \o t)) = Len(u) + (Len(s) + Len(t))
           /\ Len(u) + k \in 1..Len(u \o (s \o t)) /\ (u \o (s \o t))[Len(u) + k] = s[k]
<1>1. Len(u) \in Nat /\ Len(s) \in Nat /\ Len(t) \in Nat /\ s \o t \in Seq(Item)
  BY LenProperties, ItemSeq
<1>2. Len(s \o t) = Len(s) + Len(t) /\ Len(u \o (s \o t)) = Len(u) + Len(s \o t)
  BY <1>1, ConcatProperties
<1>3. /\ k \in 1..(Len(s) + Len(t)) /\ k <= Len(s)
      /\ Len(u) + k \in 1..(Len(u) + Len(s \o t)) /\ ~(Len(u) + k <= Len(u))
      /\ (Len(u) + k) - Len(u) = k
  BY <1>1, <1>2
<1>4. (s \o t)[k] = s[k]
  BY <1>3, ConcatProperties
<1>5. (u \o (s \o t))[Len(u) + k] = (s \o t)[(Len(u) + k) - Len(u)]
  BY <1>1, <1>3, ConcatProperties
<1> QED
  BY <1>1, <1>2, <1>3, <1>4, <1>5

\* What is sent is the beginning of the script.
LEMMA ScriptIs ==
    ASSUME NEW e, TalkOK(e)
    PROVE  /\ Len(e.sent) \in Nat /\ Len(e.script) \in Nat /\ Len(e.sent) <= Len(e.script)
           /\ DOMAIN e.script = 1..Len(e.script)
           /\ \A i \in 1..Len(e.sent) : e.script[i] = e.sent[i] /\ i \in 1..Len(e.script)
<1>1. PICK r \in Seq(Item) : e.script = e.sent \o r
  BY DEF TalkOK
<1>2. e.sent \in Seq(Item) /\ e.script \in Seq(Item)
  BY DEF TalkOK, TalkSet
<1>3. Len(e.sent) \in Nat /\ Len(r) \in Nat /\ Len(e.script) = Len(e.sent) + Len(r)
  BY <1>1, <1>2, ConcatProperties, LenProperties
<1>4. ASSUME NEW i \in 1..Len(e.sent)
      PROVE  e.script[i] = e.sent[i] /\ i \in 1..Len(e.script)
  <2>1. i \in 1..(Len(e.sent) + Len(r)) /\ i <= Len(e.sent)
    BY <1>3
  <2>2. (e.sent \o r)[i] = e.sent[i]
    BY <1>2, <2>1, ConcatProperties
  <2> QED
    BY <1>1, <1>3, <2>1, <2>2
<1> QED
  BY <1>2, <1>3, <1>4, LenProperties

\* The request for a stream is the last item before its bytes.
LEMMA NothingAfter ==
    ASSUME NEW e, TalkOK(e), e.script # << >>, Count(e.sent, {"byte"}) = 0,
           NEW i \in 1..Len(e.sent), e.sent[i][1] \in Finals
    PROVE  i = Len(e.sent)
<1>1. /\ Len(e.sent) \in Nat /\ DOMAIN e.script = 1..Len(e.script)
      /\ \A k \in 1..Len(e.sent) : e.script[k] = e.sent[k] /\ k \in 1..Len(e.script)
  BY ScriptIs
<1>2. Polite(e.script) /\ e.sent \in Seq(Item)
  BY DEF TalkOK, TalkSet
<1> SUFFICES ASSUME i < Len(e.sent) PROVE FALSE
  BY <1>1
<1>3. Len(e.sent) \in 1..Len(e.sent)
  BY <1>1
<1>4. e.sent[Len(e.sent)][1] = "byte"
  BY <1>1, <1>2, <1>3, SMTT(30) DEF Polite
<1> QED
  BY <1>2, <1>3, <1>4, CountZero

\* With no byte there is no data.
LEMMA NoData ==
    ASSUME NEW s \in Seq(Item), Count(s, {"byte"}) = 0
    PROVE  Data(s) = << >>
<1>1. Len(s) \in Nat /\ \A i \in 1..Len(s) : s[i] \notin AnyByte
  BY CountZero, LenProperties DEF AnyByte
<1>2. Data(s) \in Seq(Item) /\ ToSet(Keep(s, {"byte"} \X Nat)) = ToSet(s) \cap ({"byte"} \X Nat)
  BY DataFacts, KeepFacts
<1>3. ToSet(Data(s)) = {}
  BY <1>1, <1>2, InList DEF Data, AnyByte
<1> QED
  BY <1>2, <1>3, InList

\* Client l has its requests all before the smart socket, sends rest after them, and got no
\* byte yet: one answer is missing at most.
Asks(w, l, e, u, all, rest) ==
    /\ u \in Seq(Item) /\ all \in Seq(Item) /\ rest \in Seq(Item) /\ e.sent = u \o (all \o rest)
    /\ Count(All(w, l, e), {"byte"}) = 0 /\ Count(e.sent, {"byte"}) = 0
    /\ Count(All(w, l, e), Words) + (Count(all, Awaited) + Count(rest, Awaited)) <= Wanted(e)
    /\ Wanted(e) <= Count(All(w, l, e), {"OKAY"}) + 1
    /\ Count(All(w, l, e), {"OKAY"}) <= Count(All(w, l, e), Words)
    /\ Count(e.sent, Finals) > 0 => all \o rest # << >>
    /\ e.script # << >> /\ e.script[1][1] # "forward"
    /\ AnswersOK(All(w, l, e), e)

LEMMA AsksNumbers ==
    ASSUME NEW w \in Record, NEW l \in Clients, NEW e, TalkOK(e), NEW u, NEW all, NEW rest,
           Asks(w, l, e, u, all, rest)
    PROVE  /\ All(w, l, e) \in Seq(Item) /\ e.sent \in Seq(Item) /\ Wanted(e) \in Nat
           /\ \A S : Count(All(w, l, e), S) \in Nat
           /\ \A S : Count(all, S) \in Nat /\ Count(rest, S) \in Nat
<1>1. All(w, l, e) \in Seq(Item) /\ e.sent \in Seq(Item) /\ all \in Seq(Item) /\ rest \in Seq(Item)
  <2>1. l \in Locals /\ w.toProc[l] \in Seq(Item) /\ e.got \in Seq(Item) /\ e.sent \in Seq(Item)
    BY HeldIs DEF TalkOK, TalkSet
  <2> QED
    BY <2>1, ItemSeq DEF All, Asks
<1> QED
  BY <1>1, SpotsIs DEF Wanted

LEMMA AskingIs ==
    ASSUME NEW w \in Record, NEW l \in Clients, NEW e, TalkOK(e), Asking(w.sk[l]), Spoken(w, l, e),
           NEW bytes \in Seq(Item), NEW rest \in Seq(Item), e.line = bytes \o rest
    PROVE  \E u : Asks(w, l, e, u, w.sk[l].req \o bytes, rest)
<1> DEFINE req == w.sk[l].req
           all == req \o bytes
           got == All(w, l, e)
<1>1. /\ l \in Locals /\ req \in Seq(Item) /\ w.toProc[l] \in Seq(Item) /\ e \in TalkSet
      /\ e.got \in Seq(Item) /\ e.sent \in Seq(Item)
  <2>1. l \in Locals /\ w.toProc[l] \in Seq(Item)
    BY HeldIs
  <2>2. w.sk[l] \in Socket
    BY <2>1 DEF Record
  <2> QED
    BY <2>1, <2>2 DEF Socket, TalkOK, TalkSet
<1>2. /\ Count(e.sent, {"byte"}) = 0 /\ Count(got, {"byte"}) = 0
      /\ \E u \in Seq(Item) : e.sent = u \o (req \o e.line)
      /\ Count(got, Words) + Count(req \o e.line, Awaited) <= Wanted(e)
      /\ Count(e.sent, Finals) > 0 => req \o e.line # << >>
      /\ e.script # << >> /\ e.script[1][1] # "forward"
  BY DEF Spoken, AskingOK
<1>3. PICK u \in Seq(Item) : e.sent = u \o (req \o e.line)
  BY <1>2
<1>4. all \in Seq(Item) /\ req \o e.line = all \o rest
  <2>1. PICK r \in Seq(Item) : r = req
    BY <1>1
  <2>2. r \o bytes \in Seq(Item) /\ (r \o bytes) \o rest = r \o (bytes \o rest)
    BY ItemSeq, ItemAssoc
  <2> QED
    BY <2>1, <2>2
<1>5. Count(all \o rest, Awaited) = Count(all, Awaited) + Count(rest, Awaited)
  BY <1>4, CountConcat
<1>6. got \in Seq(Item) /\ Count(got, {"OKAY"}) <= Count(got, Words)
  <2>1. got \in Seq(Item)
    BY <1>1, ItemSeq DEF All
  <2> QED
    BY <2>1, CountMore DEF Words
<1>7. Wanted(e) <= Count(got, {"OKAY"}) + 1
  <2>1. Count(got, {"OKAY"}) = Count(e.got, {"OKAY"}) + Count(w.toProc[l], {"OKAY"})
    BY <1>1, CountConcat DEF All
  <2>2. Wanted(e) <= Count(e.got, {"OKAY"}) + 1
    BY DEF TalkOK
  <2>3. Count(e.got, {"OKAY"}) \in Nat /\ Count(w.toProc[l], {"OKAY"}) \in Nat /\ Wanted(e) \in Nat
    BY <1>1, SpotsIs DEF Wanted
  <2> QED
    BY <2>1, <2>2, <2>3
<1>8. AnswersOK(got, e)
  BY DEF Spoken
<1> HIDE DEF req, all, got
<1>9. Asks(w, l, e, u, all, rest)
  BY <1>2, <1>3, <1>4, <1>5, <1>6, <1>7, <1>8 DEF Asks, got
<1> QED
  BY <1>9 DEF all, req

\* What is so of a request at place k of those before the smart socket.
LEMMA RequestIs ==
    ASSUME NEW w \in Record, NEW l \in Clients, NEW e, TalkOK(e), NEW u, NEW all, NEW rest,
           Asks(w, l, e, u, all, rest), NEW k \in 1..Len(all)
    PROVE  /\ Len(u) + k \in 1..Len(e.sent) /\ e.sent[Len(u) + k] = all[k]
           /\ all[k][1] \in Awaited => Count(all, Awaited) >= 1
           /\ all[k][1] \in Finals => Count(e.sent, Finals) > 0 /\ rest = << >>
           /\ all[k][1] = "devices" => Last(e.script) = Word("devices")
           /\ all[k] \in Item
<1>1. /\ u \in Seq(Item) /\ all \in Seq(Item) /\ rest \in Seq(Item) /\ e.sent = u \o (all \o rest)
      /\ Count(e.sent, {"byte"}) = 0 /\ e.script # << >>
  BY DEF Asks
<1>2. /\ Len(u) \in Nat /\ Len(all) \in Nat /\ Len(rest) \in Nat
      /\ Len(e.sent) = Len(u) + (Len(all) + Len(rest))
      /\ Len(u) + k \in 1..Len(e.sent) /\ e.sent[Len(u) + k] = all[k]
  BY <1>1, Placed
<1>3. all[k] \in Item
  BY <1>1, ElementOfSeq
<1>4. all[k][1] \in Awaited => Count(all, Awaited) >= 1
  <2>1. Count(all, Awaited) \in Nat
    BY <1>1, SpotsIs
  <2> QED
    BY <1>1, <2>1, CountZero
<1>5. ASSUME all[k][1] \in Finals PROVE Count(e.sent, Finals) > 0 /\ rest = << >>
  <2>0. e.sent \in Seq(Item)
    BY DEF TalkOK, TalkSet
  <2>1. Count(e.sent, Finals) > 0
    BY <1>2, <1>5, <2>0, CountZero
  <2>2. Len(u) + k = Len(e.sent)
    BY <1>1, <1>2, <1>5, NothingAfter
  <2>3. Len(rest) = 0
    BY <1>2, <2>2
  <2> QED
    BY <1>1, <2>1, <2>3, EmptySeq
<1>6. ASSUME all[k][1] = "devices" PROVE Last(e.script) = Word("devices")
  <2>1. /\ Len(u) + k \in 1..Len(e.script) /\ e.script[Len(u) + k] = all[k]
        /\ DOMAIN e.script = 1..Len(e.script)
    BY <1>2, ScriptIs
  <2>2. Len(u) + k = Len(e.script)
    BY <1>1, <1>6, <2>1 DEF TalkOK, Polite
  <2>3. all[k] = Word("devices")
    BY <1>3, <1>6 DEF Item, Word, Requests
  <2> QED
    BY <2>1, <2>2, <2>3 DEF Last
<1> QED
  BY <1>2, <1>3, <1>4, <1>5, <1>6

\* Client l, if it still listens, is told b, no other client notices anything, and no packet
\* with bytes is sent.
Replied(w, x, l, b) ==
    /\ \A c \in Clients : /\ InFlight(x.h2d, c) = InFlight(w.h2d, c)
                          /\ c # l => x.sk[c] = w.sk[c] /\ x.toProc[c] = w.toProc[c]
    /\ IF l \in gone THEN x.toProc[l] = w.toProc[l] ELSE Said(w, x, l, b)
    /\ x.sk[l].q = << >>

LEMMA TellSays ==
    ASSUME NEW w \in Record, NEW l \in Locals, NEW status \in {"OKAY", "FAIL"}, NEW x,
           x = Tell(w, l, status), NEW b, b = <<Word(status)>>
    PROVE  /\ x \in Record /\ x.sk = w.sk /\ x.h2d = w.h2d /\ x.disc = w.disc
           /\ \A c \in Locals : c # l => x.toProc[c] = w.toProc[c]
           /\ IF l \in gone THEN x.toProc[l] = w.toProc[l] ELSE Said(w, x, l, b)
<1>1. x \in Record /\ x = [w EXCEPT !.toProc = x.toProc]
  BY TellIs
<1>2. x.sk = w.sk /\ x.h2d = w.h2d /\ x.disc = w.disc
  BY <1>1 DEF Record
<1>3. w.toProc \in [Locals -> Seq(Item)]
  BY DEF Record
<1>4. CASE l \in gone
  BY <1>1, <1>2, <1>4 DEF Tell
<1>5. CASE l \notin gone
  <2>1. PICK word : word = Word(status)
    OBVIOUS
  <2>2. x = [w EXCEPT !.toProc[l] = Append(@, word)]
    BY <1>5, <2>1 DEF Tell
  <2>3. x.toProc = [w.toProc EXCEPT ![l] = Append(w.toProc[l], word)]
    BY <2>2 DEF Record
  <2>4. word \in Item
    BY <2>1, WordIs DEF Words
  <2>5. Append(w.toProc[l], word) = w.toProc[l] \o <<word>>
    BY <1>3, <2>4, CountOne
  <2>6. Said(w, x, l, <<word>>)
    BY <1>3, <2>3, <2>5 DEF Said
  <2> QED
    BY <1>1, <1>2, <1>3, <1>5, <2>1, <2>3, <2>6
<1> QED
  BY <1>4, <1>5

\* A socket of a smart socket is gone, and the client was told nothing.
LEMMA SmartFailIs ==
    ASSUME NEW w \in Record, NEW l \in Locals, w.sk[l].peer = Smart, w.sk[l].on = "list",
           ~w.sk[l].notify, w.sk[l].q = << >>
    PROVE  LET x == SmartFail(w, l).w
           IN  /\ x.toProc = w.toProc /\ x.h2d = w.h2d
               /\ x.sk = [w.sk EXCEPT ![l] = Blank("freed")]
<1> DEFINE s == [w.sk[l] EXCEPT !.peer = None]
           y == [w EXCEPT !.sk = [w.sk EXCEPT ![l] = s]]
           x == SmartFail(w, l).w
<1>0. w.sk \in [Locals -> Socket] /\ w.sk[l] \in Socket
  BY DEF Record
<1>1. s \in Socket /\ s.on = "list" /\ s.peer = None /\ s.q = << >> /\ ~s.notify
  BY <1>0 DEF Socket
<1>2. x = Close(y, l)
  BY DEF SmartFail
<1> HIDE DEF s, x
<1>3. /\ y \in Record /\ y.sk[l] = s /\ y.sk = [w.sk EXCEPT ![l] = s] /\ y.toProc = w.toProc
      /\ y.h2d = w.h2d
  BY <1>0, <1>1 DEF Record
<1> HIDE DEF y
<1>4. Close(y, l) = Finish(y, l)
  BY <1>1, <1>3, Distinct DEF Close, CloseLocked
<1>5. Finish(y, l) = [y EXCEPT !.sk = [y.sk EXCEPT ![l] = Blank("freed")]]
  BY <1>1, <1>3 DEF Finish, Destroy
<1>6. /\ x.toProc = w.toProc /\ x.h2d = w.h2d /\ x.sk = [y.sk EXCEPT ![l] = Blank("freed")]
  BY <1>2, <1>3, <1>4, <1>5 DEF Record
<1>7. x.sk = [w.sk EXCEPT ![l] = Blank("freed")]
  <2> HIDE DEF s
  <2> QED
    BY <1>0, <1>3, <1>6
<1> QED
  BY <1>6, <1>7 DEF x

LEMMA FailReplies ==
    ASSUME NEW w, Good(w), Fit(w), NEW l \in Locals, w.sk[l].peer = Smart
    PROVE  /\ Replied(w, SmartFail(w, l).w, l, << >>)
           /\ SmartFail(w, l).w.sk[l] = Blank("freed")
           /\ \A status \in {"OKAY", "FAIL"} :
                /\ Replied(w, SmartFail(Tell(w, l, status), l).w, l, <<Word(status)>>)
                /\ SmartFail(Tell(w, l, status), l).w.sk[l] = Blank("freed")
<1>0. /\ w \in Record /\ w.sk \in [Locals -> Socket] /\ w.sk[l] \in Socket /\ l \in Clients
      /\ w.sk[l].on = "list" /\ w.sk[l].q = << >> /\ w.toProc[l] \in Seq(Item)
      /\ \A c \in Clients : c \in Locals
  BY SmartIs, HeldIs
<1>1. ~w.sk[l].notify
  BY <1>0, Distinct DEF Fit, Waiting
<1>2. ASSUME NEW y \in Record, y.sk = w.sk, y.h2d = w.h2d, NEW x, x = SmartFail(y, l).w, NEW b,
             \A c \in Locals : c # l => y.toProc[c] = w.toProc[c],
             IF l \in gone THEN y.toProc[l] = w.toProc[l] ELSE Said(w, y, l, b)
      PROVE  Replied(w, x, l, b) /\ x.sk[l] = Blank("freed")
  <2>1. x.toProc = y.toProc /\ x.h2d = y.h2d /\ x.sk = [y.sk EXCEPT ![l] = Blank("freed")]
    BY <1>0, <1>1, <1>2, SmartFailIs
  <2>2. /\ x.sk[l] = Blank("freed") /\ \A c \in Locals : c # l => x.sk[c] = w.sk[c]
        /\ Blank("freed").q = << >>
    BY <1>0, <1>2, <2>1 DEF Blank
  <2> QED
    BY <1>0, <1>2, <2>1, <2>2 DEF Replied, Said
<1>3. w.toProc[l] \o << >> = w.toProc[l]
  BY <1>0, ItemSeq
<1>4. Replied(w, SmartFail(w, l).w, l, << >>) /\ SmartFail(w, l).w.sk[l] = Blank("freed")
  BY <1>0, <1>2, <1>3 DEF Said
<1>5. ASSUME NEW status \in {"OKAY", "FAIL"}
      PROVE  /\ Replied(w, SmartFail(Tell(w, l, status), l).w, l, <<Word(status)>>)
             /\ SmartFail(Tell(w, l, status), l).w.sk[l] = Blank("freed")
  <2>1. PICK y : y = Tell(w, l, status)
    OBVIOUS
  <2>2. PICK b : b = <<Word(status)>>
    OBVIOUS
  <2>3. /\ y \in Record /\ y.sk = w.sk /\ y.h2d = w.h2d
        /\ \A c \in Locals : c # l => y.toProc[c] = w.toProc[c]
        /\ IF l \in gone THEN y.toProc[l] = w.toProc[l] ELSE Said(w, y, l, b)
    BY <1>0, <2>1, <2>2, TellSays
  <2>4. Replied(w, SmartFail(y, l).w, l, b) /\ SmartFail(y, l).w.sk[l] = Blank("freed")
    BY <1>2, <2>3
  <2> QED
    BY <2>1, <2>2, <2>4
<1> QED
  BY <1>4, <1>5

\* What the requests make of the record: the stream is asked for, or it is not.
LEMMA OpenReplies ==
    ASSUME NEW w, Good(w), Fit(w), NEW l \in Locals, w.sk[l].peer = Smart, NEW x,
           x = SmartOpen(w, l).w
    PROVE  \/ Replied(w, x, l, << >>) /\ Waiting(x.sk[l]) /\ x.sk[l].notify
           \/ Replied(w, x, l, <<Word("FAIL")>>) /\ x.sk[l] = Blank("freed")
<1>1. CASE ~(w.sk[l].smartTrans /\ tr = "on")
  BY <1>1, FailReplies DEF SmartOpen
<1>2. CASE w.sk[l].smartTrans /\ tr = "on"
  <2> DEFINE s == [w.sk[l] EXCEPT !.notify = TRUE, !.peer = None, !.trans = TRUE, !.req = << >>,
                                  !.smartTrans = FALSE]
             y == [w EXCEPT !.sk = [w.sk EXCEPT ![l] = s]]
  <2>0. /\ w \in Record /\ w.sk \in [Locals -> Socket] /\ w.sk[l] \in Socket /\ l \in Clients
        /\ w.sk[l].on = "list" /\ w.sk[l].q = << >> /\ w.toProc[l] \in Seq(Item)
        /\ \A c \in Clients : c \in Locals
    BY SmartIs, HeldIs
  <2>1. x = Send(y, "OPEN", l, << >>)
    BY <1>2 DEF SmartOpen
  <2>2. s \in Socket /\ s.on = "list" /\ s.peer = None /\ s.q = << >> /\ s.notify
    <3>1. << >> \in Seq(Item)
      BY EmptySeq
    <3> QED
      BY <2>0, <3>1 DEF Socket
  <2> HIDE DEF s
  <2>3. /\ y \in Record /\ y.sk = [w.sk EXCEPT ![l] = s] /\ y.h2d = w.h2d /\ y.toProc = w.toProc
    BY <2>0, <2>2 DEF Record
  <2> HIDE DEF y
  <2>4. /\ x.sk = y.sk /\ x.toProc = y.toProc
        /\ \A c : InFlight(x.h2d, c) = InFlight(y.h2d, c)
    BY <2>0, <2>1, <2>3, CarriesNone
  <2>5. x.sk[l] = s /\ \A c \in Clients : c # l => x.sk[c] = w.sk[c]
    BY <2>0, <2>3, <2>4
  <2>6. Said(w, x, l, << >>) /\ x.toProc = w.toProc
    BY <2>0, <2>3, <2>4, ItemSeq DEF Said
  <2>7. Replied(w, x, l, << >>)
    BY <2>2, <2>3, <2>4, <2>5, <2>6 DEF Replied
  <2> QED
    BY <2>2, <2>5, <2>7 DEF Waiting
<1> QED
  BY <1>1, <1>2

LEMMA TransportReplies ==
    ASSUME NEW w, Good(w), NEW l \in Locals, w.sk[l].peer = Smart, NEW x,
           x = SmartTransport(w, l).w
    PROVE  /\ \E status \in {"OKAY", "FAIL"} : Replied(w, x, l, <<Word(status)>>)
           /\ x.sk[l].on = "list" /\ x.sk[l].peer = Smart /\ x.sk[l].req = << >>
           /\ x.sk[l].notify = w.sk[l].notify
<1>0. /\ w \in Record /\ w.sk \in [Locals -> Socket] /\ w.sk[l] \in Socket /\ l \in Clients
      /\ w.sk[l].on = "list" /\ w.sk[l].q = << >> /\ w.toProc[l] \in Seq(Item)
      /\ \A c \in Clients : c \in Locals
  BY SmartIs, HeldIs
<1> DEFINE status == IF tr = "on" THEN "OKAY" ELSE "FAIL"
           y == Tell(w, l, status)
           s == IF tr = "on" THEN [w.sk[l] EXCEPT !.smartTrans = TRUE, !.req = << >>]
                             ELSE [w.sk[l] EXCEPT !.req = << >>]
<1>1. x = IF tr = "on" THEN [y EXCEPT !.sk[l] = [@ EXCEPT !.smartTrans = TRUE, !.req = << >>]]
                       ELSE [y EXCEPT !.sk[l].req = << >>]
  BY DEF SmartTransport
<1>2. status \in {"OKAY", "FAIL"}
  OBVIOUS
<1>3. PICK b : b = <<Word(status)>>
  OBVIOUS
<1>4. /\ y \in Record /\ y.sk = w.sk /\ y.h2d = w.h2d
      /\ \A c \in Locals : c # l => y.toProc[c] = w.toProc[c]
      /\ IF l \in gone THEN y.toProc[l] = w.toProc[l] ELSE Said(w, y, l, b)
  <2> HIDE DEF status
  <2> QED
    BY <1>0, <1>2, <1>3, TellSays
<1> HIDE DEF y, status
<1>5. x = [y EXCEPT !.sk = [w.sk EXCEPT ![l] = s]]
  BY <1>1, <1>4
<1>6. /\ s.on = "list" /\ s.peer = Smart /\ s.req = << >> /\ s.notify = w.sk[l].notify
      /\ s.q = << >>
  BY <1>0 DEF Socket
<1> HIDE DEF s
<1>7. x.sk = [w.sk EXCEPT ![l] = s] /\ x.toProc = y.toProc /\ x.h2d = w.h2d
  BY <1>4, <1>5 DEF Record
<1>8. x.sk[l] = s /\ \A c \in Clients : c # l => x.sk[c] = w.sk[c]
  BY <1>0, <1>7
<1>9. Replied(w, x, l, b)
  BY <1>0, <1>4, <1>6, <1>7, <1>8 DEF Replied, Said
<1> QED
  BY <1>2, <1>3, <1>6, <1>8, <1>9

LEMMA HostReplies ==
    ASSUME NEW w, Good(w), Fit(w), NEW l \in Locals, w.sk[l].peer = Smart, NEW x,
           x = SmartHost(w, l).w
    PROVE  \/ /\ Replied(w, x, l, <<Word("OKAY")>>)
              /\ x.sk[l].on = "list" /\ x.sk[l].peer \in Services /\ ~x.sk[l].notify
           \/ Replied(w, x, l, <<Word("FAIL")>>) /\ x.sk[l] = Blank("freed")
<1> DEFINE free == {s \in Services : w.sk[s].on = "absent"}
           p == CHOOSE s \in free : TRUE
           y == Tell(w, l, "OKAY")
           r == [w.sk[l] EXCEPT !.peer = p, !.req = << >>, !.smartTrans = FALSE]
           t == [Blank("list") EXCEPT !.peer = l, !.want = {"R"}]
           g == [w.sk EXCEPT ![l] = r, ![p] = t]
<1>1. CASE free = {}
  BY <1>1, FailReplies DEF SmartHost
<1>2. CASE free # {}
  <2>0. /\ w \in Record /\ w.sk \in [Locals -> Socket] /\ w.sk[l] \in Socket /\ l \in Clients
        /\ w.sk[l].on = "list" /\ w.sk[l].q = << >> /\ w.toProc[l] \in Seq(Item)
        /\ \A c \in Clients : c \in Locals
    BY SmartIs, HeldIs
  <2>1. p \in Services /\ p \in Locals /\ p \notin Clients
    BY <1>2, Distinct
  <2>2. PICK b : b = <<Word("OKAY")>>
    OBVIOUS
  <2>3. /\ y \in Record /\ y.sk = w.sk /\ y.h2d = w.h2d
        /\ \A c \in Locals : c # l => y.toProc[c] = w.toProc[c]
        /\ IF l \in gone THEN y.toProc[l] = w.toProc[l] ELSE Said(w, y, l, b)
    BY <2>0, <2>2, TellSays
  <2>4. x = [y EXCEPT !.sk[l] = [@ EXCEPT !.peer = p, !.req = << >>, !.smartTrans = FALSE], !.sk[p] = t]
    BY <1>2 DEF SmartHost
  <2>5. ~w.sk[l].notify
    BY <2>0, Distinct DEF Fit, Waiting
  <2> HIDE DEF free, p, y, t
  <2>6. r.on = "list" /\ r.peer = p /\ r.q = << >> /\ ~r.notify
    BY <2>0, <2>5 DEF Socket
  <2>7. x = [y EXCEPT !.sk = g]
    BY <2>0, <2>3, <2>4 DEF Record
  <2> HIDE DEF r
  <2>8. g[l] = r /\ \A c \in Clients : c # l => g[c] = w.sk[c]
    BY <2>0, <2>1
  <2> HIDE DEF g
  <2>9. x.sk = g /\ x.toProc = y.toProc /\ x.h2d = w.h2d
    BY <2>3, <2>7 DEF Record
  <2>10. Replied(w, x, l, b)
    BY <2>0, <2>3, <2>6, <2>8, <2>9 DEF Replied, Said
  <2> QED
    BY <2>1, <2>2, <2>6, <2>8, <2>9, <2>10
<1> QED
  BY <1>1, <1>2

\* A part of a request is kept.
LEMMA PartReplies ==
    ASSUME NEW w \in Record, NEW l \in Locals, w.sk[l].q = << >>, NEW x, x.sk[l].q = << >>,
           \A c \in Clients : c # l => x.sk[c] = w.sk[c], x.toProc = w.toProc, x.h2d = w.h2d
    PROVE  Replied(w, x, l, << >>)
<1>1. Said(w, x, l, << >>)
  BY ItemSeq DEF Said, Record
<1> QED
  BY <1>1 DEF Replied

\* Client l was told nothing.
LEMMA SilentReply ==
    ASSUME NEW w \in Record, NEW l \in Clients, NEW e, TalkOK(e), NEW u, NEW all, NEW rest,
           Asks(w, l, e, u, all, rest), NEW x, Replied(w, x, l, << >>),
           NEW f, f = [e EXCEPT !.line = rest]
    PROVE  /\ All(x, l, f) = All(w, l, e) /\ AnswersOK(All(x, l, f), f) /\ Wanted(f) = Wanted(e)
           /\ f.sent = e.sent /\ f.line = rest /\ f.script = e.script /\ f.got = e.got
<1>1. f.sent = e.sent /\ f.line = rest /\ f.script = e.script /\ f.got = e.got
  BY DEF TalkOK, TalkSet
<1>2. x.toProc[l] = w.toProc[l]
  <2>1. w.toProc[l] \in Seq(Item)
    BY HeldIs
  <2> QED
    BY <2>1, ItemSeq DEF Replied, Said
<1>3. All(x, l, f) = All(w, l, e)
  BY <1>1, <1>2 DEF All
<1>4. AnswersOK(All(w, l, e), e)
  BY DEF Asks
<1> QED
  BY <1>1, <1>3, <1>4 DEF AnswersOK, Wanted

\* Client l was told a status, unless it is gone.
LEMMA WordReply ==
    ASSUME NEW w \in Record, NEW l \in Clients, NEW e, TalkOK(e), NEW u, NEW all, NEW rest,
           Asks(w, l, e, u, all, rest), NEW status \in {"OKAY", "FAIL"}, NEW b, b = <<Word(status)>>,
           NEW x, Replied(w, x, l, b), NEW f, f = [e EXCEPT !.line = rest],
           Last(e.script) # Word("devices") => Count(all, Awaited) >= 1
    PROVE  /\ AnswersOK(All(x, l, f), f) /\ Wanted(f) = Wanted(e)
           /\ f.sent = e.sent /\ f.line = rest /\ f.script = e.script /\ f.got = e.got
           /\ Count(All(x, l, f), {"byte"}) = 0
           /\ Count(All(x, l, f), Words) <= Count(All(w, l, e), Words) + 1
           /\ status = "OKAY" /\ l \notin gone =>
                Count(All(x, l, f), {"OKAY"}) = Count(All(w, l, e), {"OKAY"}) + 1
<1>1. f.sent = e.sent /\ f.line = rest /\ f.script = e.script /\ f.got = e.got /\ e \in TalkSet
  BY DEF TalkOK, TalkSet
<1> DEFINE had == All(w, l, e)
           has == All(x, l, f)
<1>2. /\ had \in Seq(Item) /\ Wanted(e) \in Nat /\ \A S : Count(had, S) \in Nat
      /\ \A S : Count(all, S) \in Nat /\ Count(rest, S) \in Nat
  BY AsksNumbers
<1>3. /\ Count(had, {"byte"}) = 0 /\ AnswersOK(had, e)
      /\ Count(had, Words) + (Count(all, Awaited) + Count(rest, Awaited)) <= Wanted(e)
  BY DEF Asks
<1>4. Wanted(f) = Wanted(e) /\ has = All(x, l, e)
  BY <1>1 DEF Wanted, All
<1>5. CASE l \in gone
  <2>1. has = had
    BY <1>4, <1>5 DEF Replied, All
  <2>2. AnswersOK(has, f)
    BY <1>1, <1>3, <2>1 DEF AnswersOK, Wanted
  <2> HIDE DEF had, has
  <2>3. Count(has, Words) <= Count(had, Words) + 1
    BY <1>2, <2>1
  <2> QED
    BY <1>1, <1>3, <1>4, <1>5, <2>1, <2>2, <2>3 DEF had, has
<1>6. CASE l \notin gone
  <2>1. Said(w, x, l, b)
    BY <1>6 DEF Replied
  <2>2. /\ b \in Seq(Item) /\ \A S : Count(b, S) = One(status \in S)
    BY WordIs DEF Words
  <2>3. Counted(has, had, b)
    BY <1>1, <1>4, <2>1, <2>2, AllSaid
  <2> HIDE DEF had, has
  <2>4. has = had \o b /\ \A S : Count(has, S) = Count(had, S) + One(status \in S)
    BY <2>2, <2>3 DEF Counted
  <2>5. /\ Count(has, {"byte"}) = Count(had, {"byte"}) + 0
        /\ Count(has, Words) = Count(had, Words) + 1
        /\ status = "OKAY" => Count(has, {"OKAY"}) = Count(had, {"OKAY"}) + 1
    BY <2>4 DEF One, Words
  <2>6. e.script # << >> /\ Last(e.script) # Word("devices") => Count(had, Words) + 1 <= Wanted(e)
    BY <1>2, <1>3
  <2>7. AnswersOK(has, e)
    BY <1>2, <1>3, <2>4, <2>6, AnswersWord DEF Words
  <2>8. AnswersOK(has, f)
    BY <1>1, <2>7 DEF AnswersOK, Wanted
  <2>9. Count(has, {"byte"}) = 0 /\ Count(has, Words) <= Count(had, Words) + 1
    BY <1>2, <1>3, <2>5
  <2> QED
    BY <1>1, <1>4, <2>5, <2>8, <2>9 DEF had, has
<1> QED
  BY <1>5, <1>6

\* After "transport" a request for a stream is still to be read, if it was sent.
LEMMA StreamNext ==
    ASSUME NEW w \in Record, NEW l \in Clients, NEW e, TalkOK(e), NEW u, NEW all, NEW rest,
           Asks(w, l, e, u, all, rest), NEW k \in 1..Len(all), all[k][1] = "transport",
           Count(e.sent, Finals) > 0
    PROVE  rest # << >>
<1> SUFFICES ASSUME rest = << >> PROVE FALSE
  OBVIOUS
<1> DEFINE m == Len(all)
<1>1. /\ u \in Seq(Item) /\ all \in Seq(Item) /\ rest \in Seq(Item) /\ e.sent = u \o (all \o rest)
      /\ Count(e.sent, {"byte"}) = 0 /\ e.script # << >> /\ e.script[1][1] # "forward"
  BY DEF Asks
<1>2. m \in 1..m /\ Len(u) \in Nat /\ Len(e.sent) = Len(u) + m
  <2>1. Len(u) \in Nat /\ m \in Nat /\ Len(e.sent) = Len(u) + (m + Len(rest)) /\ Len(rest) = 0
    BY <1>1, Placed
  <2> QED
    BY <2>1
<1>3. e.sent[Len(u) + m] = all[m] /\ Len(u) + m \in 1..Len(e.sent)
  BY <1>1, <1>2, Placed
<1>4. PICK i \in 1..Len(e.sent) : e.sent[i][1] \in Finals
  BY AsksNumbers, CountZero
<1>5. i = Len(e.sent)
  BY <1>1, <1>4, NothingAfter
<1>6. all[m][1] \in Finals
  BY <1>2, <1>3, <1>4, <1>5
<1>7. all[m][1] # "forward"
  <2>1. /\ e.script[i] = e.sent[i] /\ i \in DOMAIN e.script
    BY ScriptIs
  <2>2. Polite(e.script)
    BY <1>1 DEF TalkOK
  <2> QED
    BY <1>1, <1>2, <1>3, <1>5, <2>1, <2>2 DEF Polite
<1>8. m # k /\ all[m][1] \in Awaited /\ all[k][1] \in Awaited
  BY <1>6, <1>7 DEF Finals, Awaited
<1>9. Count(all, Awaited) >= 2
  BY <1>1, <1>2, <1>8, CountTwo
<1>10. /\ Wanted(e) \in Nat /\ \A S : Count(All(w, l, e), S) \in Nat
       /\ \A S : Count(all, S) \in Nat /\ Count(rest, S) \in Nat
  BY AsksNumbers
<1>11. /\ Count(All(w, l, e), Words) + (Count(all, Awaited) + Count(rest, Awaited)) <= Wanted(e)
       /\ Wanted(e) <= Count(All(w, l, e), {"OKAY"}) + 1
       /\ Count(All(w, l, e), {"OKAY"}) <= Count(All(w, l, e), Words)
  BY DEF Asks
<1> QED
  BY <1>9, <1>10, <1>11

\* The socket is gone: only what the client got counts.
LEMMA GoneSpoken ==
    ASSUME NEW x, NEW l, NEW f, x.sk[l] = Blank("freed"), AnswersOK(All(x, l, f), f)
    PROVE  Spoken(x, l, f)
<1>1. x.sk[l].on = "freed"
  BY DEF Blank
<1> QED
  BY <1>1 DEF Spoken, AskingOK, WaitingOK, BoundOK, Asking, Waiting, Bound

\* A part of a request is kept for the rest of it.
LEMMA PartSpoken ==
    ASSUME NEW w \in Record, NEW l \in Clients, NEW e, TalkOK(e), NEW u, NEW all, NEW rest,
           Asks(w, l, e, u, all, rest), NEW f, f = [e EXCEPT !.line = rest],
           NEW x, Replied(w, x, l, << >>), x.sk[l].on = "list", x.sk[l].peer = Smart,
           x.sk[l].req = all
    PROVE  Spoken(x, l, f)
<1>1. /\ All(x, l, f) = All(w, l, e) /\ AnswersOK(All(x, l, f), f) /\ Wanted(f) = Wanted(e)
      /\ f.sent = e.sent /\ f.line = rest /\ f.script = e.script /\ f.got = e.got
  BY SilentReply
<1>2. /\ u \in Seq(Item) /\ all \in Seq(Item) /\ rest \in Seq(Item) /\ e.sent = u \o (all \o rest)
      /\ Count(All(w, l, e), {"byte"}) = 0 /\ Count(e.sent, {"byte"}) = 0
      /\ Count(All(w, l, e), Words) + (Count(all, Awaited) + Count(rest, Awaited)) <= Wanted(e)
      /\ Count(e.sent, Finals) > 0 => all \o rest # << >>
      /\ e.script # << >> /\ e.script[1][1] # "forward"
  BY DEF Asks
<1>3. Count(all \o rest, Awaited) = Count(all, Awaited) + Count(rest, Awaited)
  BY <1>2, CountConcat
<1>4. AskingOK(x, l, f)
  BY <1>1, <1>2, <1>3 DEF AskingOK
<1> QED
  BY <1>1, <1>4, Distinct DEF Spoken, WaitingOK, BoundOK, Waiting, Bound

\* "transport" was answered.
LEMMA TransportSpoken ==
    ASSUME NEW w \in Record, NEW l \in Clients, NEW e, TalkOK(e), NEW u, NEW all, NEW rest,
           Asks(w, l, e, u, all, rest), NEW k \in 1..Len(all), all[k][1] = "transport",
           NEW f, f = [e EXCEPT !.line = rest],
           NEW status \in {"OKAY", "FAIL"}, NEW b, b = <<Word(status)>>,
           NEW x, Replied(w, x, l, b), x.sk[l].on = "list", x.sk[l].peer = Smart,
           x.sk[l].req = << >>
    PROVE  Spoken(x, l, f)
<1>0. Count(all, Awaited) >= 1
  BY RequestIs DEF Awaited
<1>1. /\ AnswersOK(All(x, l, f), f) /\ Wanted(f) = Wanted(e)
      /\ f.sent = e.sent /\ f.line = rest /\ f.script = e.script
      /\ Count(All(x, l, f), {"byte"}) = 0
      /\ Count(All(x, l, f), Words) <= Count(All(w, l, e), Words) + 1
  BY <1>0, WordReply
<1>2. /\ u \in Seq(Item) /\ all \in Seq(Item) /\ rest \in Seq(Item) /\ e.sent = u \o (all \o rest)
      /\ Count(e.sent, {"byte"}) = 0
      /\ Count(All(w, l, e), Words) + (Count(all, Awaited) + Count(rest, Awaited)) <= Wanted(e)
      /\ e.script # << >> /\ e.script[1][1] # "forward"
  BY DEF Asks
<1>3. << >> \o rest = rest /\ u \o all \in Seq(Item) /\ e.sent = (u \o all) \o rest
  <2>1. u \in Seq(Item) /\ all \in Seq(Item) /\ rest \in Seq(Item)
    BY <1>2
  <2>2. << >> \o rest = rest
    BY <2>1, ItemSeq
  <2>3. u \o all \in Seq(Item)
    BY <2>1, ItemSeq
  <2>4. (u \o all) \o rest = u \o (all \o rest)
    BY <2>1, ItemSeq
  <2>5. e.sent = u \o (all \o rest)
    BY <1>2
  <2> QED
    BY <2>2, <2>3, <2>4, <2>5
<1>4. Count(All(x, l, f), Words) + Count(rest, Awaited) <= Wanted(e)
  <2>1. /\ Wanted(e) \in Nat /\ \A S : Count(All(w, l, e), S) \in Nat
        /\ \A S : Count(all, S) \in Nat /\ Count(rest, S) \in Nat
    BY AsksNumbers
  <2>2. Count(All(x, l, f), Words) \in Nat
    <3>1. x.toProc[l] \in Seq(Item) /\ f.got = e.got
      <4>1. w.toProc[l] \in Seq(Item) /\ b \in Seq(Item)
        BY HeldIs, WordIs DEF Words
      <4>2. f.got = e.got
        BY DEF TalkOK, TalkSet
      <4> QED
        BY <4>1, <4>2, ItemSeq DEF Replied, Said
    <3>2. e.got \in Seq(Item)
      BY DEF TalkOK, TalkSet
    <3> QED
      BY <3>1, <3>2, ItemSeq, SpotsIs DEF All
  <2> QED
    BY <1>0, <1>1, <1>2, <2>1, <2>2
<1>5. Count(e.sent, Finals) > 0 => rest # << >>
  BY StreamNext
<1>6. AskingOK(x, l, f)
  BY <1>1, <1>2, <1>3, <1>4, <1>5 DEF AskingOK
<1> QED
  BY <1>1, <1>6, Distinct DEF Spoken, WaitingOK, BoundOK, Waiting, Bound

\* The stream was asked for.
LEMMA OpenSpoken ==
    ASSUME NEW w \in Record, NEW l \in Clients, NEW e, TalkOK(e), NEW u, NEW all, NEW rest,
           Asks(w, l, e, u, all, rest), NEW k \in 1..Len(all), all[k][1] = "open",
           NEW f, f = [e EXCEPT !.line = rest],
           NEW x, Replied(w, x, l, << >>), Waiting(x.sk[l]), x.sk[l].notify
    PROVE  Spoken(x, l, f)
<1>1. /\ All(x, l, f) = All(w, l, e) /\ AnswersOK(All(x, l, f), f) /\ Wanted(f) = Wanted(e)
      /\ f.sent = e.sent /\ f.line = rest
  BY SilentReply
<1>2. Count(all, Awaited) >= 1 /\ Count(e.sent, Finals) > 0 /\ rest = << >>
  BY RequestIs DEF Awaited, Finals
<1>3. /\ Wanted(e) \in Nat /\ \A S : Count(All(w, l, e), S) \in Nat
      /\ \A S : Count(all, S) \in Nat /\ Count(rest, S) \in Nat
  BY AsksNumbers
<1>4. /\ Count(All(w, l, e), {"byte"}) = 0
      /\ Count(All(w, l, e), Words) + (Count(all, Awaited) + Count(rest, Awaited)) <= Wanted(e)
      /\ Wanted(e) <= Count(All(w, l, e), {"OKAY"}) + 1
  BY DEF Asks
<1>5. Count(All(w, l, e), Words) + 1 <= Wanted(e)
  BY <1>2, <1>3, <1>4
<1>6. WaitingOK(x, l, f)
  BY <1>1, <1>2, <1>4, <1>5, ByteSeq DEF WaitingOK, One
<1> QED
  BY <1>1, <1>6, PhasesApart DEF Spoken, AskingOK, BoundOK

\* A host service was found.
LEMMA HostSpoken ==
    ASSUME NEW w \in Record, NEW l \in Clients, NEW e, TalkOK(e), NEW u, NEW all, NEW rest,
           Asks(w, l, e, u, all, rest), NEW k \in 1..Len(all), all[k][1] = "host",
           NEW f, f = [e EXCEPT !.line = rest], NEW b, b = <<Word("OKAY")>>,
           NEW x, Replied(w, x, l, b), x.sk[l].on = "list", x.sk[l].peer \in Services
    PROVE  Spoken(x, l, f)
<1>2. Count(all, Awaited) >= 1 /\ Count(e.sent, Finals) > 0
  BY RequestIs DEF Awaited, Finals
<1>1. /\ AnswersOK(All(x, l, f), f) /\ Wanted(f) = Wanted(e) /\ f.sent = e.sent
      /\ l \notin gone => Count(All(x, l, f), {"OKAY"}) = Count(All(w, l, e), {"OKAY"}) + 1
  BY <1>2, WordReply
<1>3. /\ Wanted(e) \in Nat /\ \A S : Count(All(w, l, e), S) \in Nat
      /\ \A S : Count(all, S) \in Nat /\ Count(rest, S) \in Nat
  BY AsksNumbers
<1>4. /\ Count(All(w, l, e), Words) + (Count(all, Awaited) + Count(rest, Awaited)) <= Wanted(e)
      /\ Wanted(e) <= Count(All(w, l, e), {"OKAY"}) + 1
      /\ Count(All(w, l, e), {"OKAY"}) <= Count(All(w, l, e), Words)
  BY DEF Asks
<1>5. Count(All(w, l, e), {"OKAY"}) + 1 = Wanted(e)
  BY <1>2, <1>3, <1>4
<1>6. x.sk[l].peer # Remote
  BY Distinct
<1>7. BoundOK(x, l, f)
  BY <1>1, <1>2, <1>5, <1>6 DEF BoundOK
<1>8. Bound(x.sk[l])
  BY DEF Bound
<1> QED
  BY <1>1, <1>7, <1>8, PhasesApart DEF Spoken, AskingOK, WaitingOK

\* smart_socket_enqueue.
LEMMA SmartSpoken ==
    ASSUME NEW w, Good(w), Fit(w), NEW l \in Locals, w.sk[l].peer = Smart, NEW e, TalkOK(e),
           Spoken(w, l, e), NEW bytes \in Seq(Item), NEW rest \in Seq(Item), e.line = bytes \o rest,
           NEW x, x = SmartEnqueue(w, l, bytes).w, NEW f, f = [e EXCEPT !.line = rest]
    PROVE  /\ \E b : Replied(w, x, l, b)
           /\ Spoken(x, l, f) /\ x.sk[l].on \in {"list", "freed"} /\ x.sk[l].peer # Remote
           /\ x.sk[l].notify => Waiting(x.sk[l])
<1> DEFINE all  == w.sk[l].req \o bytes
           asks == {i \in 1..Len(all) : all[i][1] \in Requests}
           k == Min(asks)
           what == all[k][1]
           p == [w EXCEPT !.sk[l].req = all]
<1>0. w \in Record /\ l \in Clients /\ w.sk[l].on = "list"
  BY SmartIs
<1>1. ~w.sk[l].notify /\ Asking(w.sk[l])
  BY <1>0, Distinct DEF Fit, Waiting, Asking
<1>2. PICK u : Asks(w, l, e, u, all, rest)
  BY <1>0, <1>1, AskingIs
<1>3. /\ asks = {} => x = p
      /\ asks # {} => x = CASE what = "open"      -> SmartOpen(w, l).w
                            [] what = "transport" -> SmartTransport(w, l).w
                            [] what = "host"      -> SmartHost(w, l).w
                            [] what = "devices"   -> SmartFail(Tell(w, l, "OKAY"), l).w
                            [] what = "bad"       -> SmartFail(w, l).w
  <2>1. asks = {} => x = p
    BY DEF SmartEnqueue
  <2>2. ASSUME asks # {}
        PROVE  SmartEnqueue(w, l, bytes) =
                 CASE what = "open"      -> SmartOpen(w, l)
                   [] what = "transport" -> SmartTransport(w, l)
                   [] what = "host"      -> SmartHost(w, l)
                   [] what = "devices"   -> SmartFail(Tell(w, l, "OKAY"), l)
                   [] what = "bad"       -> SmartFail(w, l)
    BY <2>2 DEF SmartEnqueue
  <2>3. asks # {} => what \in Requests
    <3>1. ASSUME asks # {} PROVE k \in asks
      <4>1. asks \in SUBSET Nat
        OBVIOUS
      <4> HIDE DEF asks
      <4>2. \E n \in asks : \A m \in asks : n <= m
        BY <3>1, <4>1, LeastNat
      <4> QED
        BY <4>2 DEF Min
    <3> QED
      BY <3>1
  <2> HIDE DEF asks, what, all
  <2> QED
    BY <2>1, <2>2, <2>3 DEF Requests
<1>4. asks # {} => k \in 1..Len(all) /\ what \in Requests
  <2>1. ASSUME asks # {} PROVE k \in asks
    <3>1. asks \in SUBSET Nat
      OBVIOUS
    <3> HIDE DEF asks
    <3>2. \E n \in asks : \A m \in asks : n <= m
      BY <2>1, <3>1, LeastNat
    <3> QED
      BY <3>2 DEF Min
  <2> QED
    BY <2>1
<1>5. ASSUME NEW b, Replied(w, x, l, b), x.sk[l] = Blank("freed"), AnswersOK(All(x, l, f), f)
      PROVE  /\ \E bb : Replied(w, x, l, bb)
             /\ Spoken(x, l, f) /\ x.sk[l].on \in {"list", "freed"} /\ x.sk[l].peer # Remote
             /\ x.sk[l].notify => Waiting(x.sk[l])
  <2>1. Spoken(x, l, f)
    BY <1>5, GoneSpoken
  <2>2. Blank("freed").on = "freed" /\ ~Blank("freed").notify /\ Blank("freed").peer = None
    BY DEF Blank
  <2> QED
    BY <1>5, <2>1, <2>2, Distinct
<1> HIDE DEF asks, all, k
<1>6. CASE asks = {}
  <2>1. x = p
    BY <1>3, <1>6
  <2>2. /\ Replied(w, x, l, << >>) /\ x.sk[l].req = all
        /\ x.sk[l].on = "list" /\ x.sk[l].peer = Smart /\ x.sk[l].notify = w.sk[l].notify
    <3>1. /\ w.sk \in [Locals -> Socket] /\ w.sk[l] \in Socket /\ w.sk[l].q = << >>
          /\ \A c \in Clients : c \in Locals
      BY SmartIs, HeldIs
    <3>2. x.toProc = w.toProc /\ x.h2d = w.h2d /\ x.sk = [w.sk EXCEPT ![l].req = all]
      BY <1>0, <2>1 DEF Record
    <3>3. /\ x.sk[l] = [w.sk[l] EXCEPT !.req = all]
          /\ \A c \in Clients : c # l => x.sk[c] = w.sk[c]
      BY <3>1, <3>2
    <3>4. /\ x.sk[l].req = all /\ x.sk[l].on = "list" /\ x.sk[l].peer = Smart
          /\ x.sk[l].notify = w.sk[l].notify /\ x.sk[l].q = << >>
      BY <1>0, <3>1, <3>3 DEF Socket
    <3> QED
      BY <1>0, <3>1, <3>2, <3>3, <3>4, PartReplies
  <2>3. Spoken(x, l, f)
    BY <1>0, <1>2, <2>2, PartSpoken
  <2> QED
    BY <1>1, <2>2, <2>3, Distinct
<1>7. CASE asks # {} /\ what = "open"
  <2>1. x = SmartOpen(w, l).w /\ k \in 1..Len(all) /\ all[k][1] = "open"
    BY <1>3, <1>4, <1>7
  <2>2. CASE Replied(w, x, l, << >>) /\ Waiting(x.sk[l]) /\ x.sk[l].notify
    <3>1. Spoken(x, l, f)
      BY <1>0, <1>2, <2>1, <2>2, OpenSpoken
    <3> QED
      BY <2>2, <3>1, Distinct DEF Waiting
  <2>3. CASE Replied(w, x, l, <<Word("FAIL")>>) /\ x.sk[l] = Blank("freed")
    <3>1. PICK b : b = <<Word("FAIL")>>
      OBVIOUS
    <3>2. Count(all, Awaited) >= 1
      BY <1>0, <1>2, <2>1, RequestIs DEF Awaited
    <3>3. AnswersOK(All(x, l, f), f)
      BY <1>0, <1>2, <2>3, <3>1, <3>2, WordReply
    <3> QED
      BY <1>5, <2>3, <3>3
  <2> QED
    BY <2>1, <2>2, <2>3, OpenReplies
<1>8. CASE asks # {} /\ what = "transport"
  <2>1. x = SmartTransport(w, l).w /\ k \in 1..Len(all) /\ all[k][1] = "transport"
    BY <1>3, <1>4, <1>8
  <2>2. PICK status \in {"OKAY", "FAIL"} : Replied(w, x, l, <<Word(status)>>)
    BY <2>1, TransportReplies
  <2>3. PICK b : b = <<Word(status)>>
    OBVIOUS
  <2>4. /\ x.sk[l].on = "list" /\ x.sk[l].peer = Smart /\ x.sk[l].req = << >>
        /\ x.sk[l].notify = w.sk[l].notify
    BY <2>1, TransportReplies
  <2>5. Spoken(x, l, f)
    BY <1>0, <1>2, <2>1, <2>2, <2>3, <2>4, TransportSpoken
  <2> QED
    BY <1>1, <2>2, <2>4, <2>5, Distinct
<1>9. CASE asks # {} /\ what = "host"
  <2>1. x = SmartHost(w, l).w /\ k \in 1..Len(all) /\ all[k][1] = "host"
    BY <1>3, <1>4, <1>9
  <2>2. CASE /\ Replied(w, x, l, <<Word("OKAY")>>)
             /\ x.sk[l].on = "list" /\ x.sk[l].peer \in Services /\ ~x.sk[l].notify
    <3>1. PICK b : b = <<Word("OKAY")>>
      OBVIOUS
    <3>2. Spoken(x, l, f)
      BY <1>0, <1>2, <2>1, <2>2, <3>1, HostSpoken
    <3> QED
      BY <2>2, <3>2, Distinct
  <2>3. CASE Replied(w, x, l, <<Word("FAIL")>>) /\ x.sk[l] = Blank("freed")
    <3>1. PICK b : b = <<Word("FAIL")>>
      OBVIOUS
    <3>2. Count(all, Awaited) >= 1
      BY <1>0, <1>2, <2>1, RequestIs DEF Awaited
    <3>3. AnswersOK(All(x, l, f), f)
      BY <1>0, <1>2, <2>3, <3>1, <3>2, WordReply
    <3> QED
      BY <1>5, <2>3, <3>3
  <2> QED
    BY <2>1, <2>2, <2>3, HostReplies
<1>10. CASE asks # {} /\ what = "devices"
  <2>1. x = SmartFail(Tell(w, l, "OKAY"), l).w /\ k \in 1..Len(all) /\ all[k][1] = "devices"
    BY <1>3, <1>4, <1>10
  <2>2. PICK b : b = <<Word("OKAY")>>
    OBVIOUS
  <2>3. Replied(w, x, l, <<Word("OKAY")>>) /\ x.sk[l] = Blank("freed")
    BY <2>1, FailReplies
  <2>4. Last(e.script) = Word("devices")
    BY <1>0, <1>2, <2>1, RequestIs
  <2>5. AnswersOK(All(x, l, f), f)
    BY <1>0, <1>2, <2>2, <2>3, <2>4, WordReply
  <2> QED
    BY <1>5, <2>3, <2>5
<1>11. CASE asks # {} /\ what = "bad"
  <2>1. x = SmartFail(w, l).w
    BY <1>3, <1>11
  <2>2. Replied(w, x, l, << >>) /\ x.sk[l] = Blank("freed")
    BY <2>1, FailReplies
  <2>3. AnswersOK(All(x, l, f), f)
    BY <1>0, <1>2, <2>2, SilentReply
  <2> QED
    BY <1>5, <2>2, <2>3
<1> QED
  BY <1>4, <1>6, <1>7, <1>8, <1>9, <1>10, <1>11 DEF Requests

-----------------------------------------------------------------------------
(* What the server reads *)

\* With some of its line taken, the rest of it is left for client l.
Took(E, F, l, rest) == /\ l \in Clients => F[l] = [E[l] EXCEPT !.line = rest]
                       /\ \A c \in Clients : c # l => F[c] = E[c]

LEMMA TookTalks ==
    ASSUME NEW E, TalksOK(E), NEW l, NEW rest \in Seq(Item), NEW F, Took(E, F, l, rest)
    PROVE  /\ TalksOK(F)
           /\ l \in Clients => /\ F[l].line = rest /\ F[l].sent = E[l].sent
                               /\ F[l].got = E[l].got /\ F[l].script = E[l].script
<1>1. ASSUME l \in Clients
      PROVE  /\ F[l] \in TalkSet /\ F[l].line = rest /\ F[l].sent = E[l].sent
             /\ F[l].got = E[l].got /\ F[l].script = E[l].script
  <2>1. E[l] \in TalkSet /\ F[l] = [E[l] EXCEPT !.line = rest]
    BY <1>1 DEF TalksOK, TalkOK, Took
  <2> QED
    BY <2>1 DEF TalkSet
<1>2. ASSUME l \in Clients PROVE TalkOK(F[l])
  BY <1>1, <1>2 DEF TalksOK, TalkOK, Wanted
<1>3. ASSUME NEW c \in Clients PROVE TalkOK(F[c])
  BY <1>2, <1>3 DEF TalksOK, Took
<1> QED
  BY <1>1, <1>3 DEF TalksOK

\* A client makes no data with its requests.
LEMMA AskingData ==
    ASSUME NEW w \in Record, NEW l \in Clients, NEW e, TalkOK(e), Asking(w.sk[l]), Spoken(w, l, e),
           NEW bytes \in Seq(Item), NEW rest \in Seq(Item), e.line = bytes \o rest
    PROVE  Data(e.line) = << >> /\ Data(rest) = << >>
<1>1. PICK u \in Seq(Item) : e.sent = u \o (w.sk[l].req \o e.line)
  BY DEF Spoken, AskingOK
<1>2. w.sk[l].req \in Seq(Item) /\ e.sent \in Seq(Item) /\ e.line \in Seq(Item)
  BY DEF Record, Locals, Socket, TalkOK, TalkSet
<1>3. Count(e.sent, {"byte"}) = 0
  BY DEF Spoken, AskingOK
<1>4. w.sk[l].req \o e.line \in Seq(Item)
  BY <1>2, ItemSeq
<1>5. /\ Count(e.sent, {"byte"}) = Count(u, {"byte"}) + Count(w.sk[l].req \o e.line, {"byte"})
      /\ Count(w.sk[l].req \o e.line, {"byte"}) = Count(w.sk[l].req, {"byte"}) + Count(e.line, {"byte"})
      /\ Count(e.line, {"byte"}) = Count(bytes, {"byte"}) + Count(rest, {"byte"})
  <2>1. Count(u \o (w.sk[l].req \o e.line), {"byte"})
          = Count(u, {"byte"}) + Count(w.sk[l].req \o e.line, {"byte"})
    BY <1>1, <1>4, CountConcat
  <2>2. Count(w.sk[l].req \o e.line, {"byte"}) = Count(w.sk[l].req, {"byte"}) + Count(e.line, {"byte"})
    <3>1. \A a, b \in Seq(Item) : Count(a \o b, {"byte"}) = Count(a, {"byte"}) + Count(b, {"byte"})
      BY CountConcat
    <3> QED
      BY <1>2, <3>1
  <2>3. Count(bytes \o rest, {"byte"}) = Count(bytes, {"byte"}) + Count(rest, {"byte"})
    BY CountConcat
  <2> QED
    BY <1>1, <2>1, <2>2, <2>3
<1>6. /\ Count(u, {"byte"}) \in Nat /\ Count(w.sk[l].req, {"byte"}) \in Nat
      /\ Count(bytes, {"byte"}) \in Nat /\ Count(rest, {"byte"}) \in Nat
      /\ Count(e.line, {"byte"}) \in Nat
  BY <1>1, <1>2, SpotsIs
<1>7. Count(e.line, {"byte"}) = 0 /\ Count(rest, {"byte"}) = 0
  BY <1>3, <1>5, <1>6
<1> QED
  BY <1>2, <1>7, NoData

\* smart_socket_enqueue.
LEMMA SmartSpeaks ==
    ASSUME NEW w, Good(w), NEW l \in Locals, w.sk[l].peer = Smart, NEW E, TalksOK(E), Speaks(w, E),
           NEW bytes \in Seq(Item), NEW rest \in Seq(Item), E[l].line = bytes \o rest,
           NEW x, x = SmartEnqueue(w, l, bytes).w, NEW F, Took(E, F, l, rest)
    PROVE  Speaks(x, F)
<1>0. w \in Record /\ l \in Clients /\ w.sk[l].on = "list" /\ Fit(w)
  BY SmartIs DEF Speaks
<1>1. TalkOK(E[l]) /\ Spoken(w, l, E[l]) /\ Flowing(w, l, E[l], dev[l])
  BY <1>0 DEF TalksOK, Speaks
<1>2. PICK b : Replied(w, x, l, b)
  <2>1. PICK e : e = E[l]
    OBVIOUS
  <2>2. PICK f : f = [e EXCEPT !.line = rest]
    OBVIOUS
  <2> QED
    BY <1>0, <1>1, <2>1, <2>2, SmartSpoken
<1>3. F[l] = [E[l] EXCEPT !.line = rest]
  BY <1>0 DEF Took
<1>4. /\ Spoken(x, l, F[l]) /\ x.sk[l].on \in {"list", "freed"}
      /\ x.sk[l].notify => Waiting(x.sk[l])
  <2>1. PICK e : e = E[l]
    OBVIOUS
  <2>2. PICK f : f = F[l]
    OBVIOUS
  <2>3. f = [e EXCEPT !.line = rest] /\ TalkOK(e) /\ Spoken(w, l, e) /\ e.line = bytes \o rest
    BY <1>1, <1>3, <2>1, <2>2
  <2>4. /\ Spoken(x, l, f) /\ x.sk[l].on \in {"list", "freed"}
        /\ x.sk[l].notify => Waiting(x.sk[l])
    BY <1>0, <2>3, SmartSpoken
  <2> QED
    BY <2>2, <2>4
<1>5. Flowing(x, l, F[l], dev[l])
  <2>1. Asking(w.sk[l])
    BY <1>0 DEF Asking
  <2>2. Data(E[l].line) = << >> /\ Data(rest) = << >>
    BY <1>0, <1>1, <2>1, AskingData
  <2>3. F[l].line = rest /\ F[l].sent = E[l].sent
    BY <1>0, TookTalks
  <2>4. w.sk[l].on = "list" /\ w.sk[l].peer \notin Services
    BY <1>0, Distinct
  <2>5. InFlight(x.h2d, l) = InFlight(w.h2d, l)
    BY <1>0, <1>2 DEF Replied
  <2> QED
    BY <1>1, <2>2, <2>3, <2>4, <2>5 DEF Flowing
<1>6. Fresh(x, l, F[l])
  BY <1>4 DEF Fresh
<1>7. ASSUME NEW c \in Clients, c # l
      PROVE  /\ Spoken(x, c, F[c]) /\ Flowing(x, c, F[c], dev[c]) /\ Fresh(x, c, F[c])
             /\ x.sk[c] = w.sk[c]
  <2>1. /\ x.sk[c] = w.sk[c] /\ x.toProc[c] = w.toProc[c] /\ F[c] = E[c]
        /\ InFlight(x.h2d, c) = InFlight(w.h2d, c)
    BY <1>2, <1>7 DEF Replied, Took
  <2>2. Turn(w, x, c)
    BY <2>1 DEF Turn, Still
  <2>3. TalkOK(E[c]) /\ Spoken(w, c, E[c]) /\ Flowing(w, c, E[c], dev[c]) /\ Fresh(w, c, E[c])
    BY DEF TalksOK, Speaks
  <2>4. w.sk[c].notify \in BOOLEAN /\ (w.sk[c].notify => Waiting(w.sk[c]))
    BY <1>0, FitIs
  <2>5. Spoken(x, c, E[c])
    BY <1>0, <2>2, <2>3, <2>4, TurnKeeps
  <2> QED
    BY <2>1, <2>2, <2>3, <2>5, TurnFlows
<1>8. Fit(x)
  <2>1. ASSUME NEW c \in Clients
        PROVE  (x.sk[c].notify => Waiting(x.sk[c])) /\ x.sk[c].q \in Seq(AnyByte)
    <3>1. CASE c = l
      <4>1. x.sk[l].q = << >> /\ << >> \in Seq(AnyByte)
        BY <1>2 DEF Replied
      <4> QED
        BY <1>4, <3>1, <4>1
    <3>2. CASE c # l
      BY <1>0, <1>7, <3>2 DEF Fit
    <3> QED
      BY <3>1, <3>2
  <2> QED
    BY <2>1 DEF Fit
<1> QED
  BY <1>4, <1>5, <1>6, <1>7, <1>8 DEF Speaks

\* A WRTE takes bytes off the line of its client.
LEMMA WriteFlows ==
    ASSUME NEW w, NEW x, NEW l \in Clients, NEW e, NEW f, NEW d, TalkOK(e), d.got \in Seq(Item),
           Flowing(w, l, e, d), tr = "on", w.sk[l].on = "list", w.sk[l].peer \notin Services,
           NEW bytes \in Seq(AnyByte), NEW rest \in Seq(Item), e.line = bytes \o rest,
           f.line = rest, f.sent = e.sent, InFlight(w.h2d, l) \in Seq(Item),
           InFlight(x.h2d, l) = InFlight(w.h2d, l) \o bytes
    PROVE  Flowing(x, l, f, d)
<1>1. ASSUME d.st # "closed"
      PROVE  /\ (d.got \o InFlight(x.h2d, l)) \o Data(rest) = Data(e.sent)
             /\ Starts(d.got \o InFlight(x.h2d, l), Data(e.sent))
  <2>1. (d.got \o InFlight(w.h2d, l)) \o Data(e.line) = Data(e.sent)
    BY <1>1 DEF Flowing
  <2>2. PICK g, h, b, r \in Seq(Item) :
          g = d.got /\ h = InFlight(w.h2d, l) /\ b = bytes /\ r = Data(rest)
    BY ItemSeq, DataFacts
  <2>3. Data(e.line) = b \o r
    <3>1. bytes \in Seq(Item) /\ Data(bytes) = bytes
      BY ItemSeq, DataFacts
    <3>2. Data(bytes \o rest) = Data(bytes) \o Data(rest)
      BY <3>1, DataFacts
    <3> QED
      BY <2>2, <3>1, <3>2
  <2>4. (g \o (h \o b)) \o r = (g \o h) \o (b \o r)
    <3>1. Shifted(g, h, b, r)
      BY ShiftedIs
    <3> QED
      BY <3>1 DEF Shifted
  <2>5. (d.got \o InFlight(x.h2d, l)) \o Data(rest) = Data(e.sent)
    BY <2>1, <2>2, <2>3, <2>4
  <2> QED
    BY <2>2, <2>5 DEF Starts
<1> QED
  BY <1>1 DEF Flowing

\* A packet with bytes adds them to those on their way to the device.
LEMMA CarriesBytes ==
    ASSUME NEW w \in Record, NEW l \in Clients, NEW bytes \in Seq(Item)
    PROVE  LET x == Send(w, "WRTE", l, bytes)
           IN  /\ x.sk = w.sk /\ x.toProc = w.toProc
               /\ InFlight(x.h2d, l) = InFlight(w.h2d, l) \o bytes
               /\ \A c \in Clients : c # l => InFlight(x.h2d, c) = InFlight(w.h2d, c)
<1> DEFINE x == Send(w, "WRTE", l, bytes)
           p == [cmd |-> "WRTE", id |-> l, data |-> bytes]
<1>1. w.h2d \in Seq(Packet) /\ p \in Packet /\ x.h2d = Append(w.h2d, p)
  BY DEF Record, Packet, Send
<1>2. x.sk = w.sk /\ x.toProc = w.toProc
  BY DEF Record, Send
<1>3. Carried(p, l) = bytes /\ \A c \in Clients : c # l => Carried(p, c) = << >>
  BY DEF Carried
<1>4. \A c : /\ InFlight(w.h2d, c) \in Seq(Item)
             /\ InFlight(Append(w.h2d, p), c) = InFlight(w.h2d, c) \o Carried(p, c)
  <2> HIDE DEF p
  <2> QED
    BY <1>1, InFlightFacts
<1> HIDE DEF x, p
<1>5. \A c \in Clients : c # l => InFlight(x.h2d, c) = InFlight(w.h2d, c)
  BY <1>1, <1>3, <1>4, ItemSeq
<1> QED
  BY <1>1, <1>2, <1>3, <1>4, <1>5 DEF x

\* remote_socket_enqueue.
LEMMA RemoteSpeaks ==
    ASSUME NEW w, Good(w), NEW l \in Locals, w.sk[l].peer = Remote, tr # "on" => w.disc = {},
           dev \in DevSet, NEW E, TalksOK(E), Speaks(w, E),
           NEW bytes \in Seq(Item), NEW rest \in Seq(Item), E[l].line = bytes \o rest,
           NEW x, x = Send(w, "WRTE", l, bytes), NEW F, Took(E, F, l, rest)
    PROVE  Speaks(x, F)
<1>0. w \in Record /\ l \in Clients /\ w.sk[l].on = "list" /\ Fit(w) /\ tr = "on"
  <2>1. w \in Record /\ l \in Clients /\ tr = "on"
    BY RemoteIs DEF Good
  <2> QED
    BY <2>1, Distinct DEF Speaks, Good, SkOK, SockOK
<1>1. TalkOK(E[l]) /\ Spoken(w, l, E[l]) /\ Flowing(w, l, E[l], dev[l])
  BY <1>0 DEF TalksOK, Speaks
<1>2. /\ x.sk = w.sk /\ x.toProc = w.toProc /\ InFlight(x.h2d, l) = InFlight(w.h2d, l) \o bytes
      /\ \A c \in Clients : c # l => InFlight(x.h2d, c) = InFlight(w.h2d, c)
  BY <1>0, CarriesBytes
<1>3. Bound(w.sk[l]) /\ ~Asking(w.sk[l]) /\ ~Waiting(w.sk[l])
  BY <1>0, Distinct DEF Bound, Asking, Waiting
<1>4. bytes \in Seq(AnyByte) /\ rest \in Seq(AnyByte)
  <2>1. bytes \o rest \in Seq(AnyByte)
    BY <1>1, <1>3 DEF Spoken, BoundOK
  <2> QED
    BY <2>1, FirstBytes, RestBytes
<1>5. /\ F[l].line = rest /\ F[l].sent = E[l].sent /\ F[l].got = E[l].got
      /\ F[l].script = E[l].script
  BY <1>0, TookTalks
<1>6. Spoken(x, l, F[l])
  <2>1. All(x, l, F[l]) = All(w, l, E[l]) /\ Wanted(F[l]) = Wanted(E[l])
    BY <1>2, <1>5 DEF All, Wanted
  <2>2. AnswersOK(All(x, l, F[l]), F[l])
    BY <1>1, <1>5, <2>1 DEF Spoken, AnswersOK
  <2>3. BoundOK(x, l, F[l])
    BY <1>1, <1>2, <1>4, <1>5, <2>1 DEF Spoken, BoundOK
  <2> QED
    BY <1>2, <1>3, <2>2, <2>3 DEF Spoken, AskingOK, WaitingOK
<1>7. Flowing(x, l, F[l], dev[l])
  <2>1. dev[l].got \in Seq(Item) /\ InFlight(w.h2d, l) \in Seq(Item)
    BY <1>0, InFlightFacts DEF DevSet, Record
  <2> QED
    BY <1>0, <1>1, <1>2, <1>4, <1>5, <2>1, Distinct, WriteFlows
<1>8. Fresh(x, l, F[l])
  BY <1>0, <1>2 DEF Fresh
<1>9. ASSUME NEW c \in Clients, c # l
      PROVE  /\ Spoken(x, c, F[c]) /\ Flowing(x, c, F[c], dev[c]) /\ Fresh(x, c, F[c])
  <2>1. /\ x.sk[c] = w.sk[c] /\ x.toProc[c] = w.toProc[c] /\ F[c] = E[c]
        /\ InFlight(x.h2d, c) = InFlight(w.h2d, c)
    BY <1>2, <1>9 DEF Took
  <2>2. Turn(w, x, c)
    BY <2>1 DEF Turn, Still
  <2>3. TalkOK(E[c]) /\ Spoken(w, c, E[c]) /\ Flowing(w, c, E[c], dev[c]) /\ Fresh(w, c, E[c])
    BY DEF TalksOK, Speaks
  <2>4. w.sk[c].notify \in BOOLEAN /\ (w.sk[c].notify => Waiting(w.sk[c]))
    BY <1>0, FitIs
  <2>5. Spoken(x, c, E[c])
    BY <1>0, <2>2, <2>3, <2>4, TurnKeeps
  <2> QED
    BY <2>1, <2>2, <2>3, <2>5, TurnFlows
<1>10. Fit(x)
  BY <1>0, <1>2 DEF Fit
<1> QED
  BY <1>6, <1>7, <1>8, <1>9, <1>10 DEF Speaks

\* Bytes for a service, or for nobody.
LEMMA LineSpeaks ==
    ASSUME NEW w, Good(w), NEW l \in Locals, w.sk[l].on \in {"list", "closing"},
           w.sk[l].peer \notin {Smart, Remote}, tr = "on" /\ l \in Clients => ~Waiting(w.sk[l]),
           NEW E, TalksOK(E), Speaks(w, E), NEW bytes \in Seq(Item), NEW rest \in Seq(Item),
           l \in Clients => E[l].line = bytes \o rest, NEW F, Took(E, F, l, rest)
    PROVE  Speaks(w, F)
<1>1. ASSUME l \in Clients
      PROVE  Spoken(w, l, F[l]) /\ Flowing(w, l, F[l], dev[l]) /\ Fresh(w, l, F[l])
  <2>1. /\ TalkOK(E[l]) /\ Spoken(w, l, E[l]) /\ Flowing(w, l, E[l], dev[l])
        /\ E[l].line = bytes \o rest
    BY <1>1 DEF TalksOK, Speaks
  <2>2. /\ F[l].line = rest /\ F[l].sent = E[l].sent /\ F[l].got = E[l].got
        /\ F[l].script = E[l].script
    BY <1>1, TookTalks
  <2>3. All(w, l, F[l]) = All(w, l, E[l]) /\ Wanted(F[l]) = Wanted(E[l])
    BY <2>2 DEF All, Wanted
  <2>4. w.sk[l].peer # Smart /\ w.sk[l].peer # Remote /\ w.sk[l].peer \notin Clients
        /\ w.sk[l] \in Socket
    BY <1>1, Distinct DEF Good, SkOK, SockOK
  <2>5. AskingOK(w, l, F[l])
    BY <2>4 DEF AskingOK, Asking
  <2>6. WaitingOK(w, l, F[l])
    <3>1. SUFFICES ASSUME Waiting(w.sk[l]) PROVE WaitingOK(w, l, F[l])
      BY DEF WaitingOK
    <3>2. E[l].line \in Seq(AnyByte)
      BY <2>1, <3>1 DEF Spoken, WaitingOK
    <3>3. rest \in Seq(AnyByte)
      BY <2>1, <3>2, RestBytes
    <3> QED
      BY <2>1, <2>2, <2>3, <3>1, <3>3 DEF Spoken, WaitingOK
  <2>7. BoundOK(w, l, F[l])
    BY <2>1, <2>2, <2>3, <2>4 DEF Spoken, BoundOK
  <2>8. AnswersOK(All(w, l, F[l]), F[l])
    BY <2>1, <2>2, <2>3 DEF Spoken, AnswersOK
  <2>9. ~(tr = "on" /\ w.sk[l].on \in {"absent", "list"} /\ w.sk[l].peer \notin Services)
    BY <1>1, <2>4, Distinct DEF Waiting, Socket
  <2>10. Flowing(w, l, F[l], dev[l])
    BY <2>1, <2>2, <2>9 DEF Flowing
  <2> QED
    BY <2>5, <2>6, <2>7, <2>8, <2>10 DEF Spoken, Fresh
<1>2. ASSUME NEW c \in Clients
      PROVE  Spoken(w, c, F[c]) /\ Flowing(w, c, F[c], dev[c]) /\ Fresh(w, c, F[c])
  BY <1>1 DEF Speaks, Took
<1> QED
  BY <1>2 DEF Speaks

\* s->peer->enqueue.
LEMMA PeerEnqueueSpeaks ==
    ASSUME NEW w, Good(w), NEW l \in Locals, w.sk[l].peer # None, tr # "on" => w.disc = {},
           dev \in DevSet, NEW E, TalksOK(E), Speaks(w, E),
           NEW bytes \in Seq(Item), NEW rest \in Seq(Item),
           l \in Clients => E[l].line = bytes \o rest, l \in Services => bytes \in Seq(AnyByte),
           NEW F, Took(E, F, l, rest)
    PROVE  Speaks(PeerEnqueue(w, l, bytes).w, F)
<1> DEFINE p == w.sk[l].peer
           e == PeerEnqueue(w, l, bytes)
<1>0. p \in Locals \cup {Smart, Remote} /\ w.sk[l].on = "list" /\ SockOK(l, w.sk[l]) /\ Fit(w)
  BY DEF Good, SkOK, SockOK, Socket, Speaks
<1>1. CASE p = Remote
  <2>1. e.w = Send(w, "WRTE", l, bytes) /\ l \in Clients
    BY <1>1, RemoteIs, Distinct DEF PeerEnqueue
  <2>2. PICK x : x = e.w
    OBVIOUS
  <2> HIDE DEF e
  <2>3. Speaks(x, F)
    BY <1>1, <2>1, <2>2, RemoteSpeaks
  <2> QED
    BY <2>2, <2>3 DEF e
<1>2. CASE p = Smart
  <2>1. e = SmartEnqueue(w, l, bytes) /\ l \in Clients
    BY <1>2, SmartIs, Distinct DEF PeerEnqueue
  <2>2. PICK x : x = e.w
    OBVIOUS
  <2> HIDE DEF e
  <2>3. Speaks(x, F)
    BY <1>2, <2>1, <2>2, SmartSpeaks
  <2> QED
    BY <2>2, <2>3 DEF e
<1>3. CASE p \in Locals
  <2>1. e = Enqueue(w, p, bytes)
    BY <1>3, Distinct DEF PeerEnqueue
  <2>2. w.sk[p].on = "list" /\ w.sk[p].peer = l
    BY <1>3, PeerIs
  <2>3. Speaks(w, F)
    BY <1>0, <1>3, Distinct, LineSpeaks DEF Waiting
  <2>4. TalksOK(F)
    BY TookTalks
  <2>5. p \in Clients => bytes \in Seq(AnyByte)
    BY <1>0 DEF SockOK
  <2>6. w.sk[p].peer \notin {None, Smart}
    BY <2>2, Distinct
  <2>7. Turns(w, Enqueue(w, p, bytes).w)
    <3> HIDE DEF p
    <3> QED
      BY <1>0, <1>3, <2>2, <2>5, <2>6, EnqueueTurns
  <2> QED
    BY <2>1, <2>3, <2>4, <2>7, TurnsSpeak
<1> QED
  BY <1>0, <1>1, <1>2, <1>3

\* What the handlers keep of the record is all that matters.
LEMMA SameSpeaks ==
    ASSUME NEW w, NEW v, NEW E, Speaks(w, E), v.sk = w.sk, v.toProc = w.toProc, v.h2d = w.h2d
    PROVE  Speaks(v, E)
<1>1. Fit(v)
  BY DEF Speaks, Fit
<1>2. ASSUME NEW c \in Clients PROVE Spoken(v, c, E[c])
  <2>1. Spoken(w, c, E[c]) /\ All(v, c, E[c]) = All(w, c, E[c])
    BY DEF Speaks, All
  <2>2. AskingOK(v, c, E[c])
    BY <2>1 DEF Spoken, AskingOK
  <2>3. WaitingOK(v, c, E[c])
    BY <2>1 DEF Spoken, WaitingOK
  <2>4. BoundOK(v, c, E[c])
    BY <2>1 DEF Spoken, BoundOK
  <2> QED
    BY <2>1, <2>2, <2>3, <2>4 DEF Spoken
<1>3. ASSUME NEW c \in Clients PROVE Flowing(v, c, E[c], dev[c]) /\ Fresh(v, c, E[c])
  BY <1>3 DEF Speaks, Flowing, Fresh
<1> QED
  BY <1>1, <1>2, <1>3 DEF Speaks

\* FDE_READ.
LEMMA EventReadSpeaks ==
    ASSUME NEW w, Good(w), NEW l \in Locals, w.sk[l].on \in {"list", "closing"},
           tr # "on" => w.disc = {}, tr = "on" /\ l \in Clients => ~Waiting(w.sk[l]),
           dev \in DevSet, toServer \in [Locals -> Seq(Item)],
           NEW E, TalksOK(E), Speaks(w, E), l \in Clients => E[l].line = toServer[l],
           l \in Services => toServer[l] \in Seq(AnyByte),
           NEW F, Took(E, F, l, SubSeq(toServer[l], ReadLen(l) + 1, Len(toServer[l])))
    PROVE  Speaks(EventRead(w, l), F)
<1> DEFINE bytes == SubSeq(toServer[l], 1, ReadLen(l))
           rest == SubSeq(toServer[l], ReadLen(l) + 1, Len(toServer[l]))
           e == IF bytes = << >> \/ w.sk[l].peer = None
                  THEN [w |-> w, r |-> 0] ELSE PeerEnqueue(w, l, bytes)
           u == e.w
           dead == u.sk[l].on = "freed"
           x == IF e.r > 0 THEN [u EXCEPT !.sk = [u.sk EXCEPT ![l] = FdeDel(u.sk[l], "R")]] ELSE u
<1>0. EventRead(w, l) = IF e.r < 0 THEN u ELSE IF dead THEN [u EXCEPT !.bad = TRUE]
                        ELSE IF ReadEof(l) THEN Close(x, l) ELSE x
  BY DEF EventRead, HandOver
<1>1. bytes \in Seq(Item) /\ rest \in Seq(Item) /\ toServer[l] = bytes \o rest
  <2>1. ReadLen(l) \in 0..Len(toServer[l]) /\ toServer[l] \in Seq(Item)
    BY ReadLenOK
  <2> QED
    BY <2>1, SplitWhole
<1>2. Took(E, F, l, rest) /\ TalksOK(F)
  BY <1>1, TookTalks
<1>3. l \in Services => bytes \in Seq(AnyByte)
  BY <1>1, FirstBytes
<1> HIDE DEF bytes, rest
<1>4. ReadSafe(w, e, l) /\ Speaks(u, F)
  <2>1. CASE bytes = << >> \/ w.sk[l].peer = None
    <3>1. ReadSafe(w, e, l) /\ u = w
      BY <2>1, SafeSame DEF ReadSafe
    <3>2. CASE w.sk[l].peer = None
      BY <1>1, <1>2, <3>1, <3>2, Distinct, LineSpeaks
    <3>3. CASE bytes = << >>
      <4>1. rest = toServer[l]
        BY <1>1, <3>3, ItemSeq
      <4>2. l \in Clients => F[l] = E[l]
        BY <1>2, <4>1 DEF Took, TalksOK, TalkOK, TalkSet
      <4>3. \A c \in Clients : F[c] = E[c]
        BY <1>2, <4>2 DEF Took
      <4> QED
        BY <3>1, <4>3 DEF Speaks
    <3> QED
      BY <2>1, <3>2, <3>3
  <2>2. CASE ~(bytes = << >> \/ w.sk[l].peer = None)
    <3>1. e = PeerEnqueue(w, l, bytes)
      BY <2>2
    <3> HIDE DEF e
    <3> QED
      BY <1>1, <1>2, <1>3, <2>2, <3>1, PeerEnqueueOK, PeerEnqueueSpeaks
  <2> QED
    BY <2>1, <2>2
<1> HIDE DEF e
<1>5. /\ Safe(w, u) /\ e.r \in {-1, 0, 1} /\ Good(u) /\ u \in Record
      /\ u.sk \in [Locals -> Socket] /\ u.sk[l] \in Socket /\ SockOK(l, u.sk[l])
      /\ Speaks(u, F) /\ Fit(u)
  BY <1>4 DEF ReadSafe, Safe, Good, SkOK, Speaks
<1>6. u.sk[l].on \in {"list", "closing", "freed"}
  <2>1. u.sk[l].on # "absent"
    BY <1>5 DEF Safe, Calm
  <2> QED
    BY <1>5, <2>1 DEF Socket
<1> HIDE DEF u
<1>7. CASE e.r < 0
  BY <1>0, <1>5, <1>7
<1>8. CASE e.r >= 0 /\ dead
  <2>1. EventRead(w, l) = [u EXCEPT !.bad = TRUE]
    BY <1>0, <1>5, <1>8
  <2>2. PICK v : v = [u EXCEPT !.bad = TRUE]
    OBVIOUS
  <2>3. v.sk = u.sk /\ v.toProc = u.toProc /\ v.h2d = u.h2d
    BY <1>5, <2>2 DEF Record
  <2>4. Speaks(v, F)
    BY <1>5, <2>3, SameSpeaks
  <2> QED
    BY <2>1, <2>2, <2>4
<1>9. CASE e.r >= 0 /\ ~dead
  <2>1. Good(x) /\ Speaks(x, F) /\ x.sk[l].on = u.sk[l].on
    <3>1. CASE e.r > 0
      <4> DEFINE r == FdeDel(u.sk[l], "R")
                 v == [u EXCEPT !.sk = [u.sk EXCEPT ![l] = r]]
      <4>1. x = v /\ u.sk[l].on \in {"list", "closing"}
        BY <1>6, <1>9, <3>1
      <4>2. r \in Socket /\ SockOK(l, r) /\ r = [u.sk[l] EXCEPT !.want = r.want, !.pend = r.pend]
        BY <1>5, <4>1, ReadMask
      <4> HIDE DEF r
      <4>3. /\ r.on = u.sk[l].on /\ r.peer = u.sk[l].peer /\ (Uses(r) => Uses(u.sk[l]))
            /\ r.q = u.sk[l].q /\ Still(u.sk[l], r)
        BY <1>5, <4>2 DEF Socket, Uses, Still
      <4>4. /\ v \in Record /\ v.sk = [u.sk EXCEPT ![l] = r] /\ v.disc = u.disc /\ v.h2d = u.h2d
            /\ v.bad = u.bad /\ v.toProc = u.toProc
        BY <1>5, <4>2 DEF Record
      <4> HIDE DEF v
      <4>5. Safe(u, v)
        BY <1>5, <4>2, <4>3, <4>4, Touch
      <4>6. ASSUME NEW c \in Clients PROVE Still(u.sk[c], v.sk[c]) /\ v.sk[c].q = u.sk[c].q
        <5>1. c \in Locals
          BY Distinct
        <5> QED
          BY <1>5, <4>3, <4>4, <5>1 DEF Still
      <4>7. \A c \in Clients : Turn(u, v, c)
        BY <4>4, <4>6 DEF Turn
      <4>8. \A c \in Clients : v.sk[c].q \in Seq(AnyByte)
        BY <1>5, <4>6 DEF Fit
      <4>9. Turns(u, v)
        BY <1>5, <4>7, <4>8, FitBack
      <4>10. Speaks(v, F)
        BY <1>2, <1>5, <4>9, TurnsSpeak
      <4>11. v.sk[l].on = u.sk[l].on
        BY <1>5, <4>3, <4>4
      <4> QED
        BY <4>1, <4>5, <4>10, <4>11 DEF Safe
    <3>2. CASE ~(e.r > 0)
      BY <1>5, <3>2
    <3> QED
      BY <3>1, <3>2
  <2>2. EventRead(w, l) = IF ReadEof(l) THEN Close(x, l) ELSE x
    BY <1>0, <1>5, <1>9
  <2>3. ReadEof(l) => x.sk[l].on \in {"list", "closing"}
    BY <1>6, <1>9, <2>1
  <2> HIDE DEF x
  <2>4. ReadEof(l) => Speaks(Close(x, l), F)
    <3>1. Fit(x)
      BY <2>1 DEF Speaks
    <3>2. ReadEof(l) => Turns(x, Close(x, l))
      BY <2>1, <2>3, <3>1, CloseTurns
    <3> QED
      BY <1>2, <2>1, <3>2, TurnsSpeak
  <2> QED
    BY <2>1, <2>2, <2>4
<1> QED
  BY <1>5, <1>7, <1>8, <1>9

-----------------------------------------------------------------------------
(* What the packets of the device do to each client *)

LEMMA TurnsNot == ASSUME NEW w, Fit(w) PROVE Turns(w, w)
  BY DEF Turns, Turn, Still

LEMMA TurnsSame ==
    ASSUME NEW w, NEW v, Turns(w, v), NEW x, x.sk = v.sk, x.toProc = v.toProc,
           \A c \in Clients : InFlight(x.h2d, c) = InFlight(v.h2d, c)
    PROVE  Turns(w, x)
<1>1. Fit(x)
  BY DEF Turns, Fit
<1>2. ASSUME NEW c \in Clients PROVE Turn(w, x, c)
  BY DEF Turns, Turn, Said
<1> QED
  BY <1>1, <1>2 DEF Turns

\* A_OKAY.
LEMMA HandleOkayTurns ==
    ASSUME NEW w, Good(w), Fit(w), NEW c \in Clients, tr = "on"
    PROVE  Turns(w, HandleOkay(w, c))
<1>0. c \in Locals /\ w.sk[c] \in Socket
  BY FitIs
<1>1. CASE w.sk[c].on # "list"
  BY <1>1, TurnsNot DEF HandleOkay
<1>2. CASE w.sk[c].on = "list" /\ w.sk[c].peer # None
  <2>1. HandleOkay(w, c) = Ready(w, c)
    BY <1>2 DEF HandleOkay
  <2>2. ~w.sk[c].notify
    BY <1>2 DEF Fit, Waiting
  <2> QED
    BY <1>0, <1>2, <2>1, <2>2, ReadyTurns
<1>3. CASE w.sk[c].on = "list" /\ w.sk[c].peer = None
  <2> DEFINE x == Made(w, c)
             v == Ready(x, c)
  <2>1. HandleOkay(w, c) = v
    BY <1>3 DEF HandleOkay, Made
  <2>2. /\ Good(x) /\ x.h2d = w.h2d /\ x.toProc = w.toProc /\ x.sk[c].on = "list"
        /\ x.sk[c].peer = Remote /\ x.sk[c].q = w.sk[c].q /\ x.sk[c].notify = w.sk[c].notify
        /\ \A m \in Locals : m # c => x.sk[m] = w.sk[m]
    BY <1>3, RemoteMade DEF Safe
  <2> HIDE DEF x
  <2>3. /\ v.toProc = Notified(x, c, "OKAY").toProc /\ v.h2d = x.h2d
        /\ Still(Hush(x.sk[c]), v.sk[c]) /\ v.sk[c].q = x.sk[c].q
        /\ \A m \in Locals : m # c => v.sk[m] = x.sk[m]
    BY <1>0, <2>2, ReadyIs
  <2> HIDE DEF v
  <2>4. PICK y : y = Notified(x, c, "OKAY")
    OBVIOUS
  <2>5. /\ \A b \in Locals : b # c => y.toProc[b] = x.toProc[b]
        /\ x.sk[c].notify /\ c \notin gone => Said(x, y, c, <<Word("OKAY")>>)
        /\ ~(x.sk[c].notify /\ c \notin gone) => y.toProc[c] = x.toProc[c]
    <3>1. x \in Record
      BY <2>2 DEF Good
    <3> QED
      BY <1>0, <2>4, <3>1, NotifiedSays
  <2>6. Begun(w.sk[c], v.sk[c])
    <3>1. x.sk[c] \in Socket
      BY <1>0, <2>2 DEF Good, SkOK
    <3>2. Hush(x.sk[c]).on = x.sk[c].on /\ Hush(x.sk[c]).peer = x.sk[c].peer /\ ~Hush(x.sk[c]).notify
      BY <3>1 DEF Hush, Socket
    <3> QED
      BY <1>3, <2>2, <2>3, <3>2 DEF Begun, Waiting, Still
  <2>7. Turn(w, v, c)
    <3>1. InFlight(v.h2d, c) = InFlight(w.h2d, c)
      BY <2>2, <2>3
    <3>2. CASE w.sk[c].notify /\ c \notin gone
      <4>1. Said(w, v, c, <<Word("OKAY")>>)
        BY <2>2, <2>3, <2>4, <2>5, <3>2 DEF Said
      <4> QED
        BY <2>6, <3>1, <3>2, <4>1 DEF Turn
    <3>3. CASE ~(w.sk[c].notify /\ c \notin gone)
      <4>1. v.toProc[c] = w.toProc[c]
        BY <2>2, <2>3, <2>4, <2>5, <3>3
      <4> QED
        BY <2>6, <3>1, <3>3, <4>1 DEF Turn
    <3> QED
      BY <3>2, <3>3
  <2>8. ASSUME NEW b \in Clients PROVE Turn(w, v, b) /\ v.sk[b].q \in Seq(AnyByte)
    <3>1. b \in Locals /\ w.sk[b].q \in Seq(AnyByte)
      BY FitIs
    <3>2. CASE b = c
      BY <2>2, <2>3, <2>7, <3>1, <3>2
    <3>3. CASE b # c
      BY <2>2, <2>3, <2>4, <2>5, <3>1, <3>3 DEF Turn, Still
    <3> QED
      BY <3>2, <3>3
  <2>9. Turns(w, v)
    BY <2>8, FitBack
  <2> QED
    BY <2>1, <2>9
<1> QED
  BY <1>1, <1>2, <1>3

\* A_CLSE.
LEMMA HandleCloseTurns ==
    ASSUME NEW w, Good(w), Fit(w), NEW c \in Clients
    PROVE  Turns(w, HandleClose(w, c))
<1>1. CASE w.sk[c].on # "list"
  BY <1>1, TurnsNot DEF HandleClose
<1>2. CASE w.sk[c].on = "list"
  <2>1. Turns(w, Close(w, c))
    BY <1>2, CloseTurns, Distinct
  <2> QED
    BY <1>2, <2>1 DEF HandleClose
<1> QED
  BY <1>1, <1>2

\* A_WRTE.
LEMMA HandleWriteTurns ==
    ASSUME NEW w, Good(w), Fit(w), NEW c \in Clients, NEW bytes \in Seq(AnyByte),
           w.sk[c].on = "list" => w.sk[c].peer \notin {None, Smart}
    PROVE  Turns(w, HandleWrite(w, c, bytes))
<1>1. CASE w.sk[c].on # "list"
  BY <1>1, TurnsNot DEF HandleWrite
<1>2. CASE w.sk[c].on = "list"
  <2> DEFINE e == Enqueue(w, c, bytes)
  <2>0. bytes \in Seq(Item) /\ c \in Locals
    BY ItemSeq, Distinct
  <2>1. Safe(w, e.w) /\ Turns(w, e.w)
    BY <1>2, <2>0, EnqueueOK, EnqueueTurns
  <2>2. HandleWrite(w, c, bytes) = IF e.r = 0 THEN Send(e.w, "OKAY", c, << >>) ELSE e.w
    BY <1>2 DEF HandleWrite
  <2> DEFINE u == e.w
             x == Send(u, "OKAY", c, << >>)
  <2> HIDE DEF e
  <2>3. u \in Record
    BY <2>1 DEF Safe, Good
  <2> HIDE DEF u
  <2>4. x.sk = u.sk /\ x.toProc = u.toProc /\ \A b : InFlight(x.h2d, b) = InFlight(u.h2d, b)
    BY <2>3, CarriesNone
  <2> HIDE DEF x
  <2>5. Turns(w, x)
    BY <2>1, <2>4, TurnsSame DEF u
  <2> QED
    BY <2>1, <2>2, <2>5 DEF u, x
<1> QED
  BY <1>1, <1>2

-----------------------------------------------------------------------------
(* The invariant *)

\* A client that was not accepted has sent nothing, and a service writes bytes only.
SpeakInv ==
    /\ \A c \in Clients : /\ TalkOK(Talk(c)) /\ cl[c].pos <= Len(cl[c].script)
                          /\ sk[c].on = "absent" => cl[c].pos = 0
    /\ \A s \in Services : toServer[s] \in Seq(AnyByte)
    /\ Speaks(W, [c \in Clients |-> Talk(c)])

Talks == [c \in Clients |-> Talk(c)]

LEMMA SpeakIs ==
    ASSUME IInv, SpeakInv
    PROVE  /\ Good(W) /\ TalksOK(Talks) /\ Speaks(W, Talks) /\ Fit(W) /\ dev \in DevSet
           /\ \A c \in Clients : Talks[c] = Talk(c)
<1>1. \A c \in Clients : Talks[c] = Talk(c)
  BY DEF Talks
<1>2. Speaks(W, Talks)
  BY DEF SpeakInv, Talks
<1>3. Good(W) /\ dev \in DevSet
  BY DEF IInv, RestOK, DevSet
<1> QED
  BY <1>1, <1>2, <1>3 DEF SpeakInv, TalksOK, Speaks

\* What a step makes of the record and of the talks keeps the invariant.
LEMMA SpeakStep ==
    ASSUME SpeakInv, NEW v, W' = v, NEW F, Speaks(v, F), TalksOK(F), dev' = dev,
           gone' = gone, tr' = tr \/ tr' # "on", \A c \in Clients : Talk(c)' = F[c],
           \A c \in Clients : /\ cl'[c].pos <= Len(cl'[c].script)
                              /\ sk'[c].on = "absent" => cl'[c].pos = 0,
           \A s \in Services : toServer'[s] \in Seq(AnyByte)
    PROVE  SpeakInv'
<1>1. ASSUME NEW c \in Clients
      PROVE  /\ TalkOK(Talk(c)') /\ Talks'[c] = F[c]
  BY DEF TalksOK, Talks
<1>2. ASSUME NEW c \in Clients PROVE Spoken(W, c, Talks[c])'
  <2>1. Spoken(v, c, F[c])
    BY DEF Speaks
  <2>2. (Talks[c])' = F[c]
    BY <1>1
  <2> QED
    BY <2>1, <2>2 DEF Spoken, AskingOK, WaitingOK, BoundOK
<1>3. ASSUME NEW c \in Clients PROVE Flowing(W, c, Talks[c], dev[c])'
  <2>1. Flowing(v, c, F[c], dev[c])
    BY DEF Speaks
  <2> QED
    BY <1>1, <2>1 DEF Flowing
<1>4. ASSUME NEW c \in Clients PROVE Fresh(W, c, Talks[c])'
  <2>1. Fresh(v, c, F[c])
    BY DEF Speaks
  <2> QED
    BY <1>1, <2>1 DEF Fresh
<1>5. Fit(W)'
  BY DEF Speaks, Fit
<1>6. Speaks(W, Talks)'
  BY <1>2, <1>3, <1>4, <1>5 DEF Speaks
<1>7. Talks' = [c \in Clients |-> Talk(c)]'
  BY DEF Talks
<1> QED
  BY <1>1, <1>6, <1>7 DEF SpeakInv

\* A step that does one of the things of Turn to each client.
LEMMA TurningStep ==
    ASSUME IInv, SpeakInv, NEW v, W' = v, Turns(W, v), tr' = tr \/ tr' # "on",
           UNCHANGED <<toServer, gone, cl, dev>>
    PROVE  SpeakInv'
<1>1. Speaks(v, Talks) /\ TalksOK(Talks)
  BY SpeakIs, TurnsSpeak
<1>2. ASSUME NEW c \in Clients
      PROVE  /\ Talk(c)' = Talks[c] /\ cl'[c].pos <= Len(cl'[c].script)
             /\ sk'[c].on = "absent" => cl'[c].pos = 0
  <2>1. Talk(c)' = Talks[c]
    BY DEF Talk, Talks
  <2>2. v.sk = sk'
    BY DEF W
  <2>3. v.sk[c].on = "absent" => W.sk[c].on = "absent"
    BY DEF Turns, Turn, Still, Ended, Begun
  <2> QED
    BY <2>1, <2>2, <2>3, WIs DEF SpeakInv
<1>3. \A s \in Services : toServer'[s] \in Seq(AnyByte)
  BY DEF SpeakInv
<1> QED
  BY <1>1, <1>2, <1>3, SpeakStep

LEMMA SignalSpeaks == ASSUME IInv, SpeakInv, NEW l \in Locals, Signal(l) PROVE SpeakInv'
<1>0. Fit(W) /\ sk \in [Locals -> Socket] /\ \A c \in Clients : c \in Locals
  BY SpeakIs, WIs, Distinct DEF Good, SkOK
<1>1. sk' = [sk EXCEPT ![l].pend = sk[l].pend \cup sk[l].want] /\ h2d' = h2d /\ toProc' = toProc
  BY DEF Signal
<1>2. PICK v : v = W'
  OBVIOUS
<1>3. v.sk = sk' /\ v.h2d = h2d /\ v.toProc = toProc
  BY <1>1, <1>2 DEF W
<1>4. ASSUME NEW c \in Clients
      PROVE  Still(sk[c], sk'[c]) /\ sk'[c].q = sk[c].q
  <2>1. CASE c = l
    BY <1>0, <1>1, <2>1 DEF Still, Socket
  <2>2. CASE c # l
    BY <1>0, <1>1, <2>2 DEF Still
  <2> QED
    BY <2>1, <2>2
<1>5. \A c \in Clients : Turn(W, v, c) /\ v.sk[c].q \in Seq(AnyByte)
  BY <1>0, <1>3, <1>4, WIs DEF Turn, Fit
<1>6. Turns(W, v)
  BY <1>0, <1>5, FitBack
<1> QED
  BY <1>2, <1>6, TurningStep DEF Signal

LEMMA FreeTransportSpeaks == ASSUME IInv, SpeakInv, FreeTransport PROVE SpeakInv'
<1>1. W' = W
  BY DEF FreeTransport, W
<1>2. Turns(W, W)
  BY SpeakIs, TurnsNot
<1> QED
  BY <1>1, <1>2, TurningStep DEF FreeTransport

LEMMA MainPacketSpeaks ==
    ASSUME IInv, CreditInv, OrderInv, SpeakInv, MainPacket
    PROVE  SpeakInv'
<1> DEFINE p == Head(d2h)
           v == IF tr # "on" THEN W
                ELSE CASE p.cmd = "OKAY" -> HandleOkay(W, p.id)
                       [] p.cmd = "CLSE" -> HandleClose(W, p.id)
                       [] p.cmd = "WRTE" -> HandleWrite(W, p.id, p.data)
<1>0. /\ Good(W) /\ W \in Record /\ d2h \in Seq(Packet) /\ d2h # << >> /\ p.cmd # "SYNC0"
      /\ \A i \in 1..Len(d2h) : d2h[i].cmd # "OPEN"
      /\ Becomes(v) /\ UNCHANGED <<tr, toServer, gone, cl, dev>>
  BY DEF IInv, RestOK, MainPacket, Good
<1>1. Len(d2h) \in Nat \ {0} /\ p = d2h[1] /\ d2h[1] \in Packet /\ 1 \in 1..Len(d2h)
  BY <1>0, TailIs
<1>2. Fit(W)
  BY SpeakIs
<1> HIDE DEF p
<1>3. p.cmd \in {"OKAY", "CLSE", "WRTE"} /\ p.id \in Clients /\ p.data \in Seq(Item)
  BY <1>0, <1>1, PacketIs
<1>4. ASSUME NEW x, Safe(W, x), x = v, Turns(W, x) PROVE SpeakInv'
  <2>1. W' = x
    BY <1>0, <1>4, BecomesIs DEF Safe, Good
  <2> QED
    BY <1>0, <1>4, <2>1, TurningStep
<1>5. CASE tr # "on"
  <2>1. Safe(W, W) /\ Turns(W, W)
    BY <1>0, <1>2, SafeSame, TurnsNot
  <2> QED
    BY <1>4, <1>5, <2>1
<1>6. CASE tr = "on" /\ p.cmd = "OKAY"
  <2> DEFINE x == HandleOkay(W, p.id)
  <2>1. v = x
    BY <1>6
  <2>2. Safe(W, x) /\ Turns(W, x)
    BY <1>0, <1>2, <1>3, <1>6, HandleOkayOK, HandleOkayTurns
  <2> HIDE DEF x, v
  <2> QED
    BY <1>4, <2>1, <2>2
<1>7. CASE tr = "on" /\ p.cmd = "CLSE"
  <2> DEFINE x == HandleClose(W, p.id)
  <2>1. v = x
    BY <1>7
  <2>2. Safe(W, x) /\ Turns(W, x)
    BY <1>0, <1>2, <1>3, <1>7, HandleCloseOK, HandleCloseTurns
  <2> HIDE DEF x, v
  <2> QED
    BY <1>4, <2>1, <2>2
<1>8. CASE tr = "on" /\ p.cmd = "WRTE"
  <2> DEFINE x == HandleWrite(W, p.id, p.data)
  <2>1. v = x
    BY <1>8
  <2>2. W.sk[p.id].on = "list" => W.sk[p.id].peer \notin {None, Smart}
    <3>1. IsOf(Head(d2h), "WRTE", p.id)
      BY <1>8 DEF IsOf, p
    <3>2. sk[p.id].on = "list" => sk[p.id].peer = Remote
      BY <1>0, <1>3, <1>8, <3>1, MainPacketIs
    <3> QED
      BY <3>2, WIs, Distinct
  <2>3. p.data \in Seq(AnyByte)
    BY <1>1, <1>8 DEF OrderInv, WritesBytes
  <2>4. Safe(W, x)
    BY <1>0, <1>3, <1>8, <2>2, HandleWriteOK
  <2>5. Turns(W, x)
    BY <1>0, <1>2, <1>3, <2>2, <2>3, HandleWriteTurns
  <2> HIDE DEF x, v
  <2> QED
    BY <1>4, <2>1, <2>4, <2>5
<1> QED
  BY <1>3, <1>5, <1>6, <1>7, <1>8

\* The transport goes: its sockets are closed, each by itself, and nobody is told.
LEMMA EndingSpeaks ==
    ASSUME IInv, SpeakInv, NEW v, W' = v, v.h2d = h2d, v.toProc = toProc, tr' # "on",
           UNCHANGED <<toServer, gone, cl, dev>>,
           \A c \in Clients : \/ v.sk[c] = sk[c]
                              \/ Ended(sk[c], v.sk[c]) /\ v.sk[c].q \in {sk[c].q, << >>}
    PROVE  SpeakInv'
<1>1. Fit(W)
  BY SpeakIs
<1>2. ASSUME NEW c \in Clients PROVE Turn(W, v, c) /\ v.sk[c].q \in Seq(AnyByte)
  <2>1. sk[c].q \in Seq(AnyByte)
    BY <1>1, WIs DEF Fit
  <2>2. CASE v.sk[c] = sk[c]
    BY <2>1, <2>2, WIs DEF Turn, Still
  <2>3. CASE Ended(sk[c], v.sk[c]) /\ v.sk[c].q \in {sk[c].q, << >>}
    BY <2>1, <2>3, WIs, ByteSeq DEF Turn
  <2> QED
    BY <2>2, <2>3
<1>3. Turns(W, v)
  BY <1>1, <1>2, FitBack
<1> QED
  BY <1>3, TurningStep

LEMMA CloseAllSpeaks == ASSUME IInv, SpeakInv, CloseAll PROVE SpeakInv'
<1> DEFINE g == [l \in Locals |-> IF OfTransport(l) THEN CloseLocked(W, l).sk[l] ELSE sk[l]]
           v == [W EXCEPT !.sk = g]
<1>0. /\ W \in Record /\ Good(W) /\ SkOK(sk, disc) /\ sk \in [Locals -> Socket]
      /\ \A c \in Clients : c \in Locals
  BY WIs, Distinct DEF IInv, Good, SkOK
<1>1. /\ Becomes(v) /\ tr' # "on" /\ UNCHANGED <<toServer, gone, cl, dev>>
  BY DEF CloseAll
<1>2. ASSUME NEW c \in Clients, OfTransport(c)
      PROVE  LET t == CloseLocked(W, c).sk[c]
             IN  Ended(sk[c], t) /\ t.q \in {sk[c].q, << >>} /\ t \in Socket
  <2>0. /\ sk[c] \in Socket /\ SockOK(c, sk[c]) /\ sk[c].on = "list" /\ c \in Locals
        /\ sk[c].notify => Waiting(sk[c])
    BY <1>0, <1>2, SpeakIs, WIs DEF SkOK, OfTransport, Fit
  <2>1. CloseLocked(W, c).sk[c] = Done(sk[c])
    BY <1>0, <2>0, WIs, CloseLockedOK
  <2>2. Ended(sk[c], Done(sk[c])) /\ Done(sk[c]).q \in {sk[c].q, << >>}
    BY <2>0, DoneEnds
  <2>3. Done(sk[c]) \in Socket
    BY <2>0, DoneOK DEF SockOK
  <2> QED
    BY <2>1, <2>2, <2>3
<1>3. \A c \in Clients : \/ g[c] = sk[c]
                         \/ Ended(sk[c], g[c]) /\ g[c].q \in {sk[c].q, << >>}
  BY <1>0, <1>2
<1>4. v.sk = g /\ v.h2d = h2d /\ v.toProc = toProc
  BY DEF W
<1>5. W' = v
  BY <1>1 DEF W, Becomes
<1> HIDE DEF g, v
<1> QED
  BY <1>1, <1>3, <1>4, <1>5, EndingSpeaks

\* remote_socket_disconnect tells nobody: the socket of a stream has nobody to tell.
LEMMA DisconnectEnds ==
    ASSUME IInv, SpeakInv, NEW c \in disc
    PROVE  /\ Ended(sk[c], RemoteDisconnect(c).sk[c])
           /\ RemoteDisconnect(c).sk[c].q \in {sk[c].q, << >>}
           /\ RemoteDisconnect(c).toProc[c] = toProc[c]
<1> DEFINE s == [sk[c] EXCEPT !.peer = None]
           x == [W EXCEPT !.sk = [sk EXCEPT ![c] = s]]
<1>0. /\ W \in Record /\ sk \in [Locals -> Socket] /\ c \in Locals /\ c \in Clients
      /\ sk[c] \in Socket /\ SockOK(c, sk[c]) /\ sk[c].peer = Remote
  <2>1. Good(W) /\ SkOK(sk, disc)
    BY WIs DEF IInv, Good
  <2> QED
    BY <2>1, Distinct DEF Good, SkOK
<1>1. RemoteDisconnect(c) = Close(x, c)
  BY WIs DEF RemoteDisconnect
<1>2. /\ sk[c].on = "list" /\ (sk[c].notify => Waiting(sk[c]))
      /\ ~sk[c].notify
  BY <1>0, SpeakIs, WIs, Distinct DEF SockOK, Fit, Waiting
<1>3. /\ s \in Socket /\ s.on = sk[c].on /\ s.peer = None /\ s.q = sk[c].q /\ ~s.notify
      /\ s.notify \in {sk[c].notify, FALSE}
  BY <1>0, <1>2 DEF Socket
<1> HIDE DEF s
<1>4. x \in Record /\ x.sk = [sk EXCEPT ![c] = s] /\ x.sk[c] = s /\ x.toProc = toProc
  BY <1>0, <1>3, WIs DEF Record
<1> HIDE DEF x
<1>5. Close(x, c) = Finish(x, c)
  BY <1>3, <1>4, Distinct DEF Close, CloseLocked
<1>6. Finish(x, c) = [x EXCEPT !.sk[c] = Done(s)]
  BY <1>0, <1>4, FinishIs
<1>7. Ended(sk[c], Done(s)) /\ Done(s).q \in {sk[c].q, << >>}
  BY <1>0, <1>2, <1>3, DoneEnds
<1>8. RemoteDisconnect(c).sk[c] = Done(s) /\ RemoteDisconnect(c).toProc = toProc
  BY <1>0, <1>1, <1>4, <1>5, <1>6 DEF Record
<1> QED
  BY <1>7, <1>8

LEMMA OfflineSpeaks == ASSUME IInv, SpeakInv, Offline PROVE SpeakInv'
<1> DEFINE g == [l \in Locals |-> IF l \in disc THEN RemoteDisconnect(l).sk[l] ELSE sk[l]]
           h == [l \in Locals |-> IF l \in disc THEN RemoteDisconnect(l).toProc[l] ELSE toProc[l]]
           v == [W EXCEPT !.sk = g, !.toProc = h, !.disc = {}]
<1>0. /\ W \in Record /\ toProc \in [Locals -> Seq(Item)] /\ \A c \in Clients : c \in Locals
  BY WIs, Distinct DEF IInv, Good, Record
<1>1. /\ Becomes(v) /\ tr' # "on" /\ UNCHANGED <<toServer, gone, cl, dev>>
  BY DEF Offline
<1>2. h = toProc
  BY <1>0, DisconnectEnds
<1>3. \A c \in Clients : \/ g[c] = sk[c]
                         \/ Ended(sk[c], g[c]) /\ g[c].q \in {sk[c].q, << >>}
  BY <1>0, DisconnectEnds
<1> HIDE DEF g, h
<1>4. v = [sk |-> g, disc |-> {}, h2d |-> h2d, toProc |-> toProc, bad |-> bad]
  <2>1. [W EXCEPT !.sk = g] = [sk |-> g, disc |-> disc, h2d |-> h2d, toProc |-> toProc, bad |-> bad]
    BY DEF W
  <2>2. [[W EXCEPT !.sk = g] EXCEPT !.toProc = h]
          = [sk |-> g, disc |-> disc, h2d |-> h2d, toProc |-> toProc, bad |-> bad]
    BY <1>2, <2>1
  <2>3. v = [[[W EXCEPT !.sk = g] EXCEPT !.toProc = h] EXCEPT !.disc = {}]
    OBVIOUS
  <2> HIDE DEF v
  <2> QED
    BY <2>2, <2>3
<1> HIDE DEF v
<1>5. W' = v
  BY <1>1, <1>4 DEF W, Becomes
<1> QED
  BY <1>1, <1>3, <1>4, <1>5, EndingSpeaks

\* The callback begins: nothing is pending any more.
LEMMA PendingTurns ==
    ASSUME IInv, SpeakInv, NEW l \in Locals, Live(l)
    PROVE  LET r == [sk[l] EXCEPT !.pend = {}]
               w == [W EXCEPT !.sk = [sk EXCEPT ![l] = r]]
           IN  /\ Good(w) /\ w.sk[l] = r /\ Speaks(w, Talks) /\ w.disc = disc
               /\ r.on = sk[l].on /\ r.peer = sk[l].peer /\ r.q = sk[l].q /\ r.pend = {}
<1> DEFINE r == [sk[l] EXCEPT !.pend = {}]
           w == [W EXCEPT !.sk = [sk EXCEPT ![l] = r]]
<1>0. /\ Good(W) /\ W \in Record /\ sk \in [Locals -> Socket] /\ sk[l] \in Socket /\ SockOK(l, sk[l])
      /\ sk[l].on \in {"list", "closing"} /\ Fit(W) /\ \A c \in Clients : c \in Locals
  BY WIs, SpeakIs, Distinct DEF IInv, Good, SkOK, Live
<1>1. /\ r \in Socket /\ r.on = sk[l].on /\ r.peer = sk[l].peer /\ r.q = sk[l].q /\ r.want = sk[l].want
      /\ r.pend = {} /\ r.trans = sk[l].trans /\ r.smartTrans = sk[l].smartTrans
      /\ r.notify = sk[l].notify /\ r.req = sk[l].req
  BY <1>0 DEF Socket
<1> HIDE DEF r
<1>2. SockOK(l, r) /\ (Uses(r) => Uses(sk[l]))
  BY <1>0, <1>1 DEF SockOK, Uses
<1>3. /\ w \in Record /\ w.sk = [W.sk EXCEPT ![l] = r] /\ w.sk[l] = r /\ w.disc = W.disc
      /\ w.h2d = W.h2d /\ w.bad = W.bad /\ w.toProc = W.toProc
  BY <1>0, <1>1, WIs DEF Record
<1> HIDE DEF w
<1>4. Safe(W, w)
  <2>1. /\ r.on = W.sk[l].on /\ r.peer = W.sk[l].peer /\ (Uses(r) => Uses(W.sk[l])) /\ r \in Socket
        /\ SockOK(l, r)
    BY <1>1, <1>2, <1>3, WIs
  <2> QED
    BY <1>0, <1>3, <2>1, Touch
<1>5. ASSUME NEW c \in Clients PROVE Turn(W, w, c) /\ w.sk[c].q \in Seq(AnyByte)
  <2>1. Still(W.sk[c], w.sk[c]) /\ w.sk[c].q = W.sk[c].q
    BY <1>0, <1>1, <1>3, WIs DEF Still
  <2> QED
    BY <1>0, <1>3, <2>1 DEF Turn, Fit
<1>6. Turns(W, w)
  BY <1>0, <1>5, FitBack
<1>7. Speaks(w, Talks)
  BY <1>0, <1>6, SpeakIs, TurnsSpeak
<1>8. /\ Good(w) /\ w.sk[l] = r /\ Speaks(w, Talks) /\ w.disc = disc
      /\ r.on = sk[l].on /\ r.peer = sk[l].peer /\ r.q = sk[l].q /\ r.pend = {}
  BY <1>1, <1>3, <1>4, <1>7, WIs DEF Safe
<1> QED
  BY <1>8 DEF r, w

LEMMA CallbackSpeaks ==
    ASSUME IInv, CreditInv, SpeakInv, NEW l \in Locals, Callback(l)
    PROVE  SpeakInv'
<1> DEFINE r == [sk[l] EXCEPT !.pend = {}]
           w == [W EXCEPT !.sk = [sk EXCEPT ![l] = r]]
           ev == IF "W" \in sk[l].pend THEN EventWrite(w, l) ELSE [w |-> w, stop |-> FALSE]
           u == ev.w
           reads == "R" \in sk[l].pend /\ ~ev.stop
           v == IF reads THEN EventRead(u, l) ELSE u
           rest == SubSeq(toServer[l], ReadLen(l) + 1, Len(toServer[l]))
           F == [c \in Clients |-> IF c = l THEN [Talk(c) EXCEPT !.line = rest] ELSE Talk(c)]
<1>0. /\ Good(W) /\ W \in Record /\ sk \in [Locals -> Socket] /\ sk[l] \in Socket /\ SockOK(l, sk[l])
      /\ sk[l].on \in {"list", "closing"} /\ toServer \in [Locals -> Seq(Item)] /\ Live(l)
      /\ \A c \in Clients : c \in Locals
  BY WIs, Distinct DEF IInv, Good, SkOK, Callback, Live, RestOK
<1>1. /\ Becomes(v)
      /\ toServer' = IF reads THEN [toServer EXCEPT ![l] = rest] ELSE toServer
  BY WIs DEF Callback
<1>2. UNCHANGED <<tr, d2h, gone, cl, dev>>
  BY DEF Callback
<1>3. /\ Good(w) /\ w.sk[l] = r /\ Speaks(w, Talks) /\ w.disc = disc
      /\ r.on = sk[l].on /\ r.peer = sk[l].peer /\ r.q = sk[l].q /\ r.pend = {}
  BY <1>0, PendingTurns
<1>4. TalksOK(Talks) /\ dev \in DevSet /\ \A c \in Clients : Talks[c] = Talk(c)
  BY SpeakIs
<1> HIDE DEF r, w
<1>5. /\ Good(u) /\ Speaks(u, Talks) /\ (tr # "on" => u.disc = {})
      /\ reads => /\ u.sk[l].on \in {"list", "closing"}
                  /\ tr = "on" /\ l \in Clients => ~Waiting(u.sk[l])
  <2>1. tr # "on" => w.disc = {}
    BY <1>3 DEF IInv, TransOK
  <2>2. CASE "W" \in sk[l].pend
    <3>1. sk[l].on = "list" => sk[l].q # << >> /\ sk[l].peer \notin {None, Smart}
      BY <1>0, <2>2 DEF SockOK
    <3>2. /\ w.sk[l].on \in {"list", "closing"} /\ w.sk[l].pend = {}
          /\ w.sk[l].on = "list" => w.sk[l].q # << >>
      BY <1>0, <1>3, <3>1
    <3>3. /\ Speaks(EventWrite(w, l).w, Talks)
          /\ ~EventWrite(w, l).stop => EventWrite(w, l).w.sk[l].peer = w.sk[l].peer
      BY <1>3, <1>4, <3>2, EventWriteSpeaks
    <3>4. /\ Safe(w, EventWrite(w, l).w)
          /\ ~EventWrite(w, l).stop => EventWrite(w, l).w.sk[l].on = "list" /\ w.sk[l].on = "list"
      BY <1>3, <3>2, EventWriteOK
    <3>5. tr # "on" => EventWrite(w, l).w.disc = {}
      BY <2>1, <3>4 DEF Safe, Tame
    <3>6. ev = EventWrite(w, l)
      BY <2>2
    <3> HIDE DEF ev
    <3> QED
      BY <1>3, <3>1, <3>3, <3>4, <3>5, <3>6 DEF Safe, Waiting
  <2>3. CASE "W" \notin sk[l].pend
    <3>1. u = w
      BY <2>3
    <3>2. ASSUME tr = "on", l \in Clients, "R" \in sk[l].pend PROVE ~Waiting(w.sk[l])
      <4>1. sk[l].on = "list" => "R" \in sk[l].want
        BY <3>2 DEF CreditInv, Saving
      <4>2. sk[l].on = "list" /\ sk[l].peer = None => "R" \notin sk[l].want
        BY <3>2 DEF CreditInv, Account
      <4> QED
        BY <1>3, <4>1, <4>2 DEF Waiting
    <3> QED
      BY <1>0, <1>3, <2>1, <3>1, <3>2
  <2> QED
    BY <2>2, <2>3
<1>6. PICK x : Safe(W, x) /\ Becomes(x)
  BY CallbackSafe
<1>7. /\ W' = x /\ x.sk = v.sk /\ x.toProc = v.toProc /\ x.h2d = v.h2d /\ x.sk = sk'
  BY <1>1, <1>6, BecomesIs DEF Becomes, Safe, Good
<1>8. \A c \in Clients : sk'[c].on = "absent" => sk[c].on = "absent"
  BY <1>0, <1>6, <1>7, WIs DEF Safe, Calm
<1>9. \A c \in Clients : /\ cl'[c].pos <= Len(cl'[c].script)
                         /\ sk'[c].on = "absent" => cl'[c].pos = 0
  BY <1>2, <1>8 DEF SpeakInv
<1>10. ReadLen(l) \in 0..Len(toServer[l]) /\ rest \in Seq(Item) /\ toServer[l] \in Seq(Item)
  BY <1>0, ReadLenOK
<1>11. \A s \in Services : toServer[s] \in Seq(AnyByte)
  BY DEF SpeakInv
<1>12. l \in Services => rest \in Seq(AnyByte)
  BY <1>10, <1>11, SplitWhole
<1> HIDE DEF ev, v, rest
<1>13. CASE reads
  <2>1. Took(Talks, F, l, rest)
    BY <1>4 DEF Took
  <2>2. TalksOK(F)
    BY <1>4, <1>10, <2>1, TookTalks
  <2>3. v = EventRead(u, l)
    BY <1>13 DEF v
  <2>4. l \in Clients => Talks[l].line = toServer[l]
    <3>1. l \in Clients => Talk(l).line = toServer[l]
      BY DEF Talk
    <3> QED
      BY <1>4, <3>1
  <2>5. Speaks(EventRead(u, l), F)
    <3>1. Took(Talks, F, l, SubSeq(toServer[l], ReadLen(l) + 1, Len(toServer[l])))
      BY <2>1 DEF rest
    <3> HIDE DEF u, F
    <3> QED
      BY <1>0, <1>4, <1>5, <1>11, <1>13, <2>4, <3>1, EventReadSpeaks
  <2>6. Speaks(x, F)
    BY <1>7, <2>3, <2>5, SameSpeaks
  <2>7. toServer' = [toServer EXCEPT ![l] = rest]
    BY <1>1, <1>13
  <2>8. \A c \in Clients : Talk(c)' = F[c]
    BY <1>0, <1>2, <2>7 DEF Talk
  <2>9. \A s \in Services : toServer'[s] \in Seq(AnyByte)
    BY <1>0, <1>11, <1>12, <2>7, Distinct
  <2> HIDE DEF F
  <2> QED
    BY <1>2, <1>7, <1>9, <2>2, <2>6, <2>8, <2>9, SpeakStep
<1>14. CASE ~reads
  <2>1. v = u
    BY <1>14 DEF v
  <2>2. Speaks(x, Talks)
    BY <1>5, <1>7, <2>1, SameSpeaks
  <2>3. toServer' = toServer
    BY <1>1, <1>14
  <2>4. \A c \in Clients : Talk(c)' = Talks[c]
    BY <1>2, <1>4, <2>3 DEF Talk
  <2>5. \A s \in Services : toServer'[s] \in Seq(AnyByte)
    BY <1>11, <2>3
  <2> QED
    BY <1>2, <1>4, <1>7, <1>9, <2>2, <2>4, <2>5, SpeakStep
<1> QED
  BY <1>13, <1>14

-----------------------------------------------------------------------------
(* What is said, by the steps of the clients *)

\* A connection is new: it has said nothing, or that it wants a stream.
Greets(script, n) == \/ n = 0 /\ script[1][1] # "forward"
                     \/ n = 1 /\ script[1] = Word("forward")

LEMMA GreetingIs ==
    ASSUME NEW script \in Scripts, NEW n, Greets(script, n), NEW e,
           e = [script |-> script, sent |-> SubSeq(script, 1, n), line |-> << >>, got |-> << >>]
    PROVE  /\ TalkOK(e) /\ Wanted(e) = 0 /\ Data(e.sent) = << >> /\ n \in 0..Len(script)
           /\ n = 0 => e.sent = << >>
           /\ n = 1 => Count(e.sent, Finals) > 0
           /\ AnswersOK(<< >>, e)
<1>0. script \in Seq(Item) /\ Polite(script) /\ script # << >> /\ << >> \in Seq(Item)
  BY SocketsAssumption, ScriptsAssumption, ItemSeq DEF Polite
<1>1. Len(script) \in Nat \ {0} /\ n \in 0..Len(script)
  BY <1>0 DEF Greets
<1>2. /\ SubSeq(script, 1, n) \in Seq(Item) /\ SubSeq(script, n + 1, Len(script)) \in Seq(Item)
      /\ SubSeq(script, 1, n) \o SubSeq(script, n + 1, Len(script)) = script
  BY <1>0, <1>1, SplitWhole
<1>3. e \in TalkSet /\ \E r \in Seq(Item) : e.script = e.sent \o r
  BY <1>0, <1>2 DEF TalkSet
<1>4. ASSUME n = 0
      PROVE  Wanted(e) = 0 /\ Data(e.sent) = << >> /\ e.sent = << >>
  <2>1. e.sent = << >>
    BY <1>0, <1>4
  <2>2. Wanted(e) = 0 /\ Data(e.sent) = << >>
    BY <2>1, CountEmpty, DataFacts DEF Wanted
  <2> QED
    BY <2>1, <2>2
<1>5. ASSUME n = 1
      PROVE  Wanted(e) = 0 /\ Data(e.sent) = << >> /\ Count(e.sent, Finals) > 0
  <2>1. script[1] = Word("forward")
    BY <1>5 DEF Greets
  <2>3. Word("forward") \in Item /\ Word("forward") \notin AnyByte /\ Word("forward")[1] = "forward"
    BY DEF Word, Item, AnyByte
  <2>4. PICK x \in Item : x = Word("forward")
    BY <2>3
  <2>2. PICK s \in Seq(Item) : s = SubSeq(script, 1, 1)
    BY <1>2, <1>5
  <2>9. Len(s) = 1 /\ s[1] = x
    BY <1>0, <1>1, <2>1, <2>2, <2>4
  <2>10. s = <<x>> /\ s = Append(<< >>, x) /\ e.sent = s
    <3>1. <<x>> \in Seq(Item) /\ <<x>> = Append(<< >>, x) /\ Len(<<x>>) = 1 /\ <<x>>[1] = x
      OBVIOUS
    <3>2. s = <<x>>
      BY <2>9, <3>1, SeqEqual
    <3>3. e.sent = s
      BY <1>5, <2>2
    <3> QED
      BY <3>1, <3>2, <3>3
  <2>5. e.sent = <<x>> /\ e.sent = Append(<< >>, x) /\ x[1] = "forward" /\ x \notin AnyByte
    BY <2>10, <2>3, <2>4
  <2>6. Count(e.sent, Finals) = One(x[1] \in Finals) /\ Count(e.sent, Awaited) = One(x[1] \in Awaited)
    BY <2>5, CountOne
  <2>7. Count(e.sent, Finals) = 1 /\ Count(e.sent, Awaited) = 0
    BY <2>5, <2>6 DEF One, Finals, Awaited
  <2>8. Data(e.sent) = << >>
    BY <1>0, <2>5, DataFacts
  <2> QED
    BY <2>7, <2>8 DEF Wanted
<1>6. n = 0 \/ n = 1
  BY DEF Greets
<1>7. /\ Wanted(e) = 0 /\ Data(e.sent) = << >> /\ (n = 0 => e.sent = << >>)
      /\ n = 1 => Count(e.sent, Finals) > 0
  BY <1>4, <1>5, <1>6
<1>8. \A S : Count(<< >>, S) = 0
  BY CountEmpty
<1>9. TalkOK(e)
  <2>1. e.got = << >> /\ e.script = script
    OBVIOUS
  <2>2. Wanted(e) <= Count(e.got, {"OKAY"}) + 1
    BY <1>7, <1>8, <2>1
  <2>3. e.script = << >> \/ Polite(e.script)
    BY <1>0, <2>1
  <2> QED
    BY <1>3, <2>2, <2>3 DEF TalkOK
<1>10. AnswersOK(<< >>, e)
  BY <1>7, <1>8 DEF AnswersOK
<1> QED
  BY <1>1, <1>7, <1>9, <1>10

LEMMA NewSpeaks ==
    ASSUME IInv, SpeakInv, NEW c \in Clients, sk[c].on = "absent", NEW script \in Scripts,
           NEW n, Greets(script, n),
           NEW r, r.on = "list", ~r.notify, r.q = << >>, r.req = << >>,
           n = 0 => r.peer = Smart, n = 1 => r.peer = None,
           NEW v, W' = v, \A b \in Clients : v.sk[b] = IF b = c THEN r ELSE sk[b], v.toProc = toProc,
           \A b \in Clients : InFlight(v.h2d, b) = InFlight(h2d, b),
           \A b \in Clients : b # c => cl'[b] = cl[b],
           cl'[c].script = script, cl'[c].pos = n, cl'[c].got = cl[c].got,
           UNCHANGED <<tr, toServer, gone, dev>>
    PROVE  SpeakInv'
<1> DEFINE e == [script |-> script, sent |-> SubSeq(script, 1, n), line |-> << >>, got |-> << >>]
           F == [b \in Clients |-> IF b = c THEN e ELSE Talk(b)]
<1>0. /\ TalkOK(e) /\ Wanted(e) = 0 /\ Data(e.sent) = << >> /\ n \in 0..Len(script)
      /\ n = 0 => e.sent = << >>
      /\ n = 1 => Count(e.sent, Finals) > 0
      /\ AnswersOK(<< >>, e)
  BY GreetingIs
<1>1. e.script = script /\ e.line = << >> /\ e.got = << >>
  OBVIOUS
<1>2. /\ Good(W) /\ W \in Record /\ TalksOK(Talks) /\ Speaks(W, Talks) /\ Fit(W)
      /\ sk \in [Locals -> Socket] /\ \A b \in Clients : Talks[b] = Talk(b) /\ b \in Locals
  BY SpeakIs, WIs, Distinct DEF Good, SkOK
<1>3. /\ toProc[c] = << >> /\ Talk(c).sent = << >> /\ toServer[c] = << >> /\ cl[c].got = << >>
  <2>1. Fresh(W, c, Talk(c))
    BY <1>2 DEF Speaks
  <2> QED
    BY <2>1, WIs DEF Fresh, Talk
<1>4. \A b \in Clients : v.sk[b] = IF b = c THEN r ELSE sk[b]
  OBVIOUS
<1>5. \A b \in Clients : Talk(b)' = F[b]
  BY <1>3 DEF Talk
<1>6. F[c] = e /\ \A b \in Clients : b # c => F[b] = Talks[b]
  BY <1>2
<1> HIDE DEF F, e
<1>7. TalksOK(F)
  BY <1>0, <1>2, <1>6 DEF TalksOK
<1>8. Fit(v)
  BY <1>2, <1>4, WIs, ByteSeq DEF Fit
<1>9. ASSUME NEW b \in Clients, b # c
      PROVE  Spoken(v, b, F[b]) /\ Flowing(v, b, F[b], dev[b]) /\ Fresh(v, b, F[b])
  <2>1. Spoken(W, b, Talks[b]) /\ Flowing(W, b, Talks[b], dev[b]) /\ Fresh(W, b, Talks[b])
    BY <1>2 DEF Speaks
  <2>2. v.sk[b] = W.sk[b] /\ v.toProc[b] = W.toProc[b] /\ InFlight(v.h2d, b) = InFlight(W.h2d, b)
    BY <1>4, <1>9, WIs
  <2>3. F[b] = Talks[b]
    BY <1>6, <1>9
  <2> QED
    BY <2>1, <2>2, <2>3 DEF Spoken, AskingOK, WaitingOK, BoundOK, All, Flowing, Fresh
<1>10. v.sk[c] = r /\ v.toProc[c] = << >> /\ All(v, c, e) = << >>
  <2>1. v.sk[c] = r /\ v.toProc[c] = << >>
    BY <1>3, <1>4
  <2> QED
    BY <1>1, <2>1 DEF All
<1>11. Flowing(v, c, e, dev[c])
  <2>1. Flowing(W, c, Talk(c), dev[c])
    BY <1>2 DEF Speaks
  <2>2. /\ Data(Talk(c).sent) = << >> /\ Data(Talk(c).line) = << >> /\ Data(e.line) = << >>
    BY <1>1, <1>3, DataFacts DEF Talk
  <2>3. W.sk[c].on = "absent" /\ W.sk[c].peer \notin Services
    <3>1. SockOK(c, sk[c])
      BY <1>2, WIs DEF Good, SkOK
    <3> QED
      BY <3>1, WIs, Distinct DEF SockOK, Blank
  <2>4. InFlight(v.h2d, c) = InFlight(W.h2d, c)
    BY WIs
  <2> QED
    BY <1>0, <2>1, <2>2, <2>3, <2>4 DEF Flowing
<1>12. Fresh(v, c, e)
  BY <1>10 DEF Fresh
<1>13. Spoken(v, c, e)
  <2>1. \A S : Count(<< >>, S) = 0
    BY CountEmpty
  <2>2. ~Bound(r) /\ (n = 0 => ~Waiting(r)) /\ (n = 1 => ~Asking(r)) /\ n \in {0, 1}
    BY Distinct DEF Bound, Waiting, Asking, Greets
  <2>3. AskingOK(v, c, e)
    <3>1. SUFFICES ASSUME n = 0 PROVE AskingOK(v, c, e)
      BY <1>10, <2>2 DEF AskingOK
    <3>2. e.sent = << >> /\ e.line = << >> /\ r.req \o e.line = << >>
      BY <1>0, <1>1, <3>1
    <3>3. \E u \in Seq(Item) : e.sent = u \o (r.req \o e.line)
      <4>1. << >> \in Seq(Item) /\ << >> = << >> \o << >>
        BY ItemSeq
      <4> QED
        BY <3>2, <4>1
    <3>4. script # << >> /\ script[1][1] # "forward"
      BY <3>1, ScriptsAssumption DEF Polite, Greets
    <3> QED
      BY <1>0, <1>1, <1>10, <2>1, <3>2, <3>3, <3>4 DEF AskingOK
  <2>4. WaitingOK(v, c, e)
    <3>1. SUFFICES ASSUME n = 1 PROVE WaitingOK(v, c, e)
      BY <1>10, <2>2 DEF WaitingOK
    <3>2. One(r.notify) = 0
      BY DEF One
    <3> QED
      BY <1>0, <1>1, <1>10, <2>1, <3>1, <3>2, ByteSeq DEF WaitingOK
  <2>5. BoundOK(v, c, e)
    BY <1>10, <2>2 DEF BoundOK
  <2> QED
    BY <1>0, <1>10, <2>3, <2>4, <2>5 DEF Spoken
<1>14. Speaks(v, F)
  BY <1>6, <1>8, <1>9, <1>11, <1>12, <1>13 DEF Speaks
<1>15. \A b \in Clients : /\ cl'[b].pos <= Len(cl'[b].script)
                          /\ sk'[b].on = "absent" => cl'[b].pos = 0
  <2>1. sk' = v.sk
    BY DEF W
  <2> QED
    BY <1>0, <1>4, <2>1 DEF SpeakInv
<1>16. \A s \in Services : toServer'[s] \in Seq(AnyByte)
  BY DEF SpeakInv
<1> QED
  BY <1>5, <1>7, <1>14, <1>15, <1>16, SpeakStep

LEMMA AcceptSpeaks == ASSUME IInv, SpeakInv, NEW c \in Clients, Accept(c) PROVE SpeakInv'
<1> DEFINE r == [Blank("list") EXCEPT !.peer = Smart, !.want = {"R"}]
<1>1. /\ sk[c].on = "absent" /\ sk' = [sk EXCEPT ![c] = r]
      /\ UNCHANGED <<disc, tr, h2d, d2h, toProc, toServer, gone, dev, bad>>
  BY DEF Accept
<1>2. r.on = "list" /\ r.q = << >> /\ r.peer = Smart /\ r.req = << >> /\ ~r.notify
  BY DEF Blank
<1> HIDE DEF r
<1>3. PICK script \in Scripts : /\ script[1] # Word("forward")
                                /\ cl' = [cl EXCEPT ![c].script = script]
  BY DEF Accept
<1>4. /\ \A b \in Clients : b # c => cl'[b] = cl[b]
      /\ cl'[c].script = script /\ cl'[c].pos = 0 /\ cl'[c].got = cl[c].got
  <2>1. cl \in [Clients -> [script : Seq(Item), pos : Nat, got : Seq(Item)]] /\ cl[c].pos = 0
    BY <1>1 DEF IInv, RestOK, SpeakInv
  <2> QED
    BY <1>3, <2>1
<1>10. PICK n : n = 0
  OBVIOUS
<1>5. Greets(script, n) /\ (n = 0 => r.peer = Smart) /\ (n = 1 => r.peer = None) /\ cl'[c].pos = n
  <2>1. script \in Seq(Item) /\ script # << >>
    BY SocketsAssumption, ScriptsAssumption DEF Polite
  <2>2. script[1] \in Item
    BY <2>1
  <2>3. script[1][1] = "forward" => script[1] = Word("forward")
    BY <2>2 DEF Item, Word
  <2> QED
    BY <1>2, <1>3, <1>4, <1>10, <2>3 DEF Greets
<1>6. PICK v : v = W'
  OBVIOUS
<1>7. v.sk = [sk EXCEPT ![c] = r] /\ v.toProc = toProc /\ v.h2d = h2d
  BY <1>1, <1>6 DEF W
<1>8. \A b \in Clients : v.sk[b] = IF b = c THEN r ELSE sk[b]
  BY <1>7, Distinct DEF IInv, Good, W, SkOK
<1>9. \A b \in Clients : InFlight(v.h2d, b) = InFlight(h2d, b)
  BY <1>7
<1>11. W' = v /\ v.toProc = toProc /\ sk[c].on = "absent" /\ UNCHANGED <<tr, toServer, gone, dev>>
  BY <1>1, <1>6, <1>7
<1> QED
  BY <1>2, <1>4, <1>5, <1>8, <1>9, <1>11, NewSpeaks

LEMMA AcceptForwardSpeaks ==
    ASSUME IInv, SpeakInv, NEW c \in Clients, AcceptForward(c) PROVE SpeakInv'
<1> DEFINE r == [Blank("list") EXCEPT !.trans = TRUE]
           x == [W EXCEPT !.sk = [sk EXCEPT ![c] = r]]
           v == Send(x, "OPEN", c, << >>)
<1>0. /\ sk[c].on = "absent" /\ Becomes(v) /\ W \in Record /\ sk \in [Locals -> Socket]
      /\ c \in Locals /\ UNCHANGED <<tr, d2h, toServer, gone, dev>>
  BY WIs, Distinct DEF AcceptForward, IInv, Good, SkOK
<1>1. r \in Socket /\ r.on = "list" /\ r.peer = None /\ r.q = << >> /\ r.req = << >> /\ ~r.notify
  <2>1. << >> \in Seq(Item)
    BY EmptySeq
  <2> QED
    BY <2>1 DEF Blank, Socket
<1> HIDE DEF r
<1>2. x \in Record /\ x.sk = [sk EXCEPT ![c] = r] /\ x.h2d = h2d /\ x.toProc = toProc
  BY <1>0, <1>1, WIs DEF Record
<1> HIDE DEF x
<1>3. /\ SentTo(x, v, "OPEN", c) /\ v.sk = x.sk /\ v.toProc = x.toProc
      /\ \A b \in Clients : InFlight(v.h2d, b) = InFlight(x.h2d, b)
  BY <1>2, SendEmpty, CarriesNone
<1> HIDE DEF v
<1>4. W' = v
  BY <1>0, <1>3, BecomesIs DEF SentTo
<1>5. PICK script \in Scripts : /\ script[1] = Word("forward")
                                /\ cl' = [cl EXCEPT ![c].script = script, ![c].pos = 1]
  BY DEF AcceptForward
<1>6. /\ \A b \in Clients : b # c => cl'[b] = cl[b]
      /\ cl'[c].script = script /\ cl'[c].pos = 1 /\ cl'[c].got = cl[c].got
  BY <1>5 DEF IInv, RestOK
<1>7. Greets(script, 1)
  BY <1>5 DEF Greets
<1>8. \A b \in Clients : v.sk[b] = IF b = c THEN r ELSE sk[b]
  BY <1>0, <1>2, <1>3, Distinct
<1>9. v.toProc = toProc /\ \A b \in Clients : InFlight(v.h2d, b) = InFlight(h2d, b)
  BY <1>2, <1>3
<1> QED
  BY <1>0, <1>1, <1>4, <1>6, <1>7, <1>8, <1>9, NewSpeaks

\* Item x is sent.
Sends(e, f, x) == /\ f.script = e.script /\ f.got = e.got
                  /\ f.sent = Append(e.sent, x) /\ f.line = Append(e.line, x)

\* It comes next in the script: a byte exactly if the request for the stream was sent.
LEMMA NextItem ==
    ASSUME NEW e, TalkOK(e), Len(e.sent) < Len(e.script), NEW x, x = e.script[Len(e.sent) + 1]
    PROVE  /\ x \in Item /\ e.script # << >>
           /\ Count(e.sent, Finals) > 0 => x[1] = "byte"
           /\ x[1] = "byte" => Count(e.sent, Finals) > 0
<1>1. /\ Len(e.sent) \in Nat /\ Len(e.script) \in Nat /\ DOMAIN e.script = 1..Len(e.script)
      /\ \A k \in 1..Len(e.sent) : e.script[k] = e.sent[k] /\ k \in 1..Len(e.script)
      /\ e.sent \in Seq(Item) /\ e.script \in Seq(Item)
  BY ScriptIs DEF TalkOK, TalkSet
<1>2. Len(e.sent) + 1 \in 1..Len(e.script) /\ e.script # << >>
  BY <1>1
<1>3. Polite(e.script) /\ x \in Item
  BY <1>1, <1>2, ElementOfSeq DEF TalkOK
<1>4. ASSUME Count(e.sent, Finals) > 0 PROVE x[1] = "byte"
  <2>1. PICK i \in 1..Len(e.sent) : e.sent[i][1] \in Finals
    BY <1>1, <1>4, CountZero
  <2>2. i \in DOMAIN e.script /\ e.script[i][1] \in Finals /\ i < Len(e.sent) + 1
    BY <1>1, <2>1
  <2>3. Len(e.sent) + 1 \in DOMAIN e.script
    BY <1>1, <1>2
  <2> QED
    BY <1>3, <2>2, <2>3 DEF Polite
<1>5. ASSUME x[1] = "byte" PROVE Count(e.sent, Finals) > 0
  <2>1. PICK i \in 1..((Len(e.sent) + 1) - 1) : e.script[i][1] \in Finals
    BY <1>1, <1>2, <1>3, <1>5 DEF Polite
  <2>2. i \in 1..Len(e.sent) /\ e.sent[i][1] \in Finals
    BY <1>1, <2>1
  <2> QED
    BY <1>1, <2>2, CountZero
<1> QED
  BY <1>2, <1>3, <1>4, <1>5

\* A client whose requests are all answered and that still makes requests has not asked for
\* its stream.
LEMMA NotYet ==
    ASSUME NEW w \in Record, NEW c \in Clients, NEW e, TalkOK(e), Asking(w.sk[c]), Spoken(w, c, e),
           Wanted(e) = Count(e.got, {"OKAY"})
    PROVE  Count(e.sent, Finals) = 0
<1>0. /\ e.sent \in Seq(Item) /\ e.got \in Seq(Item) /\ e.line \in Seq(Item) /\ w.toProc[c] \in Seq(Item)
      /\ w.sk[c].req \in Seq(Item)
  BY Distinct DEF TalkOK, TalkSet, Record, Socket
<1>1. PICK bytes, rest \in Seq(Item) : bytes = e.line /\ rest = << >>
  BY <1>0, ItemSeq
<1>2. e.line = bytes \o rest
  BY <1>0, <1>1, ItemSeq
<1>3. PICK u : Asks(w, c, e, u, w.sk[c].req \o bytes, rest)
  BY <1>2, AskingIs
<1>4. PICK all : all = w.sk[c].req \o bytes
  OBVIOUS
<1>5. Asks(w, c, e, u, all, rest)
  BY <1>3, <1>4
<1>6. /\ u \in Seq(Item) /\ all \in Seq(Item) /\ rest = << >> /\ e.sent = u \o (all \o rest)
      /\ Count(e.sent, {"byte"}) = 0 /\ e.script # << >> /\ e.script[1][1] # "forward"
      /\ Count(e.sent, Finals) > 0 => all \o rest # << >>
      /\ Count(All(w, c, e), Words) + (Count(all, Awaited) + Count(rest, Awaited)) <= Wanted(e)
  BY <1>1, <1>5 DEF Asks
<1>7. /\ Wanted(e) \in Nat /\ \A S : Count(All(w, c, e), S) \in Nat
      /\ \A S : Count(all, S) \in Nat /\ Count(rest, S) \in Nat
  BY <1>5, AsksNumbers
<1>8. Count(e.got, {"OKAY"}) <= Count(All(w, c, e), Words)
  <2>1. PICK g, t \in Seq(Item) : g = e.got /\ t = w.toProc[c]
    BY <1>0
  <2>2. /\ Count(g \o t, {"OKAY"}) = Count(g, {"OKAY"}) + Count(t, {"OKAY"}) /\ g \o t \in Seq(Item)
        /\ Count(g, {"OKAY"}) \in Nat /\ Count(t, {"OKAY"}) \in Nat
    BY CountConcat, SpotsIs, ItemSeq
  <2>3. Count(g \o t, {"OKAY"}) <= Count(g \o t, Words)
    BY <2>2, CountMore DEF Words
  <2>4. All(w, c, e) = g \o t
    BY <2>1 DEF All
  <2> QED
    BY <1>7, <2>1, <2>2, <2>3, <2>4
<1>9. Count(all, Awaited) = 0
  BY <1>6, <1>7, <1>8
<1> SUFFICES ASSUME Count(e.sent, Finals) > 0 PROVE FALSE
  <2>1. Count(e.sent, Finals) \in Nat
    BY <1>0, SpotsIs
  <2> QED
    BY <2>1
<1>10. all # << >> /\ e.sent = u \o (all \o rest)
  BY <1>6, ItemSeq
<1>11. PICK m \in 1..Len(all) : m = Len(all)
  <2>1. Len(all) \in Nat /\ Len(all) # 0
    BY <1>6, <1>10, EmptySeq, LenProperties
  <2> QED
    BY <2>1
<1>12. Len(u) + m \in 1..Len(e.sent) /\ e.sent[Len(u) + m] = all[m] /\ Len(e.sent) = Len(u) + m
  <2>1. /\ Len(u) \in Nat /\ Len(all) \in Nat /\ Len(u \o (all \o rest)) = Len(u) + (Len(all) + Len(rest))
        /\ Len(u) + m \in 1..Len(u \o (all \o rest)) /\ (u \o (all \o rest))[Len(u) + m] = all[m]
    BY <1>1, <1>6, Placed
  <2>2. Len(rest) = 0
    BY <1>6
  <2> QED
    BY <1>6, <1>11, <2>1, <2>2
<1>13. PICK i \in 1..Len(e.sent) : e.sent[i][1] \in Finals
  BY <1>0, CountZero
<1>14. i = Len(e.sent)
  BY <1>6, <1>13, NothingAfter
<1>15. all[m][1] \in Finals
  BY <1>12, <1>13, <1>14
<1>16. all[m][1] # "forward"
  <2>1. e.script[i] = e.sent[i] /\ i \in DOMAIN e.script
    BY ScriptIs
  <2>2. Polite(e.script)
    BY <1>6 DEF TalkOK
  <2> QED
    BY <1>6, <1>12, <1>14, <2>1, <2>2 DEF Polite
<1>17. all[m][1] \in Awaited
  BY <1>15, <1>16 DEF Finals, Awaited
<1> QED
  BY <1>6, <1>9, <1>17, CountZero

\* What is counted, and what is data, with one more item.
LEMMA SendsCount ==
    ASSUME NEW e \in TalkSet, NEW f, NEW x \in Item, Sends(e, f, x)
    PROVE  /\ f.sent \in Seq(Item) /\ f.line \in Seq(Item)
           /\ \A S : /\ Count(f.sent, S) = Count(e.sent, S) + One(x[1] \in S)
                     /\ Count(e.sent, S) \in Nat /\ One(x[1] \in S) \in {0, 1}
           /\ Data(f.sent) = Data(e.sent) \o Data(<<x>>) /\ Data(f.line) = Data(e.line) \o Data(<<x>>)
           /\ Data(<<x>>) \in Seq(Item) /\ f.line = e.line \o <<x>> /\ f.sent = e.sent \o <<x>>
           /\ <<x>> \in Seq(Item) /\ f.line # << >>
<1>1. e.sent \in Seq(Item) /\ e.line \in Seq(Item)
  BY DEF TalkSet
<1>2. f.sent = e.sent \o <<x>> /\ f.line = e.line \o <<x>> /\ <<x>> \in Seq(Item) /\ f.line # << >>
  <2>1. <<x>> \in Seq(Item) /\ \A s \in Seq(Item) : Append(s, x) = s \o <<x>>
    BY CountOne
  <2>2. f.sent = Append(e.sent, x) /\ f.line = Append(e.line, x)
    BY DEF Sends
  <2>3. Append(e.line, x) # << >>
    BY <1>1, AppendProperties, EmptySeq
  <2> QED
    BY <1>1, <2>1, <2>2, <2>3
<1>3. PICK b \in Seq(Item) : b = <<x>>
  BY <1>2
<1>4. /\ Data(e.sent \o b) = Data(e.sent) \o Data(b) /\ Data(e.line \o b) = Data(e.line) \o Data(b)
      /\ Data(b) \in Seq(Item) /\ e.sent \o b \in Seq(Item) /\ e.line \o b \in Seq(Item)
  BY <1>1, DataFacts, ItemSeq
<1>5. ASSUME NEW S
      PROVE  /\ Count(f.sent, S) = Count(e.sent, S) + One(x[1] \in S)
             /\ Count(e.sent, S) \in Nat /\ One(x[1] \in S) \in {0, 1}
  <2>1. One(x[1] \in S) \in {0, 1} /\ Count(e.sent, S) \in Nat
    BY <1>1, SpotsIs DEF One
  <2> QED
    BY <1>1, <2>1, CountAppend DEF Sends
<1> QED
  BY <1>2, <1>3, <1>4, <1>5

\* An item that client c sends keeps what was said in order.
LEMMA SendsSpoken ==
    ASSUME NEW w \in Record, NEW c \in Clients, NEW e, TalkOK(e), Spoken(w, c, e),
           Len(e.sent) < Len(e.script), Wanted(e) = Count(e.got, {"OKAY"}), c \notin gone,
           NEW x, x = e.script[Len(e.sent) + 1], NEW f, Sends(e, f, x)
    PROVE  Spoken(w, c, f)
<1>0. /\ e \in TalkSet /\ e.sent \in Seq(Item) /\ e.got \in Seq(Item) /\ e.line \in Seq(Item)
      /\ w.toProc[c] \in Seq(Item) /\ w.sk[c].req \in Seq(Item)
  BY Distinct DEF TalkOK, TalkSet, Record, Socket
<1>1. /\ x \in Item /\ e.script # << >>
      /\ Count(e.sent, Finals) > 0 => x[1] = "byte"
      /\ x[1] = "byte" => Count(e.sent, Finals) > 0
  BY NextItem
<1>2. /\ f.sent \in Seq(Item) /\ f.line \in Seq(Item)
      /\ \A S : /\ Count(f.sent, S) = Count(e.sent, S) + One(x[1] \in S)
                /\ Count(e.sent, S) \in Nat /\ One(x[1] \in S) \in {0, 1}
      /\ f.line = e.line \o <<x>> /\ f.sent = e.sent \o <<x>> /\ <<x>> \in Seq(Item) /\ f.line # << >>
  <2>1. e \in TalkSet /\ x \in Item /\ Sends(e, f, x)
    BY <1>0, <1>1
  <2> QED
    BY ONLY <2>1, SendsCount
<1>3. All(w, c, f) = All(w, c, e) /\ All(w, c, e) \in Seq(Item) /\ f.script = e.script
  BY <1>0, ItemSeq DEF All, Sends
<1>4. \A S : Count(All(w, c, e), S) \in Nat
  BY <1>3, SpotsIs
<1>5. /\ Wanted(f) = Wanted(e) + One(x[1] \in Awaited) /\ Wanted(e) \in Nat
      /\ One(x[1] \in Awaited) \in {0, 1}
  BY <1>2 DEF Wanted
<1>6. ASSUME Count(e.sent, Finals) > 0
      PROVE  Wanted(f) = Wanted(e) /\ Count(f.sent, Finals) > 0 /\ x \in AnyByte
  <2>1. x[1] = "byte" /\ One(x[1] \in Awaited) = 0
    BY <1>1, <1>6 DEF Awaited, One
  <2>2. x \in AnyByte
    BY <1>1, <2>1 DEF Item, AnyByte, Requests
  <2>3. Count(f.sent, Finals) > 0
    <3>1. /\ Count(f.sent, Finals) = Count(e.sent, Finals) + One(x[1] \in Finals)
          /\ Count(e.sent, Finals) \in Nat /\ One(x[1] \in Finals) \in {0, 1}
      BY <1>2
    <3> QED
      BY <1>6, <3>1
  <2> QED
    BY <1>5, <2>1, <2>2, <2>3
<1>7. AskingOK(w, c, f)
  <2> SUFFICES ASSUME Asking(w.sk[c]) PROVE AskingOK(w, c, f)
    BY DEF AskingOK
  <2>1. Count(e.sent, Finals) = 0
    BY NotYet
  <2>2. One(x[1] \in {"byte"}) = 0
    BY <1>1, <2>1 DEF One
  <2>3. /\ Count(e.sent, {"byte"}) = 0 /\ Count(All(w, c, e), {"byte"}) = 0
        /\ \E u \in Seq(Item) : e.sent = u \o (w.sk[c].req \o e.line)
        /\ Count(All(w, c, e), Words) + Count(w.sk[c].req \o e.line, Awaited) <= Wanted(e)
        /\ e.script # << >> /\ e.script[1][1] # "forward"
    BY DEF Spoken, AskingOK
  <2>4. PICK u \in Seq(Item) : e.sent = u \o (w.sk[c].req \o e.line)
    BY <2>3
  <2>5. PICK b, r, t \in Seq(Item) : b = <<x>> /\ r = w.sk[c].req /\ t = e.line
    BY <1>0, <1>2
  <2>6. (u \o (r \o t)) \o b = u \o (r \o (t \o b)) /\ r \o t \in Seq(Item)
    <3>1. r \o t \in Seq(Item) /\ t \o b \in Seq(Item)
      BY ItemSeq
    <3>2. (u \o (r \o t)) \o b = u \o ((r \o t) \o b)
      BY <3>1, ItemAssoc, SMTT(30)
    <3>3. (r \o t) \o b = r \o (t \o b)
      BY ItemAssoc
    <3> QED
      BY <3>1, <3>2, <3>3
  <2>7. f.sent = u \o (w.sk[c].req \o f.line)
    BY <1>2, <2>4, <2>5, <2>6
  <2>8. /\ Count(w.sk[c].req \o f.line, Awaited) = Count(w.sk[c].req \o e.line, Awaited) + One(x[1] \in Awaited)
        /\ Count(w.sk[c].req \o e.line, Awaited) \in Nat /\ w.sk[c].req \o f.line # << >>
    <3>1. r \o (t \o b) = (r \o t) \o b
      BY ItemAssoc
    <3>2. /\ Count((r \o t) \o b, Awaited) = Count(r \o t, Awaited) + Count(b, Awaited)
          /\ Count(b, Awaited) = One(x[1] \in Awaited) /\ Count(r \o t, Awaited) \in Nat
      <4>1. Count((r \o t) \o b, Awaited) = Count(r \o t, Awaited) + Count(b, Awaited)
        BY <2>6, CountConcat
      <4>2. Count(b, Awaited) = One(x[1] \in Awaited)
        BY <1>1, <2>5, CountOne
      <4>3. Count(r \o t, Awaited) \in Nat
        BY <2>6, SpotsIs
      <4> QED
        BY <4>1, <4>2, <4>3
    <3>3. r \o (t \o b) # << >>
      <4>1. Len((r \o t) \o b) = Len(r \o t) + Len(b) /\ Len(b) = 1 /\ Len(r \o t) \in Nat
        <5>1. Len(b) = 1
          BY <2>5
        <5>2. Len((r \o t) \o b) = Len(r \o t) + Len(b)
          BY <2>6, ConcatProperties
        <5>3. Len(r \o t) \in Nat
          BY <2>6, LenProperties
        <5> QED
          BY <5>1, <5>2, <5>3
      <4> QED
        BY <3>1, <4>1
    <3> QED
      BY <1>2, <2>5, <3>1, <3>2, <3>3
  <2>9. Count(f.sent, {"byte"}) = 0
    <3>1. Count(f.sent, {"byte"}) = Count(e.sent, {"byte"}) + One(x[1] \in {"byte"})
      BY <1>2
    <3>2. Count(e.sent, {"byte"}) = 0
      BY <2>3
    <3> QED
      BY ONLY <2>2, <3>1, <3>2
  <2>10. Count(All(w, c, f), Words) + Count(w.sk[c].req \o f.line, Awaited) <= Wanted(f)
    <3>1. Count(All(w, c, e), Words) \in Nat
      BY <1>4
    <3>2. /\ Count(All(w, c, e), Words) + Count(w.sk[c].req \o e.line, Awaited) <= Wanted(e)
          /\ Count(w.sk[c].req \o f.line, Awaited) = Count(w.sk[c].req \o e.line, Awaited) + One(x[1] \in Awaited)
          /\ Count(w.sk[c].req \o e.line, Awaited) \in Nat
      BY <2>3, <2>8
    <3>3. All(w, c, f) = All(w, c, e)
      BY <1>3
    <3> QED
      BY <1>5, <3>1, <3>2, <3>3
  <2> QED
    BY <1>3, <2>3, <2>7, <2>8, <2>9, <2>10 DEF AskingOK
<1>8. f.line \in Seq(AnyByte) \/ ~(e.line \in Seq(AnyByte)) \/ ~(x \in AnyByte)
  BY DEF Sends
<1>9. WaitingOK(w, c, f)
  <2> SUFFICES ASSUME Waiting(w.sk[c]) PROVE WaitingOK(w, c, f)
    BY DEF WaitingOK
  <2>1. /\ Count(e.sent, Finals) > 0 /\ Count(All(w, c, e), {"byte"}) = 0 /\ e.line \in Seq(AnyByte)
        /\ Count(All(w, c, e), Words) + One(w.sk[c].notify) <= Wanted(e)
        /\ Wanted(e) <= Count(All(w, c, e), {"OKAY"}) + One(w.sk[c].notify)
    BY DEF Spoken, WaitingOK
  <2> QED
    BY <1>3, <1>6, <1>8, <2>1 DEF WaitingOK
<1>10. BoundOK(w, c, f)
  <2> SUFFICES ASSUME Bound(w.sk[c]) PROVE BoundOK(w, c, f)
    BY DEF BoundOK
  <2>1. /\ Count(e.sent, Finals) > 0
        /\ c \notin gone => Count(All(w, c, e), {"OKAY"}) = Wanted(e)
        /\ w.sk[c].peer = Remote => e.line \in Seq(AnyByte)
    BY DEF Spoken, BoundOK
  <2> QED
    BY <1>3, <1>6, <1>8, <2>1 DEF BoundOK
<1>11. AnswersOK(All(w, c, f), f)
  <2>1. AnswersOK(All(w, c, e), e)
    BY DEF Spoken
  <2>2. PICK all \in Seq(Item) : all = All(w, c, e)
    BY <1>3
  <2>3. /\ \A i, j \in 1..Len(all) : i < j /\ all[j][1] \in Words => all[i][1] # "byte"
        /\ e.script # << >> /\ Last(e.script) # Word("devices") => Count(all, Words) <= Wanted(e)
        /\ Count(all, {"byte"}) > 0 => Count(e.sent, Finals) > 0 /\ Count(all, {"OKAY"}) = Wanted(e)
    BY <2>1, <2>2 DEF AnswersOK
  <2>4. f.script # << >> /\ Last(f.script) # Word("devices") => Count(all, Words) <= Wanted(f)
    BY <1>3, <1>4, <1>5, <2>2, <2>3
  <2>5. Count(all, {"byte"}) > 0 => Count(f.sent, Finals) > 0 /\ Count(all, {"OKAY"}) = Wanted(f)
    BY <1>6, <2>3
  <2> QED
    BY <1>3, <2>2, <2>3, <2>4, <2>5 DEF AnswersOK
<1> QED
  BY <1>7, <1>9, <1>10, <1>11 DEF Spoken

LEMMA SendsFlow ==
    ASSUME NEW w \in Record, NEW c \in Clients, NEW e \in TalkSet, NEW d, d.got \in Seq(Item),
           Flowing(w, c, e, d), NEW x \in Item, NEW f, Sends(e, f, x)
    PROVE  Flowing(w, c, f, d)
<1>1. /\ Data(f.sent) = Data(e.sent) \o Data(<<x>>) /\ Data(f.line) = Data(e.line) \o Data(<<x>>)
      /\ Data(<<x>>) \in Seq(Item) /\ e.sent \in Seq(Item) /\ e.line \in Seq(Item)
  BY SendsCount DEF TalkSet
<1>2. InFlight(w.h2d, c) \in Seq(Item)
  BY InFlightFacts DEF Record
<1>3. PICK b, s, t, g \in Seq(Item) : /\ b = Data(<<x>>) /\ s = Data(e.sent) /\ t = Data(e.line)
                                      /\ g = d.got \o InFlight(w.h2d, c)
  <2>1. Data(e.sent) \in Seq(Item) /\ Data(e.line) \in Seq(Item)
    BY <1>1, DataFacts
  <2>2. d.got \o InFlight(w.h2d, c) \in Seq(Item)
    BY <1>2, ItemSeq
  <2> QED
    BY <1>1, <2>1, <2>2
<1>4. g \o t = s => g \o (t \o b) = s \o b
  <2>1. (g \o t) \o b = g \o (t \o b)
    BY ItemAssoc
  <2> QED
    BY <2>1
<1>5. /\ Starts(d.got, s) => Starts(d.got, s \o b)
      /\ Starts(g, s) => Starts(g, s \o b)
  BY StartsFacts
<1>6. Data(f.sent) = s \o b /\ Data(f.line) = t \o b
  BY <1>1, <1>3
<1> QED
  BY <1>3, <1>4, <1>5, <1>6 DEF Flowing

LEMMA ClientSendSpeaks == ASSUME IInv, SpeakInv, NEW c \in Clients, ClientSend(c) PROVE SpeakInv'
<1> DEFINE x == cl[c].script[cl[c].pos + 1]
           e == Talk(c)
           f == [script |-> cl[c].script, sent |-> Append(e.sent, x), line |-> Append(e.line, x),
                 got |-> cl[c].got]
           F == [b \in Clients |-> IF b = c THEN f ELSE Talk(b)]
<1>0. /\ sk[c].on # "absent" /\ c \notin gone /\ cl[c].pos < Len(cl[c].script)
      /\ Count(SubSeq(cl[c].script, 1, cl[c].pos), Awaited) = Count(cl[c].got, {"OKAY"})
      /\ toServer' = [toServer EXCEPT ![c] = Append(@, x)] /\ cl' = [cl EXCEPT ![c].pos = @ + 1]
      /\ UNCHANGED <<sk, disc, tr, h2d, d2h, toProc, gone, dev, bad>>
  BY DEF ClientSend
<1>1. /\ Good(W) /\ W \in Record /\ TalksOK(Talks) /\ Speaks(W, Talks) /\ dev \in DevSet
      /\ \A b \in Clients : Talks[b] = Talk(b) /\ b \in Locals
      /\ cl \in [Clients -> [script : Seq(Item), pos : Nat, got : Seq(Item)]]
      /\ toServer \in [Locals -> Seq(Item)]
  BY SpeakIs, WIs, Distinct DEF Good, IInv, RestOK
<1>2. /\ cl[c].script \in Seq(Item) /\ cl[c].pos \in Nat /\ cl[c].pos \in 0..Len(cl[c].script)
      /\ cl[c].pos + 1 \in 0..Len(cl[c].script) /\ Len(cl[c].script) \in Nat
      /\ cl[c].pos + 1 \in 1..Len(cl[c].script)
  BY <1>0, <1>1, LenProperties
<1>3. /\ e.script = cl[c].script /\ e.sent = SubSeq(cl[c].script, 1, cl[c].pos) /\ e.got = cl[c].got
      /\ e.line = toServer[c]
  BY DEF Talk
<1>4. e.sent \in Seq(Item) /\ Len(e.sent) = cl[c].pos /\ TalkOK(e) /\ e \in TalkSet
  <2>1. TalkOK(e) /\ e \in TalkSet
    BY <1>1 DEF TalksOK, TalkOK
  <2>2. Len(e.sent) = cl[c].pos
    BY <1>2, <1>3
  <2> QED
    BY <2>1, <2>2 DEF TalkSet
<1>5. Wanted(e) = Count(e.got, {"OKAY"})
  BY <1>0, <1>3 DEF Wanted
<1>6. x \in Item /\ x = e.script[Len(e.sent) + 1] /\ Len(e.sent) < Len(e.script)
  BY <1>0, <1>2, <1>3, <1>4, ElementOfSeq
<1>7. SubSeq(cl[c].script, 1, cl[c].pos + 1) = Append(e.sent, x)
  <2>1. PICK s, k : s = cl[c].script /\ k = cl[c].pos
    OBVIOUS
  <2>2. s \in Seq(Item) /\ k \in Nat /\ k + 1 \in 1..Len(s) /\ Len(s) \in Nat
    BY <1>2, <2>1
  <2>3. SubSeq(s, 1, k + 1) = Append(SubSeq(s, 1, k), s[k + 1])
    BY <2>2
  <2> QED
    BY <1>3, <2>1, <2>3
<1> HIDE DEF x, e
<1>8. Sends(e, f, x)
  BY <1>3 DEF Sends
<1>9. /\ f.script = e.script /\ f.got = e.got /\ f \in TalkSet
      /\ f.sent \in Seq(Item) /\ f.line \in Seq(Item)
      /\ Wanted(f) = Wanted(e) + One(x[1] \in Awaited) /\ Wanted(e) \in Nat
      /\ One(x[1] \in Awaited) \in {0, 1}
  <2>1. /\ f.sent \in Seq(Item) /\ f.line \in Seq(Item)
        /\ \A S : /\ Count(f.sent, S) = Count(e.sent, S) + One(x[1] \in S)
                  /\ Count(e.sent, S) \in Nat /\ One(x[1] \in S) \in {0, 1}
    <3>1. PICK g : g = f
      OBVIOUS
    <3>2. e \in TalkSet /\ x \in Item /\ Sends(e, g, x)
      BY <1>4, <1>6, <1>8, <3>1
    <3>3. /\ g.sent \in Seq(Item) /\ g.line \in Seq(Item)
          /\ \A S : /\ Count(g.sent, S) = Count(e.sent, S) + One(x[1] \in S)
                    /\ Count(e.sent, S) \in Nat /\ One(x[1] \in S) \in {0, 1}
      BY ONLY <3>2, SendsCount
    <3> QED
      BY ONLY <3>1, <3>3
  <2>2. f.script = e.script /\ f.got = e.got
    BY <1>3
  <2>3. f \in TalkSet
    BY <1>4, <2>1, <2>2 DEF TalkSet
  <2> QED
    BY <2>1, <2>2, <2>3 DEF Wanted
<1>10. TalkOK(f)
  <2>1. \E r \in Seq(Item) : f.script = f.sent \o r
    <3>1. PICK s, n : s = cl[c].script /\ n = cl[c].pos + 1
      OBVIOUS
    <3>2. s \in Seq(Item) /\ n \in 0..Len(s)
      BY <1>2, <3>1
    <3>3. s = SubSeq(s, 1, n) \o SubSeq(s, n + 1, Len(s)) /\ SubSeq(s, n + 1, Len(s)) \in Seq(Item)
      BY <3>2, SplitWhole
    <3>4. f.script = s /\ f.sent = SubSeq(s, 1, n)
      BY <1>3, <1>7, <3>1
    <3> QED
      BY <3>3, <3>4
  <2>2. f.script = << >> \/ Polite(f.script)
    BY <1>4, <1>9 DEF TalkOK
  <2>3. Wanted(f) <= Count(f.got, {"OKAY"}) + 1
    BY <1>5, <1>9
  <2> QED
    BY <1>9, <2>1, <2>2, <2>3 DEF TalkOK
<1>11. Spoken(W, c, e) /\ Flowing(W, c, e, dev[c]) /\ dev[c].got \in Seq(Item)
  BY <1>1 DEF Speaks, DevSet, e
<1> HIDE DEF f
<1>12. Spoken(W, c, f)
  BY <1>0, <1>1, <1>4, <1>5, <1>6, <1>8, <1>11, SendsSpoken
<1>13. Flowing(W, c, f, dev[c])
  BY <1>1, <1>4, <1>6, <1>8, <1>11, SendsFlow
<1>14. Fresh(W, c, f)
  BY <1>0, WIs DEF Fresh
<1>15. F[c] = f /\ \A b \in Clients : b # c => F[b] = Talks[b]
  BY <1>1
<1>16. Speaks(W, F) /\ TalksOK(F)
  BY <1>1, <1>10, <1>12, <1>13, <1>14, <1>15 DEF Speaks, TalksOK
<1>17. \A b \in Clients : Talk(b)' = F[b]
  <2>1. ASSUME NEW b \in Clients, b # c PROVE Talk(b)' = F[b]
    BY <1>0, <1>1, <1>15, <2>1 DEF Talk
  <2>2. Talk(c)' = f
    <3>1. cl'[c].script = cl[c].script /\ cl'[c].pos = cl[c].pos + 1 /\ cl'[c].got = cl[c].got
      BY <1>0, <1>1
    <3>2. toServer'[c] = Append(e.line, x)
      BY <1>0, <1>1, <1>3
    <3> QED
      BY <1>7, <3>1, <3>2 DEF Talk, f
  <2> QED
    BY <1>15, <2>1, <2>2
<1>18. \A b \in Clients : /\ cl'[b].pos <= Len(cl'[b].script)
                          /\ sk'[b].on = "absent" => cl'[b].pos = 0
  BY <1>0, <1>1, <1>2 DEF SpeakInv
<1>19. \A s \in Services : toServer'[s] \in Seq(AnyByte)
  BY <1>0, <1>1, Distinct DEF SpeakInv
<1>20. PICK v : v = W
  OBVIOUS
<1>21. W' = v /\ Speaks(v, F)
  BY <1>0, <1>16, <1>20 DEF W
<1> HIDE DEF F
<1> QED
  BY <1>0, <1>16, <1>17, <1>18, <1>19, <1>21, SpeakStep

\* Also when a client leaves, and when the device takes or sends something.
LEMMA SpeakMoves ==
    ASSUME SpeakInv, NEW v, W' = v, NEW F, Fit(v), NEW D, dev' = D,
           \A c \in Clients : Spoken(v, c, F[c]) /\ Flowing(v, c, F[c], D[c]) /\ Fresh(v, c, F[c]),
           TalksOK(F), \A c \in Clients : c \in gone => c \in gone', tr' = tr \/ tr' # "on",
           \A c \in Clients : Talk(c)' = F[c],
           \A c \in Clients : /\ cl'[c].pos <= Len(cl'[c].script)
                              /\ sk'[c].on = "absent" => cl'[c].pos = 0,
           \A s \in Services : toServer'[s] \in Seq(AnyByte)
    PROVE  SpeakInv'
<1>1. ASSUME NEW c \in Clients
      PROVE  /\ TalkOK(Talk(c)') /\ Talks'[c] = F[c]
  BY DEF TalksOK, Talks
<1>2. ASSUME NEW c \in Clients PROVE Spoken(W, c, Talks[c])'
  <2>1. Spoken(v, c, F[c]) /\ (c \in gone => c \in gone')
    OBVIOUS
  <2>2. (Talks[c])' = F[c]
    BY <1>1
  <2> QED
    BY <2>1, <2>2 DEF Spoken, AskingOK, WaitingOK, BoundOK
<1>3. ASSUME NEW c \in Clients PROVE Flowing(W, c, Talks[c], dev[c])'
  <2>1. Flowing(v, c, F[c], D[c])
    OBVIOUS
  <2> QED
    BY <1>1, <2>1 DEF Flowing
<1>4. ASSUME NEW c \in Clients PROVE Fresh(W, c, Talks[c])'
  <2>1. Fresh(v, c, F[c])
    OBVIOUS
  <2> QED
    BY <1>1, <2>1 DEF Fresh
<1>5. Fit(W)'
  BY DEF Fit
<1>6. Speaks(W, Talks)'
  BY <1>2, <1>3, <1>4, <1>5 DEF Speaks
<1>7. Talks' = [c \in Clients |-> Talk(c)]'
  BY DEF Talks
<1> QED
  BY <1>1, <1>6, <1>7 DEF SpeakInv

LEMMA ClientReadSpeaks == ASSUME IInv, SpeakInv, NEW c \in Clients, ClientRead(c) PROVE SpeakInv'
<1> DEFINE e == Talk(c)
           f == [script |-> e.script, sent |-> e.sent, line |-> e.line,
                 got |-> Append(cl[c].got, Head(toProc[c]))]
           F == [b \in Clients |-> IF b = c THEN f ELSE Talk(b)]
           v == [sk |-> sk, disc |-> disc, h2d |-> h2d, bad |-> bad,
                 toProc |-> [toProc EXCEPT ![c] = Tail(@)]]
<1>0. /\ toProc[c] # << >>
      /\ cl' = [cl EXCEPT ![c].got = Append(@, Head(toProc[c]))]
      /\ toProc' = [toProc EXCEPT ![c] = Tail(@)]
      /\ UNCHANGED <<sk, disc, tr, h2d, d2h, toServer, gone, dev, bad>>
  BY DEF ClientRead
<1>1. /\ Good(W) /\ W \in Record /\ TalksOK(Talks) /\ Speaks(W, Talks) /\ Fit(W) /\ dev \in DevSet
      /\ \A b \in Clients : Talks[b] = Talk(b) /\ b \in Locals
      /\ cl \in [Clients -> [script : Seq(Item), pos : Nat, got : Seq(Item)]]
      /\ toProc \in [Locals -> Seq(Item)]
  BY SpeakIs, WIs, Distinct DEF Good, IInv, RestOK, Record
<1>2. /\ e.script = cl[c].script /\ e.sent = SubSeq(cl[c].script, 1, cl[c].pos) /\ e.got = cl[c].got
      /\ e.line = toServer[c] /\ TalkOK(e) /\ e \in TalkSet /\ e.got \in Seq(Item)
  BY <1>1 DEF Talk, TalksOK, TalkOK, TalkSet
<1>3. v.sk = sk /\ v.h2d = h2d /\ v.toProc = toProc' /\ v.toProc[c] = Tail(toProc[c]) /\ W' = v
      /\ \A b \in Clients : b # c => v.toProc[b] = toProc[b]
  BY <1>0, <1>1 DEF W
<1>4. PICK h, t, g : h = Head(toProc[c]) /\ t = Tail(toProc[c]) /\ g = cl[c].got
  OBVIOUS
<1>5. h \in Item /\ t \in Seq(Item) /\ g \in Seq(Item) /\ toProc[c] = <<h>> \o t
  <2>1. PICK p : p = toProc[c]
    OBVIOUS
  <2>2. p \in Seq(Item) /\ p # << >>
    BY <1>0, <1>1, <2>1
  <2>3. Head(p) \in Item /\ Tail(p) \in Seq(Item) /\ p = <<Head(p)>> \o Tail(p)
    BY <2>2, HeadTailProperties
  <2> QED
    BY <1>1, <1>4, <2>1, <2>3
<1>6. /\ Append(g, h) \in Seq(Item) /\ Append(g, h) \o t = g \o toProc[c]
      /\ Count(Append(g, h), {"OKAY"}) >= Count(g, {"OKAY"}) /\ Count(g, {"OKAY"}) \in Nat
  <2>1. PICK b : b = <<h>>
    OBVIOUS
  <2>2. b \in Seq(Item) /\ Append(g, h) = g \o b
    BY <1>5, <2>1, CountOne
  <2>3. (g \o b) \o t = g \o (b \o t) /\ g \o b \in Seq(Item)
    BY <1>5, <2>2, ItemAssoc, ItemSeq
  <2>4. /\ Count(g \o b, {"OKAY"}) = Count(g, {"OKAY"}) + Count(b, {"OKAY"})
    BY <1>5, <2>2, CountConcat
  <2>5. Count(g, {"OKAY"}) \in Nat /\ Count(b, {"OKAY"}) \in Nat
    BY <1>5, <2>2, SpotsIs
  <2> QED
    BY <1>5, <2>1, <2>2, <2>3, <2>4, <2>5
<1> HIDE DEF e, v
<1>7. /\ f.script = e.script /\ f.sent = e.sent /\ f.line = e.line /\ f.got = Append(g, h)
      /\ f \in TalkSet
  BY <1>2, <1>4, <1>6 DEF TalkSet
<1> HIDE DEF f
<1>8. TalkOK(f)
  <2>1. Wanted(f) = Wanted(e) /\ Wanted(e) \in Nat
    <3>1. Wanted(f) = Wanted(e)
      BY <1>7 DEF Wanted
    <3>2. e.sent \in Seq(Item)
      BY <1>2 DEF TalkSet
    <3>3. Count(e.sent, Awaited) \in Nat
      BY <3>2, SpotsIs
    <3> QED
      BY <3>1, <3>3 DEF Wanted
  <2>2. Wanted(e) <= Count(e.got, {"OKAY"}) + 1
    BY <1>2 DEF TalkOK
  <2>3. Wanted(f) <= Count(f.got, {"OKAY"}) + 1
    <3>1. e.got = g
      BY <1>2, <1>4
    <3>2. Count(Append(g, h), {"OKAY"}) \in Nat
      BY <1>6, SpotsIs
    <3> QED
      BY <1>6, <1>7, <2>1, <2>2, <3>1, <3>2
  <2> QED
    BY <1>2, <1>7, <2>3 DEF TalkOK
<1>9. All(v, c, f) = All(W, c, e) /\ Wanted(f) = Wanted(e)
  <2>1. v.toProc[c] = t /\ W.toProc[c] = toProc[c] /\ e.got = g
    BY <1>2, <1>3, <1>4, WIs
  <2> QED
    BY <1>6, <1>7, <2>1 DEF All, Wanted
<1>10. Spoken(v, c, f)
  <2>1. Spoken(W, c, e) /\ v.sk[c] = W.sk[c]
    BY <1>1, <1>3, WIs DEF Speaks, e
  <2> QED
    BY <1>7, <1>9, <2>1 DEF Spoken, AskingOK, WaitingOK, BoundOK, AnswersOK
<1>11. Flowing(v, c, f, dev[c])
  <2>1. Flowing(W, c, e, dev[c]) /\ v.sk[c] = W.sk[c] /\ v.h2d = W.h2d
    BY <1>1, <1>3, WIs DEF Speaks, e
  <2> QED
    BY <1>7, <2>1 DEF Flowing
<1>12. Fresh(v, c, f)
  <2>1. Fresh(W, c, e) /\ v.sk[c] = W.sk[c] /\ W.toProc[c] # << >>
    BY <1>0, <1>1, <1>3, WIs DEF Speaks, e
  <2> QED
    BY <2>1 DEF Fresh
<1>13. ASSUME NEW b \in Clients, b # c
       PROVE  Spoken(v, b, Talks[b]) /\ Flowing(v, b, Talks[b], dev[b]) /\ Fresh(v, b, Talks[b])
  <2>1. Spoken(W, b, Talks[b]) /\ Flowing(W, b, Talks[b], dev[b]) /\ Fresh(W, b, Talks[b])
    BY <1>1 DEF Speaks
  <2>2. v.sk = W.sk /\ v.h2d = W.h2d /\ v.toProc[b] = W.toProc[b]
    BY <1>3, <1>13, WIs
  <2> QED
    BY <2>1, <2>2 DEF Spoken, AskingOK, WaitingOK, BoundOK, All, Flowing, Fresh
<1>14. Fit(v)
  BY <1>1, <1>3, WIs DEF Fit
<1>15. F[c] = f /\ \A b \in Clients : b # c => F[b] = Talks[b]
  BY <1>1
<1> HIDE DEF F
<1>16. Speaks(v, F) /\ TalksOK(F)
  <2>1. \A b \in Clients : Spoken(v, b, F[b]) /\ Flowing(v, b, F[b], dev[b]) /\ Fresh(v, b, F[b])
    BY <1>10, <1>11, <1>12, <1>13, <1>15
  <2>2. \A b \in Clients : TalkOK(F[b])
    BY <1>1, <1>8, <1>15 DEF TalksOK
  <2> QED
    BY <1>14, <2>1, <2>2 DEF Speaks, TalksOK
<1>17. \A b \in Clients : Talk(b)' = F[b]
  <2>1. ASSUME NEW b \in Clients, b # c PROVE Talk(b)' = F[b]
    BY <1>0, <1>1, <1>15, <2>1 DEF Talk
  <2>2. Talk(c)' = f
    <3>1. /\ cl'[c].script = cl[c].script /\ cl'[c].pos = cl[c].pos
          /\ cl'[c].got = Append(cl[c].got, Head(toProc[c]))
      BY <1>0, <1>1
    <3> QED
      BY <1>0, <1>2, <3>1 DEF Talk, f
  <2> QED
    BY <1>15, <2>1, <2>2
<1>18. \A b \in Clients : /\ cl'[b].pos <= Len(cl'[b].script)
                          /\ sk'[b].on = "absent" => cl'[b].pos = 0
  BY <1>0, <1>1 DEF SpeakInv
<1>19. \A s \in Services : toServer'[s] \in Seq(AnyByte)
  BY <1>0 DEF SpeakInv
<1> QED
  BY <1>0, <1>3, <1>16, <1>17, <1>18, <1>19, SpeakStep

LEMMA ClientLeaveSpeaks == ASSUME IInv, SpeakInv, NEW c \in Clients, ClientLeave(c) PROVE SpeakInv'
<1>0. /\ gone' = gone \cup {c}
      /\ UNCHANGED <<sk, disc, tr, h2d, d2h, toProc, toServer, cl, dev, bad>>
  BY DEF ClientLeave
<1>1. PICK v : v = W
  OBVIOUS
<1>2. W' = v
  BY <1>0, <1>1 DEF W
<1>3. Fit(v) /\ Speaks(v, Talks) /\ TalksOK(Talks) /\ \A b \in Clients : Talks[b] = Talk(b)
  BY <1>1, SpeakIs
<1>4. \A b \in Clients : Talk(b)' = Talks[b]
  BY <1>0, <1>3 DEF Talk
<1>5. \A b \in Clients : /\ cl'[b].pos <= Len(cl'[b].script)
                         /\ sk'[b].on = "absent" => cl'[b].pos = 0
  BY <1>0 DEF SpeakInv
<1>6. \A s \in Services : toServer'[s] \in Seq(AnyByte)
  BY <1>0 DEF SpeakInv
<1>7. \A b \in Clients : /\ Spoken(v, b, Talks[b]) /\ Flowing(v, b, Talks[b], dev[b])
                         /\ Fresh(v, b, Talks[b])
  BY <1>3 DEF Speaks
<1>8. \A b \in Clients : b \in gone => b \in gone'
  BY <1>0
<1> QED
  BY <1>0, <1>2, <1>3, <1>4, <1>5, <1>6, <1>7, <1>8, SpeakMoves

LEMMA ServiceAnswerSpeaks ==
    ASSUME IInv, SpeakInv, NEW s \in Services, ServiceAnswer(s) PROVE SpeakInv'
<1>0. /\ gone' = gone \cup {s} /\ toServer' = [toServer EXCEPT ![s] = Append(@, Byte(1))]
      /\ UNCHANGED <<sk, disc, tr, h2d, d2h, toProc, cl, dev, bad>>
  BY DEF ServiceAnswer
<1>1. PICK v : v = W
  OBVIOUS
<1>2. W' = v
  BY <1>0, <1>1 DEF W
<1>3. /\ Fit(v) /\ Speaks(v, Talks) /\ TalksOK(Talks) /\ \A b \in Clients : Talks[b] = Talk(b)
      /\ toServer \in [Locals -> Seq(Item)]
  BY <1>1, SpeakIs DEF IInv, RestOK
<1>4. \A b \in Clients : toServer'[b] = toServer[b]
  BY <1>0, <1>3, Distinct
<1>5. \A b \in Clients : Talk(b)' = Talks[b]
  BY <1>0, <1>3, <1>4 DEF Talk
<1>6. \A b \in Clients : /\ cl'[b].pos <= Len(cl'[b].script)
                         /\ sk'[b].on = "absent" => cl'[b].pos = 0
  BY <1>0 DEF SpeakInv
<1>7. \A r \in Services : toServer'[r] \in Seq(AnyByte)
  <2>1. toServer[s] \in Seq(AnyByte) /\ Byte(1) \in AnyByte
    BY DEF SpeakInv, Byte, AnyByte
  <2>2. Append(toServer[s], Byte(1)) \in Seq(AnyByte)
    BY <2>1, AppendProperties
  <2> QED
    BY <1>0, <1>3, <2>2, Distinct DEF SpeakInv
<1>8. \A b \in Clients : /\ Spoken(v, b, Talks[b]) /\ Flowing(v, b, Talks[b], dev[b])
                         /\ Fresh(v, b, Talks[b])
  BY <1>3 DEF Speaks
<1>9. \A b \in Clients : b \in gone => b \in gone'
  BY <1>0
<1> QED
  BY <1>0, <1>2, <1>3, <1>5, <1>6, <1>7, <1>8, <1>9, SpeakMoves

-----------------------------------------------------------------------------
(* What is said, by the steps of the device *)

\* The device takes what is next on its way, or closes; before it closes it loses nothing.
LEMMA DeviceFlows ==
    ASSUME NEW w, NEW v, NEW c \in Clients, NEW e \in TalkSet, NEW d, NEW a, Flowing(w, c, e, d),
           v.sk[c] = w.sk[c], d.got \in Seq(Item), NEW x \in Seq(Item),
           InFlight(w.h2d, c) \in Seq(Item), InFlight(v.h2d, c) \in Seq(Item),
           \/ a.st = "closed" /\ a.got = d.got
           \/ /\ d.st # "closed" /\ InFlight(w.h2d, c) = x \o InFlight(v.h2d, c)
              /\ a.got = d.got \o x
    PROVE  Flowing(v, c, e, a)
<1>1. PICK g, i, s : g = d.got /\ i = InFlight(v.h2d, c) /\ s = Data(e.sent)
  OBVIOUS
<1>2. g \in Seq(Item) /\ i \in Seq(Item) /\ s \in Seq(Item) /\ x \o i \in Seq(Item) /\ g \o x \in Seq(Item)
  <2>1. s \in Seq(Item)
    BY <1>1, DataFacts DEF TalkSet
  <2> QED
    BY <1>1, <2>1, ItemSeq
<1>3. (g \o x) \o i = g \o (x \o i)
  BY <1>2, ItemAssoc, SMTT(30)
<1>4. Starts(g, s) /\ (d.st # "closed" => Starts(g \o InFlight(w.h2d, c), s))
  BY <1>1 DEF Flowing
<1>5. CASE a.st = "closed" /\ a.got = d.got
  BY <1>1, <1>4, <1>5 DEF Flowing
<1>6. CASE d.st # "closed" /\ InFlight(w.h2d, c) = x \o i /\ a.got = g \o x
  <2>1. (g \o x) \o i = g \o InFlight(w.h2d, c)
    BY <1>3, <1>6
  <2>2. Starts((g \o x) \o i, s)
    BY <1>4, <1>6, <2>1
  <2>3. Starts(g \o x, (g \o x) \o i)
    BY <1>2 DEF Starts
  <2>4. Starts(g \o x, s)
    <3>1. PICK a1, a2 : a1 = g \o x /\ a2 = (g \o x) \o i
      OBVIOUS
    <3>2. a1 \in Seq(Item) /\ a2 \in Seq(Item) /\ s \in Seq(Item)
      BY <1>2, <3>1, ItemSeq
    <3>3. Starts(a1, a2) /\ Starts(a2, s)
      BY <2>2, <2>3, <3>1
    <3>4. Starts(a1, s)
      BY <3>2, <3>3, StartsFacts
    <3> QED
      BY <3>1, <3>4
  <2> QED
    BY <1>1, <1>6, <2>1, <2>2, <2>4 DEF Flowing
<1> QED
  BY <1>1, <1>5, <1>6

\* A step of the device that does so for each client.
LEMMA DeviceSpeaks ==
    ASSUME IInv, SpeakInv, DevStep, h2d' \in Seq(Packet), NEW D, dev' = D,
           \A c \in Clients : \E x \in Seq(Item) :
             \/ D[c].st = "closed" /\ D[c].got = dev[c].got
             \/ /\ dev[c].st # "closed" /\ InFlight(h2d, c) = x \o InFlight(h2d', c)
                /\ D[c].got = dev[c].got \o x
    PROVE  SpeakInv'
<1>1. PICK v : v = [sk |-> sk, disc |-> disc, h2d |-> h2d', toProc |-> toProc, bad |-> bad]
  OBVIOUS
<1>2. W' = v /\ v.sk = W.sk /\ v.toProc = W.toProc /\ v.h2d = h2d'
  BY <1>1 DEF DevStep, W
<1>3. /\ Fit(W) /\ Speaks(W, Talks) /\ TalksOK(Talks) /\ \A b \in Clients : Talks[b] = Talk(b)
      /\ dev \in DevSet /\ h2d \in Seq(Packet)
  BY SpeakIs, WIs DEF Good, Record
<1>4. Fit(v)
  BY <1>2, <1>3 DEF Fit
<1>5. ASSUME NEW c \in Clients
      PROVE  /\ Spoken(v, c, Talks[c]) /\ Fresh(v, c, Talks[c]) /\ Flowing(v, c, Talks[c], D[c])
  <2>1. Spoken(W, c, Talks[c]) /\ Fresh(W, c, Talks[c]) /\ Flowing(W, c, Talks[c], dev[c])
    BY <1>3 DEF Speaks
  <2>2. Spoken(v, c, Talks[c]) /\ Fresh(v, c, Talks[c])
    BY <1>2, <2>1 DEF Spoken, AskingOK, WaitingOK, BoundOK, All, Fresh
  <2>3. InFlight(W.h2d, c) \in Seq(Item) /\ InFlight(v.h2d, c) \in Seq(Item) /\ W.h2d = h2d
    BY <1>2, <1>3, InFlightFacts, WIs
  <2>4. PICK x \in Seq(Item) :
             \/ D[c].st = "closed" /\ D[c].got = dev[c].got
             \/ /\ dev[c].st # "closed" /\ InFlight(h2d, c) = x \o InFlight(h2d', c)
                /\ D[c].got = dev[c].got \o x
    OBVIOUS
  <2>5. dev[c].got \in Seq(Item) /\ Talks[c] \in TalkSet
    BY <1>3 DEF DevSet, TalksOK, TalkOK
  <2>6. Flowing(v, c, Talks[c], D[c])
    BY <1>2, <2>1, <2>3, <2>4, <2>5, DeviceFlows
  <2> QED
    BY <2>2, <2>6
<1>6. \A b \in Clients : Talk(b)' = Talks[b]
  BY <1>3 DEF Talk, DevStep
<1>7. \A b \in Clients : /\ cl'[b].pos <= Len(cl'[b].script)
                         /\ sk'[b].on = "absent" => cl'[b].pos = 0
  BY DEF SpeakInv, DevStep
<1>8. \A s \in Services : toServer'[s] \in Seq(AnyByte)
  BY DEF SpeakInv, DevStep
<1>9. tr' = tr /\ \A b \in Clients : b \in gone => b \in gone'
  BY DEF DevStep
<1> QED
  BY <1>2, <1>3, <1>4, <1>5, <1>6, <1>7, <1>8, <1>9, SpeakMoves

\* The device sends something, closes a stream or is unplugged.
LEMMA DeviceSends ==
    ASSUME IInv, SpeakInv, DevStep, h2d' = h2d,
           \A c \in Clients : dev'[c].got = dev[c].got /\ dev'[c].st \in {dev[c].st, "closed"}
    PROVE  SpeakInv'
<1> DEFINE x == << >>
<1>1. h2d \in Seq(Packet) /\ \A c : InFlight(h2d, c) \in Seq(Item)
  BY InFlightFacts, WIs DEF IInv, Good, Record
<1>2. x \in Seq(Item) /\ \A s \in Seq(Item) : x \o s = s /\ s \o x = s
  BY ItemSeq
<1>3. PICK D : dev' = D
  OBVIOUS
<1>4. ASSUME NEW c \in Clients
      PROVE  \/ D[c].st = "closed" /\ D[c].got = dev[c].got
             \/ /\ dev[c].st # "closed" /\ InFlight(h2d, c) = x \o InFlight(h2d', c)
                /\ D[c].got = dev[c].got \o x
  BY <1>1, <1>2, <1>3, DevIs
<1>5. x = << >> /\ h2d' \in Seq(Packet)
  BY <1>1
<1> HIDE DEF x
<1> QED
  BY <1>2, <1>3, <1>4, <1>5, DeviceSpeaks

LEMMA DeviceSendsSpeak ==
    ASSUME IInv, SpeakInv, NEW c \in Clients, DevReady(c) \/ DevSend(c) \/ DevClose(c)
    PROVE  SpeakInv'
<1>1. dev \in DevSet
  BY DEF IInv, RestOK, DevSet
<1>2. CASE DevReady(c)
  <2>1. PICK n : n = dev[c].owes - 1
    OBVIOUS
  <2>2. dev' = [dev EXCEPT ![c].owes = n]
    BY <1>2, <2>1 DEF DevReady
  <2>3. \A b \in Clients : dev'[b].got = dev[b].got /\ dev'[b].st = dev[b].st
    BY <1>1, <2>2 DEF DevSet
  <2>4. DevStep /\ h2d' = h2d
    BY <1>2 DEF DevReady
  <2> QED
    BY <2>3, <2>4, DeviceSends
<1>3. CASE DevSend(c)
  <2>1. PICK s : dev' = [dev EXCEPT ![c].may = FALSE, ![c].sent = s]
    BY <1>3 DEF DevSend
  <2>2. \A b \in Clients : dev'[b].got = dev[b].got /\ dev'[b].st = dev[b].st
    BY <1>1, <2>1 DEF DevSet
  <2>3. DevStep /\ h2d' = h2d
    BY <1>3 DEF DevSend
  <2> QED
    BY <2>2, <2>3, DeviceSends
<1>4. CASE DevClose(c)
  <2>1. dev' = [dev EXCEPT ![c].st = "closed"] /\ DevStep /\ h2d' = h2d
    BY <1>4 DEF DevClose
  <2>2. \A b \in Clients : dev'[b].got = dev[b].got /\ dev'[b].st \in {dev[b].st, "closed"}
    BY <1>1, <2>1 DEF DevSet
  <2> QED
    BY <2>1, <2>2, DeviceSends
<1> QED
  BY <1>2, <1>3, <1>4

LEMMA UnplugSpeaks == ASSUME IInv, SpeakInv, Unplug PROVE SpeakInv'
  BY DeviceSends DEF Unplug

LEMMA DevTakeSpeaks == ASSUME IInv, CreditInv, SpeakInv, DevTake PROVE SpeakInv'
<1> DEFINE p == Head(h2d)
           c == p.id
           k == Tail(h2d)
           z == << >>
<1>0. /\ tr = "on" /\ DevStep /\ h2d # << >> /\ h2d' = k /\ h2d \in Seq(Packet) /\ k \in Seq(Packet)
      /\ dev \in DevSet /\ p = h2d[1] /\ p \in Packet /\ 1 \in 1..Len(h2d)
  <2>1. h2d # << >> /\ h2d \in Seq(Packet)
    BY WIs DEF DevTake, IInv, Good, Record
  <2>2. /\ p = h2d[1] /\ p \in Packet /\ 1 \in 1..Len(h2d) /\ k \in Seq(Packet)
    BY <2>1, TailIs
  <2>3. tr = "on" /\ DevStep /\ h2d' = k
    BY DEF DevTake, Plugged
  <2>4. dev \in DevSet
    BY DEF IInv, RestOK, DevSet
  <2> QED
    BY ONLY <2>1, <2>2, <2>3, <2>4
<1>1. \A b \in Clients : Account(b, sk[b], h2d, d2h, dev[b]) /\ StreamAt(b, sk[b], h2d, d2h, dev[b].st)
  BY <1>0 DEF CreditInv, IInv, StreamOK
<1>2. \A b \in Clients : /\ Writes(h2d, b) = Writes(k, b) + One(IsOf(p, "WRTE", b))
                         /\ Writes(k, b) \in Nat
  BY <1>0, TakenPacket
<1>3. p.cmd # "SYNC0" => c \in Clients /\ p.data \in Seq(Item)
  BY <1>0, PacketIs
<1>4. \A b \in Clients : /\ InFlight(h2d, b) = Carried(p, b) \o InFlight(k, b)
                         /\ InFlight(h2d, b) \in Seq(Item) /\ InFlight(k, b) \in Seq(Item)
                         /\ Carried(p, b) \in Seq(Item)
  BY <1>0, InFlightFacts, CarriedIs
<1>5. z \in Seq(Item) /\ z = << >> /\ \A s \in Seq(Item) : z \o s = s /\ s \o z = s
  BY ItemSeq
<1>6. PICK D : dev' = D
  OBVIOUS
<1>7. \/ p.cmd = "OPEN" /\ D = [dev EXCEPT ![c] = [@ EXCEPT !.st = "open", !.may = TRUE]]
      \/ p.cmd = "OPEN" /\ D = [dev EXCEPT ![c].st = "closed"]
      \/ /\ p.cmd = "WRTE" /\ dev[c].st = "open"
         /\ D = [dev EXCEPT ![c].got = @ \o p.data, ![c].owes = @ + 1]
      \/ p.cmd = "OKAY" /\ dev[c].st = "open" /\ D = [dev EXCEPT ![c].may = TRUE]
      \/ p.cmd = "CLSE" /\ dev[c].st = "open" /\ D = [dev EXCEPT ![c].st = "closed"]
      \/ p.cmd # "OPEN" /\ dev[c].st # "open" /\ D = dev
  BY <1>6 DEF DevTake
<1> DEFINE Fine(b) == \E x \in Seq(Item) :
             \/ D[b].st = "closed" /\ D[b].got = dev[b].got
             \/ /\ dev[b].st # "closed" /\ InFlight(h2d, b) = x \o InFlight(h2d', b)
                /\ D[b].got = dev[b].got \o x
<1> HIDE DEF p, k, z
<1>8. ASSUME NEW b \in Clients, D[b].got = dev[b].got, D[b].st \in {dev[b].st, "closed"} \/ dev[b].st = "none",
             Carried(p, b) = z \/ D[b].st = "closed"
      PROVE  Fine(b)
  <2>1. CASE D[b].st = "closed"
    BY <1>5, <1>8, <2>1
  <2>2. CASE D[b].st # "closed" /\ Carried(p, b) = z
    <3>1. InFlight(h2d, b) = z \o InFlight(h2d', b) /\ dev[b].st # "closed"
      BY <1>0, <1>4, <1>8, <2>2
    <3>2. D[b].got = dev[b].got \o z
      BY <1>5, <1>8, DevIs
    <3> QED
      BY <1>5, <3>1, <3>2
  <2> QED
    BY <1>8, <2>1, <2>2
<1>9. ASSUME NEW b \in Clients, p.cmd # "WRTE" \/ b # c PROVE Carried(p, b) = z
  BY <1>5, <1>9 DEF Carried
<1>10. ASSUME NEW b \in Clients PROVE Fine(b)
  <2>1. CASE p.cmd = "OPEN" /\ D = [dev EXCEPT ![c] = [@ EXCEPT !.st = "open", !.may = TRUE]]
    <3>1. dev[c].st = "none" /\ c \in Clients
      <4>1. Opens(h2d, c) # {} /\ c \in Clients
        BY <1>0, <1>3, <2>1 DEF Opens, p
      <4> QED
        BY <1>1, <4>1 DEF StreamAt
    <3>2. D[b].got = dev[b].got /\ (b # c => D[b].st = dev[b].st)
      BY <1>0, <2>1 DEF DevSet
    <3>3. dev[b].st = "none" \/ D[b].st = dev[b].st
      BY <3>1, <3>2
    <3> HIDE DEF Fine, c
    <3> QED
      BY <1>8, <1>9, <2>1, <3>2, <3>3
  <2>2. CASE p.cmd \in {"OPEN", "CLSE"} /\ D = [dev EXCEPT ![c].st = "closed"]
    <3>1. D[b].got = dev[b].got /\ D[b].st \in {dev[b].st, "closed"}
      BY <1>0, <2>2 DEF DevSet
    <3> HIDE DEF Fine, c
    <3> QED
      BY <1>8, <1>9, <2>2, <3>1
  <2>3. CASE /\ p.cmd = "WRTE" /\ dev[c].st = "open"
             /\ D = [dev EXCEPT ![c].got = @ \o p.data, ![c].owes = @ + 1]
    <3>1. PICK a, n : a = dev[c].got \o p.data /\ n = dev[c].owes + 1
      OBVIOUS
    <3>2. D = [dev EXCEPT ![c].got = a, ![c].owes = n]
      BY <2>3, <3>1
    <3>3. CASE b = c
      <4>1. D[c].got = dev[c].got \o p.data /\ D[c].st = dev[c].st
        BY <1>0, <3>1, <3>2, <3>3 DEF DevSet
      <4>2. Carried(p, c) = p.data
        BY <2>3 DEF Carried
      <4> QED
        BY <1>0, <1>4, <2>3, <3>3, <4>1, <4>2
    <3>4. CASE b # c
      <4>1. D[b].got = dev[b].got /\ D[b].st = dev[b].st
        BY <1>0, <3>2, <3>4 DEF DevSet
      <4> HIDE DEF Fine, c
      <4> QED
        BY <1>8, <1>9, <3>4, <4>1
    <3> QED
      BY <3>3, <3>4
  <2>4. CASE p.cmd = "OKAY" /\ dev[c].st = "open" /\ D = [dev EXCEPT ![c].may = TRUE]
    <3>1. D[b].got = dev[b].got /\ D[b].st = dev[b].st
      BY <1>0, <2>4 DEF DevSet
    <3> HIDE DEF Fine, c
    <3> QED
      BY <1>8, <1>9, <2>4, <3>1
  <2>5. CASE p.cmd # "OPEN" /\ dev[c].st # "open" /\ D = dev
    <3>1. p.cmd = "WRTE" /\ b = c => D[b].st = "closed"
      <4> SUFFICES ASSUME p.cmd = "WRTE", b = c, dev[b].st # "closed" PROVE FALSE
        BY <2>5
      <4>1. dev[b].st = "none"
        BY <1>0, <2>5 DEF DevSet
      <4>2. Writes(h2d, b) = 0
        BY <1>1, <4>1 DEF Account
      <4>3. One(IsOf(p, "WRTE", b)) = 1
        BY DEF IsOf, One
      <4> QED
        BY <1>2, <4>2, <4>3
    <3> HIDE DEF Fine, c
    <3> QED
      BY <1>8, <1>9, <2>5, <3>1
  <2> QED
    BY <1>7, <2>1, <2>2, <2>3, <2>4, <2>5
<1>11. h2d' \in Seq(Packet) /\ DevStep
  BY <1>0
<1> QED
  BY <1>6, <1>10, <1>11, DeviceSpeaks

-----------------------------------------------------------------------------
(* The theorems *)

LEMMA InitSpeaks == Init => SpeakInv
<1> SUFFICES ASSUME Init PROVE SpeakInv
  OBVIOUS
<1> DEFINE z == << >>
<1>1. /\ sk = [l \in Locals |-> Blank("absent")] /\ h2d = z /\ toProc = [l \in Locals |-> z]
      /\ toServer = [l \in Locals |-> z]
      /\ cl = [c \in Clients |-> [script |-> z, pos |-> 0, got |-> z]]
      /\ dev = [c \in Clients |-> [st |-> "none", may |-> FALSE, owes |-> 0, sent |-> z, got |-> z]]
  BY DEF Init
<1>2. /\ z \in Seq(Item) /\ z \in Seq(AnyByte) /\ Len(z) = 0 /\ Data(z) = z /\ z \o z = z /\ z = << >>
  BY EmptySeq, DataFacts, ItemSeq
<1>3. \A c : InFlight(z, c) = z
  BY NothingInFlight
<1>4. \A S : Count(z, S) = 0
  BY CountEmpty
<1>5. Starts(z, z)
  BY StartsFacts, ItemSeq
<1>6. SubSeq(z, 1, 0) = z
  OBVIOUS
<1> HIDE DEF z
<1>7. /\ Blank("absent").q = z /\ Blank("absent").on = "absent" /\ Blank("absent").notify = FALSE
  BY <1>2 DEF Blank
<1>8. ASSUME NEW c \in Clients
      PROVE  /\ TalkOK(Talk(c)) /\ cl[c].pos <= Len(cl[c].script) /\ cl[c].pos = 0
             /\ Spoken(W, c, Talk(c)) /\ Flowing(W, c, Talk(c), dev[c]) /\ Fresh(W, c, Talk(c))
  <2>1. /\ cl[c].script = z /\ cl[c].pos = 0 /\ cl[c].got = z /\ toServer[c] = z /\ toProc[c] = z
        /\ sk[c] = Blank("absent") /\ dev[c].got = z
    BY <1>1, Distinct
  <2>2. PICK e : e = Talk(c)
    OBVIOUS
  <2>3. e = [script |-> z, sent |-> z, line |-> z, got |-> z]
    BY <1>6, <2>1, <2>2 DEF Talk
  <2>4. e.script = z /\ e.sent = z /\ e.line = z /\ e.got = z /\ e \in TalkSet /\ Wanted(e) = 0
    BY <1>2, <1>4, <2>3 DEF TalkSet, Wanted
  <2>5. TalkOK(e)
    <3>1. Count(e.got, {"OKAY"}) = 0
      BY <1>4, <2>4
    <3>2. e.script = e.sent \o z
      BY <1>2, <2>4
    <3>3. \E r \in Seq(Item) : e.script = e.sent \o r
      BY <1>2, <3>2
    <3>4. e.script = << >>
      BY <1>2, <2>4
    <3>5. Wanted(e) <= Count(e.got, {"OKAY"}) + 1
      BY <2>4, <3>1
    <3> QED
      BY <2>4, <3>3, <3>4, <3>5 DEF TalkOK
  <2>6. All(W, c, e) = z
    BY <1>2, <2>1, <2>4, WIs DEF All
  <2>7. W.sk[c].on = "absent"
    BY <1>7, <2>1, WIs
  <2>8. AnswersOK(z, e)
    BY <1>2, <1>4, <2>4 DEF AnswersOK
  <2>9. Spoken(W, c, e)
    BY <2>6, <2>7, <2>8 DEF Spoken, AskingOK, WaitingOK, BoundOK, Asking, Waiting, Bound
  <2>10. Flowing(W, c, e, dev[c])
    <3>1. Data(e.sent) = z /\ Data(e.line) = z /\ InFlight(W.h2d, c) = z
      BY <1>1, <1>2, <1>3, <2>4, WIs
    <3> QED
      BY <1>2, <1>5, <2>1, <3>1 DEF Flowing
  <2>11. Fresh(W, c, e)
    BY <1>2, <2>1, <2>4, WIs DEF Fresh
  <2> QED
    BY <1>2, <2>1, <2>2, <2>5, <2>9, <2>10, <2>11
<1>9. \A s \in Services : toServer[s] \in Seq(AnyByte)
  BY <1>1, <1>2, Distinct
<1>10. Fit(W)
  BY <1>1, <1>2, <1>7, WIs, Distinct DEF Fit
<1>11. \A c \in Clients : [b \in Clients |-> Talk(b)][c] = Talk(c)
  OBVIOUS
<1> QED
  BY <1>8, <1>9, <1>10, <1>11 DEF SpeakInv, Speaks

LEMMA SameSaid == ASSUME IInv, SpeakInv, UNCHANGED vars PROVE SpeakInv'
<1>1. PICK v : v = W
  OBVIOUS
<1>2. W' = v /\ UNCHANGED <<tr, toServer, gone, cl, dev>>
  BY <1>1 DEF vars, W
<1>3. Turns(W, v)
  BY <1>1, SpeakIs, TurnsNot
<1> QED
  BY <1>2, <1>3, TurningStep

LEMMA NextSpeaks == IInv /\ CreditInv /\ OrderInv /\ SpeakInv /\ [Next]_vars => SpeakInv'
<1> SUFFICES ASSUME IInv, CreditInv, OrderInv, SpeakInv, [Next]_vars PROVE SpeakInv'
  OBVIOUS
<1>1. CASE MainPacket
  BY <1>1, MainPacketSpeaks
<1>2. CASE Offline
  BY <1>2, OfflineSpeaks
<1>3. CASE CloseAll
  BY <1>3, CloseAllSpeaks
<1>4. CASE FreeTransport
  BY <1>4, FreeTransportSpeaks
<1>5. ASSUME NEW l \in Locals, Signal(l) \/ Callback(l) PROVE SpeakInv'
  BY <1>5, SignalSpeaks, CallbackSpeaks
<1>6. ASSUME NEW c \in Clients, Accept(c) \/ AcceptForward(c) PROVE SpeakInv'
  BY <1>6, AcceptSpeaks, AcceptForwardSpeaks
<1>7. ASSUME NEW c \in Clients, ClientSend(c) \/ ClientRead(c) \/ ClientLeave(c) PROVE SpeakInv'
  BY <1>7, ClientSendSpeaks, ClientReadSpeaks, ClientLeaveSpeaks
<1>8. ASSUME NEW s \in Services, ServiceAnswer(s) PROVE SpeakInv'
  BY <1>8, ServiceAnswerSpeaks
<1>9. ASSUME NEW c \in Clients, DevReady(c) \/ DevSend(c) \/ DevClose(c) PROVE SpeakInv'
  BY <1>9, DeviceSendsSpeak
<1>10. CASE DevTake
  BY <1>10, DevTakeSpeaks
<1>11. CASE Unplug
  BY <1>11, UnplugSpeaks
<1>12. CASE UNCHANGED vars
  BY <1>12, SameSaid
<1> QED
  BY <1>1, <1>2, <1>3, <1>4, <1>5, <1>6, <1>7, <1>8, <1>9, <1>10, <1>11, <1>12 DEF Next

LEMMA AlwaysSpeaks == Spec => [](IInv /\ CreditInv /\ OrderInv /\ SpeakInv)
<1>1. Init => CreditInv /\ OrderInv /\ SpeakInv
  BY InitCredit, InitOrder, InitSpeaks
<1>2. /\ IInv /\ CreditInv /\ OrderInv /\ SpeakInv /\ [Next]_vars
        => CreditInv' /\ OrderInv' /\ SpeakInv'
  BY NextCredit, NextOrder, NextSpeaks
<1> QED
  BY <1>1, <1>2, AlwaysIInv, PTL DEF Spec

\* What a client sends reaches the device in order and without a gap, and what the device
\* sends reaches the client so: while the stream is open, what the device has received, the
\* WRTE packets on their way to it and what the server has not read are together what the
\* client has sent, whatever the other streams do and whoever closes them; afterwards the
\* device has a beginning of it (local_socket_event_func, remote_socket_enqueue,
\* remote_socket_ready).
THEOREM StreamsWhole == Spec => []BytesInOrder
<1>1. ASSUME IInv, SpeakInv, NEW c \in Clients
      PROVE  LET sent == Data(SubSeq(cl[c].script, 1, cl[c].pos))
             IN  IF Open(c) THEN dev[c].got \o InFlight(h2d, c) \o Data(toServer[c]) = sent
                 ELSE IsPrefix(dev[c].got, sent)
  <2> DEFINE sent == Data(SubSeq(cl[c].script, 1, cl[c].pos))
  <2>1. /\ Flowing(W, c, Talk(c), dev[c]) /\ TalkOK(Talk(c)) /\ dev[c].got \in Seq(Item)
        /\ c \in Locals
    <3>1. Speaks(W, Talks) /\ Talks[c] = Talk(c) /\ TalkOK(Talk(c))
      BY <1>1, SpeakIs DEF TalksOK
    <3> QED
      BY <1>1, <3>1, DevIs, Distinct DEF Speaks
  <2>2. Talk(c).sent = SubSeq(cl[c].script, 1, cl[c].pos) /\ Talk(c).line = toServer[c]
    BY DEF Talk
  <2>3. sent \in Seq(Item)
    BY <2>1, <2>2, DataFacts DEF TalkOK, TalkSet
  <2>4. Starts(dev[c].got, sent)
    BY <2>1, <2>2 DEF Flowing
  <2>5. Open(c) => dev[c].got \o InFlight(h2d, c) \o Data(toServer[c]) = sent
    <3> SUFFICES ASSUME Open(c) PROVE dev[c].got \o InFlight(h2d, c) \o Data(toServer[c]) = sent
      OBVIOUS
    <3>1. tr = "on" /\ dev[c].st # "closed" /\ sk[c].peer = Remote
      BY DEF Open, Plugged
    <3>2. sk[c].on = "list" /\ sk[c].peer \notin Services
      BY <1>1, <2>1, <3>1, WIs, Distinct DEF IInv, Good, SkOK, SockOK
    <3> QED
      BY <2>1, <2>2, <3>1, <3>2, WIs DEF Flowing
  <2>6. IsPrefix(dev[c].got, sent)
    BY <2>1, <2>3, <2>4, StartsIsPrefix
  <2> QED
    BY <2>5, <2>6
<1>2. IInv /\ SpeakInv => ToDeviceInOrder
  BY <1>1 DEF ToDeviceInOrder
<1> QED
  BY <1>2, AlwaysSpeaks, ToClientWhole, PTL DEF BytesInOrder

\* Whatever a client asks and in however many pieces its requests arrive, each is answered at
\* most once, and no answer comes behind a byte of the stream: by then every request was
\* answered with OKAY (smart_socket_enqueue, local_socket_close_notify,
\* local_socket_ready_notify).
THEOREM AnsweredFirst == Spec => []StatusFirst
<1>1. ASSUME IInv, SpeakInv, NEW c \in Clients
      PROVE  LET all == cl[c].got \o toProc[c]
                 asked == AskedBy(c)
             IN  /\ \A i, j \in DOMAIN all :
                      i < j /\ all[j][1] \in {"OKAY", "FAIL"} => all[i][1] # "byte"
                 /\ cl[c].script # << >> /\ Last(cl[c].script) # Word("devices")
                      => Count(all, {"OKAY", "FAIL"}) <= asked
                 /\ \A i \in DOMAIN all : all[i][1] = "byte" => Count(all, {"OKAY"}) = asked
  <2>1. /\ AnswersOK(All(W, c, Talk(c)), Talk(c)) /\ cl[c].got \in Seq(Item) /\ toProc[c] \in Seq(Item)
    <3>1. Speaks(W, Talks) /\ Talks[c] = Talk(c) /\ W \in Record /\ TalkOK(Talk(c)) /\ c \in Locals
      BY <1>1, SpeakIs, Distinct DEF TalksOK, Good
    <3>2. Talk(c).got = cl[c].got /\ Talk(c).got \in Seq(Item)
      BY <3>1 DEF TalkOK, TalkSet, Talk
    <3>3. toProc[c] \in Seq(Item)
      BY <3>1, WIs DEF Record
    <3> QED
      BY <3>1, <3>2, <3>3 DEF Speaks, Spoken
  <2>2. PICK all : all = cl[c].got \o toProc[c]
    OBVIOUS
  <2>3. all \in Seq(Item) /\ DOMAIN all = 1..Len(all)
    BY <2>1, <2>2, ItemSeq
  <2>4. /\ All(W, c, Talk(c)) = all /\ Talk(c).script = cl[c].script
        /\ Wanted(Talk(c)) = AskedBy(c)
    BY <2>2, WIs DEF All, Talk, Wanted, AskedBy
  <2>5. \A i \in 1..Len(all) : all[i][1] = "byte" => Count(all, {"byte"}) > 0
    BY <2>3, CountZero
  <2> QED
    BY <2>1, <2>2, <2>3, <2>4, <2>5 DEF AnswersOK, Words
<1>2. IInv /\ SpeakInv => StatusFirst
  BY <1>1 DEF StatusFirst
<1> QED
  BY <1>2, AlwaysSpeaks, PTL
=============================================================================
