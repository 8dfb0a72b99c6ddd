------------------------- MODULE SyncTransfer_proofs -------------------------
(***************************************************************************)
(* Proofs about SyncTransfer, for any files, contents, commands, streams   *)
(* and faults.                                                             *)
(***************************************************************************)
EXTENDS SyncTransfer, Lists_proofs

-----------------------------------------------------------------------------
(* The exchange of messages *)

\* All messages of q are of these kinds; one of these kinds can only be the last.
All(q, kinds) == \A i \in 1..Len(q) : q[i][1] \in kinds
LastOnly(q, kinds) == \A i \in 1..Len(q) : q[i][1] \in kinds => i = Len(q)

\* What follows in a transfer of f when n chunks are gone.
Body(q, f, n) ==
    /\ n + Len(q) <= Readable[f] + 1 /\ n <= Readable[f]
    /\ \A i \in 1..Len(q) : IF n + i <= Readable[f]
                              THEN q[i][1] = "DATA" /\ q[i][2] = Local[f][n + i]
                              ELSE q[i][1] = "DONE"

\* What the service of session s can find in its stream q, by where it is.
QueueOf(s, q) ==
    /\ s \in sopen => spc[s] = "file"
    /\ s > sess => spc[s] = "none" /\ q = << >> /\ s2c[s] = << >> /\ s \notin cut
    /\ s <= sess => spc[s] # "none"
    /\ spc[s] \in {"dir", "read"} => q = << >>
    /\ spc[s] \in {"file", "read"} => sfile[s] \in Files
    /\ spc[s] = "file" => All(q, {"DATA", "DONE"}) /\ LastOnly(q, {"DONE"})
    /\ s \in sopen => Body(q, sfile[s], sk[s])
    /\ spc[s] = "cmd" =>
         \/ All(q, {"STAT"})
         \/ Len(q) = 1 /\ q[1][1] \in {"LIST", "RECV", "QUIT"}
         \/ q # << >> /\ q[1][1] = "SEND" /\ Body(Tail(q), q[1][2], 0)
QueueInv == \A s \in Sessions : QueueOf(s, c2s[s])

\* Where the client is, by its command.
CommandInv ==
    /\ cpc # "idle" => sess \in Sessions /\ result = "none" /\ cmd # None
    /\ cpc = "idle" => result # "none" \/ cmd = None
    /\ cpc \in {"ask", "stats", "data", "status", "first", "more"} => at <= Len(flist)
    /\ cpc \in {"list", "dents"} => at = 1 /\ cmd \in {"pull", "ls"}
    /\ cpc \in {"dents", "next", "first", "more"} => flist \in Seq(Files)
    /\ cmd \in {"push", "one", "sync", "would"} => flist \in Seq(Files)
    /\ cpc \in {"ask", "stats"} => cmd \in {"one", "sync", "would", "pull"}
    /\ cpc = "next" => cmd # "ls"
    /\ cpc \in {"data", "status"} => /\ cmd \in {"push", "one", "sync"}
                                     /\ flist[at] \notin flags
    /\ cpc \in {"first", "more"} => cmd = "pull"
    /\ cpc = "quit" => cmd = "ls"
    /\ cpc = "data" => k <= Readable[flist[at]]
    /\ flags # {} => cmd \in {"sync", "would"}

\* The service of the session has nothing to do, or is about to handle a request for the
\* client's file, or handles it.
Gone(q) == spc[sess] = "closed" \/ (spc[sess] = "cmd" /\ q = << >>)
Doing(q, kind) == spc[sess] = "cmd" /\ q # << >> /\ q[1][1] = kind /\ q[1][2] = flist[at]
AtFile(pc) == spc[sess] = pc /\ sfile[sess] = flist[at]

\* Requests q and answers a of the session, by where the client is; the connection may
\* have broken, and then the last of them are missing.
StatsPhase(q, a) ==
    /\ Len(q) + Len(a) <= (IF cpc = "ask" THEN at - 1 ELSE Len(flist) - at + 1)
    /\ All(a, {"STAT"}) /\ (Gone(q) \/ (spc[sess] = "cmd" /\ All(q, {"STAT"})))
RestPhase(q, a) == a = << >> /\ Gone(q)
ListPhase(q, a) ==
    /\ All(a, {"DENT", "DONE"}) /\ LastOnly(a, {"DONE"})
    /\ \/ Gone(q) \/ spc[sess] = "dir"
       \/ spc[sess] = "cmd" /\ q # << >> /\ q[1][1] = "LIST"
    /\ a # << >> /\ a[Len(a)][1] = "DONE" => Gone(q)
SendPhase(q, a) ==
    /\ Len(a) <= 1 /\ All(a, IF cpc = "data" THEN {"FAIL"} ELSE {"FAIL", "OKAY"})
    /\ Gone(q) \/ Doing(q, "SEND") \/ AtFile("file")
    /\ a # << >> /\ a[1][1] = "OKAY" => Gone(q)
RecvPhase(q, a) ==
    /\ All(a, {"DATA", "DONE", "FAIL"}) /\ LastOnly(a, {"DONE", "FAIL"})
    /\ Gone(q) \/ Doing(q, "RECV") \/ AtFile("read")
    /\ a # << >> /\ a[Len(a)][1] # "DATA" => Gone(q)
NoSend(q) == spc[sess] # "file" /\ (q # << >> => q[1][1] # "SEND")

PhaseOf(q, a) ==
    /\ cpc \in {"ask", "stats"} => StatsPhase(q, a)
    /\ cpc \in {"list", "next", "quit"} => RestPhase(q, a)
    /\ cpc = "dents" => ListPhase(q, a)
    /\ cpc \in {"data", "status"} => SendPhase(q, a)
    /\ cpc \in {"first", "more"} => RecvPhase(q, a)
    /\ cmd \notin {"push", "one", "sync"} => NoSend(q)
PhaseInv == sess > 0 => PhaseOf(c2s[sess], s2c[sess])

\* While the connection holds none is missing.
Pending(q, a, n) == \A i \in 1..Len(q) : q[i][2] = flist[n + Len(a) + i]
AskStep(q, a) == spc[sess] = "cmd" /\ Len(q) + Len(a) = at - 1 /\ Pending(q, a, 0)
StatsStep(q, a) == spc[sess] = "cmd" /\ Len(q) + Len(a) = Len(flist) - at + 1
                   /\ Pending(q, a, at - 1)
ListStep(q, a) ==
    \/ spc[sess] = "cmd" /\ q # << >> /\ q[1][1] = "LIST" /\ a = << >>
    \/ spc[sess] = "dir" /\ All(a, {"DENT"})
    \/ spc[sess] = "cmd" /\ q = << >> /\ a # << >> /\ a[Len(a)][1] = "DONE"
DataStep(q, a) ==
    \/ Doing(q, "SEND") /\ Len(q) = k + 1 /\ a = << >>
    \/ AtFile("file") /\ IF sess \in sopen THEN sk[sess] + Len(q) = k /\ a = << >>
                         ELSE a # << >> /\ All(q, {"DATA"})
StatusStep(q, a) ==
    \/ Doing(q, "SEND") /\ Len(q) = Readable[flist[at]] + 2 /\ a = << >>
    \/ AtFile("file") /\ IF sess \in sopen
                           THEN sk[sess] + Len(q) = Readable[flist[at]] + 1 /\ a = << >>
                           ELSE a # << >> /\ q # << >> /\ q[Len(q)][1] = "DONE"
    \/ spc[sess] = "cmd" /\ q = << >> /\ a # << >>
RecvStep(q, a) ==
    \/ cpc = "first" /\ Doing(q, "RECV") /\ a = << >>
    \/ AtFile("read") /\ All(a, {"DATA"})
    \/ spc[sess] = "cmd" /\ q = << >> /\ a # << >> /\ a[Len(a)][1] # "DATA"

StepOf(q, a) ==
    /\ cpc = "ask" => AskStep(q, a)
    /\ cpc = "stats" => StatsStep(q, a)
    /\ cpc \in {"list", "next", "quit"} => spc[sess] = "cmd"
    /\ cpc = "dents" => ListStep(q, a)
    /\ cpc = "data" => DataStep(q, a)
    /\ cpc = "status" => StatusStep(q, a)
    /\ cpc \in {"first", "more"} => RecvStep(q, a)
StepInv == cpc # "idle" /\ Connected(sess) => StepOf(c2s[sess], s2c[sess])

ExchangeInv == TypeOK /\ QueueInv /\ CommandInv /\ PhaseInv /\ StepInv

-----------------------------------------------------------------------------
(* Sequences of messages *)

\* An empty sequence has length 0 and no other has.
LEMMA Empty == ASSUME NEW A, NEW q \in Seq(A)
               PROVE  Len(q) \in Nat /\ (q = << >> <=> Len(q) = 0) /\ Len(<< >>) = 0
  BY EmptySeq, LenProperties

\* A message at the end.
LEMMA Put == ASSUME NEW A, NEW q \in Seq(A), NEW m \in A
             PROVE  /\ Append(q, m) \in Seq(A) /\ Len(q) \in Nat /\ Append(q, m) # << >>
                    /\ Len(Append(q, m)) = Len(q) + 1
                    /\ \A i \in 1..Len(q) : Append(q, m)[i] = q[i]
                    /\ Append(q, m)[Len(q) + 1] = m
<1>1. /\ Append(q, m) \in Seq(A) /\ Len(q) \in Nat /\ Len(Append(q, m)) = Len(q) + 1
      /\ \A i \in 1..Len(q) : Append(q, m)[i] = q[i]
      /\ Append(q, m)[Len(q) + 1] = m
  BY LenProperties, AppendProperties
<1> QED
  BY <1>1, EmptySeq

\* The first message is taken.
LEMMA Take == ASSUME NEW A, NEW q \in Seq(A), q # << >>
              PROVE  /\ Tail(q) \in Seq(A) /\ Len(q) \in Nat \ {0} /\ Len(Tail(q)) = Len(q) - 1
                     /\ \A i \in 1..(Len(q) - 1) : Tail(q)[i] = q[i + 1]
                     /\ Head(q) = q[1] /\ q[1] \in A
                     /\ Len(q) = 1 <=> Tail(q) = << >>
<1>1. /\ Len(q) \in Nat \ {0} /\ Head(q) = q[1] /\ Head(q) \in A
      /\ Tail(q) \in Seq(A) /\ Len(Tail(q)) = Len(q) - 1
      /\ \A i \in 1..Len(Tail(q)) : Tail(q)[i] = q[i + 1]
  BY EmptySeq, HeadTailProperties
<1>2. Len(Tail(q)) = 0 <=> Tail(q) = << >>
  BY <1>1, EmptySeq
<1> QED
  BY <1>1, <1>2

LEMMA TakeLast == ASSUME NEW A, NEW q \in Seq(A), q # << >>, Tail(q) # << >>
                  PROVE  Tail(q)[Len(Tail(q))] = q[Len(q)]
<1>1. Tail(q) \in Seq(A) /\ Len(q) \in Nat \ {0} /\ Len(Tail(q)) = Len(q) - 1
      /\ \A i \in 1..(Len(q) - 1) : Tail(q)[i] = q[i + 1]
  BY Take
<1>2. Len(Tail(q)) # 0
  BY <1>1, EmptySeq
<1> QED
  BY <1>1, <1>2

LEMMA TailPut == ASSUME NEW A, NEW q \in Seq(A), NEW m \in A
                 PROVE  /\ q # << >> => /\ Tail(Append(q, m)) = Append(Tail(q), m)
                                        /\ Append(q, m)[1] = q[1]
                        /\ q = << >> => Tail(Append(q, m)) = << >> /\ Append(q, m)[1] = m
<1> DEFINE x == Append(q, m)
<1>1. /\ x \in Seq(A) /\ Len(q) \in Nat /\ x # << >> /\ Len(x) = Len(q) + 1
      /\ \A i \in 1..Len(q) : x[i] = q[i]
      /\ x[Len(q) + 1] = m
  BY Put
<1>2. Tail(x) \in Seq(A) /\ Len(Tail(x)) = Len(q) /\ \A i \in 1..Len(q) : Tail(x)[i] = x[i + 1]
  BY <1>1, Take
<1>3. q = << >> <=> Len(q) = 0
  BY Empty
<1>4. ASSUME q # << >> PROVE Tail(x) = Append(Tail(q), m) /\ x[1] = q[1]
  <2> DEFINE t == Tail(q)
             y == Append(t, m)
  <2>1. t \in Seq(A) /\ Len(t) = Len(q) - 1 /\ Len(q) \in Nat \ {0}
        /\ \A i \in 1..(Len(q) - 1) : t[i] = q[i + 1]
    BY <1>4, Take
  <2>2. /\ y \in Seq(A) /\ Len(y) = Len(t) + 1 /\ \A i \in 1..Len(t) : y[i] = t[i]
        /\ y[Len(t) + 1] = m
    BY <2>1, Put
  <2> HIDE DEF x, t, y
  <2>3. ASSUME NEW i \in 1..Len(q) PROVE Tail(x)[i] = y[i]
    <3>1. Tail(x)[i] = x[i + 1] /\ Len(t) + 1 = Len(q)
      BY <1>2, <2>1
    <3>2. CASE i = Len(q)
      BY <3>1, <3>2, <1>1, <2>2
    <3>3. CASE i \in 1..(Len(q) - 1)
      <4>1. i + 1 \in 1..Len(q) /\ i \in 1..Len(t)
        BY <3>3, <2>1
      <4> QED
        BY <4>1, <3>1, <3>3, <1>1, <2>1, <2>2
    <3> QED
      BY <3>2, <3>3, <1>1
  <2>4. Tail(x) = y
    BY <2>3, <1>2, <2>1, <2>2, SeqEqual
  <2> QED
    BY <2>4, <1>1, <2>1 DEF y, t
<1>5. ASSUME q = << >> PROVE Tail(x) = << >> /\ x[1] = m
  BY <1>5, <1>1, <1>2, <1>3, Empty
<1> QED
  BY <1>4, <1>5 DEF x

\* The last messages are lost.
LEMMA Cut == ASSUME NEW A, NEW q \in Seq(A), NEW n \in 0..Len(q)
             PROVE  /\ SubSeq(q, 1, n) \in Seq(A) /\ Len(q) \in Nat /\ Len(SubSeq(q, 1, n)) = n
                    /\ \A i \in 1..n : SubSeq(q, 1, n)[i] = q[i]
                    /\ n = 0 => SubSeq(q, 1, n) = << >>
                    /\ n = Len(q) => SubSeq(q, 1, n) = q
<1>1. Len(q) \in Nat /\ \A i \in 1..Len(q) : q[i] \in A
  BY LenProperties, ElementOfSeq
<1>2. SubSeq(q, 1, n) \in Seq(A) /\ Len(SubSeq(q, 1, n)) = n
      /\ \A i \in 1..n : SubSeq(q, 1, n)[i] = q[i]
  BY <1>1, SubSeqProperties
<1>3. n = 0 => SubSeq(q, 1, n) = << >>
  BY <1>2, EmptySeq
<1>4. n = Len(q) => SubSeq(q, 1, n) = q
  BY <1>1, <1>2, SeqEqual
<1> QED
  BY <1>1, <1>2, <1>3, <1>4

\* Kinds of messages in what is written, what is read and what is left.
LEMMA AllPut == ASSUME NEW A, NEW q \in Seq(A), NEW m \in A, NEW kinds
                PROVE  All(Append(q, m), kinds) <=> All(q, kinds) /\ m[1] \in kinds
<1>1. /\ Len(q) \in Nat /\ Len(Append(q, m)) = Len(q) + 1
      /\ \A i \in 1..Len(q) : Append(q, m)[i] = q[i]
      /\ Append(q, m)[Len(q) + 1] = m
  BY Put
<1> DEFINE x == Append(q, m)
<1> HIDE DEF x
<1> QED
  BY <1>1 DEF All, x

LEMMA AllOne == ASSUME NEW A, NEW m \in A, NEW kinds, m[1] \in kinds
                PROVE  All(Append(<< >>, m), kinds)
<1>1. << >> \in Seq(A) /\ All(<< >>, kinds)
  BY DEF All
<1> QED
  BY <1>1, AllPut

LEMMA AllTake == ASSUME NEW A, NEW q \in Seq(A), q # << >>, NEW kinds, All(q, kinds)
                 PROVE  All(Tail(q), kinds) /\ q[1][1] \in kinds
  BY Take DEF All

LEMMA AllEmpty == ASSUME NEW kinds PROVE All(<< >>, kinds) /\ LastOnly(<< >>, kinds)
  BY DEF All, LastOnly

LEMMA AllMore == ASSUME NEW q, NEW kinds, NEW others, All(q, kinds), kinds \subseteq others
                 PROVE  All(q, others)
  BY DEF All

LEMMA AllCut == ASSUME NEW A, NEW q \in Seq(A), NEW n \in 0..Len(q), NEW kinds
                PROVE  /\ All(q, kinds) => All(SubSeq(q, 1, n), kinds)
                       /\ LastOnly(q, kinds) => LastOnly(SubSeq(q, 1, n), kinds)
<1> DEFINE x == SubSeq(q, 1, n)
<1>1. Len(q) \in Nat /\ Len(x) = n /\ \A i \in 1..n : x[i] = q[i]
  BY Cut
<1> HIDE DEF x
<1>2. All(q, kinds) => All(x, kinds)
  BY <1>1 DEF All
<1>3. LastOnly(q, kinds) => LastOnly(x, kinds)
  BY <1>1 DEF LastOnly
<1> QED
  BY <1>2, <1>3 DEF x

\* What is left begins as before, and ends with a message that can only be the last if it
\* is the last.
LEMMA CutEnds ==
    ASSUME NEW A, NEW q \in Seq(A), NEW n \in 0..Len(q)
    PROVE  LET x == SubSeq(q, 1, n)
           IN  /\ x # << >> => /\ q # << >> /\ x[1] = q[1] /\ n \in 1..Len(q)
                               /\ Tail(x) = SubSeq(Tail(q), 1, n - 1)
                               /\ \A kinds : LastOnly(q, kinds) /\ x[Len(x)][1] \in kinds =>
                                    x[Len(x)] = q[Len(q)]
               /\ q = << >> => x = << >>
<1> DEFINE x == SubSeq(q, 1, n)
<1>1. /\ x \in Seq(A) /\ Len(q) \in Nat /\ Len(x) = n
      /\ \A i \in 1..n : x[i] = q[i]
      /\ n = 0 => x = << >>
  BY Cut
<1>2. q = << >> => x = << >>
  BY <1>1, Empty
<1>3. ASSUME x # << >>
      PROVE  /\ q # << >> /\ x[1] = q[1] /\ n \in 1..Len(q)
             /\ \A kinds : LastOnly(q, kinds) /\ x[Len(x)][1] \in kinds =>
                  x[Len(x)] = q[Len(q)]
  <2>1. q # << >> /\ n \in 1..Len(q) /\ x[1] = q[1] /\ x[Len(x)] = q[n]
    BY <1>1, <1>2, <1>3
  <2> HIDE DEF x
  <2>2. \A kinds : LastOnly(q, kinds) /\ x[Len(x)][1] \in kinds => x[Len(x)] = q[Len(q)]
    BY <2>1 DEF LastOnly
  <2> QED
    BY <2>1, <2>2
<1>4. ASSUME x # << >> PROVE Tail(x) = SubSeq(Tail(q), 1, n - 1)
  <2> DEFINE y == SubSeq(Tail(q), 1, n - 1)
             z == Tail(x)
  <2>1. /\ Tail(q) \in Seq(A) /\ Len(Tail(q)) = Len(q) - 1 /\ Len(q) \in Nat \ {0}
        /\ \A i \in 1..(Len(q) - 1) : Tail(q)[i] = q[i + 1]
    BY <1>3, <1>4, Take
  <2>2. n - 1 \in 0..Len(Tail(q))
    BY <2>1, <1>3, <1>4
  <2>3. y \in Seq(A) /\ Len(y) = n - 1 /\ \A i \in 1..(n - 1) : y[i] = Tail(q)[i]
    BY <2>1, <2>2, Cut
  <2>4. z \in Seq(A) /\ Len(z) = n - 1 /\ \A i \in 1..(n - 1) : z[i] = x[i + 1]
    BY <1>1, <1>4, Take
  <2> HIDE DEF x, y, z
  <2>5. ASSUME NEW i \in 1..(n - 1) PROVE z[i] = y[i]
    <3>1. i + 1 \in 1..n /\ i \in 1..(Len(q) - 1)
      BY <2>1, <2>2
    <3> QED
      BY <3>1, <2>1, <2>3, <2>4, <1>1
  <2>6. z = y
    BY <2>3, <2>4, <2>5, SeqEqual
  <2> QED
    BY <2>6 DEF x, y, z
<1> QED
  BY <1>2, <1>3, <1>4

LEMMA LastPut == ASSUME NEW A, NEW q \in Seq(A), NEW m \in A, NEW kinds, NEW others,
                        All(q, others), others \cap kinds = {}
                 PROVE  LastOnly(Append(q, m), kinds)
<1>1. /\ Len(q) \in Nat /\ Len(Append(q, m)) = Len(q) + 1
      /\ \A i \in 1..Len(q) : Append(q, m)[i] = q[i]
  BY Put
<1> DEFINE x == Append(q, m)
<1> HIDE DEF x
<1> QED
  BY <1>1 DEF All, LastOnly, x

LEMMA LastTake == ASSUME NEW A, NEW q \in Seq(A), q # << >>, NEW kinds, LastOnly(q, kinds)
                  PROVE  LastOnly(Tail(q), kinds) /\ (q[1][1] \in kinds => Tail(q) = << >>)
<1> DEFINE x == Tail(q)
<1>1. /\ Len(q) \in Nat \ {0} /\ Len(x) = Len(q) - 1 /\ \A i \in 1..(Len(q) - 1) : x[i] = q[i + 1]
      /\ Len(q) = 1 => x = << >>
  BY Take
<1> HIDE DEF x
<1>2. ASSUME NEW i \in 1..Len(x), x[i][1] \in kinds PROVE i = Len(x)
  <2>1. i + 1 \in 1..Len(q) /\ q[i + 1][1] \in kinds
    BY <1>1, <1>2
  <2> QED
    BY <2>1, <1>1 DEF LastOnly
<1>3. ASSUME q[1][1] \in kinds PROVE x = << >>
  <2>1. Len(q) = 1
    BY <1>1, <1>3 DEF LastOnly
  <2> QED
    BY <2>1, <1>1
<1>4. LastOnly(x, kinds)
  BY <1>2 DEF LastOnly
<1> QED
  BY <1>3, <1>4 DEF x

\* The constants.
LEMMA Constants ==
    /\ Files = ToSet(FileList) /\ FileList \in Seq(Files) /\ FileList # << >> /\ Dir \notin Files
    /\ \A f \in Files : /\ Local[f] \in Seq(Chunks) /\ Old[f] \in Seq(Chunks)
                         /\ Readable[f] \in Nat /\ Len(Local[f]) \in Nat
                         /\ Readable[f] <= Len(Local[f])
    /\ MaxSessions \in Nat /\ MaxFaults \in Nat /\ Cap \in Nat
    /\ None \notin {OldTime, LocalTime, Now} /\ None \notin Commands \cup {"push", "one", "sync"}
    /\ Commands \subseteq {"push", "one", "sync", "would", "pull", "ls"}
<1>1. \A f \in Files : Local[f] \in Seq(Chunks) /\ Old[f] \in Seq(Chunks)
  BY SyncAssumption
<1>2. \A f \in Files : Len(Local[f]) \in Nat
  BY <1>1, LenProperties
<1>3. \A f \in Files : Readable[f] \in Nat /\ Readable[f] <= Len(Local[f])
  BY <1>2, SyncAssumption
<1> QED
  BY <1>1, <1>2, <1>3, SyncAssumption DEF Files

LEMMA ChunkOf == ASSUME NEW f \in Files, NEW i \in 1..Readable[f] PROVE Local[f][i] \in Chunks
<1>1. Local[f] \in Seq(Chunks) /\ Len(Local[f]) \in Nat /\ Readable[f] \in Nat
      /\ Readable[f] <= Len(Local[f])
  BY Constants
<1> QED
  BY <1>1, ElementOfSeq

\* Requests and answers by their kind.
LEMMA RequestKinds ==
    /\ \A m \in Requests :
         /\ m[1] \in {"STAT", "SEND", "RECV", "LIST", "DATA", "DONE", "QUIT"}
         /\ m = <<m[1], m[2]>>
         /\ m[1] = "STAT" => m[2] \in Files \cup {Dir}
         /\ m[1] \in {"SEND", "RECV"} => m[2] \in Files
         /\ m[1] = "DATA" => m[2] \in Chunks
         /\ m[1] = "DONE" => m[2] = LocalTime
    /\ \A f \in Files \cup {Dir} : <<"STAT", f>> \in Requests
    /\ \A f \in Files : <<"SEND", f>> \in Requests /\ <<"RECV", f>> \in Requests
    /\ \A c \in Chunks : <<"DATA", c>> \in Requests
    /\ <<"LIST", Dir>> \in Requests /\ <<"DONE", LocalTime>> \in Requests
    /\ <<"QUIT", None>> \in Requests
  BY DEF Requests

LEMMA AnswerKinds ==
    /\ \A m \in Answers :
         /\ m[1] \in {"STAT", "DENT", "DONE", "DATA", "OKAY", "FAIL"}
         /\ m[1] = "STAT" => m[2] \in Nat \X Times
         /\ m[1] = "DENT" => m[2] \in Files
         /\ m[1] = "DATA" => m[2] \in Chunks
    /\ \A n \in Nat, t \in Times : <<"STAT", <<n, t>>>> \in Answers
    /\ \A f \in Files : <<"DENT", f>> \in Answers
    /\ \A c \in Chunks : <<"DATA", c>> \in Answers
    /\ <<"DONE", 0>> \in Answers /\ <<"OKAY", None>> \in Answers
    /\ <<"FAIL", None>> \in Answers
  BY DEF Answers

-----------------------------------------------------------------------------
(* The messages of a transfer *)

LEMMA BodyEmpty == ASSUME NEW f \in Files, NEW n \in Nat, n <= Readable[f]
                   PROVE  Body(<< >>, f, n)
<1>1. Readable[f] \in Nat /\ Len(<< >>) = 0
  BY Constants
<1> QED
  BY <1>1 DEF Body

\* The client goes on with a chunk, or ends the file.
LEMMA BodyGoesOn ==
    ASSUME NEW q \in Seq(Requests), NEW f \in Files, NEW n \in Nat, Body(q, f, n),
           n + Len(q) <= Readable[f]
    PROVE  /\ n + Len(q) < Readable[f] =>
                Body(Append(q, <<"DATA", Local[f][n + Len(q) + 1]>>), f, n)
           /\ n + Len(q) = Readable[f] => Body(Append(q, <<"DONE", LocalTime>>), f, n)
           /\ All(q, {"DATA"})
<1>0. Readable[f] \in Nat /\ Len(q) \in Nat
  BY Constants, Empty
<1>1. ASSUME n + Len(q) < Readable[f]
      PROVE  Body(Append(q, <<"DATA", Local[f][n + Len(q) + 1]>>), f, n)
  <2> DEFINE m == <<"DATA", Local[f][n + Len(q) + 1]>>
  <2>0. n + Len(q) + 1 \in 1..Readable[f]
    BY <1>0, <1>1
  <2>1. m \in Requests
    BY <2>0, ChunkOf, RequestKinds
  <2>2. /\ Len(Append(q, m)) = Len(q) + 1 /\ Append(q, m)[Len(q) + 1] = m
        /\ \A i \in 1..Len(q) : Append(q, m)[i] = q[i]
    BY <2>1, Put
  <2> HIDE DEF m
  <2>3. m[1] = "DATA" /\ m[2] = Local[f][n + (Len(q) + 1)]
    BY <1>0 DEF m
  <2>4. Body(Append(q, m), f, n)
    BY <2>2, <2>3, <1>0, <1>1 DEF Body
  <2> QED
    BY <2>4 DEF m
<1>2. ASSUME n + Len(q) = Readable[f] PROVE Body(Append(q, <<"DONE", LocalTime>>), f, n)
  <2> DEFINE m == <<"DONE", LocalTime>>
  <2>1. m \in Requests
    BY RequestKinds
  <2>2. /\ Len(Append(q, m)) = Len(q) + 1 /\ Append(q, m)[Len(q) + 1] = m
        /\ \A i \in 1..Len(q) : Append(q, m)[i] = q[i]
    BY <2>1, Put
  <2> QED
    BY <2>2, <1>0, <1>2 DEF Body
<1>3. All(q, {"DATA"})
  BY <1>0 DEF Body, All
<1> QED
  BY <1>1, <1>2, <1>3

\* The service takes a chunk, which is the next one, or the end, and then nothing is left.
LEMMA BodyTaken ==
    ASSUME NEW q \in Seq(Requests), NEW f \in Files, NEW n \in Nat, Body(q, f, n), q # << >>
    PROVE  /\ q[1][1] \in {"DATA", "DONE"}
           /\ q[1][1] = "DATA" => /\ Body(Tail(q), f, n + 1) /\ n + 1 <= Readable[f]
                                  /\ q[1][2] = Local[f][n + 1]
           /\ q[1][1] = "DONE" => n = Readable[f] /\ Len(q) = 1
<1>0. Readable[f] \in Nat /\ Len(q) \in Nat \ {0} /\ Tail(q) \in Seq(Requests)
      /\ Len(Tail(q)) = Len(q) - 1 /\ \A i \in 1..(Len(q) - 1) : Tail(q)[i] = q[i + 1]
  BY Constants, Take
<1>1. IF n + 1 <= Readable[f] THEN q[1][1] = "DATA" /\ q[1][2] = Local[f][n + 1]
      ELSE q[1][1] = "DONE"
  BY <1>0 DEF Body
<1>2. q[1][1] = "DATA" => n + 1 <= Readable[f] /\ q[1][2] = Local[f][n + 1]
  BY <1>1
<1>3. q[1][1] = "DONE" => n = Readable[f] /\ Len(q) = 1
  BY <1>0, <1>1 DEF Body
<1>4. ASSUME n + 1 <= Readable[f] PROVE Body(Tail(q), f, n + 1)
  <2>1. ASSUME NEW i \in 1..Len(Tail(q))
        PROVE  IF n + 1 + i <= Readable[f]
               THEN Tail(q)[i][1] = "DATA" /\ Tail(q)[i][2] = Local[f][n + 1 + i]
               ELSE Tail(q)[i][1] = "DONE"
    <3>1. Tail(q)[i] = q[i + 1] /\ i + 1 \in 1..Len(q) /\ n + (i + 1) = n + 1 + i
      BY <1>0
    <3>2. IF n + (i + 1) <= Readable[f]
          THEN q[i + 1][1] = "DATA" /\ q[i + 1][2] = Local[f][n + (i + 1)]
          ELSE q[i + 1][1] = "DONE"
      BY <3>1 DEF Body
    <3> QED
      BY <3>1, <3>2
  <2>2. n + 1 + Len(Tail(q)) <= Readable[f] + 1
    BY <1>0 DEF Body
  <2> QED
    BY <2>1, <2>2, <1>4 DEF Body
<1> QED
  BY <1>1, <1>2, <1>3, <1>4

\* What is left of a transfer is one, and its end is its last message.
LEMMA BodyCut ==
    ASSUME NEW q \in Seq(Requests), NEW f \in Files, NEW n \in Nat, Body(q, f, n)
    PROVE  /\ All(q, {"DATA", "DONE"}) /\ LastOnly(q, {"DONE"})
           /\ \A j \in 0..Len(q) : Body(SubSeq(q, 1, j), f, n)
           /\ n + Len(q) = Readable[f] + 1 => q # << >> /\ q[Len(q)][1] = "DONE"
<1>0. Readable[f] \in Nat /\ Len(q) \in Nat /\ (q = << >> <=> Len(q) = 0)
  BY Constants, Empty
<1>1. All(q, {"DATA", "DONE"}) /\ LastOnly(q, {"DONE"})
  BY <1>0 DEF Body, All, LastOnly
<1>2. ASSUME NEW j \in 0..Len(q) PROVE Body(SubSeq(q, 1, j), f, n)
  <2>1. Len(SubSeq(q, 1, j)) = j /\ \A i \in 1..j : SubSeq(q, 1, j)[i] = q[i]
    BY Cut
  <2> QED
    BY <2>1, <1>0 DEF Body
<1>3. n + Len(q) = Readable[f] + 1 => q # << >> /\ q[Len(q)][1] = "DONE"
  BY <1>0 DEF Body
<1> QED
  BY <1>1, <1>2, <1>3

-----------------------------------------------------------------------------
(* The ends of the stream *)

\* One of several streams changes.
LEMMA OneStream ==
    ASSUME NEW D, NEW A, NEW F \in [D -> Seq(A)], NEW C, \A e \in D : Len(F[e]) <= C,
           NEW d \in D, NEW x \in Seq(A), Len(x) <= C, NEW G, G = [F EXCEPT ![d] = x]
    PROVE  /\ G \in [D -> Seq(A)] /\ \A e \in D : Len(G[e]) <= C
           /\ G[d] = x /\ \A e \in D \ {d} : G[e] = F[e]
  OBVIOUS

\* A step in which only the stream of the client's session changes.
OwnStream ==
    /\ c2s' \in [Sessions -> Seq(Requests)] /\ s2c' \in [Sessions -> Seq(Answers)]
    /\ \A s \in Sessions : Len(c2s'[s]) <= Cap /\ Len(s2c'[s]) <= Cap
    /\ \A s \in Sessions \ {sess} : c2s'[s] = c2s[s] /\ s2c'[s] = s2c[s]
    /\ cut' = cut

\* The client writes.
LEMMA TellFacts ==
    ASSUME TypeOK, sess \in Sessions, NEW m \in Requests, Tell(m)
    PROVE  /\ OwnStream /\ s2c' = s2c
           /\ Connected(sess) => c2s'[sess] = Append(c2s[sess], m)
           /\ ~Connected(sess) => c2s'[sess] = c2s[sess]
<1>1. c2s[sess] \in Seq(Requests) /\ Cap \in Nat
  BY Constants DEF TypeOK
<1>2. Append(c2s[sess], m) \in Seq(Requests) /\ Len(Append(c2s[sess], m)) = Len(c2s[sess]) + 1
      /\ Len(c2s[sess]) \in Nat
  BY <1>1, Put
<1>3. CASE Connected(sess)
  <2> DEFINE x == Append(c2s[sess], m)
  <2>1. c2s' = [c2s EXCEPT ![sess] = x] /\ Len(c2s[sess]) < Cap /\ s2c' = s2c /\ cut' = cut
    BY <1>3 DEF Tell
  <2>2. x \in Seq(Requests) /\ Len(x) <= Cap
    BY <1>1, <1>2, <2>1
  <2>3. c2s \in [Sessions -> Seq(Requests)] /\ \A s \in Sessions : Len(c2s[s]) <= Cap
    BY DEF TypeOK
  <2> HIDE DEF x
  <2>4. /\ c2s' \in [Sessions -> Seq(Requests)] /\ \A s \in Sessions : Len(c2s'[s]) <= Cap
        /\ c2s'[sess] = x /\ \A s \in Sessions \ {sess} : c2s'[s] = c2s[s]
    BY <2>1, <2>2, <2>3, OneStream
  <2> QED
    BY <1>3, <2>1, <2>4 DEF x, OwnStream, TypeOK
<1>4. CASE ~Connected(sess)
  BY <1>4 DEF Tell, TypeOK, OwnStream
<1> QED
  BY <1>3, <1>4

\* The client reads.
LEMMA HeardFacts ==
    ASSUME TypeOK, sess \in Sessions, NEW kinds, Heard(kinds)
    PROVE  /\ OwnStream /\ c2s' = c2s
           /\ s2c[sess] # << >> /\ Hear = s2c[sess][1] /\ Hear \in Answers /\ Hear[1] \in kinds
           /\ s2c'[sess] = Tail(s2c[sess])
<1>1. s2c[sess] \in Seq(Answers) /\ Cap \in Nat /\ s2c[sess] # << >>
  BY Constants DEF TypeOK, Heard
<1>2. /\ Tail(s2c[sess]) \in Seq(Answers) /\ Len(Tail(s2c[sess])) = Len(s2c[sess]) - 1
      /\ Len(s2c[sess]) \in Nat /\ Head(s2c[sess]) = s2c[sess][1] /\ s2c[sess][1] \in Answers
  BY <1>1, Take
<1>3. /\ s2c' \in [Sessions -> Seq(Answers)] /\ \A s \in Sessions : Len(s2c'[s]) <= Cap
      /\ s2c'[sess] = Tail(s2c[sess]) /\ \A s \in Sessions \ {sess} : s2c'[s] = s2c[s]
  <2> DEFINE x == Tail(s2c[sess])
  <2>1. s2c \in [Sessions -> Seq(Answers)] /\ \A s \in Sessions : Len(s2c[s]) <= Cap
    BY DEF TypeOK
  <2>2. x \in Seq(Answers) /\ Len(x) <= Cap /\ s2c' = [s2c EXCEPT ![sess] = x]
    BY <1>1, <1>2, <2>1 DEF Heard
  <2> HIDE DEF x
  <2>3. /\ s2c' \in [Sessions -> Seq(Answers)] /\ \A s \in Sessions : Len(s2c'[s]) <= Cap
        /\ s2c'[sess] = x /\ \A s \in Sessions \ {sess} : s2c'[s] = s2c[s]
    BY <2>1, <2>2, OneStream
  <2> QED
    BY <2>3 DEF x
<1> QED
  BY <1>1, <1>2, <1>3 DEF Heard, Hear, TypeOK, OwnStream

\* The service writes.
LEMMA SayFacts ==
    ASSUME TypeOK, NEW s \in Sessions, NEW m \in Answers,
           NEW next \in {"cmd", "dir", "file", "read"}, Say(s, m, next)
    PROVE  /\ s2c' \in [Sessions -> Seq(Answers)] /\ \A r \in Sessions : Len(s2c'[r]) <= Cap
           /\ spc' \in [Sessions -> {"none", "cmd", "dir", "file", "read", "closed"}]
           /\ \A r \in Sessions \ {s} : s2c'[r] = s2c[r] /\ spc'[r] = spc[r]
           /\ Connected(s) => s2c'[s] = Append(s2c[s], m) /\ spc'[s] = next
           /\ ~Connected(s) => s2c'[s] = s2c[s] /\ spc'[s] \in {next, "closed"}
<1>1. s2c[s] \in Seq(Answers) /\ Cap \in Nat
  BY Constants DEF TypeOK
<1>2. Append(s2c[s], m) \in Seq(Answers) /\ Len(Append(s2c[s], m)) = Len(s2c[s]) + 1
      /\ Len(s2c[s]) \in Nat
  BY <1>1, Put
<1>3. CASE Connected(s)
  <2> DEFINE x == Append(s2c[s], m)
  <2>1. s2c' = [s2c EXCEPT ![s] = x] /\ Len(s2c[s]) < Cap /\ spc' = [spc EXCEPT ![s] = next]
    BY <1>3 DEF Say
  <2>2. x \in Seq(Answers) /\ Len(x) <= Cap
    BY <1>1, <1>2, <2>1
  <2>3. s2c \in [Sessions -> Seq(Answers)] /\ \A r \in Sessions : Len(s2c[r]) <= Cap
    BY DEF TypeOK
  <2> HIDE DEF x
  <2>4. /\ s2c' \in [Sessions -> Seq(Answers)] /\ \A r \in Sessions : Len(s2c'[r]) <= Cap
        /\ s2c'[s] = x /\ \A r \in Sessions \ {s} : s2c'[r] = s2c[r]
    BY <2>1, <2>2, <2>3, OneStream
  <2>5. /\ spc' \in [Sessions -> {"none", "cmd", "dir", "file", "read", "closed"}]
        /\ spc'[s] = next /\ \A r \in Sessions \ {s} : spc'[r] = spc[r]
    BY <2>1 DEF TypeOK
  <2> QED
    BY <1>3, <2>4, <2>5 DEF x
<1>4. CASE ~Connected(s)
  BY <1>4 DEF Say, TypeOK
<1> QED
  BY <1>3, <1>4

\* The service reads.
LEMMA AskedFacts ==
    ASSUME TypeOK, NEW s \in Sessions, NEW kind, Asked(s, kind)
    PROVE  /\ c2s' \in [Sessions -> Seq(Requests)] /\ \A r \in Sessions : Len(c2s'[r]) <= Cap
           /\ cut' = cut
           /\ \A r \in Sessions \ {s} : c2s'[r] = c2s[r]
           /\ c2s[s] # << >> /\ c2s[s][1] \in Requests /\ c2s[s][1][1] = kind
           /\ Arg(s) = c2s[s][1][2] /\ c2s'[s] = Tail(c2s[s])
<1>1. c2s[s] \in Seq(Requests) /\ Cap \in Nat /\ c2s[s] # << >>
  BY Constants DEF TypeOK, Asked
<1>2. /\ Tail(c2s[s]) \in Seq(Requests) /\ Len(Tail(c2s[s])) = Len(c2s[s]) - 1
      /\ Len(c2s[s]) \in Nat /\ Head(c2s[s]) = c2s[s][1] /\ c2s[s][1] \in Requests
  BY <1>1, Take
<1> QED
  BY <1>1, <1>2 DEF Asked, Arg, TypeOK

-----------------------------------------------------------------------------
(* The client's steps *)

\* What a client that is not idle has.
LEMMA ClientFacts ==
    ASSUME ExchangeInv, cpc # "idle"
    PROVE  /\ sess \in Sessions /\ sess \in Nat \ {0}
           /\ c2s[sess] \in Seq(Requests) /\ s2c[sess] \in Seq(Answers)
           /\ Len(c2s[sess]) \in Nat /\ Len(s2c[sess]) \in Nat
           /\ c2s[sess] = << >> <=> Len(c2s[sess]) = 0
           /\ s2c[sess] = << >> <=> Len(s2c[sess]) = 0
           /\ flist \in Seq(Files \cup {Dir}) /\ Len(flist) \in Nat
           /\ at \in Nat \ {0} /\ at <= Len(flist) + 1
           /\ at <= Len(flist) => flist[at] \in Files \cup {Dir}
           /\ at <= Len(flist) /\ flist \in Seq(Files) => flist[at] \in Files
           /\ PhaseOf(c2s[sess], s2c[sess]) /\ QueueOf(sess, c2s[sess])
           /\ Connected(sess) => StepOf(c2s[sess], s2c[sess])
<1>1. sess \in Sessions /\ sess \in Nat \ {0}
  BY Constants DEF ExchangeInv, CommandInv, Sessions
<1>2. c2s[sess] \in Seq(Requests) /\ s2c[sess] \in Seq(Answers)
      /\ flist \in Seq(Files \cup {Dir}) /\ at \in 1..(Len(flist) + 1)
  BY <1>1 DEF ExchangeInv, TypeOK
<1>3. /\ Len(c2s[sess]) \in Nat /\ Len(s2c[sess]) \in Nat
      /\ c2s[sess] = << >> <=> Len(c2s[sess]) = 0
      /\ s2c[sess] = << >> <=> Len(s2c[sess]) = 0
      /\ Len(flist) \in Nat
  BY <1>2, Empty
<1>4. at \in Nat \ {0} /\ at <= Len(flist) + 1
  BY <1>2, <1>3
<1>5. at <= Len(flist) => at \in 1..Len(flist)
  BY <1>3, <1>4
<1>6. /\ at <= Len(flist) => flist[at] \in Files \cup {Dir}
      /\ at <= Len(flist) /\ flist \in Seq(Files) => flist[at] \in Files
  BY <1>5, <1>2, ElementOfSeq
<1> QED
  BY <1>1, <1>2, <1>3, <1>4, <1>6 DEF ExchangeInv, PhaseInv, StepInv, QueueInv

\* A client's step leaves the service's side alone, and its requests have to fit.
LEMMA QueueByClient ==
    ASSUME ExchangeInv, sess \in Sessions, sess' = sess, UNCHANGED <<service, cut>>,
           \A s \in Sessions \ {sess} : c2s'[s] = c2s[s] /\ s2c'[s] = s2c[s],
           QueueOf(sess, c2s'[sess])
    PROVE  QueueInv'
<1> SUFFICES ASSUME NEW s \in Sessions PROVE QueueOf(s, c2s[s])'
  BY DEF QueueInv
<1>0. s \in Nat /\ sess \in Nat
  BY Constants DEF Sessions
<1>1. CASE s = sess
  BY <1>1, <1>0 DEF QueueOf, service
<1>2. CASE s # sess
  <2>1. QueueOf(s, c2s[s]) /\ c2s'[s] = c2s[s] /\ s2c'[s] = s2c[s]
    BY <1>2 DEF ExchangeInv, QueueInv
  <2> QED
    BY <2>1 DEF QueueOf, service
<1> QED
  BY <1>1, <1>2

ClientTyped ==
    /\ cpc \in {"idle", "ask", "stats", "list", "dents", "next", "data", "status",
                "first", "more", "quit"}
    /\ flist \in Seq(Files \cup {Dir}) /\ at \in 1..(Len(flist) + 1) /\ k \in Nat
    /\ flags \subseteq Files /\ result \in {"none", "okay", "error"} /\ DOMAIN got = Files

\* A client's step keeps the invariant if what it does is right for the client.
LEMMA ClientKeeps ==
    ASSUME ExchangeInv, cpc # "idle", OwnStream,
           UNCHANGED <<service, remote, faults, deaths, cmd, sess>>,
           ClientTyped', QueueOf(sess, c2s'[sess]), CommandInv', PhaseOf(c2s[sess], s2c[sess])',
           cpc' # "idle" /\ Connected(sess) => StepOf(c2s[sess], s2c[sess])'
    PROVE  ExchangeInv'
<1>1. sess \in Sessions
  BY ClientFacts
<1>2. TypeOK'
  BY DEF ExchangeInv, TypeOK, OwnStream, service, ClientTyped
<1>3. QueueInv'
  BY <1>1, QueueByClient DEF OwnStream
<1>4. PhaseInv'
  BY DEF PhaseInv
<1>5. StepInv'
  BY DEF StepInv, Connected, OwnStream, service
<1> QED
  BY <1>2, <1>3, <1>4, <1>5 DEF ExchangeInv

LEMMA AskStatKeeps == ASSUME ExchangeInv, AskStat PROVE ExchangeInv'
<1> DEFINE q == c2s[sess]
           a == s2c[sess]
           m == <<"STAT", flist[at]>>
           x == Append(q, m)
<1>0. cpc = "ask" /\ cpc # "idle"
  BY DEF AskStat
<1>1. /\ sess \in Sessions /\ q \in Seq(Requests) /\ a \in Seq(Answers) /\ Len(q) \in Nat
      /\ Len(a) \in Nat /\ at \in Nat \ {0} /\ Len(flist) \in Nat /\ at <= Len(flist)
      /\ flist[at] \in Files \cup {Dir} /\ PhaseOf(q, a) /\ QueueOf(sess, q)
      /\ (Connected(sess) => StepOf(q, a))
  BY <1>0, ClientFacts DEF ExchangeInv, CommandInv
<1>2. m \in Requests /\ m[1] = "STAT" /\ m[2] = flist[at]
  BY <1>1, RequestKinds
<1> HIDE DEF m
<1>3. /\ OwnStream /\ s2c'[sess] = a /\ c2s'[sess] \in Seq(Requests)
      /\ Connected(sess) => c2s'[sess] = x
      /\ ~Connected(sess) => c2s'[sess] = q
  BY <1>1, <1>2, TellFacts DEF AskStat, ExchangeInv, m, OwnStream
<1>4. /\ Len(x) = Len(q) + 1 /\ x # << >> /\ x[Len(q) + 1] = m
      /\ \A i \in 1..Len(q) : x[i] = q[i]
  BY <1>1, <1>2, Put, SMTT(30)
<1>5. All(q, {"STAT"}) => All(x, {"STAT"})
  BY <1>1, <1>2, AllPut
<1> HIDE DEF q, a, x
<1>6. /\ UNCHANGED <<cmd, sess, flist, k, flags, result, got, service, remote, faults, deaths>>
      /\ at' = (IF at = Len(flist) THEN 1 ELSE at + 1)
      /\ cpc' = (IF at = Len(flist) THEN "stats" ELSE "ask") /\ spc' = spc
  BY DEF AskStat, ClientOnly, service
<1>7. StatsPhase(q, a) /\ (Connected(sess) => AskStep(q, a))
      /\ (cmd \notin {"push", "one", "sync"} => NoSend(q))
  BY <1>0, <1>1 DEF StepOf, PhaseOf
<1>8. spc[sess] = "cmd" => All(c2s'[sess], {"STAT"})
  BY <1>3, <1>5, <1>7, AllEmpty DEF StatsPhase, Gone
<1>9. QueueOf(sess, c2s'[sess])
  BY <1>1, <1>3, <1>7, <1>8 DEF QueueOf, AskStep
<1>10. CommandInv'
  BY <1>0, <1>1, <1>6 DEF ExchangeInv, CommandInv
<1>11. PhaseOf(c2s[sess], s2c[sess])'
  <2>1. StatsPhase(c2s[sess], s2c[sess])'
    <3>2. Len(q) + Len(a) <= at - 1
      BY <1>0, <1>7 DEF StatsPhase
    <3>3. Len(c2s'[sess]) + Len(a) <= at /\ Len(c2s'[sess]) \in Nat
      BY <3>2, <1>1, <1>3, <1>4
    <3>6. s2c'[sess'] = a /\ spc'[sess'] = spc[sess] /\ c2s'[sess'] = c2s'[sess]
      BY <1>3, <1>6
    <3> DEFINE n == Len(c2s'[sess]) + Len(a)
    <3>8. n \in Nat /\ n <= at
      BY <3>3, <1>1
    <3> HIDE DEF n
    <3>9. n <= (IF cpc' = "ask" THEN at' - 1 ELSE Len(flist') - at' + 1)
      BY <3>8, <1>1, <1>6
    <3>4. Len(c2s'[sess']) + Len(s2c'[sess'])
             <= (IF cpc' = "ask" THEN at' - 1 ELSE Len(flist') - at' + 1)
      BY <3>9, <3>6 DEF n
    <3>5. Gone(q) \/ (spc[sess] = "cmd" /\ All(q, {"STAT"}))
      BY <1>7 DEF StatsPhase
    <3>7. Gone(c2s[sess])' \/ (spc'[sess'] = "cmd" /\ All(c2s'[sess], {"STAT"}))
      BY <3>5, <3>6, <1>3, <1>7, <1>8 DEF Gone, AskStep
    <3> QED
      BY <3>4, <3>6, <3>7, <1>7 DEF StatsPhase
  <2>2. cmd \notin {"push", "one", "sync"} => NoSend(c2s[sess])'
    BY <1>3, <1>6, <1>7, <1>8, AllTake DEF NoSend, AskStep
  <2> QED
    BY <2>1, <2>2, <1>6 DEF PhaseOf
<1>12. ASSUME Connected(sess) PROVE StepOf(c2s[sess], s2c[sess])'
  <2>1. /\ Len(q) + Len(a) = at - 1 /\ Pending(q, a, 0) /\ spc[sess] = "cmd"
        /\ c2s'[sess] = x
    BY <1>3, <1>7, <1>12 DEF AskStep
  <2>2. ASSUME NEW i \in 1..Len(x) PROVE x[i][2] = flist[Len(a) + i]
    <3>1. CASE i = Len(q) + 1
      BY <3>1, <2>1, <1>1, <1>2, <1>4
    <3>2. CASE i \in 1..Len(q)
      BY <3>2, <2>1, <1>1, <1>4 DEF Pending
    <3> QED
      BY <3>1, <3>2, <1>1, <1>4
  <2>3. Len(x) + Len(a) = at
    BY <2>1, <1>1, <1>4
  <2>4. \A i \in 1..Len(x) : 0 + Len(a) + i = Len(a) + i /\ 1 - 1 + Len(a) + i = Len(a) + i
    BY <1>1
  <2>7. c2s'[sess'] = x /\ s2c'[sess'] = a /\ spc'[sess'] = "cmd"
    BY <2>1, <1>3, <1>6
  <2>5. CASE at = Len(flist)
    <3>1. Pending(c2s[sess], s2c[sess], at - 1)'
      BY <2>1, <2>2, <2>4, <2>5, <1>3, <1>6 DEF Pending
    <3>2. StatsStep(c2s[sess], s2c[sess])'
      BY <3>1, <2>7, <2>3, <2>5, <1>1, <1>6 DEF StatsStep
    <3> QED
      BY <3>2, <2>5, <1>6 DEF StepOf
  <2>6. CASE at # Len(flist)
    <3>1. Pending(c2s[sess], s2c[sess], 0)'
      BY <2>1, <2>2, <2>4, <1>3, <1>6 DEF Pending
    <3>2. AskStep(c2s[sess], s2c[sess])'
      BY <3>1, <2>7, <2>3, <2>6, <1>1, <1>6 DEF AskStep
    <3> QED
      BY <3>2, <2>6, <1>6 DEF StepOf
  <2> QED
    BY <2>5, <2>6
<1>13. ClientTyped'
  <2>1. at' \in 1..(Len(flist) + 1)
    BY <1>1, <1>6
  <2> QED
    BY <2>1, <1>6 DEF ExchangeInv, TypeOK, ClientTyped
<1> QED
  BY <1>0, <1>3, <1>6, <1>9, <1>10, <1>11, <1>12, <1>13, ClientKeeps

LEMMA ReadStatKeeps == ASSUME ExchangeInv, ReadStat PROVE ExchangeInv'
<1> DEFINE q == c2s[sess]
           a == s2c[sess]
           x == Tail(a)
<1>0. cpc = "stats" /\ cpc # "idle"
  BY DEF ReadStat
<1>1. /\ sess \in Sessions /\ q \in Seq(Requests) /\ a \in Seq(Answers) /\ Len(q) \in Nat
      /\ Len(a) \in Nat /\ at \in Nat \ {0} /\ Len(flist) \in Nat /\ at <= Len(flist)
      /\ flist \in Seq(Files) => flist[at] \in Files
      /\ PhaseOf(q, a) /\ QueueOf(sess, q) /\ (Connected(sess) => StepOf(q, a))
      /\ (q = << >> <=> Len(q) = 0)
  BY <1>0, ClientFacts DEF ExchangeInv, CommandInv
<1>2. OwnStream /\ s2c'[sess] = x /\ c2s'[sess] = q /\ a # << >>
  BY <1>1, HeardFacts DEF ReadStat, ExchangeInv
<1>3. /\ x \in Seq(Answers) /\ Len(a) \in Nat \ {0} /\ Len(x) = Len(a) - 1
      /\ \A i \in 1..(Len(a) - 1) : x[i] = a[i + 1]
  BY <1>1, <1>2, Take
<1>4. x = << >> <=> Len(x) = 0
  BY <1>3, Empty
<1>5. All(a, {"STAT"}) => All(x, {"STAT"})
  BY <1>1, <1>2, AllTake
<1> HIDE DEF q, a, x
<1>6. /\ UNCHANGED <<cmd, sess, flist, k, result, got, service, remote, faults, deaths>>
      /\ at' = (IF at = Len(flist) THEN 1 ELSE at + 1)
      /\ cpc' = (IF at < Len(flist) THEN "stats" ELSE IF cmd = "pull" THEN "list" ELSE "next")
      /\ spc' = spc
      /\ (flags' = flags \/ (cmd \in {"sync", "would"} /\ flags' = flags \cup {flist[at]}))
  BY DEF ReadStat, ClientOnly, service
<1>7. StatsPhase(q, a) /\ (Connected(sess) => StatsStep(q, a))
      /\ (cmd \notin {"push", "one", "sync"} => NoSend(q))
  BY <1>0, <1>1 DEF StepOf, PhaseOf
<1>8. QueueOf(sess, c2s'[sess])
  BY <1>1, <1>2
<1>9. c2s'[sess'] = q /\ s2c'[sess'] = x /\ spc'[sess'] = spc[sess]
  BY <1>2, <1>6
<1>10. cmd \in {"one", "sync", "would", "pull"} /\ (cmd # "pull" => flist \in Seq(Files))
  BY <1>0 DEF ExchangeInv, CommandInv
<1>11. CommandInv'
  <2>1. CASE at < Len(flist)
    BY <2>1, <1>0, <1>1, <1>6, <1>10 DEF ExchangeInv, CommandInv
  <2>2. CASE at = Len(flist)
    BY <2>2, <1>0, <1>1, <1>6, <1>10 DEF ExchangeInv, CommandInv
  <2> QED
    BY <2>1, <2>2, <1>1
<1>14. ClientTyped'
  <2>1. at' \in 1..(Len(flist) + 1)
    BY <1>1, <1>6
  <2>2. flags' \subseteq Files
    BY <1>1, <1>6, <1>10 DEF ExchangeInv, TypeOK
  <2> QED
    BY <2>1, <2>2, <1>6 DEF ExchangeInv, TypeOK, ClientTyped
<1>12. CASE at < Len(flist)
  <2>1. cpc' = "stats" /\ at' = at + 1
    BY <1>1, <1>6, <1>12
  <2>2. StatsPhase(c2s[sess], s2c[sess])'
    BY <2>1, <1>0, <1>1, <1>3, <1>5, <1>6, <1>7, <1>9 DEF StatsPhase, Gone
  <2>3. PhaseOf(c2s[sess], s2c[sess])'
    BY <2>1, <2>2, <1>6, <1>7, <1>9 DEF PhaseOf, NoSend
  <2>4. ASSUME Connected(sess) PROVE StepOf(c2s[sess], s2c[sess])'
    <3>1. spc[sess] = "cmd" /\ Len(q) + Len(a) = Len(flist) - at + 1 /\ Pending(q, a, at - 1)
      BY <2>4, <1>7 DEF StatsStep
    <3>2. ASSUME NEW i \in 1..Len(q) PROVE q[i][2] = flist[at' - 1 + Len(x) + i]
      <4>1. at - 1 + Len(a) + i = at' - 1 + Len(x) + i
        BY <2>1, <1>1, <1>3
      <4> QED
        BY <4>1, <3>1 DEF Pending
    <3>3. Pending(c2s[sess], s2c[sess], at - 1)'
      BY <3>2, <1>6, <1>9 DEF Pending
    <3>4. StatsStep(c2s[sess], s2c[sess])'
      BY <3>1, <3>3, <2>1, <1>1, <1>3, <1>6, <1>9, SMTT(30) DEF StatsStep
    <3> QED
      BY <3>4, <2>1 DEF StepOf
  <2> QED
    BY <2>3, <2>4, <1>0, <1>2, <1>6, <1>8, <1>11, <1>14, ClientKeeps
<1>13. CASE at = Len(flist)
  <2>1. cpc' \in {"list", "next"} /\ at' = 1
    BY <1>1, <1>6, <1>13
  <2>2. Len(q) = 0 /\ Len(x) = 0
    BY <1>0, <1>1, <1>3, <1>7, <1>13 DEF StatsPhase
  <2>3. RestPhase(c2s[sess], s2c[sess])'
    BY <2>2, <1>1, <1>4, <1>7, <1>9 DEF StatsPhase, RestPhase, Gone
  <2>4. PhaseOf(c2s[sess], s2c[sess])'
    BY <2>1, <2>3, <1>6, <1>7, <1>9 DEF PhaseOf, NoSend
  <2>5. ASSUME Connected(sess) PROVE StepOf(c2s[sess], s2c[sess])'
    BY <2>1, <2>5, <1>7, <1>9 DEF StepOf, StatsStep
  <2> QED
    BY <2>4, <2>5, <1>0, <1>2, <1>6, <1>8, <1>11, <1>14, ClientKeeps
<1> QED
  BY <1>1, <1>12, <1>13

LEMMA AskListKeeps == ASSUME ExchangeInv, AskList PROVE ExchangeInv'
<1> DEFINE q == c2s[sess]
           a == s2c[sess]
           m == <<"LIST", Dir>>
           x == Append(q, m)
<1>0. cpc = "list" /\ cpc # "idle"
  BY DEF AskList
<1>1. /\ sess \in Sessions /\ q \in Seq(Requests) /\ a \in Seq(Answers) /\ Len(q) \in Nat
      /\ PhaseOf(q, a) /\ QueueOf(sess, q) /\ (Connected(sess) => StepOf(q, a))
      /\ (q = << >> <=> Len(q) = 0)
  BY <1>0, ClientFacts DEF ExchangeInv
<1>2. m \in Requests /\ m[1] = "LIST"
  BY RequestKinds
<1> HIDE DEF m
<1>3. /\ OwnStream /\ s2c'[sess] = a
      /\ Connected(sess) => c2s'[sess] = x
      /\ ~Connected(sess) => c2s'[sess] = q
  BY <1>1, <1>2, TellFacts DEF AskList, ExchangeInv, m
<1>4. Len(x) = Len(q) + 1 /\ x # << >> /\ x[Len(q) + 1] = m
  BY <1>1, <1>2, Put
<1> HIDE DEF q, a, x
<1>5. /\ UNCHANGED <<cmd, sess, at, k, flags, result, got, service, remote, faults, deaths>>
      /\ cpc' = "dents" /\ flist' = << >> /\ spc' = spc
  BY DEF AskList, ClientOnly, service
<1>6. RestPhase(q, a) /\ (Connected(sess) => spc[sess] = "cmd")
      /\ (cmd \notin {"push", "one", "sync"} => NoSend(q))
  BY <1>0, <1>1 DEF StepOf, PhaseOf
<1>7. at = 1 /\ cmd \in {"pull", "ls"}
  BY <1>0 DEF ExchangeInv, CommandInv
<1>8. CommandInv' /\ ClientTyped'
  <2>1. << >> \in Seq(Files) /\ << >> \in Seq(Files \cup {Dir}) /\ 1 \in 1..(Len(<< >>) + 1)
    OBVIOUS
  <2> QED
    BY <2>1, <1>0, <1>5, <1>7 DEF ExchangeInv, CommandInv, TypeOK, ClientTyped
<1>9. /\ Connected(sess) => c2s'[sess] = x /\ q = << >> /\ spc[sess] = "cmd" /\ x[1][1] = "LIST"
                            /\ Len(x) = 1
      /\ ~Connected(sess) => c2s'[sess] = q
  BY <1>1, <1>2, <1>3, <1>4, <1>6 DEF RestPhase, Gone
<1>10. QueueOf(sess, c2s'[sess])
  BY <1>1, <1>9 DEF QueueOf
<1>11. c2s'[sess'] = c2s'[sess] /\ s2c'[sess'] = << >> /\ spc'[sess'] = spc[sess]
  BY <1>3, <1>5, <1>6 DEF RestPhase
<1>12. ListPhase(c2s[sess], s2c[sess])' /\ (Connected(sess) => ListStep(c2s[sess], s2c[sess])')
  BY <1>4, <1>6, <1>9, <1>11, AllEmpty DEF ListPhase, ListStep, RestPhase, Gone
<1>13. NoSend(c2s[sess])'
  BY <1>6, <1>7, <1>9, <1>11 DEF NoSend
<1>14. PhaseOf(c2s[sess], s2c[sess])' /\ (Connected(sess) => StepOf(c2s[sess], s2c[sess])')
  BY <1>5, <1>12, <1>13 DEF PhaseOf, StepOf
<1> QED
  BY <1>0, <1>3, <1>5, <1>8, <1>10, <1>14, ClientKeeps

LEMMA ReadDentKeeps == ASSUME ExchangeInv, ReadDent PROVE ExchangeInv'
<1> DEFINE q == c2s[sess]
           a == s2c[sess]
           x == Tail(a)
<1>0. cpc = "dents" /\ cpc # "idle"
  BY DEF ReadDent
<1>1. /\ sess \in Sessions /\ q \in Seq(Requests) /\ a \in Seq(Answers) /\ Len(q) \in Nat
      /\ PhaseOf(q, a) /\ QueueOf(sess, q) /\ (Connected(sess) => StepOf(q, a))
  BY <1>0, ClientFacts DEF ExchangeInv
<1>2. /\ OwnStream /\ s2c'[sess] = x /\ c2s'[sess] = q /\ a # << >> /\ Hear = a[1]
      /\ Hear \in Answers /\ Hear[1] = "DENT"
  BY <1>1, HeardFacts DEF ReadDent, ExchangeInv
<1>3. x \in Seq(Answers) /\ Len(a) \in Nat \ {0} /\ (Len(a) = 1 <=> x = << >>)
  BY <1>1, <1>2, Take
<1>4. x # << >> => x[Len(x)] = a[Len(a)]
  BY <1>1, <1>2, TakeLast
<1>5. \A kinds : All(a, kinds) => All(x, kinds)
  BY <1>1, <1>2, AllTake
<1>6. \A kinds : LastOnly(a, kinds) => LastOnly(x, kinds)
  BY <1>1, <1>2, LastTake
<1> HIDE DEF q, a, x
<1>7. /\ UNCHANGED <<cmd, cpc, sess, at, k, flags, result, got, service, remote, faults, deaths>>
      /\ flist' = <<Hear[2]>> \o flist /\ spc' = spc
  BY DEF ReadDent, ClientOnly, service
<1>8. ListPhase(q, a) /\ (Connected(sess) => ListStep(q, a))
      /\ (cmd \notin {"push", "one", "sync"} => NoSend(q))
  BY <1>0, <1>1 DEF StepOf, PhaseOf
<1>9. at = 1 /\ cmd \in {"pull", "ls"} /\ flist \in Seq(Files)
  BY <1>0 DEF ExchangeInv, CommandInv
<1>10. CommandInv' /\ ClientTyped'
  <2>1. Hear[2] \in Files
    BY <1>2, AnswerKinds
  <2>2. <<Hear[2]>> \in Seq(Files)
    BY <2>1
  <2>3. flist' \in Seq(Files)
    BY <2>2, <1>7, <1>9, ConcatProperties
  <2>4. flist' \in Seq(Files \cup {Dir}) /\ Len(flist') \in Nat
    BY <2>3, Empty
  <2>5. at' \in 1..(Len(flist') + 1)
    BY <2>4, <1>7, <1>9
  <2> QED
    BY <2>3, <2>4, <2>5, <1>0, <1>7, <1>9 DEF ExchangeInv, CommandInv, TypeOK, ClientTyped
<1>11. c2s'[sess'] = q /\ s2c'[sess'] = x /\ spc'[sess'] = spc[sess]
  BY <1>2, <1>7
<1>12. ListPhase(c2s[sess], s2c[sess])'
  BY <1>2, <1>3, <1>4, <1>5, <1>6, <1>8, <1>11 DEF ListPhase, Gone
<1>13. Connected(sess) => ListStep(c2s[sess], s2c[sess])'
  BY <1>2, <1>3, <1>4, <1>5, <1>8, <1>11 DEF ListStep
<1>14. PhaseOf(c2s[sess], s2c[sess])' /\ (Connected(sess) => StepOf(c2s[sess], s2c[sess])')
  BY <1>0, <1>7, <1>8, <1>11, <1>12, <1>13 DEF PhaseOf, StepOf, NoSend
<1> QED
  BY <1>0, <1>1, <1>2, <1>7, <1>10, <1>14, ClientKeeps

LEMMA ReadDentsKeeps == ASSUME ExchangeInv, ReadDents PROVE ExchangeInv'
<1> DEFINE q == c2s[sess]
           a == s2c[sess]
<1>0. cpc = "dents" /\ cpc # "idle"
  BY DEF ReadDents
<1>1. /\ sess \in Sessions /\ q \in Seq(Requests) /\ a \in Seq(Answers) /\ Len(q) \in Nat
      /\ PhaseOf(q, a) /\ QueueOf(sess, q) /\ (Connected(sess) => StepOf(q, a))
  BY <1>0, ClientFacts DEF ExchangeInv
<1>2. /\ OwnStream /\ s2c'[sess] = Tail(a) /\ c2s'[sess] = q /\ a # << >> /\ Hear = a[1]
      /\ Hear[1] = "DONE"
  BY <1>1, HeardFacts DEF ReadDents, ExchangeInv
<1>3. ListPhase(q, a) /\ (Connected(sess) => ListStep(q, a))
      /\ (cmd \notin {"push", "one", "sync"} => NoSend(q))
  BY <1>0, <1>1 DEF StepOf, PhaseOf
<1>4. Tail(a) = << >>
  BY <1>1, <1>2, <1>3, LastTake DEF ListPhase
<1>5. Len(a) = 1
  BY <1>1, <1>2, <1>4, Take
<1>6. All(a, {"DENT"}) => a[1][1] = "DENT"
  BY <1>1, <1>2, AllTake
<1> HIDE DEF q, a
<1>7. /\ UNCHANGED <<cmd, sess, flist, at, k, flags, result, got, service, remote, faults, deaths>>
      /\ cpc' = (IF cmd = "ls" THEN "quit" ELSE "next") /\ spc' = spc
  BY DEF ReadDents, Goto, ClientOnly, service
<1>8. CommandInv' /\ ClientTyped'
  BY <1>0, <1>7 DEF ExchangeInv, CommandInv, TypeOK, ClientTyped
<1>9. c2s'[sess'] = q /\ s2c'[sess'] = << >> /\ spc'[sess'] = spc[sess]
  BY <1>2, <1>4, <1>7
<1>10. RestPhase(c2s[sess], s2c[sess])'
  BY <1>2, <1>3, <1>5, <1>9 DEF ListPhase, RestPhase, Gone
<1>11. Connected(sess) => spc[sess] = "cmd"
  BY <1>2, <1>3, <1>6 DEF ListStep
<1>12. PhaseOf(c2s[sess], s2c[sess])' /\ (Connected(sess) => StepOf(c2s[sess], s2c[sess])')
  BY <1>3, <1>7, <1>9, <1>10, <1>11 DEF PhaseOf, StepOf, NoSend
<1> QED
  BY <1>0, <1>1, <1>2, <1>7, <1>8, <1>12, ClientKeeps

LEMMA SkipKeeps == ASSUME ExchangeInv, Skip PROVE ExchangeInv'
<1>0. cpc = "next" /\ cpc # "idle" /\ at <= Len(flist)
  BY DEF Skip
<1>1. /\ sess \in Sessions /\ PhaseOf(c2s[sess], s2c[sess]) /\ QueueOf(sess, c2s[sess])
      /\ (Connected(sess) => StepOf(c2s[sess], s2c[sess])) /\ at \in Nat \ {0}
      /\ Len(flist) \in Nat
  BY <1>0, ClientFacts
<1>2. /\ UNCHANGED <<cmd, cpc, sess, flist, k, flags, result, got, stream, service, remote,
                     faults, deaths>>
      /\ at' = at + 1
  BY DEF Skip, ClientOnly
<1>3. OwnStream
  BY <1>2 DEF OwnStream, ExchangeInv, TypeOK, stream
<1>4. at + 1 \in 1..(Len(flist) + 1)
  BY <1>0, <1>1
<1>5. CommandInv' /\ ClientTyped'
  BY <1>0, <1>2, <1>4 DEF ExchangeInv, CommandInv, TypeOK, ClientTyped
<1>6. c2s'[sess'] = c2s[sess] /\ s2c'[sess'] = s2c[sess] /\ spc'[sess'] = spc[sess]
  BY <1>2 DEF stream, service
<1>7. PhaseOf(c2s[sess], s2c[sess])' /\ (Connected(sess) => StepOf(c2s[sess], s2c[sess])')
  BY <1>0, <1>1, <1>2, <1>6 DEF PhaseOf, StepOf, RestPhase, Gone, NoSend
<1>8. QueueOf(sess, c2s'[sess])
  BY <1>1, <1>2, <1>6
<1> QED
  BY <1>0, <1>2, <1>3, <1>5, <1>7, <1>8, ClientKeeps

LEMMA AskSendKeeps == ASSUME ExchangeInv, AskSend PROVE ExchangeInv'
<1> DEFINE q == c2s[sess]
           a == s2c[sess]
           f == flist[at]
           m == <<"SEND", f>>
           x == Append(q, m)
<1>0. cpc = "next" /\ cpc # "idle" /\ at <= Len(flist) /\ f \notin flags
      /\ cmd \notin {"would", "pull"}
  BY DEF AskSend, Todo
<1>1. cmd \in {"push", "one", "sync"} /\ flist \in Seq(Files)
  BY <1>0, Constants DEF ExchangeInv, CommandInv, TypeOK
<1>2. /\ sess \in Sessions /\ q \in Seq(Requests) /\ a \in Seq(Answers) /\ Len(q) \in Nat
      /\ PhaseOf(q, a) /\ QueueOf(sess, q) /\ (Connected(sess) => StepOf(q, a))
      /\ (q = << >> <=> Len(q) = 0) /\ f \in Files /\ Len(a) \in Nat /\ (a = << >> <=> Len(a) = 0)
  BY <1>0, <1>1, ClientFacts DEF ExchangeInv
<1>3. m \in Requests /\ m[1] = "SEND" /\ m[2] = f
  BY <1>2, RequestKinds
<1> HIDE DEF m
<1>4. /\ OwnStream /\ s2c'[sess] = a
      /\ Connected(sess) => c2s'[sess] = x
      /\ ~Connected(sess) => c2s'[sess] = q
  BY <1>2, <1>3, TellFacts DEF AskSend, ExchangeInv, m
<1>5. Len(x) = Len(q) + 1 /\ x # << >> /\ (q = << >> => Tail(x) = << >> /\ x[1] = m)
  BY <1>2, <1>3, Put, TailPut
<1> HIDE DEF q, a, f, x
<1>6. /\ UNCHANGED <<cmd, sess, flist, at, flags, result, got, service, remote, faults, deaths>>
      /\ cpc' = "data" /\ k' = 0 /\ spc' = spc
  BY DEF AskSend, ClientOnly, service
<1>7. RestPhase(q, a) /\ (Connected(sess) => spc[sess] = "cmd")
  BY <1>0, <1>2 DEF StepOf, PhaseOf
<1>8. Readable[f] \in Nat
  BY <1>2, Constants
<1>9. CommandInv' /\ ClientTyped'
  BY <1>0, <1>1, <1>6, <1>8, SMTT(30) DEF ExchangeInv, CommandInv, TypeOK, ClientTyped, f
<1>10. /\ Connected(sess) => /\ c2s'[sess] = x /\ spc[sess] = "cmd" /\ x # << >> /\ Len(x) = 1
                             /\ x[1][1] = "SEND" /\ x[1][2] = f /\ Tail(x) = << >>
       /\ ~Connected(sess) => c2s'[sess] = q
       /\ a = << >>
  BY <1>2, <1>3, <1>4, <1>5, <1>7 DEF RestPhase, Gone
<1>11. Body(<< >>, f, 0)
  BY <1>2, <1>8, BodyEmpty
<1>12. QueueOf(sess, c2s'[sess])
  BY <1>2, <1>10, <1>11 DEF QueueOf
<1>13. c2s'[sess'] = c2s'[sess] /\ s2c'[sess'] = << >> /\ spc'[sess'] = spc[sess]
       /\ flist'[at'] = f
  BY <1>4, <1>6, <1>10 DEF f
<1>14. SendPhase(c2s[sess], s2c[sess])'
  BY <1>2, <1>7, <1>10, <1>13, AllEmpty DEF SendPhase, RestPhase, Gone, Doing
<1>15. Connected(sess) => DataStep(c2s[sess], s2c[sess])'
  BY <1>6, <1>10, <1>13 DEF DataStep, Doing
<1>16. PhaseOf(c2s[sess], s2c[sess])' /\ (Connected(sess) => StepOf(c2s[sess], s2c[sess])')
  BY <1>1, <1>6, <1>14, <1>15 DEF PhaseOf, StepOf
<1> QED
  BY <1>0, <1>4, <1>6, <1>9, <1>12, <1>16, ClientKeeps


\* The client sends the next message of a file, a chunk or its end.
LEMMA Sending ==
    ASSUME ExchangeInv, cpc = "data", NEW m \in Requests, Tell(m),
           \/ m = <<"DATA", Local[flist[at]][k + 1]>> /\ k < Readable[flist[at]]
           \/ m = <<"DONE", LocalTime>> /\ k = Readable[flist[at]]
    PROVE  LET q == c2s[sess]
               x == c2s'[sess]
               a == s2c[sess]
           IN  /\ OwnStream /\ s2c'[sess] = a /\ QueueOf(sess, x) /\ SendPhase(x, a)
               /\ Connected(sess) => /\ Len(x) \in Nat /\ x # << >> /\ x[Len(x)] = m
                                     /\ \/ Doing(x, "SEND") /\ Len(x) = k + 2 /\ a = << >>
                                        \/ /\ AtFile("file")
                                           /\ IF sess \in sopen
                                                THEN sk[sess] + Len(x) = k + 1 /\ a = << >>
                                                ELSE /\ a # << >>
                                                     /\ m[1] = "DATA" => All(x, {"DATA"})
<1> DEFINE q == c2s[sess]
           a == s2c[sess]
           f == flist[at]
           x == Append(q, m)
<1>1. cpc # "idle" /\ at <= Len(flist) /\ cmd \in {"push", "one", "sync"} /\ flist \in Seq(Files)
      /\ k \in Nat
  BY DEF ExchangeInv, CommandInv, TypeOK
<1>2. /\ sess \in Sessions /\ q \in Seq(Requests) /\ a \in Seq(Answers) /\ Len(q) \in Nat
      /\ PhaseOf(q, a) /\ QueueOf(sess, q) /\ (Connected(sess) => StepOf(q, a)) /\ f \in Files
  BY <1>1, ClientFacts
<1>0. Readable[f] \in Nat /\ m[1] \in {"DATA", "DONE"}
  BY <1>2, Constants
<1>3. k <= Readable[f]
  BY <1>0, <1>1
<1>4. /\ OwnStream /\ s2c'[sess] = a
      /\ Connected(sess) => c2s'[sess] = x
      /\ ~Connected(sess) => c2s'[sess] = q
  BY <1>2, TellFacts DEF ExchangeInv
<1>5. Len(x) = Len(q) + 1 /\ x # << >> /\ x[Len(x)] = m /\ x \in Seq(Requests)
  BY <1>2, Put
<1>6. SendPhase(q, a) /\ (Connected(sess) => DataStep(q, a))
  BY <1>2 DEF PhaseOf, StepOf
<1>7. CASE ~Connected(sess)
  BY <1>2, <1>4, <1>6, <1>7
<1>8. CASE Connected(sess) /\ Doing(q, "SEND") /\ Len(q) = k + 1 /\ a = << >>
  <2>0. c2s'[sess] = x /\ Len(x) \in Nat
    BY <1>2, <1>4, <1>5, <1>8
  <2>1. q # << >> /\ q[1][1] = "SEND" /\ q[1][2] = f /\ spc[sess] = "cmd"
    BY <1>8 DEF Doing
  <2>2. /\ Tail(x) = Append(Tail(q), m) /\ x[1] = q[1] /\ Tail(q) \in Seq(Requests)
        /\ Len(Tail(q)) = k
    BY <1>1, <1>2, <1>8, <2>1, Take, TailPut
  <2>3. ~All(q, {"STAT"})
    BY <1>2, <2>1, AllTake
  <2>4. Body(Tail(q), f, 0) /\ sess \notin sopen
    BY <1>2, <2>1, <2>3 DEF QueueOf
  <2>5. 0 + Len(Tail(q)) = k /\ 0 \in Nat
    BY <1>1, <2>2
  <2>6. Body(Append(Tail(q), m), f, 0)
    BY <2>2, <2>4, <2>5, <1>0, <1>1, <1>2, <1>3, BodyGoesOn
  <2> HIDE DEF q, x, a
  <2>7. QueueOf(sess, x)
    BY <2>1, <2>2, <2>4, <2>6, <1>2, <1>5 DEF QueueOf
  <2>8. Doing(x, "SEND") /\ Len(x) = k + 2
    BY <2>1, <2>2, <1>1, <1>5, <1>8 DEF Doing, f
  <2>9. SendPhase(x, a)
    BY <2>8, <1>6, <1>8 DEF SendPhase
  <2> QED
    BY <2>7, <2>8, <2>9, <2>0, <1>4, <1>5, <1>8 DEF q, a
<1>9. CASE Connected(sess) /\ AtFile("file") /\ sess \in sopen /\ sk[sess] + Len(q) = k /\ a = << >>
  <2>0. c2s'[sess] = x /\ Len(x) \in Nat
    BY <1>2, <1>4, <1>5, <1>9
  <2>1. spc[sess] = "file" /\ sfile[sess] = f /\ Body(q, f, sk[sess]) /\ sk[sess] \in Nat
    BY <1>2, <1>9 DEF AtFile, QueueOf, ExchangeInv, TypeOK
  <2>2. Body(x, f, sk[sess])
    BY <2>1, <1>0, <1>1, <1>2, <1>3, <1>9, BodyGoesOn
  <2>3. All(x, {"DATA", "DONE"}) /\ LastOnly(x, {"DONE"})
    BY <2>1, <2>2, <1>2, <1>5, BodyCut
  <2>4. sk[sess] + Len(x) = k + 1
    BY <2>1, <1>1, <1>2, <1>5, <1>9
  <2> HIDE DEF q, x, a
  <2>5. QueueOf(sess, x)
    BY <2>1, <2>2, <2>3, <1>2, <1>9 DEF QueueOf
  <2>6. SendPhase(x, a)
    BY <1>6, <1>9 DEF SendPhase
  <2> QED
    BY <2>4, <2>5, <2>6, <2>0, <1>4, <1>5, <1>9 DEF q, a
<1>10. CASE Connected(sess) /\ AtFile("file") /\ sess \notin sopen /\ a # << >> /\ All(q, {"DATA"})
  <2>0. c2s'[sess] = x /\ Len(x) \in Nat
    BY <1>2, <1>4, <1>5, <1>10
  <2>1. spc[sess] = "file" /\ All(q, {"DATA", "DONE"})
    BY <1>10, AllMore DEF AtFile
  <2>2. All(x, {"DATA", "DONE"}) /\ LastOnly(x, {"DONE"}) /\ (m[1] = "DATA" => All(x, {"DATA"}))
    BY <2>1, <1>0, <1>2, <1>10, AllPut, LastPut
  <2> HIDE DEF q, x, a
  <2>3. QueueOf(sess, x)
    BY <2>1, <2>2, <1>2, <1>10 DEF QueueOf
  <2>4. ~Gone(q) /\ SendPhase(x, a)
    BY <2>1, <1>6, <1>10 DEF SendPhase, Gone
  <2> QED
    BY <2>2, <2>3, <2>4, <2>0, <1>4, <1>5, <1>10 DEF q, a
<1> QED
  BY <1>6, <1>7, <1>8, <1>9, <1>10 DEF DataStep

LEMMA SendChunkKeeps == ASSUME ExchangeInv, SendChunk PROVE ExchangeInv'
<1> DEFINE x == c2s'[sess]
           a == s2c[sess]
           f == flist[at]
           m == <<"DATA", Local[f][k + 1]>>
<1>0. cpc = "data" /\ cpc # "idle" /\ k < Readable[f] /\ Tell(m)
  BY DEF SendChunk
<1>1. at <= Len(flist) /\ cmd \in {"push", "one", "sync"} /\ flist \in Seq(Files) /\ k \in Nat
  BY <1>0 DEF ExchangeInv, CommandInv, TypeOK
<1>2. sess \in Sessions /\ f \in Files
  BY <1>0, <1>1, ClientFacts
<1>3. Readable[f] \in Nat
  BY <1>2, Constants
<1>4. m \in Requests /\ m[1] = "DATA"
  <2>1. k + 1 \in 1..Readable[f]
    BY <1>0, <1>1, <1>3
  <2>2. Local[f][k + 1] \in Chunks
    BY <1>2, <2>1, ChunkOf
  <2> QED
    BY <2>2, RequestKinds
<1>5. /\ OwnStream /\ s2c'[sess] = a /\ QueueOf(sess, x) /\ SendPhase(x, a)
      /\ Connected(sess) => \/ Doing(x, "SEND") /\ Len(x) = k + 2 /\ a = << >>
                            \/ /\ AtFile("file")
                               /\ IF sess \in sopen THEN sk[sess] + Len(x) = k + 1 /\ a = << >>
                                  ELSE a # << >> /\ All(x, {"DATA"})
  BY <1>0, <1>4, Sending
<1> HIDE DEF x, a, f, m
<1>6. UNCHANGED <<cmd, cpc, sess, flist, at, flags, result, got, service, remote, faults, deaths>>
      /\ k' = k + 1
      /\ UNCHANGED <<spc, sfile, sk, sopen>>
  BY DEF SendChunk, ClientOnly, service
<1>7. CommandInv' /\ ClientTyped'
  <2>1. k' \in Nat /\ k' <= Readable[flist'[at']] /\ cpc' # "idle"
    BY <1>0, <1>1, <1>3, <1>6 DEF f
  <2> QED
    BY <2>1, <1>0, <1>1, <1>6 DEF ExchangeInv, CommandInv, TypeOK, ClientTyped
<1>8. c2s'[sess'] = x /\ s2c'[sess'] = a
  BY <1>5, <1>6 DEF x
<1>9. SendPhase(c2s[sess], s2c[sess])'
  BY <1>5, <1>6, <1>8 DEF SendPhase, Gone, Doing, AtFile
<1>10. Connected(sess) => DataStep(c2s[sess], s2c[sess])'
  BY <1>1, <1>5, <1>6, <1>8 DEF DataStep, Doing, AtFile
<1>11. PhaseOf(c2s[sess], s2c[sess])' /\ (Connected(sess) => StepOf(c2s[sess], s2c[sess])')
  BY <1>0, <1>1, <1>6, <1>9, <1>10 DEF PhaseOf, StepOf
<1> QED
  BY <1>0, <1>5, <1>6, <1>7, <1>11, ClientKeeps DEF x

LEMMA SendDoneKeeps == ASSUME ExchangeInv, SendDone PROVE ExchangeInv'
<1> DEFINE x == c2s'[sess]
           a == s2c[sess]
           f == flist[at]
           m == <<"DONE", LocalTime>>
<1>0. cpc = "data" /\ cpc # "idle" /\ k = Readable[f] /\ Tell(m)
  BY DEF SendDone
<1>1. at <= Len(flist) /\ cmd \in {"push", "one", "sync"} /\ flist \in Seq(Files) /\ k \in Nat
  BY <1>0 DEF ExchangeInv, CommandInv, TypeOK
<1>2. sess \in Sessions /\ f \in Files
  BY <1>0, <1>1, ClientFacts
<1>3. m \in Requests /\ m[1] = "DONE"
  BY RequestKinds
<1>4. /\ OwnStream /\ s2c'[sess] = a /\ QueueOf(sess, x) /\ SendPhase(x, a)
      /\ Connected(sess) => /\ x # << >> /\ x[Len(x)] = m
                            /\ \/ Doing(x, "SEND") /\ Len(x) = k + 2 /\ a = << >>
                               \/ /\ AtFile("file")
                                  /\ IF sess \in sopen
                                       THEN sk[sess] + Len(x) = k + 1 /\ a = << >>
                                       ELSE a # << >>
  BY <1>0, <1>3, Sending
<1>5. All(a, {"FAIL"}) /\ (All(a, {"FAIL"}) => All(a, {"FAIL", "OKAY"}))
  BY <1>0, <1>4, AllMore DEF SendPhase
<1> HIDE DEF x, a, f, m
<1>6. /\ UNCHANGED <<cmd, sess, flist, at, k, flags, result, got, service, remote, faults, deaths>>
      /\ cpc' = "status"
      /\ UNCHANGED <<spc, sfile, sk, sopen>>
  BY DEF SendDone, ClientOnly, Goto, service
<1>7. CommandInv' /\ ClientTyped'
  BY <1>0, <1>1, <1>6 DEF ExchangeInv, CommandInv, TypeOK, ClientTyped, f
<1>8. c2s'[sess'] = x /\ s2c'[sess'] = a /\ flist'[at'] = f
  BY <1>4, <1>6 DEF x, f
<1>9. SendPhase(c2s[sess], s2c[sess])'
  BY <1>4, <1>5, <1>6, <1>8 DEF SendPhase, Gone, Doing, AtFile
<1>10. Connected(sess) => StatusStep(c2s[sess], s2c[sess])'
  BY <1>0, <1>3, <1>4, <1>6, <1>8 DEF StatusStep, Doing, AtFile
<1>11. PhaseOf(c2s[sess], s2c[sess])' /\ (Connected(sess) => StepOf(c2s[sess], s2c[sess])')
  BY <1>1, <1>6, <1>9, <1>10 DEF PhaseOf, StepOf
<1> QED
  BY <1>0, <1>4, <1>6, <1>7, <1>11, ClientKeeps DEF x

LEMMA ReadStatusKeeps == ASSUME ExchangeInv, ReadStatus PROVE ExchangeInv'
<1> DEFINE q == c2s[sess]
           a == s2c[sess]
<1>0. cpc = "status" /\ cpc # "idle"
  BY DEF ReadStatus
<1>1. /\ sess \in Sessions /\ q \in Seq(Requests) /\ a \in Seq(Answers) /\ Len(a) \in Nat
      /\ PhaseOf(q, a) /\ QueueOf(sess, q) /\ (Connected(sess) => StepOf(q, a))
      /\ at \in Nat \ {0} /\ Len(flist) \in Nat /\ at <= Len(flist)
      /\ (a = << >> <=> Len(a) = 0)
  BY <1>0, ClientFacts DEF ExchangeInv, CommandInv
<1>2. /\ OwnStream /\ s2c'[sess] = Tail(a) /\ c2s'[sess] = q /\ a # << >> /\ Hear = a[1]
      /\ Hear[1] \in {"OKAY", "FAIL"}
  BY <1>1, HeardFacts DEF ReadStatus, ExchangeInv
<1>3. SendPhase(q, a) /\ (Connected(sess) => StatusStep(q, a))
  BY <1>0, <1>1 DEF StepOf, PhaseOf
<1>4. Len(a) = 1
  <2> DEFINE n == Len(a)
  <2>1. n <= 1 /\ n # 0 /\ n \in Nat
    BY <1>1, <1>2, <1>3 DEF SendPhase
  <2> HIDE DEF n
  <2>2. n = 1
    BY <2>1
  <2> QED
    BY <2>2 DEF n
<1>5. Tail(a) = << >>
  BY <1>1, <1>2, <1>4, Take
<1>6. at + 1 \in 1..(Len(flist) + 1)
  BY <1>1
<1>7. cmd \in {"push", "one", "sync"} /\ flist \in Seq(Files)
  BY <1>0 DEF ExchangeInv, CommandInv
<1> HIDE DEF q, a
<1>8. /\ UNCHANGED <<cmd, sess, flist, flags, got, service, remote, faults, deaths>> /\ spc' = spc
      /\ \/ cpc' = "next" /\ at' = at + 1 /\ UNCHANGED <<k, result>> /\ Hear[1] = "OKAY"
         \/ cpc' = "idle" /\ result' = "error" /\ k' = 0 /\ at' = at
  BY DEF ReadStatus, Return, ClientOnly, service
<1>9. c2s'[sess'] = q /\ s2c'[sess'] = << >> /\ spc'[sess'] = spc[sess]
  BY <1>2, <1>5, <1>8
<1>10. CASE cpc' = "next"
  <2>1. at' = at + 1 /\ UNCHANGED <<k, result>> /\ Hear[1] = "OKAY"
    BY <1>8, <1>10
  <2>2. Gone(q)
    BY <2>1, <1>2, <1>3 DEF SendPhase
  <2>3. RestPhase(c2s[sess], s2c[sess])'
    BY <2>2, <1>9 DEF RestPhase, Gone
  <2>4. Connected(sess) => spc[sess] = "cmd"
    BY <2>2, <1>2, <1>3 DEF StatusStep, Gone, AtFile, Connected
  <2>5. CommandInv' /\ ClientTyped'
    BY <2>1, <1>0, <1>6, <1>7, <1>8, <1>10 DEF ExchangeInv, CommandInv, TypeOK, ClientTyped
  <2>6. PhaseOf(c2s[sess], s2c[sess])' /\ (Connected(sess) => StepOf(c2s[sess], s2c[sess])')
    BY <2>3, <2>4, <1>7, <1>8, <1>9, <1>10 DEF PhaseOf, StepOf
  <2> QED
    BY <2>5, <2>6, <1>0, <1>1, <1>2, <1>8, ClientKeeps
<1>11. CASE cpc' = "idle"
  <2>1. result' = "error" /\ k' = 0 /\ at' = at
    BY <1>8, <1>11
  <2>2. CommandInv' /\ ClientTyped'
    BY <2>1, <1>0, <1>7, <1>8, <1>11 DEF ExchangeInv, CommandInv, TypeOK, ClientTyped
  <2>3. PhaseOf(c2s[sess], s2c[sess])'
    BY <1>7, <1>8, <1>11 DEF PhaseOf
  <2> QED
    BY <2>2, <2>3, <1>0, <1>1, <1>2, <1>8, <1>11, ClientKeeps
<1> QED
  BY <1>8, <1>10, <1>11

LEMMA AskRecvKeeps == ASSUME ExchangeInv, AskRecv PROVE ExchangeInv'
<1> DEFINE q == c2s[sess]
           a == s2c[sess]
           f == flist[at]
           m == <<"RECV", f>>
           x == Append(q, m)
<1>0. cpc = "next" /\ cpc # "idle" /\ at <= Len(flist) /\ cmd = "pull"
  BY DEF AskRecv, Todo
<1>1. flist \in Seq(Files)
  BY <1>0 DEF ExchangeInv, CommandInv
<1>2. /\ sess \in Sessions /\ q \in Seq(Requests) /\ a \in Seq(Answers) /\ Len(q) \in Nat
      /\ PhaseOf(q, a) /\ QueueOf(sess, q) /\ (Connected(sess) => StepOf(q, a))
      /\ (q = << >> <=> Len(q) = 0) /\ f \in Files
  BY <1>0, <1>1, ClientFacts DEF ExchangeInv
<1>3. m \in Requests /\ m[1] = "RECV" /\ m[2] = f
  BY <1>2, RequestKinds
<1> HIDE DEF m
<1>4. /\ OwnStream /\ s2c'[sess] = a
      /\ Connected(sess) => c2s'[sess] = x
      /\ ~Connected(sess) => c2s'[sess] = q
  BY <1>2, <1>3, TellFacts DEF AskRecv, ExchangeInv, m
<1>5. Len(x) = Len(q) + 1 /\ x # << >> /\ (q = << >> => x[1] = m)
  BY <1>2, <1>3, Put, TailPut
<1> HIDE DEF q, a, f, x
<1>6. /\ UNCHANGED <<cmd, sess, flist, at, k, flags, result, got, service, remote, faults, deaths>>
      /\ cpc' = "first" /\ spc' = spc
  BY DEF AskRecv, ClientOnly, Goto, service
<1>7. RestPhase(q, a) /\ NoSend(q) /\ (Connected(sess) => spc[sess] = "cmd")
  BY <1>0, <1>2 DEF StepOf, PhaseOf
<1>8. CommandInv' /\ ClientTyped'
  BY <1>0, <1>1, <1>6 DEF ExchangeInv, CommandInv, TypeOK, ClientTyped
<1>9. /\ Connected(sess) => /\ c2s'[sess] = x /\ spc[sess] = "cmd" /\ x # << >> /\ Len(x) = 1
                            /\ x[1][1] = "RECV" /\ x[1][2] = f
      /\ ~Connected(sess) => c2s'[sess] = q
      /\ a = << >>
  BY <1>2, <1>3, <1>4, <1>5, <1>7 DEF RestPhase, Gone
<1>10. QueueOf(sess, c2s'[sess])
  BY <1>2, <1>9 DEF QueueOf
<1>11. c2s'[sess'] = c2s'[sess] /\ s2c'[sess'] = << >> /\ spc'[sess'] = spc[sess]
       /\ flist'[at'] = f
  BY <1>4, <1>6, <1>9 DEF f
<1>12. RecvPhase(c2s[sess], s2c[sess])' /\ NoSend(c2s[sess])'
  BY <1>7, <1>9, <1>11, AllEmpty DEF RecvPhase, RestPhase, Gone, Doing, NoSend
<1>13. Connected(sess) => RecvStep(c2s[sess], s2c[sess])'
  BY <1>6, <1>9, <1>11 DEF RecvStep, Doing
<1>14. PhaseOf(c2s[sess], s2c[sess])' /\ (Connected(sess) => StepOf(c2s[sess], s2c[sess])')
  BY <1>0, <1>6, <1>12, <1>13 DEF PhaseOf, StepOf
<1> QED
  BY <1>0, <1>4, <1>6, <1>8, <1>10, <1>14, ClientKeeps

LEMMA ReadChunkKeeps == ASSUME ExchangeInv, ReadChunk PROVE ExchangeInv'
<1> DEFINE q == c2s[sess]
           a == s2c[sess]
           x == Tail(a)
<1>0. cpc \in {"first", "more"} /\ cpc # "idle"
  BY DEF ReadChunk
<1>1. /\ sess \in Sessions /\ q \in Seq(Requests) /\ a \in Seq(Answers)
      /\ PhaseOf(q, a) /\ QueueOf(sess, q) /\ (Connected(sess) => StepOf(q, a))
  BY <1>0, ClientFacts DEF ExchangeInv
<1>2. /\ OwnStream /\ s2c'[sess] = x /\ c2s'[sess] = q /\ a # << >> /\ Hear = a[1]
      /\ Hear[1] = "DATA"
  BY <1>1, HeardFacts DEF ReadChunk, ExchangeInv
<1>3. Len(a) = 1 <=> x = << >>
  BY <1>1, <1>2, Take
<1>4. x # << >> => x[Len(x)] = a[Len(a)]
  BY <1>1, <1>2, TakeLast
<1>5. \A kinds : All(a, kinds) => All(x, kinds)
  BY <1>1, <1>2, AllTake
<1>6. \A kinds : LastOnly(a, kinds) => LastOnly(x, kinds)
  BY <1>1, <1>2, LastTake
<1> HIDE DEF q, a, x
<1>7. /\ UNCHANGED <<cmd, sess, flist, at, k, flags, service, remote, faults, deaths>>
      /\ UNCHANGED <<spc, sfile>> /\ DOMAIN got' = DOMAIN got
      /\ \/ cpc' = "more" /\ result' = result
         \/ cpc' = "idle" /\ result' = "error"
  BY DEF ReadChunk, ClientOnly, service
<1>8. RecvPhase(q, a) /\ (Connected(sess) => RecvStep(q, a)) /\ cmd = "pull" /\ NoSend(q)
  BY <1>0, <1>1 DEF StepOf, PhaseOf, ExchangeInv, CommandInv
<1>9. CommandInv' /\ ClientTyped'
  BY <1>0, <1>7 DEF ExchangeInv, CommandInv, TypeOK, ClientTyped
<1>10. c2s'[sess'] = q /\ s2c'[sess'] = x /\ spc'[sess'] = spc[sess]
       /\ sfile'[sess'] = sfile[sess] /\ flist'[at'] = flist[at]
  BY <1>2, <1>7
<1>11. RecvPhase(c2s[sess], s2c[sess])' /\ NoSend(c2s[sess])'
  BY <1>2, <1>3, <1>4, <1>5, <1>6, <1>8, <1>10 DEF RecvPhase, NoSend, Gone, Doing, AtFile
<1>12. Connected(sess) => RecvStep(c2s[sess], s2c[sess])'
  BY <1>2, <1>3, <1>4, <1>5, <1>8, <1>10 DEF RecvStep, AtFile
<1>13. /\ PhaseOf(c2s[sess], s2c[sess])'
       /\ (cpc' # "idle" /\ Connected(sess) => StepOf(c2s[sess], s2c[sess])')
  BY <1>7, <1>8, <1>11, <1>12 DEF PhaseOf, StepOf
<1> QED
  BY <1>0, <1>1, <1>2, <1>7, <1>9, <1>13, ClientKeeps

LEMMA CreatFailsKeeps == ASSUME ExchangeInv, CreatFails PROVE ExchangeInv'
<1> DEFINE q == c2s[sess]
           a == s2c[sess]
           x == Tail(a)
<1>0. cpc = "first" /\ cpc # "idle"
  BY DEF CreatFails
<1>1. /\ sess \in Sessions /\ q \in Seq(Requests) /\ PhaseOf(q, a) /\ QueueOf(sess, q)
  BY <1>0, ClientFacts DEF ExchangeInv
<1>2. OwnStream /\ s2c'[sess] = x /\ c2s'[sess] = q
  BY <1>1, HeardFacts DEF CreatFails, ExchangeInv
<1> HIDE DEF q, a, x
<1>3. /\ UNCHANGED <<cmd, sess, flist, at, k, flags, service, remote, faults, deaths>>
      /\ UNCHANGED <<spc, sfile>> /\ DOMAIN got' = DOMAIN got
      /\ cpc' = "idle" /\ result' = "error"
  BY DEF CreatFails, ClientOnly, service
<1>4. cmd = "pull" /\ NoSend(q)
  BY <1>0, <1>1 DEF PhaseOf, ExchangeInv, CommandInv
<1>5. CommandInv' /\ ClientTyped'
  BY <1>0, <1>3 DEF ExchangeInv, CommandInv, TypeOK, ClientTyped
<1>6. PhaseOf(c2s[sess], s2c[sess])'
  BY <1>2, <1>3, <1>4 DEF PhaseOf, NoSend
<1> QED
  BY <1>0, <1>1, <1>2, <1>3, <1>5, <1>6, ClientKeeps DEF q

LEMMA ReadEndKeeps == ASSUME ExchangeInv, ReadEnd PROVE ExchangeInv'
<1> DEFINE q == c2s[sess]
           a == s2c[sess]
<1>0. cpc \in {"first", "more"} /\ cpc # "idle"
  BY DEF ReadEnd
<1>1. /\ sess \in Sessions /\ q \in Seq(Requests) /\ a \in Seq(Answers)
      /\ PhaseOf(q, a) /\ QueueOf(sess, q) /\ (Connected(sess) => StepOf(q, a))
      /\ at \in Nat \ {0} /\ Len(flist) \in Nat /\ at <= Len(flist)
  BY <1>0, ClientFacts DEF ExchangeInv, CommandInv
<1>2. /\ OwnStream /\ s2c'[sess] = Tail(a) /\ c2s'[sess] = q /\ a # << >> /\ Hear = a[1]
      /\ Hear[1] \in {"DONE", "FAIL"}
  BY <1>1, HeardFacts DEF ReadEnd, ExchangeInv
<1>3. RecvPhase(q, a) /\ (Connected(sess) => RecvStep(q, a)) /\ cmd = "pull" /\ NoSend(q)
  BY <1>0, <1>1 DEF StepOf, PhaseOf, ExchangeInv, CommandInv
<1>4. Tail(a) = << >>
  BY <1>1, <1>2, <1>3, LastTake DEF RecvPhase
<1>5. Len(a) = 1
  BY <1>1, <1>2, <1>4, Take
<1>6. All(a, {"DATA"}) => a[1][1] = "DATA"
  BY <1>1, <1>2, AllTake
<1> HIDE DEF q, a
<1>7. /\ UNCHANGED <<cmd, sess, flist, k, flags, result, service, remote, faults, deaths>>
      /\ cpc' = "next" /\ at' = at + 1 /\ spc' = spc /\ DOMAIN got' = DOMAIN got
  BY DEF ReadEnd, ClientOnly, service
<1>8. at + 1 \in 1..(Len(flist) + 1)
  BY <1>1
<1>9. CommandInv' /\ ClientTyped'
  BY <1>0, <1>3, <1>7, <1>8 DEF ExchangeInv, CommandInv, TypeOK, ClientTyped
<1>10. c2s'[sess'] = q /\ s2c'[sess'] = << >> /\ spc'[sess'] = spc[sess]
  BY <1>2, <1>4, <1>7
<1>11. Gone(q)
  BY <1>2, <1>3, <1>5 DEF RecvPhase
<1>12. RestPhase(c2s[sess], s2c[sess])' /\ NoSend(c2s[sess])'
  BY <1>3, <1>10, <1>11 DEF RestPhase, NoSend, Gone
<1>13. Connected(sess) => spc[sess] = "cmd"
  BY <1>11 DEF Gone, Connected
<1>14. PhaseOf(c2s[sess], s2c[sess])' /\ (Connected(sess) => StepOf(c2s[sess], s2c[sess])')
  BY <1>7, <1>10, <1>12, <1>13 DEF PhaseOf, StepOf
<1> QED
  BY <1>0, <1>1, <1>2, <1>7, <1>9, <1>14, ClientKeeps

LEMMA QuitKeeps == ASSUME ExchangeInv, Quit PROVE ExchangeInv'
<1> DEFINE q == c2s[sess]
           m == <<"QUIT", None>>
           x == Append(q, m)
<1>0. cpc \in {"quit", "next"} /\ cpc # "idle"
  BY DEF Quit
<1>1. /\ sess \in Sessions /\ q \in Seq(Requests) /\ Len(q) \in Nat
      /\ PhaseOf(q, s2c[sess]) /\ QueueOf(sess, q)
      /\ (Connected(sess) => StepOf(q, s2c[sess])) /\ (q = << >> <=> Len(q) = 0)
  BY <1>0, ClientFacts DEF ExchangeInv
<1>2. m \in Requests /\ m[1] = "QUIT"
  BY RequestKinds
<1> HIDE DEF m
<1>3. /\ OwnStream /\ s2c'[sess] = s2c[sess]
      /\ Connected(sess) => c2s'[sess] = x
      /\ ~Connected(sess) => c2s'[sess] = q
  BY <1>1, <1>2, TellFacts DEF Quit, ExchangeInv, m
<1>4. Len(x) = Len(q) + 1 /\ x # << >> /\ (q = << >> => x[1] = m)
  BY <1>1, <1>2, Put, TailPut
<1> HIDE DEF q, x
<1>5. /\ UNCHANGED <<cmd, sess, flist, at, flags, got, service, remote, faults, deaths>>
      /\ cpc' = "idle" /\ result' = "okay" /\ k' = 0 /\ spc' = spc
  BY DEF Quit, Return, ClientOnly, service
<1>6. Gone(q) /\ (Connected(sess) => spc[sess] = "cmd")
      /\ (cmd \notin {"push", "one", "sync"} => NoSend(q))
  BY <1>0, <1>1 DEF PhaseOf, StepOf, RestPhase
<1>7. /\ Connected(sess) => /\ c2s'[sess] = x /\ spc[sess] = "cmd" /\ x # << >> /\ Len(x) = 1
                            /\ x[1][1] = "QUIT"
      /\ ~Connected(sess) => c2s'[sess] = q
  BY <1>1, <1>2, <1>3, <1>4, <1>6 DEF Gone
<1>8. QueueOf(sess, c2s'[sess])
  BY <1>1, <1>7 DEF QueueOf
<1>9. CommandInv' /\ ClientTyped'
  BY <1>5 DEF ExchangeInv, CommandInv, TypeOK, ClientTyped
<1>10. PhaseOf(c2s[sess], s2c[sess])'
  BY <1>5, <1>6, <1>7 DEF PhaseOf, NoSend
<1> QED
  BY <1>0, <1>3, <1>5, <1>8, <1>9, <1>10, ClientKeeps

LEMMA ConnectionLostKeeps == ASSUME ExchangeInv, ConnectionLost PROVE ExchangeInv'
<1>0. cpc # "idle"
  BY DEF ConnectionLost
<1>1. sess \in Sessions /\ PhaseOf(c2s[sess], s2c[sess]) /\ QueueOf(sess, c2s[sess])
  BY <1>0, ClientFacts
<1>2. /\ UNCHANGED <<cmd, sess, flist, at, flags, got, service, remote, faults, deaths, stream>>
      /\ cpc' = "idle" /\ result' = "error" /\ k' = 0
  BY DEF ConnectionLost, Return, ClientOnly
<1>3. OwnStream
  BY <1>2 DEF OwnStream, ExchangeInv, TypeOK, stream
<1>4. CommandInv' /\ ClientTyped'
  BY <1>2 DEF ExchangeInv, CommandInv, TypeOK, ClientTyped
<1>5. c2s'[sess'] = c2s[sess] /\ spc'[sess'] = spc[sess] /\ c2s'[sess] = c2s[sess]
  BY <1>2 DEF stream, service
<1>6. PhaseOf(c2s[sess], s2c[sess])'
  BY <1>1, <1>2, <1>5 DEF PhaseOf, NoSend
<1> QED
  BY <1>0, <1>1, <1>2, <1>3, <1>4, <1>5, <1>6, ClientKeeps

\* The steps of the client keep the invariant.
LEMMA ClientStepKeeps == ASSUME ExchangeInv, Client PROVE ExchangeInv'
  BY ConnectionLostKeeps, AskStatKeeps, ReadStatKeeps, AskListKeeps, ReadDentKeeps,
     ReadDentsKeeps, SkipKeeps, AskSendKeeps, SendChunkKeeps, SendDoneKeeps, ReadStatusKeeps,
     AskRecvKeeps, CreatFailsKeeps, ReadChunkKeeps, ReadEndKeeps, QuitKeeps
     DEF Client

-----------------------------------------------------------------------------
(* The service's steps *)

\* What a service has that has started and not ended.
LEMMA ServiceFacts ==
    ASSUME ExchangeInv, NEW s \in Sessions, spc[s] \in {"cmd", "dir", "file", "read"}
    PROVE  /\ s \in Nat \ {0} /\ sess \in Nat /\ s <= sess
           /\ c2s[s] \in Seq(Requests) /\ s2c[s] \in Seq(Answers) /\ QueueOf(s, c2s[s])
           /\ Len(c2s[s]) \in Nat /\ Len(s2c[s]) \in Nat
           /\ (c2s[s] = << >> <=> Len(c2s[s]) = 0) /\ (s2c[s] = << >> <=> Len(s2c[s]) = 0)
           /\ sk[s] \in Nat /\ (spc[s] # "file" => s \notin sopen)
           /\ s = sess => PhaseOf(c2s[sess], s2c[sess])
           /\ s = sess /\ cpc # "idle" /\ Connected(sess) => StepOf(c2s[sess], s2c[sess])
<1>1. s \in Nat \ {0} /\ sess \in Nat
  BY Constants DEF ExchangeInv, TypeOK, Sessions
<1>2. c2s[s] \in Seq(Requests) /\ s2c[s] \in Seq(Answers) /\ sk[s] \in Nat
  BY DEF ExchangeInv, TypeOK
<1>3. /\ Len(c2s[s]) \in Nat /\ Len(s2c[s]) \in Nat
      /\ (c2s[s] = << >> <=> Len(c2s[s]) = 0) /\ (s2c[s] = << >> <=> Len(s2c[s]) = 0)
  BY <1>2, Empty
<1>4. QueueOf(s, c2s[s])
  BY DEF ExchangeInv, QueueInv
<1>5. s <= sess /\ (spc[s] # "file" => s \notin sopen)
  BY <1>1, <1>4 DEF QueueOf
<1>6. s = sess => PhaseOf(c2s[sess], s2c[sess])
  BY <1>1, <1>5 DEF ExchangeInv, PhaseInv
<1>7. s = sess /\ cpc # "idle" /\ Connected(sess) => StepOf(c2s[sess], s2c[sess])
  BY DEF ExchangeInv, StepInv
<1> QED
  BY <1>1, <1>2, <1>3, <1>4, <1>5, <1>6, <1>7

\* Where the client is, by what the service of its session does.
LEMMA ClientAt ==
    ASSUME ExchangeInv, sess \in Sessions, spc[sess] \in {"cmd", "dir", "file", "read"}
    PROVE  LET q == c2s[sess]
           IN  /\ spc[sess] = "dir" => cpc \in {"idle", "dents"}
               /\ spc[sess] = "file" => cpc \in {"idle", "data", "status"}
               /\ spc[sess] = "read" => cpc \in {"idle", "first", "more"}
               /\ spc[sess] = "cmd" /\ q # << >> =>
                    /\ q[1][1] = "STAT" => cpc \in {"idle", "ask", "stats"}
                    /\ q[1][1] = "LIST" => cpc \in {"idle", "dents"}
                    /\ q[1][1] = "SEND" => cpc \in {"idle", "data", "status"}
                    /\ q[1][1] = "RECV" => cpc \in {"idle", "first", "more"}
                    /\ q[1][1] = "QUIT" => cpc = "idle"
<1> DEFINE q == c2s[sess]
<1>1. PhaseOf(q, s2c[sess]) /\ q \in Seq(Requests)
  BY ServiceFacts
<1>2. cpc \in {"idle", "ask", "stats", "list", "dents", "next", "data", "status",
               "first", "more", "quit"}
  BY DEF ExchangeInv, TypeOK
<1>3. q # << >> /\ All(q, {"STAT"}) => q[1][1] = "STAT"
  BY <1>1, AllTake
<1> HIDE DEF q
<1>4. CASE cpc \in {"ask", "stats"}
  BY <1>1, <1>3, <1>4 DEF PhaseOf, StatsPhase, Gone, q
<1>5. CASE cpc \in {"list", "next", "quit"}
  BY <1>1, <1>5 DEF PhaseOf, RestPhase, Gone, q
<1>6. CASE cpc = "dents"
  BY <1>1, <1>6 DEF PhaseOf, ListPhase, Gone, q
<1>7. CASE cpc \in {"data", "status"}
  BY <1>1, <1>7 DEF PhaseOf, SendPhase, Gone, Doing, AtFile, q
<1>8. CASE cpc \in {"first", "more"}
  BY <1>1, <1>8 DEF PhaseOf, RecvPhase, Gone, Doing, AtFile, q
<1> QED
  BY <1>2, <1>4, <1>5, <1>6, <1>7, <1>8

\* A step of the service of s leaves the others alone.
OwnService(s) ==
    /\ c2s' \in [Sessions -> Seq(Requests)] /\ s2c' \in [Sessions -> Seq(Answers)]
    /\ \A r \in Sessions : Len(c2s'[r]) <= Cap /\ Len(s2c'[r]) <= Cap
    /\ \A r \in Sessions \ {s} : /\ c2s'[r] = c2s[r] /\ s2c'[r] = s2c[r] /\ spc'[r] = spc[r]
                                 /\ sfile'[r] = sfile[r] /\ sk'[r] = sk[r]
                                 /\ (r \in sopen' <=> r \in sopen)
    /\ cut' = cut /\ sopen' \subseteq Sessions
    /\ spc' \in [Sessions -> {"none", "cmd", "dir", "file", "read", "closed"}]
    /\ sfile' \in [Sessions -> Files \cup {None}] /\ sk' \in [Sessions -> Nat]
    /\ names' \in [Sessions -> Seq(Files)]
    /\ remote' \in [Files -> [by : 0..MaxSessions, data : Seq(Chunks), time : Times]]

LEMMA ServiceKeeps ==
    ASSUME ExchangeInv, NEW s \in Sessions, spc[s] \in {"cmd", "dir", "file", "read"},
           Frame, OwnService(s), QueueOf(s, c2s[s])',
           s = sess => PhaseOf(c2s[sess], s2c[sess])',
           s = sess /\ cpc # "idle" /\ Connected(sess) /\ spc'[s] # "closed" =>
                StepOf(c2s[sess], s2c[sess])'
    PROVE  ExchangeInv'
<1>0. s \in Nat \ {0} /\ sess \in Nat /\ s <= sess /\ spc[s] # "closed"
  BY ServiceFacts
<1>1. UNCHANGED <<cmd, cpc, sess, flist, at, k, flags, result, got, faults, deaths>>
  BY DEF Frame, client
<1>2. TypeOK'
  BY <1>1 DEF ExchangeInv, TypeOK, OwnService
<1>3. QueueInv'
  <2> SUFFICES ASSUME NEW r \in Sessions, r # s PROVE QueueOf(r, c2s[r])'
    BY DEF QueueInv
  <2>1. QueueOf(r, c2s[r])
    BY DEF ExchangeInv, QueueInv
  <2> QED
    BY <2>1, <1>1 DEF QueueOf, OwnService
<1>4. CommandInv'
  BY <1>1 DEF ExchangeInv, CommandInv
<1>5. sess # s /\ sess > 0 => sess \in Sessions \ {s}
  BY <1>0, Constants DEF ExchangeInv, TypeOK, Sessions
<1>6. PhaseInv'
  <2>1. CASE s # sess /\ sess > 0
    <3>1. PhaseOf(c2s[sess], s2c[sess])
      BY <2>1 DEF ExchangeInv, PhaseInv
    <3>2. /\ c2s'[sess'] = c2s[sess] /\ s2c'[sess'] = s2c[sess] /\ spc'[sess'] = spc[sess]
          /\ sfile'[sess'] = sfile[sess]
      BY <2>1, <1>1, <1>5 DEF OwnService
    <3> QED
      BY <3>1, <3>2, <1>1 DEF PhaseInv, PhaseOf, StatsPhase, RestPhase, ListPhase, SendPhase,
                              RecvPhase, NoSend, Gone, Doing, AtFile
  <2> QED
    BY <2>1, <1>0, <1>1 DEF PhaseInv
<1>7. StepInv'
  <2>1. CASE s # sess /\ sess > 0 /\ cpc # "idle" /\ Connected(sess)
    <3>1. StepOf(c2s[sess], s2c[sess])
      BY <2>1 DEF ExchangeInv, StepInv
    <3>2. /\ c2s'[sess'] = c2s[sess] /\ s2c'[sess'] = s2c[sess] /\ spc'[sess'] = spc[sess]
          /\ sfile'[sess'] = sfile[sess] /\ sk'[sess'] = sk[sess]
          /\ (sess' \in sopen' <=> sess \in sopen)
      BY <2>1, <1>1, <1>5 DEF OwnService
    <3> QED
      BY <3>1, <3>2, <1>1 DEF StepInv, StepOf, AskStep, StatsStep, ListStep, DataStep, StatusStep,
                              RecvStep, Pending, Doing, AtFile
  <2>2. Connected(sess)' => sess \in 1..sess /\ spc'[sess] # "closed" /\ sess \notin cut
    BY <1>1 DEF Connected, OwnService
  <2>3. Connected(sess)' => Connected(sess)
    <3>1. CASE s = sess
      BY <3>1, <2>2, <1>0 DEF Connected
    <3>2. CASE s # sess /\ sess > 0
      BY <3>2, <2>2, <1>5 DEF Connected, OwnService
    <3> QED
      BY <3>1, <3>2, <1>0
  <2> QED
    BY <2>1, <2>2, <2>3, <1>0, <1>1 DEF StepInv
<1> QED
  BY <1>2, <1>3, <1>4, <1>6, <1>7 DEF ExchangeInv

LEMMA DoStatKeeps == ASSUME ExchangeInv, NEW s \in Sessions, DoStat(s) PROVE ExchangeInv'
<1> DEFINE q == c2s[s]
           a == s2c[s]
           x == Tail(q)
           m == <<"STAT", IF Arg(s) = Dir THEN <<0, Now>>
                          ELSE <<Len(remote[Arg(s)].data), remote[Arg(s)].time>> >>
           y == Append(a, m)
<1>0. spc[s] = "cmd" /\ Asked(s, "STAT") /\ Say(s, m, "cmd") /\ Frame
      /\ UNCHANGED <<sfile, sk, sopen, names, remote>>
  BY DEF DoStat
<1>1. /\ s \in Nat \ {0} /\ sess \in Nat /\ s <= sess
      /\ q \in Seq(Requests) /\ a \in Seq(Answers) /\ QueueOf(s, q)
      /\ Len(q) \in Nat /\ Len(a) \in Nat /\ (q = << >> <=> Len(q) = 0)
      /\ s \notin sopen /\ (s = sess => PhaseOf(q, a))
      /\ (s = sess /\ cpc # "idle" /\ Connected(sess) => StepOf(q, a))
  BY <1>0, ServiceFacts
<1>2. /\ c2s' \in [Sessions -> Seq(Requests)] /\ \A r \in Sessions : Len(c2s'[r]) <= Cap
      /\ cut' = cut
      /\ \A r \in Sessions \ {s} : c2s'[r] = c2s[r]
      /\ q # << >> /\ q[1] \in Requests /\ q[1][1] = "STAT"
      /\ Arg(s) = q[1][2] /\ c2s'[s] = x
  BY <1>0, AskedFacts DEF ExchangeInv
<1>3. m \in Answers /\ m[1] = "STAT"
  <2>1. Arg(s) \in Files \cup {Dir}
    BY <1>2, RequestKinds
  <2>2. 0 \in Nat /\ Now \in Times
    BY DEF Times
  <2>3. ASSUME Arg(s) \in Files
        PROVE  Len(remote[Arg(s)].data) \in Nat /\ remote[Arg(s)].time \in Times
    <3>1. remote[Arg(s)].data \in Seq(Chunks) /\ remote[Arg(s)].time \in Times
      BY <2>3 DEF ExchangeInv, TypeOK
    <3> QED
      BY <3>1, Empty
  <2> QED
    BY <2>1, <2>2, <2>3, AnswerKinds
<1> HIDE DEF m
<1>4. /\ s2c' \in [Sessions -> Seq(Answers)] /\ \A r \in Sessions : Len(s2c'[r]) <= Cap
      /\ spc' \in [Sessions -> {"none", "cmd", "dir", "file", "read", "closed"}]
      /\ \A r \in Sessions \ {s} : s2c'[r] = s2c[r] /\ spc'[r] = spc[r]
      /\ Connected(s) => s2c'[s] = y /\ spc'[s] = "cmd"
      /\ ~Connected(s) => s2c'[s] = a /\ spc'[s] \in {"cmd", "closed"}
  BY <1>0, <1>3, SayFacts DEF ExchangeInv
<1>5. /\ x \in Seq(Requests) /\ Len(q) \in Nat \ {0} /\ Len(x) = Len(q) - 1
      /\ \A i \in 1..(Len(q) - 1) : x[i] = q[i + 1]
  BY <1>1, <1>2, Take
<1>6. y \in Seq(Answers) /\ Len(y) = Len(a) + 1
  BY <1>1, <1>3, Put
<1>7. /\ All(q, {"STAT"}) => All(x, {"STAT"})
      /\ All(a, {"STAT"}) => All(y, {"STAT"})
      /\ x # << >> /\ All(x, {"STAT"}) => x[1][1] = "STAT"
  BY <1>1, <1>2, <1>3, <1>5, AllTake, AllPut
<1> HIDE DEF q, a, x, y
<1>8. OwnService(s)
  BY <1>0, <1>2, <1>4 DEF OwnService, ExchangeInv, TypeOK
<1>9. All(q, {"STAT"}) /\ All(x, {"STAT"})
  BY <1>0, <1>1, <1>2, <1>7 DEF QueueOf
<1>10. UNCHANGED <<cmd, cpc, sess, flist, at, k, flags, result, got>>
  BY <1>0 DEF Frame, client
<1>11. c2s'[s] = x /\ spc'[s] \in {"cmd", "closed"}
  BY <1>2, <1>4
<1>12. QueueOf(s, c2s[s])'
  BY <1>0, <1>1, <1>9, <1>10, <1>11 DEF QueueOf
<1>13. ASSUME s = sess
       PROVE  /\ PhaseOf(c2s[sess], s2c[sess])'
              /\ (cpc # "idle" /\ Connected(sess) => StepOf(c2s[sess], s2c[sess])')
  <2>1. cpc \in {"idle", "ask", "stats"}
    BY <1>0, <1>2, <1>13, ClientAt DEF q
  <2>2. c2s'[sess'] = x /\ s2c'[sess'] \in {a, y} /\ spc'[sess'] \in {"cmd", "closed"}
        /\ (Connected(sess) => s2c'[sess'] = y /\ spc'[sess'] = "cmd")
    BY <1>4, <1>10, <1>11, <1>13
  <2>3. NoSend(c2s[sess])'
    BY <2>2, <1>7, <1>9 DEF NoSend
  <2>4. CASE cpc = "idle"
    BY <2>3, <2>4, <1>10 DEF PhaseOf
  <2>5. CASE cpc # "idle"
    <3>1. StatsPhase(q, a)
      BY <2>1, <2>5, <1>1, <1>13 DEF PhaseOf
    <3>2. All(s2c'[sess'], {"STAT"}) /\ Len(x) + Len(s2c'[sess']) <= Len(q) + Len(a)
      <4>1. All(a, {"STAT"}) /\ All(y, {"STAT"})
        BY <3>1, <1>7 DEF StatsPhase
      <4>2. Len(x) + Len(a) <= Len(q) + Len(a) /\ Len(x) + Len(y) <= Len(q) + Len(a)
        BY <1>1, <1>5, <1>6
      <4>3. CASE s2c'[sess'] = a
        BY <4>1, <4>2, <4>3
      <4>4. CASE s2c'[sess'] = y
        BY <4>1, <4>2, <4>4
      <4> QED
        BY <4>3, <4>4, <2>2
    <3>3. StatsPhase(c2s[sess], s2c[sess])'
      <4> DEFINE n == Len(q) + Len(a)
                 p == Len(x) + Len(s2c'[sess'])
                 w == IF cpc = "ask" THEN at - 1 ELSE Len(flist) - at + 1
      <4>1. n \in Nat /\ p \in Nat /\ w \in Int /\ n <= w /\ p <= n
        <5>1. Len(s2c'[sess']) \in Nat
          BY <2>2, <1>1, <1>6
        <5>2. at \in Nat /\ Len(flist) \in Nat
          BY <2>5, ClientFacts
        <5> QED
          BY <5>1, <5>2, <3>1, <3>2, <1>1, <1>5 DEF StatsPhase
      <4> HIDE DEF n, p, w
      <4>2. p <= w
        BY <4>1
      <4>3. Len(c2s'[sess']) + Len(s2c'[sess'])
              <= (IF cpc' = "ask" THEN at' - 1 ELSE Len(flist') - at' + 1)
        BY <4>2, <2>2, <1>10 DEF p, w
      <4> QED
        BY <4>3, <3>2, <2>2, <1>9 DEF StatsPhase, Gone
    <3>4. ASSUME Connected(sess), NEW n \in Int, Pending(q, a, n)
          PROVE  Pending(x, y, n)
      <4> SUFFICES ASSUME NEW i \in 1..Len(x) PROVE x[i][2] = flist[n + Len(y) + i]
        BY DEF Pending
      <4>1. x[i] = q[i + 1] /\ i + 1 \in 1..Len(q) /\ n + Len(a) + (i + 1) = n + Len(y) + i
        BY <1>1, <1>5, <1>6
      <4> QED
        BY <4>1, <3>4 DEF Pending
    <3>5. ASSUME Connected(sess) PROVE StepOf(c2s[sess], s2c[sess])'
      <4>0. StepOf(q, a) /\ c2s'[sess'] = x /\ s2c'[sess'] = y /\ spc'[sess'] = "cmd"
            /\ at \in Nat
        BY <3>5, <2>2, <2>5, <1>1, <1>13, ClientFacts
      <4>1. CASE cpc = "ask"
        <5>1. AskStep(q, a)
          BY <4>0, <4>1 DEF StepOf
        <5>2. Pending(x, y, 0)
          BY <5>1, <3>4, <3>5 DEF AskStep
        <5>3. Len(x) + Len(y) = at - 1
          BY <5>1, <1>1, <1>5, <1>6 DEF AskStep
        <5>4. AskStep(c2s[sess], s2c[sess])'
          BY <5>2, <5>3, <4>0, <1>10 DEF AskStep, Pending
        <5> QED
          BY <5>4, <4>1, <1>10 DEF StepOf
      <4>2. CASE cpc = "stats"
        <5>1. StatsStep(q, a) /\ at - 1 \in Int
          BY <4>0, <4>2 DEF StepOf
        <5>2. Pending(x, y, at - 1)
          BY <5>1, <3>4, <3>5 DEF StatsStep
        <5>3. Len(x) + Len(y) = Len(flist) - at + 1
          BY <5>1, <1>1, <1>5, <1>6 DEF StatsStep
        <5>4. StatsStep(c2s[sess], s2c[sess])'
          BY <5>2, <5>3, <4>0, <1>10 DEF StatsStep, Pending
        <5> QED
          BY <5>4, <4>2, <1>10 DEF StepOf
      <4> QED
        BY <4>1, <4>2, <2>1, <2>5
    <3> QED
      BY <3>3, <3>5, <2>1, <2>3, <2>5, <1>10 DEF PhaseOf
  <2> QED
    BY <2>4, <2>5
<1> QED
  BY <1>0, <1>8, <1>12, <1>13, ServiceKeeps

LEMMA DoListKeeps == ASSUME ExchangeInv, NEW s \in Sessions, DoList(s) PROVE ExchangeInv'
<1> DEFINE q == c2s[s]
           a == s2c[s]
<1>0. spc[s] = "cmd" /\ Asked(s, "LIST") /\ Frame
      /\ UNCHANGED <<s2c, sfile, sk, sopen, remote>>
      /\ spc' = [spc EXCEPT ![s] = "dir"]
      /\ names' = [names EXCEPT ![s] = Keep(FileList, {f \in Files : remote[f] # Absent})]
  BY DEF DoList
<1>1. /\ s \in Nat \ {0} /\ sess \in Nat /\ s <= sess
      /\ q \in Seq(Requests) /\ a \in Seq(Answers) /\ QueueOf(s, q)
      /\ s \notin sopen /\ (s = sess => PhaseOf(q, a))
      /\ (s = sess /\ cpc # "idle" /\ Connected(sess) => StepOf(q, a))
  BY <1>0, ServiceFacts
<1>2. /\ c2s' \in [Sessions -> Seq(Requests)] /\ \A r \in Sessions : Len(c2s'[r]) <= Cap
      /\ cut' = cut
      /\ \A r \in Sessions \ {s} : c2s'[r] = c2s[r]
      /\ q # << >> /\ q[1][1] = "LIST" /\ c2s'[s] = Tail(q)
  BY <1>0, AskedFacts DEF ExchangeInv
<1>3. ~All(q, {"STAT"})
  BY <1>1, <1>2, AllTake
<1>4. Len(q) = 1
  BY <1>0, <1>1, <1>2, <1>3 DEF QueueOf
<1>5. Tail(q) = << >>
  BY <1>1, <1>2, <1>4, Take
<1> HIDE DEF q, a
<1>6. OwnService(s)
  <2>1. names' \in [Sessions -> Seq(Files)]
    BY <1>0, KeepFacts, Constants DEF ExchangeInv, TypeOK
  <2>2. spc' \in [Sessions -> {"none", "cmd", "dir", "file", "read", "closed"}]
    BY <1>0 DEF ExchangeInv, TypeOK
  <2> QED
    BY <2>1, <2>2, <1>0, <1>2 DEF OwnService, ExchangeInv, TypeOK
<1>7. UNCHANGED <<cmd, cpc, sess, flist, at, k, flags, result, got>>
  BY <1>0 DEF Frame, client
<1>8. c2s'[s] = << >> /\ spc'[s] = "dir" /\ s2c'[s] = a
  BY <1>0, <1>2, <1>5 DEF ExchangeInv, TypeOK, a
<1>9. QueueOf(s, c2s[s])'
  BY <1>0, <1>1, <1>7, <1>8 DEF QueueOf
<1>10. ASSUME s = sess
       PROVE  /\ PhaseOf(c2s[sess], s2c[sess])'
              /\ (cpc # "idle" /\ Connected(sess) => StepOf(c2s[sess], s2c[sess])')
  <2>1. cpc \in {"idle", "dents"}
    BY <1>0, <1>2, <1>10, ClientAt DEF q
  <2>2. c2s'[sess'] = << >> /\ s2c'[sess'] = a /\ spc'[sess'] = "dir"
    BY <1>7, <1>8, <1>10
  <2>3. NoSend(c2s[sess])'
    BY <2>2 DEF NoSend
  <2>4. cpc = "dents" => ListPhase(c2s[sess], s2c[sess])'
    BY <2>2, <1>0, <1>1, <1>2, <1>10 DEF PhaseOf, ListPhase, Gone
  <2>5. cpc = "dents" /\ Connected(sess) => ListStep(c2s[sess], s2c[sess])'
    BY <2>2, <1>0, <1>1, <1>2, <1>10, AllEmpty DEF StepOf, ListStep
  <2> QED
    BY <2>1, <2>3, <2>4, <2>5, <1>7 DEF PhaseOf, StepOf
<1> QED
  BY <1>0, <1>6, <1>9, <1>10, ServiceKeeps

LEMMA SayNameKeeps == ASSUME ExchangeInv, NEW s \in Sessions, SayName(s) PROVE ExchangeInv'
<1> DEFINE q == c2s[s]
           a == s2c[s]
<1>0. spc[s] = "dir" /\ Frame /\ UNCHANGED <<c2s, cut, sfile, sk, sopen, remote>>
  BY DEF SayName
<1>1. /\ s \in Nat \ {0} /\ sess \in Nat /\ s <= sess
      /\ q \in Seq(Requests) /\ a \in Seq(Answers) /\ QueueOf(s, q)
      /\ s \notin sopen /\ (s = sess => PhaseOf(q, a))
      /\ (s = sess /\ cpc # "idle" /\ Connected(sess) => StepOf(q, a))
      /\ names[s] \in Seq(Files)
  BY <1>0, ServiceFacts DEF ExchangeInv, TypeOK
<1>2. q = << >>
  BY <1>0, <1>1 DEF QueueOf
<1>3. UNCHANGED <<cmd, cpc, sess, flist, at, k, flags, result, got>>
  BY <1>0 DEF Frame, client
<1>4. s = sess => cpc \in {"idle", "dents"}
  BY <1>0, ClientAt
<1>5. s = sess /\ cpc = "dents" => ListPhase(q, a) /\ (Connected(sess) => All(a, {"DENT"}))
  BY <1>0, <1>1, <1>2 DEF PhaseOf, StepOf, ListStep
<1>6. c2s'[s] = << >>
  BY <1>0, <1>2
<1> HIDE DEF q, a
<1>7. CASE names[s] = << >>
  <2> DEFINE m == <<"DONE", 0>>
             y == Append(a, m)
  <2>0. Say(s, m, "cmd") /\ UNCHANGED names
    BY <1>7 DEF SayName
  <2>1. m \in Answers /\ m[1] = "DONE"
    BY AnswerKinds
  <2> HIDE DEF m
  <2>2. /\ s2c' \in [Sessions -> Seq(Answers)] /\ \A r \in Sessions : Len(s2c'[r]) <= Cap
        /\ spc' \in [Sessions -> {"none", "cmd", "dir", "file", "read", "closed"}]
        /\ \A r \in Sessions \ {s} : s2c'[r] = s2c[r] /\ spc'[r] = spc[r]
        /\ Connected(s) => s2c'[s] = y /\ spc'[s] = "cmd"
        /\ ~Connected(s) => s2c'[s] = a /\ spc'[s] \in {"cmd", "closed"}
    BY <2>0, <2>1, SayFacts DEF ExchangeInv, a
  <2>3. Len(a) \in Nat /\ Len(y) = Len(a) + 1 /\ y # << >> /\ y[Len(y)] = m
    BY <2>1, <1>1, Put
  <2>4. All(a, {"DENT"}) => All(y, {"DENT", "DONE"}) /\ LastOnly(y, {"DONE"})
    <3>1. All(a, {"DENT"}) => All(a, {"DENT", "DONE"})
      BY AllMore
    <3> QED
      BY <3>1, <2>1, <1>1, AllPut, LastPut
  <2> HIDE DEF y
  <2>5. OwnService(s)
    BY <2>0, <2>2, <1>0 DEF OwnService, ExchangeInv, TypeOK
  <2>6. QueueOf(s, c2s[s])'
    BY <2>2, <1>0, <1>1, <1>3, <1>6, AllEmpty DEF QueueOf
  <2>7. ASSUME s = sess
        PROVE  /\ PhaseOf(c2s[sess], s2c[sess])'
               /\ (cpc # "idle" /\ Connected(sess) => StepOf(c2s[sess], s2c[sess])')
    <3>1. c2s'[sess'] = << >> /\ spc'[sess'] \in {"cmd", "closed"}
          /\ (Connected(sess) => s2c'[sess'] = y /\ spc'[sess'] = "cmd")
          /\ (~Connected(sess) => s2c'[sess'] = a)
      BY <2>2, <2>7, <1>3, <1>6
    <3>2. NoSend(c2s[sess])' /\ Gone(c2s[sess])'
      BY <3>1 DEF NoSend, Gone
    <3>3. cpc = "dents" => ListPhase(c2s[sess], s2c[sess])'
      BY <3>1, <3>2, <2>4, <2>7, <1>5 DEF ListPhase
    <3>4. cpc = "dents" /\ Connected(sess) => ListStep(c2s[sess], s2c[sess])'
      BY <3>1, <2>1, <2>3 DEF ListStep
    <3> QED
      BY <3>2, <3>3, <3>4, <2>7, <1>3, <1>4 DEF PhaseOf, StepOf
  <2> QED
    BY <2>5, <2>6, <2>7, <1>0, ServiceKeeps
<1>8. CASE names[s] # << >>
  <2> DEFINE m == <<"DENT", Head(names[s])>>
             y == Append(a, m)
  <2>0. /\ Say(s, m, "dir") \/ UNCHANGED <<s2c, spc>>
        /\ names' = [names EXCEPT ![s] = Tail(@)]
    BY <1>8 DEF SayName
  <2>1. Head(names[s]) \in Files /\ Tail(names[s]) \in Seq(Files)
    BY <1>1, <1>8, Take
  <2>2. m \in Answers /\ m[1] = "DENT"
    BY <2>1, AnswerKinds
  <2> HIDE DEF m
  <2>3. /\ s2c' \in [Sessions -> Seq(Answers)] /\ \A r \in Sessions : Len(s2c'[r]) <= Cap
        /\ spc' \in [Sessions -> {"none", "cmd", "dir", "file", "read", "closed"}]
        /\ \A r \in Sessions \ {s} : s2c'[r] = s2c[r] /\ spc'[r] = spc[r]
        /\ Connected(s) => s2c'[s] \in {a, y} /\ spc'[s] = "dir"
        /\ ~Connected(s) => s2c'[s] = a /\ spc'[s] \in {"dir", "closed"}
    <3>1. CASE Say(s, m, "dir")
      BY <3>1, <2>2, SayFacts DEF ExchangeInv, a
    <3>2. CASE UNCHANGED <<s2c, spc>>
      BY <3>2, <1>0 DEF ExchangeInv, TypeOK, a
    <3> QED
      BY <3>1, <3>2, <2>0
  <2>4. Len(a) \in Nat /\ Len(y) = Len(a) + 1 /\ y # << >> /\ y[Len(y)] = m
    BY <2>2, <1>1, Put
  <2>5. All(a, {"DENT"}) => /\ All(y, {"DENT"}) /\ All(y, {"DENT", "DONE"})
                            /\ LastOnly(y, {"DONE"})
    <3>1. All(a, {"DENT"}) => All(y, {"DENT"})
      BY <2>2, <1>1, AllPut
    <3>2. All(y, {"DENT"}) => All(y, {"DENT", "DONE"})
      BY AllMore
    <3> QED
      BY <3>1, <3>2, <2>2, <1>1, LastPut
  <2> HIDE DEF y
  <2>6. OwnService(s)
    <3>1. names' \in [Sessions -> Seq(Files)]
      BY <2>0, <2>1 DEF ExchangeInv, TypeOK
    <3> QED
      BY <3>1, <2>3, <1>0 DEF OwnService, ExchangeInv, TypeOK
  <2>7. QueueOf(s, c2s[s])'
    BY <2>3, <1>0, <1>1, <1>3, <1>6 DEF QueueOf
  <2>8. ASSUME s = sess
        PROVE  /\ PhaseOf(c2s[sess], s2c[sess])'
               /\ (cpc # "idle" /\ Connected(sess) => StepOf(c2s[sess], s2c[sess])')
    <3>1. c2s'[sess'] = << >> /\ spc'[sess'] \in {"dir", "closed"}
          /\ (Connected(sess) => s2c'[sess'] \in {a, y} /\ spc'[sess'] = "dir")
          /\ (~Connected(sess) => s2c'[sess'] = a)
      BY <2>3, <2>8, <1>3, <1>6
    <3>2. NoSend(c2s[sess])'
      BY <3>1 DEF NoSend
    <3>3. cpc = "dents" /\ s2c'[sess'] # << >> /\ s2c'[sess'][Len(s2c'[sess'])][1] = "DONE" =>
            FALSE
      <4>1. cpc = "dents" /\ a # << >> /\ a[Len(a)][1] = "DONE" => FALSE
        BY <2>8, <1>0, <1>5 DEF ListPhase, Gone
      <4> QED
        BY <4>1, <3>1, <2>2, <2>4
    <3>4. cpc = "dents" => ListPhase(c2s[sess], s2c[sess])'
      <4>1. cpc = "dents" => All(s2c'[sess'], {"DENT", "DONE"}) /\ LastOnly(s2c'[sess'], {"DONE"})
        BY <3>1, <2>5, <2>8, <1>5 DEF ListPhase
      <4> QED
        BY <4>1, <3>1, <3>3 DEF ListPhase, Gone
    <3>5. cpc = "dents" /\ Connected(sess) => ListStep(c2s[sess], s2c[sess])'
      BY <3>1, <2>5, <2>8, <1>5 DEF ListStep
    <3> QED
      BY <3>2, <3>4, <3>5, <2>8, <1>3, <1>4 DEF PhaseOf, StepOf
  <2> QED
    BY <2>6, <2>7, <2>8, <1>0, ServiceKeeps
<1> QED
  BY <1>7, <1>8

\* The end of the service, which reads no more.
LEMMA ClosedPhase ==
    ASSUME UNCHANGED client, sess \in Nat \ {0}, PhaseOf(c2s[sess], s2c[sess]),
           c2s[sess] \in Seq(Requests), s2c[sess] \in Seq(Answers),
           c2s'[sess] = << >>, s2c'[sess] = s2c[sess], spc'[sess] = "closed",
           cpc \in {"ask", "stats"} => at \in Nat /\ Len(flist) \in Nat
    PROVE  PhaseOf(c2s[sess], s2c[sess])'
<1> DEFINE q == c2s[sess]
           a == s2c[sess]
<1>1. UNCHANGED <<cmd, cpc, sess, flist, at>>
  BY DEF client
<1>2. c2s'[sess'] = << >> /\ s2c'[sess'] = a /\ spc'[sess'] = "closed"
  BY <1>1
<1>3. Len(q) \in Nat /\ Len(a) \in Nat /\ Len(<< >>) = 0
  BY Empty
<1> HIDE DEF q, a
<1>4. cpc \in {"ask", "stats"} => StatsPhase(c2s[sess], s2c[sess])'
  <2> SUFFICES ASSUME cpc \in {"ask", "stats"} PROVE StatsPhase(c2s[sess], s2c[sess])'
    OBVIOUS
  <2>1. StatsPhase(q, a)
    BY DEF PhaseOf, q, a
  <2> DEFINE w == IF cpc = "ask" THEN at - 1 ELSE Len(flist) - at + 1
             n == Len(a)
             p == Len(q)
  <2>2. p + n <= w /\ p \in Nat /\ n \in Nat /\ w \in Int
    BY <2>1, <1>3 DEF StatsPhase
  <2> HIDE DEF w, n, p
  <2>3. 0 + n <= w
    BY <2>2
  <2>4. Len(c2s'[sess']) + Len(s2c'[sess'])
          <= (IF cpc' = "ask" THEN at' - 1 ELSE Len(flist') - at' + 1)
    <3>1. Len(c2s'[sess']) = 0 /\ Len(s2c'[sess']) = n
      BY <1>2, <1>3 DEF n
    <3>2. (IF cpc' = "ask" THEN at' - 1 ELSE Len(flist') - at' + 1) = w
      BY <1>1 DEF w
    <3> QED
      BY <3>1, <3>2, <2>3
  <2> QED
    BY <2>1, <2>4, <1>2 DEF StatsPhase, Gone
<1>5. Gone(c2s[sess])' /\ NoSend(c2s[sess])'
  BY <1>2 DEF Gone, NoSend
<1> QED
  BY <1>1, <1>2, <1>4, <1>5 DEF PhaseOf, RestPhase, ListPhase, SendPhase, RecvPhase, q, a

LEMMA ClosingKeeps ==
    ASSUME ExchangeInv, NEW s \in Sessions, spc[s] \in {"cmd", "dir", "file", "read"},
           Frame, Ends(s), UNCHANGED <<s2c, cut, sfile, sk, names>>,
           c2s' \in [Sessions -> Seq(Requests)], \A r \in Sessions : Len(c2s'[r]) <= Cap,
           \A r \in Sessions \ {s} : c2s'[r] = c2s[r],
           c2s'[s] = << >>,
           remote' \in [Files -> [by : 0..MaxSessions, data : Seq(Chunks), time : Times]]
    PROVE  ExchangeInv'
<1>1. /\ s \in Nat \ {0} /\ sess \in Nat /\ s <= sess
      /\ c2s[s] \in Seq(Requests) /\ s2c[s] \in Seq(Answers)
      /\ (s = sess => PhaseOf(c2s[sess], s2c[sess]))
  BY ServiceFacts
<1>2. /\ spc' \in [Sessions -> {"none", "cmd", "dir", "file", "read", "closed"}]
      /\ spc'[s] = "closed" /\ s \notin sopen' /\ \A r \in Sessions \ {s} : spc'[r] = spc[r]
      /\ sopen' = sopen \ {s}
  BY DEF Ends, ExchangeInv, TypeOK
<1>3. OwnService(s)
  BY <1>2 DEF OwnService, ExchangeInv, TypeOK
<1>4. QueueOf(s, c2s[s])'
  BY <1>1, <1>2 DEF QueueOf, Frame, client
<1>5. cpc \in {"ask", "stats"} => at \in Nat /\ Len(flist) \in Nat
  BY ClientFacts
<1>6. s = sess => PhaseOf(c2s[sess], s2c[sess])'
  BY <1>1, <1>2, <1>5, ClosedPhase DEF Frame
<1> QED
  BY <1>2, <1>3, <1>4, <1>6, ServiceKeeps

LEMMA LeaveKeeps == ASSUME ExchangeInv, NEW s \in Sessions, Leave(s) PROVE ExchangeInv'
<1> DEFINE q == c2s[s]
<1>0. spc[s] = "cmd" /\ Frame /\ Ends(s) /\ UNCHANGED <<s2c, sfile, sk, names, remote>>
  BY DEF Leave
<1>1. q \in Seq(Requests) /\ QueueOf(s, q)
  BY <1>0, ServiceFacts
<1>2. CASE Asked(s, "QUIT")
  <2>1. /\ c2s' \in [Sessions -> Seq(Requests)] /\ \A r \in Sessions : Len(c2s'[r]) <= Cap
        /\ cut' = cut
        /\ \A r \in Sessions \ {s} : c2s'[r] = c2s[r]
        /\ q # << >> /\ q[1][1] = "QUIT" /\ c2s'[s] = Tail(q)
    BY <1>2, AskedFacts DEF ExchangeInv
  <2>2. ~All(q, {"STAT"})
    BY <1>1, <2>1, AllTake
  <2> HIDE DEF q
  <2>3. Len(q) = 1
    BY <1>0, <1>1, <2>1, <2>2 DEF QueueOf
  <2>4. Tail(q) = << >>
    BY <1>1, <2>1, <2>3, Take
  <2> QED
    BY <2>1, <2>4, <1>0, ClosingKeeps DEF ExchangeInv, TypeOK
<1>3. CASE q = << >> /\ UNCHANGED <<c2s, cut>>
  BY <1>0, <1>3, ClosingKeeps DEF ExchangeInv, TypeOK
<1> QED
  BY <1>2, <1>3 DEF Leave

\* What becomes of a file of the device.
LEMMA RemoteSet ==
    ASSUME TypeOK, NEW f \in Files, NEW s \in Sessions, NEW d \in Seq(Chunks), NEW t \in Times
    PROVE  LET Device == [Files -> [by : 0..MaxSessions, data : Seq(Chunks), time : Times]]
           IN  /\ [remote EXCEPT ![f] = [by |-> s, data |-> d, time |-> t]] \in Device
               /\ [remote EXCEPT ![f].by = s] \in Device
               /\ [remote EXCEPT ![f].time = t] \in Device
               /\ Unlinked(f) \in Device
<1>1. s \in 0..MaxSessions /\ 0 \in 0..MaxSessions /\ None \in Times /\ << >> \in Seq(Chunks)
  BY Constants DEF Sessions, Times
<1> QED
  BY <1>1 DEF TypeOK, Unlinked, Absent

LEMMA FileLostKeeps == ASSUME ExchangeInv, NEW s \in Sessions, FileLost(s) PROVE ExchangeInv'
<1>1. /\ spc[s] = "file" /\ c2s[s] = << >> /\ Frame /\ Ends(s)
      /\ UNCHANGED <<c2s, s2c, cut, sfile, sk, names>> /\ remote' = Unlinked(sfile[s])
  BY DEF FileLost, stream
<1>2. sfile[s] \in Files
  BY <1>1, ServiceFacts DEF QueueOf
<1>3. << >> \in Seq(Chunks) /\ None \in Times
  BY DEF Times
<1>4. remote' \in [Files -> [by : 0..MaxSessions, data : Seq(Chunks), time : Times]]
  BY <1>1, <1>2, <1>3, RemoteSet DEF ExchangeInv
<1> QED
  BY <1>1, <1>4, ClosingKeeps DEF ExchangeInv, TypeOK

LEMMA DoRecvKeeps == ASSUME ExchangeInv, NEW s \in Sessions, DoRecv(s) PROVE ExchangeInv'
<1> DEFINE q == c2s[s]
           a == s2c[s]
           m == <<"FAIL", None>>
           y == Append(a, m)
<1>0. /\ spc[s] = "cmd" /\ Asked(s, "RECV") /\ Frame /\ UNCHANGED <<sopen, names, remote>>
      /\ \/ /\ sfile' = [sfile EXCEPT ![s] = Arg(s)] /\ sk' = [sk EXCEPT ![s] = 0]
            /\ spc' = [spc EXCEPT ![s] = "read"] /\ UNCHANGED s2c
         \/ Say(s, m, "cmd") /\ UNCHANGED <<sfile, sk>>
  BY DEF DoRecv
<1>1. /\ s \in Nat \ {0} /\ sess \in Nat /\ s <= sess
      /\ q \in Seq(Requests) /\ a \in Seq(Answers) /\ QueueOf(s, q)
      /\ s \notin sopen /\ (s = sess => PhaseOf(q, a))
      /\ (s = sess /\ cpc # "idle" /\ Connected(sess) => StepOf(q, a))
      /\ (a = << >> <=> Len(a) = 0) /\ Len(a) \in Nat
  BY <1>0, ServiceFacts
<1>2. /\ c2s' \in [Sessions -> Seq(Requests)] /\ \A r \in Sessions : Len(c2s'[r]) <= Cap
      /\ cut' = cut
      /\ \A r \in Sessions \ {s} : c2s'[r] = c2s[r]
      /\ q # << >> /\ q[1] \in Requests /\ q[1][1] = "RECV"
      /\ Arg(s) = q[1][2] /\ c2s'[s] = Tail(q)
  BY <1>0, AskedFacts DEF ExchangeInv
<1>3. ~All(q, {"STAT"})
  BY <1>1, <1>2, AllTake
<1>4. Len(q) = 1
  BY <1>0, <1>1, <1>2, <1>3 DEF QueueOf
<1>5. Tail(q) = << >>
  BY <1>1, <1>2, <1>4, Take
<1>6. m \in Answers /\ m[1] = "FAIL" /\ Arg(s) \in Files
  BY <1>2, AnswerKinds, RequestKinds
<1>7. UNCHANGED <<cmd, cpc, sess, flist, at, k, flags, result, got>>
  BY <1>0 DEF Frame, client
<1>8. s = sess => cpc \in {"idle", "first", "more"}
  BY <1>0, <1>2, ClientAt
<1> HIDE DEF q, a, m
<1>9. s = sess /\ cpc \in {"first", "more"} =>
        /\ RecvPhase(q, a) /\ ~Gone(q) /\ q[1][2] = flist[at]
        /\ Connected(sess) => cpc = "first" /\ a = << >>
  <2> SUFFICES ASSUME s = sess, cpc \in {"first", "more"}
               PROVE  /\ RecvPhase(q, a) /\ ~Gone(q) /\ q[1][2] = flist[at]
                      /\ Connected(sess) => cpc = "first" /\ a = << >>
    OBVIOUS
  <2>1. RecvPhase(q, a) /\ (Connected(sess) => RecvStep(q, a))
    BY <1>1 DEF PhaseOf, StepOf
  <2> QED
    BY <2>1, <1>0, <1>2 DEF RecvPhase, RecvStep, Gone, Doing, AtFile
<1>10. CASE /\ sfile' = [sfile EXCEPT ![s] = Arg(s)] /\ sk' = [sk EXCEPT ![s] = 0]
            /\ spc' = [spc EXCEPT ![s] = "read"] /\ UNCHANGED s2c
  <2>1. /\ spc' \in [Sessions -> {"none", "cmd", "dir", "file", "read", "closed"}]
        /\ sfile' \in [Sessions -> Files \cup {None}] /\ sk' \in [Sessions -> Nat]
        /\ spc'[s] = "read" /\ sfile'[s] = Arg(s)
        /\ \A r \in Sessions \ {s} : spc'[r] = spc[r] /\ sfile'[r] = sfile[r] /\ sk'[r] = sk[r]
    BY <1>6, <1>10 DEF ExchangeInv, TypeOK
  <2>2. OwnService(s)
    BY <2>1, <1>0, <1>2, <1>10 DEF OwnService, ExchangeInv, TypeOK
  <2>3. QueueOf(s, c2s[s])'
    BY <2>1, <1>0, <1>1, <1>2, <1>5, <1>6, <1>7 DEF QueueOf
  <2>4. ASSUME s = sess
        PROVE  /\ PhaseOf(c2s[sess], s2c[sess])'
               /\ (cpc # "idle" /\ Connected(sess) => StepOf(c2s[sess], s2c[sess])')
    <3>1. /\ c2s'[sess'] = << >> /\ spc'[sess'] = "read" /\ s2c'[sess'] = a
          /\ sfile'[sess'] = Arg(s) /\ flist'[at'] = flist[at]
      BY <2>1, <2>4, <1>2, <1>5, <1>7, <1>10 DEF a
    <3>2. NoSend(c2s[sess])'
      BY <3>1 DEF NoSend
    <3>3. cpc \in {"first", "more"} => RecvPhase(c2s[sess], s2c[sess])'
      BY <3>1, <2>4, <1>2, <1>9 DEF RecvPhase, AtFile
    <3>4. cpc \in {"first", "more"} /\ Connected(sess) => RecvStep(c2s[sess], s2c[sess])'
      BY <3>1, <2>4, <1>2, <1>9, AllEmpty DEF RecvStep, AtFile
    <3> QED
      BY <3>2, <3>3, <3>4, <2>4, <1>7, <1>8 DEF PhaseOf, StepOf
  <2> QED
    BY <2>2, <2>3, <2>4, <1>0, ServiceKeeps
<1>11. CASE Say(s, m, "cmd") /\ UNCHANGED <<sfile, sk>>
  <2>1. /\ s2c' \in [Sessions -> Seq(Answers)] /\ \A r \in Sessions : Len(s2c'[r]) <= Cap
        /\ spc' \in [Sessions -> {"none", "cmd", "dir", "file", "read", "closed"}]
        /\ \A r \in Sessions \ {s} : s2c'[r] = s2c[r] /\ spc'[r] = spc[r]
        /\ Connected(s) => s2c'[s] = y /\ spc'[s] = "cmd"
        /\ ~Connected(s) => s2c'[s] = a /\ spc'[s] \in {"cmd", "closed"}
    BY <1>6, <1>11, SayFacts DEF ExchangeInv, a
  <2>2. Len(y) = Len(a) + 1 /\ y # << >> /\ y[Len(y)] = m
    BY <1>1, <1>6, Put
  <2>3. a = << >> => All(y, {"DATA", "DONE", "FAIL"}) /\ LastOnly(y, {"DONE", "FAIL"})
    <3>1. All(<< >>, {"DATA"}) /\ All(<< >>, {"DATA", "DONE", "FAIL"})
      BY AllEmpty
    <3> DEFINE kinds == {"DATA", "DONE", "FAIL"}
    <3>2. a = << >> => All(y, kinds)
      <4>1. m[1] \in kinds
        BY <1>6
      <4> HIDE DEF kinds
      <4>2. All(y, kinds) <=> All(a, kinds) /\ m[1] \in kinds
        BY <1>1, <1>6, AllPut
      <4> QED
        BY <4>1, <4>2, AllEmpty
    <3>3. {"DATA"} \cap {"DONE", "FAIL"} = {}
      OBVIOUS
    <3>4. a = << >> => LastOnly(y, {"DONE", "FAIL"})
      BY <3>1, <3>3, <1>1, <1>6, LastPut
    <3> QED
      BY <3>2, <3>4
  <2> HIDE DEF y
  <2>4. OwnService(s)
    BY <2>1, <1>0, <1>2, <1>11 DEF OwnService, ExchangeInv, TypeOK
  <2>5. QueueOf(s, c2s[s])'
    <3>1. All(<< >>, {"STAT"}) /\ c2s'[s] = << >>
      BY <1>2, <1>5, AllEmpty
    <3> QED
      BY <3>1, <2>1, <1>0, <1>1, <1>7 DEF QueueOf
  <2>6. ASSUME s = sess
        PROVE  /\ PhaseOf(c2s[sess], s2c[sess])'
               /\ (cpc # "idle" /\ Connected(sess) => StepOf(c2s[sess], s2c[sess])')
    <3>1. /\ c2s'[sess'] = << >> /\ spc'[sess'] \in {"cmd", "closed"}
          /\ (Connected(sess) => s2c'[sess'] = y /\ spc'[sess'] = "cmd")
          /\ (~Connected(sess) => s2c'[sess'] = a)
      BY <2>1, <2>6, <1>2, <1>5, <1>7
    <3>2. NoSend(c2s[sess])' /\ Gone(c2s[sess])'
      BY <3>1 DEF NoSend, Gone
    <3>3. cpc \in {"first", "more"} => RecvPhase(c2s[sess], s2c[sess])'
      BY <3>1, <3>2, <2>3, <2>6, <1>9 DEF RecvPhase
    <3>4. cpc \in {"first", "more"} /\ Connected(sess) => RecvStep(c2s[sess], s2c[sess])'
      BY <3>1, <2>2, <1>6 DEF RecvStep
    <3> QED
      BY <3>2, <3>3, <3>4, <2>6, <1>7, <1>8 DEF PhaseOf, StepOf
  <2> QED
    BY <2>4, <2>5, <2>6, <1>0, ServiceKeeps
<1> QED
  BY <1>0, <1>10, <1>11

LEMMA SayChunkKeeps == ASSUME ExchangeInv, NEW s \in Sessions, SayChunk(s) PROVE ExchangeInv'
<1> DEFINE q == c2s[s]
           a == s2c[s]
<1>0. spc[s] = "read" /\ Frame /\ UNCHANGED <<c2s, cut, sfile, sopen, names, remote>>
  BY DEF SayChunk
<1>1. /\ s \in Nat \ {0} /\ sess \in Nat /\ s <= sess
      /\ q \in Seq(Requests) /\ a \in Seq(Answers) /\ QueueOf(s, q)
      /\ s \notin sopen /\ (s = sess => PhaseOf(q, a)) /\ sk[s] \in Nat
      /\ (s = sess /\ cpc # "idle" /\ Connected(sess) => StepOf(q, a))
  BY <1>0, ServiceFacts
<1>2. q = << >> /\ sfile[s] \in Files
  BY <1>0, <1>1 DEF QueueOf
<1>3. UNCHANGED <<cmd, cpc, sess, flist, at, k, flags, result, got>>
  BY <1>0 DEF Frame, client
<1>4. s = sess => cpc \in {"idle", "first", "more"}
  BY <1>0, ClientAt
<1>5. s = sess /\ cpc \in {"first", "more"} =>
        /\ RecvPhase(q, a) /\ AtFile("read") /\ (a # << >> => a[Len(a)][1] = "DATA")
        /\ Connected(sess) => All(a, {"DATA"})
  BY <1>0, <1>1, <1>2 DEF PhaseOf, StepOf, RecvPhase, RecvStep, Gone, Doing
<1>6. c2s'[s] = << >> /\ sfile'[s] = sfile[s]
  BY <1>0, <1>2
<1>7. \E m \in Answers :
        /\ sk' \in [Sessions -> Nat] /\ \A r \in Sessions \ {s} : sk'[r] = sk[r]
        /\ \/ m[1] = "DATA" /\ Say(s, m, "read")
           \/ m[1] \in {"DONE", "FAIL"} /\ Say(s, m, "cmd")
  <2>1. ASSUME sk[s] < Len(remote[sfile[s]].data)
        PROVE  <<"DATA", remote[sfile[s]].data[sk[s] + 1]>> \in Answers
    <3>1. remote[sfile[s]].data \in Seq(Chunks)
      BY <1>2 DEF ExchangeInv, TypeOK
    <3>2. Len(remote[sfile[s]].data) \in Nat
      BY <3>1, Empty
    <3>3. sk[s] + 1 \in 1..Len(remote[sfile[s]].data)
      BY <2>1, <3>2, <1>1
    <3>4. remote[sfile[s]].data[sk[s] + 1] \in Chunks
      BY <3>1, <3>3, ElementOfSeq
    <3> QED
      BY <3>4, AnswerKinds
  <2>2. <<"DONE", 0>> \in Answers /\ <<"FAIL", None>> \in Answers
    BY AnswerKinds
  <2>3. CASE /\ sk[s] < Len(remote[sfile[s]].data) /\ sk' = [sk EXCEPT ![s] = @ + 1]
             /\ Say(s, <<"DATA", remote[sfile[s]].data[sk[s] + 1]>>, "read")
    <3>1. sk' \in [Sessions -> Nat] /\ \A r \in Sessions \ {s} : sk'[r] = sk[r]
      BY <2>3, <1>1, SMTT(30) DEF ExchangeInv, TypeOK
    <3> QED
      BY <3>1, <2>1, <2>3
  <2>4. CASE UNCHANGED sk /\ Say(s, <<"DONE", 0>>, "cmd")
    BY <2>2, <2>4 DEF ExchangeInv, TypeOK
  <2>5. CASE UNCHANGED sk /\ Say(s, <<"FAIL", None>>, "cmd")
    BY <2>2, <2>5 DEF ExchangeInv, TypeOK
  <2> QED
    BY <2>3, <2>4, <2>5 DEF SayChunk
<1>8. PICK m \in Answers :
        /\ sk' \in [Sessions -> Nat] /\ \A r \in Sessions \ {s} : sk'[r] = sk[r]
        /\ \/ m[1] = "DATA" /\ Say(s, m, "read")
           \/ m[1] \in {"DONE", "FAIL"} /\ Say(s, m, "cmd")
  BY <1>7
<1> DEFINE y == Append(a, m)
           next == IF m[1] = "DATA" THEN "read" ELSE "cmd"
           kinds == {"DATA", "DONE", "FAIL"}
           ends == {"DONE", "FAIL"}
<1>9. Say(s, m, next) /\ m[1] \in kinds /\ next \in {"cmd", "dir", "file", "read"}
  BY <1>8
<1>10. /\ s2c' \in [Sessions -> Seq(Answers)] /\ \A r \in Sessions : Len(s2c'[r]) <= Cap
       /\ spc' \in [Sessions -> {"none", "cmd", "dir", "file", "read", "closed"}]
       /\ \A r \in Sessions \ {s} : s2c'[r] = s2c[r] /\ spc'[r] = spc[r]
       /\ Connected(s) => s2c'[s] = y /\ spc'[s] = next
       /\ ~Connected(s) => s2c'[s] = a /\ spc'[s] \in {next, "closed"}
  BY <1>9, SayFacts DEF ExchangeInv
<1>11. y # << >> /\ y[Len(y)] = m
  BY <1>1, Put
<1>12. All(a, {"DATA"}) => All(y, kinds) /\ LastOnly(y, ends)
  <2>1. All(a, {"DATA"}) => All(a, kinds)
    BY AllMore
  <2>2. {"DATA"} \cap ends = {}
    OBVIOUS
  <2> HIDE DEF kinds, ends
  <2>3. All(a, kinds) => All(y, kinds)
    BY <1>1, <1>9, AllPut
  <2>4. All(a, {"DATA"}) => LastOnly(y, ends)
    BY <2>2, <1>1, LastPut
  <2> QED
    BY <2>1, <2>3, <2>4
<1>13. m[1] = "DATA" /\ All(a, {"DATA"}) => All(y, {"DATA"})
  BY <1>1, AllPut
<1> HIDE DEF q, a, y
<1>14. OwnService(s)
  BY <1>0, <1>8, <1>10 DEF OwnService, ExchangeInv, TypeOK
<1>15. QueueOf(s, c2s[s])'
  <2>1. All(<< >>, {"STAT"})
    BY AllEmpty
  <2>2. spc'[s] \in {"read", "cmd", "closed"} /\ s \notin sopen'
    BY <1>0, <1>1, <1>10
  <2> QED
    BY <2>1, <2>2, <1>1, <1>2, <1>3, <1>6 DEF QueueOf
<1>16. ASSUME s = sess
       PROVE  /\ PhaseOf(c2s[sess], s2c[sess])'
              /\ (cpc # "idle" /\ Connected(sess) => StepOf(c2s[sess], s2c[sess])')
  <2>1. /\ c2s'[sess'] = << >> /\ spc'[sess'] \in {next, "closed"}
        /\ (Connected(sess) => s2c'[sess'] = y /\ spc'[sess'] = next)
        /\ (~Connected(sess) => s2c'[sess'] = a)
        /\ sfile'[sess'] = sfile[sess] /\ flist'[at'] = flist[at]
    BY <1>3, <1>6, <1>10, <1>16
  <2>2. NoSend(c2s[sess])'
    BY <2>1 DEF NoSend
  <2>3. cpc \in {"first", "more"} => RecvPhase(c2s[sess], s2c[sess])'
    <3>1. cpc \in {"first", "more"} =>
            All(s2c'[sess'], kinds) /\ LastOnly(s2c'[sess'], ends)
      BY <2>1, <1>5, <1>12, <1>16 DEF RecvPhase
    <3>2. cpc \in {"first", "more"} => (Gone(c2s[sess]) \/ AtFile("read"))'
      BY <2>1, <1>5, <1>16 DEF AtFile, Gone
    <3>3. cpc \in {"first", "more"} =>
            (s2c'[sess'] # << >> /\ s2c'[sess'][Len(s2c'[sess'])][1] # "DATA"
               => Gone(c2s[sess])')
      <4>1. CASE Connected(sess)
        BY <4>1, <2>1, <1>11 DEF Gone
      <4>2. CASE ~Connected(sess)
        BY <4>2, <2>1, <1>5, <1>16
      <4> QED
        BY <4>1, <4>2
    <3> QED
      BY <3>1, <3>2, <3>3 DEF RecvPhase
  <2>4. cpc \in {"first", "more"} /\ Connected(sess) => RecvStep(c2s[sess], s2c[sess])'
    BY <2>1, <1>5, <1>11, <1>13, <1>16 DEF RecvStep, AtFile
  <2> QED
    BY <2>2, <2>3, <2>4, <1>3, <1>4, <1>16 DEF PhaseOf, StepOf
<1> QED
  BY <1>0, <1>14, <1>15, <1>16, ServiceKeeps

\* What the service does with a file concerns nobody but a client that sends it.
LEMMA FileKeeps ==
    ASSUME ExchangeInv, NEW s \in Sessions, spc[s] \in {"cmd", "dir", "file", "read"},
           Frame, OwnService(s), QueueOf(s, c2s[s])',
           s = sess => /\ cpc \in {"idle", "data", "status"}
                       /\ cpc = "idle" => cmd \in {"push", "one", "sync"}
                       /\ cpc \in {"data", "status"} => SendPhase(c2s[sess], s2c[sess])'
                       /\ cpc = "data" /\ Connected(sess) /\ spc'[s] # "closed" =>
                            DataStep(c2s[sess], s2c[sess])'
                       /\ cpc = "status" /\ Connected(sess) /\ spc'[s] # "closed" =>
                            StatusStep(c2s[sess], s2c[sess])'
    PROVE  ExchangeInv'
<1>1. UNCHANGED <<cmd, cpc>>
  BY DEF Frame, client
<1>2. ASSUME s = sess
      PROVE  /\ PhaseOf(c2s[sess], s2c[sess])'
             /\ (cpc # "idle" /\ Connected(sess) /\ spc'[s] # "closed" =>
                   StepOf(c2s[sess], s2c[sess])')
  <2>1. cmd \in {"push", "one", "sync"} /\ cpc \in {"idle", "data", "status"}
    BY <1>2 DEF ExchangeInv, CommandInv
  <2> QED
    BY <2>1, <1>1, <1>2 DEF PhaseOf, StepOf
<1> QED
  BY <1>2, ServiceKeeps

\* The client whose file the service is given or has.
LEMMA Sender ==
    ASSUME ExchangeInv, NEW s \in Sessions, s = sess,
           \/ spc[s] = "file"
           \/ spc[s] = "cmd" /\ c2s[s] # << >> /\ c2s[s][1][1] = "SEND"
    PROVE  LET q == c2s[s]
               a == s2c[s]
           IN  /\ cpc \in {"idle", "data", "status"}
               /\ cpc = "idle" => cmd \in {"push", "one", "sync"}
               /\ cpc \in {"data", "status"} =>
                    /\ SendPhase(q, a) /\ ~Gone(q) /\ (a # << >> => a[1][1] # "OKAY")
                    /\ flist[at] \in Files
                    /\ IF spc[s] = "file" THEN sfile[s] = flist[at] ELSE q[1][2] = flist[at]
               /\ cpc = "data" /\ Connected(sess) => DataStep(q, a)
               /\ cpc = "status" /\ Connected(sess) => StatusStep(q, a)
               /\ cpc = "data" => k <= Readable[flist[at]] /\ k \in Nat
<1> DEFINE q == c2s[s]
           a == s2c[s]
<1>1. PhaseOf(q, a) /\ (cpc # "idle" /\ Connected(sess) => StepOf(q, a))
  BY ServiceFacts
<1>2. cpc \in {"idle", "data", "status"}
  BY ClientAt
<1>3. cpc = "idle" => cmd \in {"push", "one", "sync"}
  BY <1>1 DEF PhaseOf, NoSend
<1>4. ~Gone(q)
  BY DEF Gone
<1>5. cpc \in {"data", "status"} => SendPhase(q, a)
  BY <1>1 DEF PhaseOf
<1>6. cpc \in {"data", "status"} =>
        /\ a # << >> => a[1][1] # "OKAY"
        /\ IF spc[s] = "file" THEN sfile[s] = flist[at] ELSE q[1][2] = flist[at]
  BY <1>4, <1>5 DEF SendPhase, Doing, AtFile
<1>7. cpc \in {"data", "status"} => flist[at] \in Files
  <2> SUFFICES ASSUME cpc \in {"data", "status"} PROVE flist[at] \in Files
    OBVIOUS
  <2>1. at <= Len(flist) /\ flist \in Seq(Files)
    BY DEF ExchangeInv, CommandInv
  <2> QED
    BY <2>1, ClientFacts
<1>8. cpc = "data" => k <= Readable[flist[at]] /\ k \in Nat
  BY DEF ExchangeInv, CommandInv, TypeOK
<1> QED
  BY <1>1, <1>2, <1>3, <1>4, <1>5, <1>6, <1>7, <1>8 DEF StepOf

\* The service gives the file up and says so.
LEMMA FailKeeps ==
    ASSUME ExchangeInv, NEW s \in Sessions, spc[s] \in {"cmd", "file"}, Frame, UNCHANGED names,
           NEW f \in Files, remote' = Unlinked(f), sopen' = sopen \ {s},
           Say(s, <<"FAIL", None>>, "file"),
           c2s' \in [Sessions -> Seq(Requests)], \A r \in Sessions : Len(c2s'[r]) <= Cap,
           cut' = cut, \A r \in Sessions \ {s} : c2s'[r] = c2s[r],
           sfile' \in [Sessions -> Files \cup {None}], sk' \in [Sessions -> Nat],
           sfile'[s] = f, \A r \in Sessions \ {s} : sfile'[r] = sfile[r] /\ sk'[r] = sk[r],
           All(c2s'[s], {"DATA", "DONE"}), LastOnly(c2s'[s], {"DONE"}),
           s = sess =>
             /\ cpc \in {"idle", "data", "status"}
             /\ cpc = "idle" => cmd \in {"push", "one", "sync"}
             /\ cpc \in {"data", "status"} =>
                  /\ SendPhase(c2s[sess], s2c[sess]) /\ f = flist[at]
                  /\ (s2c[sess] # << >> => s2c[sess][1][1] # "OKAY")
             /\ cpc = "data" /\ Connected(sess) => s2c[sess] = << >> /\ All(c2s'[sess], {"DATA"})
             /\ cpc = "status" /\ Connected(sess) =>
                  /\ s2c[sess] = << >> /\ c2s'[sess] # << >>
                  /\ c2s'[sess][Len(c2s'[sess])][1] = "DONE"
    PROVE  ExchangeInv'
<1> DEFINE a == s2c[s]
           x == c2s'[s]
           m == <<"FAIL", None>>
           y == Append(a, m)
<1>1. /\ s \in Nat \ {0} /\ sess \in Nat /\ s <= sess /\ a \in Seq(Answers)
      /\ (a = << >> <=> Len(a) = 0) /\ Len(a) \in Nat
  BY ServiceFacts
<1>2. UNCHANGED <<cmd, cpc, sess, flist, at, k, flags, result, got>>
  BY DEF Frame, client
<1>3. m \in Answers /\ m[1] = "FAIL"
  BY AnswerKinds
<1> HIDE DEF m
<1>4. remote' \in [Files -> [by : 0..MaxSessions, data : Seq(Chunks), time : Times]]
  <2>1. << >> \in Seq(Chunks) /\ Now \in Times
    BY DEF Times
  <2> QED
    BY <2>1, RemoteSet DEF ExchangeInv
<1>5. /\ s2c' \in [Sessions -> Seq(Answers)] /\ \A r \in Sessions : Len(s2c'[r]) <= Cap
      /\ spc' \in [Sessions -> {"none", "cmd", "dir", "file", "read", "closed"}]
      /\ \A r \in Sessions \ {s} : s2c'[r] = s2c[r] /\ spc'[r] = spc[r]
      /\ Connected(s) => s2c'[s] = y /\ spc'[s] = "file"
      /\ ~Connected(s) => s2c'[s] = a /\ spc'[s] \in {"file", "closed"}
  BY <1>3, SayFacts DEF ExchangeInv, m
<1>6. Len(y) = Len(a) + 1 /\ y # << >> /\ y[Len(y)] = m
  BY <1>1, <1>3, Put
<1> HIDE DEF a
<1>7. a = << >> => All(y, {"FAIL"}) /\ All(y, {"FAIL", "OKAY"}) /\ y[1][1] = "FAIL" /\ Len(y) = 1
  <2> DEFINE one == {"FAIL"}
  <2>1. m[1] \in one /\ one \subseteq {"FAIL", "OKAY"}
    BY <1>3
  <2> HIDE DEF one
  <2>2. a = << >> => All(y, one)
    BY <2>1, <1>3, AllOne
  <2>3. All(y, one) => All(y, {"FAIL", "OKAY"})
    BY <2>1, AllMore
  <2>4. a = << >> => y[1] = m /\ Len(y) = 1
    BY <1>6, <1>1
  <2> QED
    BY <2>2, <2>3, <2>4, <1>3 DEF one
<1> HIDE DEF x, y
<1>8. OwnService(s)
  BY <1>4, <1>5 DEF OwnService, ExchangeInv, TypeOK
<1>9. QueueOf(s, c2s[s])'
  <2>1. spc'[s] \in {"file", "closed"} /\ s \notin sopen'
    BY <1>5
  <2> QED
    BY <2>1, <1>1, <1>2 DEF QueueOf
<1>10. ASSUME s = sess
       PROVE  /\ cpc \in {"data", "status"} => SendPhase(c2s[sess], s2c[sess])'
              /\ cpc = "data" /\ Connected(sess) => DataStep(c2s[sess], s2c[sess])'
              /\ cpc = "status" /\ Connected(sess) => StatusStep(c2s[sess], s2c[sess])'
  <2>1. /\ c2s'[sess'] = x /\ sfile'[sess'] = f
        /\ sess' \notin sopen' /\ flist'[at'] = flist[at]
    BY <1>10, <1>2 DEF x
  <2>2. CASE Connected(sess)
    <3>1. s2c'[sess'] = y /\ spc'[sess'] = "file"
      BY <2>2, <1>2, <1>5, <1>10
    <3>2. cpc \in {"data", "status"} => a = << >>
      BY <2>2, <1>10 DEF a
    <3>3. ASSUME cpc \in {"data", "status"} PROVE SendPhase(c2s[sess], s2c[sess])'
      <4>1. Len(y) = 1 /\ y[1][1] = "FAIL" /\ All(y, {"FAIL"}) /\ All(y, {"FAIL", "OKAY"})
        BY <3>2, <3>3, <1>7
      <4>2. All(y, IF cpc' = "data" THEN {"FAIL"} ELSE {"FAIL", "OKAY"})
        BY <4>1
      <4>3. AtFile("file")'
        BY <3>1, <3>3, <2>1, <1>10 DEF AtFile
      <4>4. Len(y) <= 1 /\ y[1][1] # "OKAY"
        BY <4>1
      <4> QED
        BY <4>2, <4>3, <4>4, <3>1 DEF SendPhase
    <3>4. cpc = "data" => DataStep(c2s[sess], s2c[sess])'
      BY <3>1, <2>1, <2>2, <1>6, <1>10 DEF DataStep, AtFile, x
    <3>5. cpc = "status" => StatusStep(c2s[sess], s2c[sess])'
      BY <3>1, <2>1, <2>2, <1>6, <1>10 DEF StatusStep, AtFile, x
    <3> QED
      BY <3>3, <3>4, <3>5
  <2>3. CASE ~Connected(sess)
    <3>1. s2c'[sess'] = a /\ spc'[sess'] \in {"file", "closed"}
      BY <2>3, <1>2, <1>5, <1>10
    <3> QED
      BY <3>1, <2>1, <2>3, <1>2, <1>10 DEF SendPhase, AtFile, Gone, a
  <2> QED
    BY <2>2, <2>3
<1> QED
  BY <1>8, <1>9, <1>10, FileKeeps

LEMMA DoSendKeeps == ASSUME ExchangeInv, NEW s \in Sessions, DoSend(s) PROVE ExchangeInv'
<1> DEFINE q == c2s[s]
           a == s2c[s]
           f == Arg(s)
           x == Tail(q)
<1>0. /\ spc[s] = "cmd" /\ Asked(s, "SEND") /\ Frame /\ UNCHANGED names
      /\ sfile' = [sfile EXCEPT ![s] = f] /\ sk' = [sk EXCEPT ![s] = 0]
  BY DEF DoSend
<1>1. /\ s \in Nat \ {0} /\ sess \in Nat /\ s <= sess
      /\ q \in Seq(Requests) /\ a \in Seq(Answers) /\ QueueOf(s, q) /\ s \notin sopen
      /\ (a = << >> <=> Len(a) = 0) /\ Len(a) \in Nat
  BY <1>0, ServiceFacts
<1>2. /\ c2s' \in [Sessions -> Seq(Requests)] /\ \A r \in Sessions : Len(c2s'[r]) <= Cap
      /\ cut' = cut
      /\ \A r \in Sessions \ {s} : c2s'[r] = c2s[r]
      /\ q # << >> /\ q[1] \in Requests /\ q[1][1] = "SEND"
      /\ f = q[1][2] /\ c2s'[s] = x
  BY <1>0, AskedFacts DEF ExchangeInv
<1>3. ~All(q, {"STAT"})
  BY <1>1, <1>2, AllTake
<1>4. f \in Files /\ Body(x, f, 0)
  BY <1>0, <1>1, <1>2, <1>3, RequestKinds DEF QueueOf
<1>5. x \in Seq(Requests) /\ Len(q) \in Nat \ {0} /\ Len(x) = Len(q) - 1
  BY <1>1, <1>2, Take
<1>6. All(x, {"DATA", "DONE"}) /\ LastOnly(x, {"DONE"})
      /\ (0 + Len(x) = Readable[f] + 1 => x # << >> /\ x[Len(x)][1] = "DONE")
  BY <1>4, <1>5, BodyCut
<1>7. 0 + Len(x) <= Readable[f] => All(x, {"DATA"})
  BY <1>4, <1>5, BodyGoesOn
<1>8. UNCHANGED <<cmd, cpc, sess, flist, at, k, flags, result, got>>
  BY <1>0 DEF Frame, client
<1>9. /\ sfile' \in [Sessions -> Files \cup {None}] /\ sk' \in [Sessions -> Nat]
      /\ sfile'[s] = f /\ sk'[s] = 0
      /\ \A r \in Sessions \ {s} : sfile'[r] = sfile[r] /\ sk'[r] = sk[r]
  BY <1>0, <1>4 DEF ExchangeInv, TypeOK
<1>10. s = sess =>
         /\ cpc \in {"idle", "data", "status"}
         /\ cpc = "idle" => cmd \in {"push", "one", "sync"}
         /\ cpc \in {"data", "status"} =>
              /\ SendPhase(q, a) /\ (a # << >> => a[1][1] # "OKAY") /\ f = flist[at]
         /\ cpc = "data" /\ Connected(sess) => DataStep(q, a)
         /\ cpc = "status" /\ Connected(sess) => StatusStep(q, a)
         /\ cpc = "data" => k <= Readable[f] /\ k \in Nat
  BY <1>0, <1>2, Sender
<1> HIDE DEF q, a, f, x
<1>12. s = sess /\ cpc = "data" /\ Connected(sess) => Len(x) = k /\ a = << >>
  BY <1>0, <1>1, <1>5, <1>10 DEF DataStep, AtFile
<1>13. s = sess /\ cpc = "status" /\ Connected(sess) => Len(x) = Readable[f] + 1 /\ a = << >>
  <2>1. Readable[f] \in Nat
    BY <1>4, Constants
  <2>2. s = sess /\ cpc = "status" /\ Connected(sess) =>
          Len(q) = Readable[f] + 2 /\ a = << >>
    BY <1>0, <1>2, <1>10 DEF StatusStep, AtFile
  <2> QED
    BY <2>1, <2>2, <1>5
<1>14. CASE /\ f \in Locked => remote[f] # Absent
            /\ remote' = [remote EXCEPT ![f] =
                            IF f \in Locked THEN [@ EXCEPT !.by = s]
                            ELSE [by |-> s, data |-> << >>, time |-> Now]]
            /\ sopen' = sopen \cup {s} /\ spc' = [spc EXCEPT ![s] = "file"]
            /\ UNCHANGED s2c
  <2>1. remote' \in [Files -> [by : 0..MaxSessions, data : Seq(Chunks), time : Times]]
    <3>1. << >> \in Seq(Chunks) /\ Now \in Times
      BY DEF Times
    <3>2. CASE f \in Locked
      BY <3>2, <1>4, <1>14, <3>1, RemoteSet DEF ExchangeInv
    <3>3. CASE f \notin Locked
      BY <3>3, <1>4, <1>14, <3>1, RemoteSet DEF ExchangeInv
    <3> QED
      BY <3>2, <3>3
  <2>2. /\ spc' \in [Sessions -> {"none", "cmd", "dir", "file", "read", "closed"}]
        /\ spc'[s] = "file" /\ s \in sopen' /\ \A r \in Sessions \ {s} : spc'[r] = spc[r]
        /\ \A r \in Sessions \ {s} : r \in sopen' <=> r \in sopen
        /\ s2c'[s] = a
    BY <1>14 DEF ExchangeInv, TypeOK, a
  <2>3. OwnService(s)
    BY <2>1, <2>2, <1>0, <1>2, <1>9, <1>14 DEF OwnService, ExchangeInv, TypeOK
  <2>4. QueueOf(s, c2s[s])'
    BY <2>2, <1>0, <1>1, <1>2, <1>4, <1>6, <1>8, <1>9 DEF QueueOf
  <2>5. ASSUME s = sess
        PROVE  /\ cpc \in {"data", "status"} => SendPhase(c2s[sess], s2c[sess])'
               /\ cpc = "data" /\ Connected(sess) => DataStep(c2s[sess], s2c[sess])'
               /\ cpc = "status" /\ Connected(sess) => StatusStep(c2s[sess], s2c[sess])'
    <3>1. /\ c2s'[sess'] = x /\ spc'[sess'] = "file" /\ s2c'[sess'] = a /\ sfile'[sess'] = f
          /\ sk'[sess'] = 0 /\ sess' \in sopen' /\ flist'[at'] = flist[at]
      BY <2>2, <2>5, <1>2, <1>8, <1>9
    <3>2. cpc \in {"data", "status"} => SendPhase(c2s[sess], s2c[sess])'
      BY <3>1, <2>5, <1>8, <1>10 DEF SendPhase, AtFile
    <3>3. cpc = "data" /\ Connected(sess) => DataStep(c2s[sess], s2c[sess])'
      BY <3>1, <2>5, <1>5, <1>8, <1>10, <1>12 DEF DataStep, AtFile
    <3>4. cpc = "status" /\ Connected(sess) => StatusStep(c2s[sess], s2c[sess])'
      BY <3>1, <2>5, <1>5, <1>8, <1>10, <1>13 DEF StatusStep, AtFile
    <3> QED
      BY <3>2, <3>3, <3>4
  <2> QED
    BY <2>3, <2>4, <2>5, <1>0, <1>10, FileKeeps
<1>15. CASE remote' = Unlinked(f) /\ UNCHANGED sopen /\ Say(s, <<"FAIL", None>>, "file")
  <2>1. s = sess /\ cpc = "data" /\ Connected(sess) => a = << >> /\ All(x, {"DATA"})
    <3>1. Readable[f] \in Nat
      BY <1>4, Constants
    <3> QED
      BY <3>1, <1>5, <1>7, <1>10, <1>12
  <2>2. s = sess /\ cpc = "status" /\ Connected(sess) =>
          a = << >> /\ x # << >> /\ x[Len(x)][1] = "DONE"
    BY <1>5, <1>6, <1>13
  <2>3. sopen' = sopen \ {s}
    BY <1>1, <1>15
  <2> QED
    BY <2>1, <2>2, <2>3, <1>0, <1>2, <1>4, <1>6, <1>9, <1>10, <1>15, FailKeeps, ZenonT(30) DEF q, a
<1> QED
  BY <1>14, <1>15 DEF DoSend, f

\* What is in a file after a chunk is written to it.
LEMMA WriteAtFacts ==
    ASSUME NEW d \in Seq(Chunks), NEW n \in Nat, NEW chunk \in Chunks
    PROVE  WriteAt(d, n + 1, chunk) \in Seq(Chunks)
<1>1. CASE n + 1 <= Len(d)
  <2>1. n + 1 \in 1..Len(d)
    BY <1>1, LenProperties
  <2> QED
    BY <2>1, <1>1, ExceptSeq DEF WriteAt
<1>2. CASE ~(n + 1 <= Len(d))
  BY <1>2, AppendProperties DEF WriteAt
<1> QED
  BY <1>1, <1>2

LEMMA TakeChunkKeeps == ASSUME ExchangeInv, NEW s \in Sessions, TakeChunk(s) PROVE ExchangeInv'
<1> DEFINE q == c2s[s]
           a == s2c[s]
           f == sfile[s]
           x == Tail(q)
<1>0. spc[s] = "file" /\ Asked(s, "DATA") /\ Frame /\ UNCHANGED <<sfile, names>>
  BY DEF TakeChunk
<1>1. /\ s \in Nat \ {0} /\ sess \in Nat /\ s <= sess /\ sk[s] \in Nat
      /\ q \in Seq(Requests) /\ a \in Seq(Answers) /\ QueueOf(s, q)
      /\ (a = << >> <=> Len(a) = 0) /\ Len(a) \in Nat
  BY <1>0, ServiceFacts
<1>2. /\ c2s' \in [Sessions -> Seq(Requests)] /\ \A r \in Sessions : Len(c2s'[r]) <= Cap
      /\ cut' = cut
      /\ \A r \in Sessions \ {s} : c2s'[r] = c2s[r]
      /\ q # << >> /\ q[1] \in Requests /\ q[1][1] = "DATA" /\ Arg(s) = q[1][2] /\ c2s'[s] = x
  BY <1>0, AskedFacts DEF ExchangeInv
<1>3. /\ f \in Files /\ All(q, {"DATA", "DONE"}) /\ LastOnly(q, {"DONE"})
      /\ (s \in sopen => Body(q, f, sk[s])) /\ Arg(s) \in Chunks
      /\ Readable[f] \in Nat
  BY <1>0, <1>1, <1>2, RequestKinds, Constants DEF QueueOf
<1>4. x \in Seq(Requests) /\ Len(q) \in Nat \ {0} /\ Len(x) = Len(q) - 1 /\ Len(x) \in Nat
      /\ (Len(q) = 1 <=> x = << >>)
  <2>1. /\ x \in Seq(Requests) /\ Len(q) \in Nat \ {0} /\ Len(x) = Len(q) - 1
        /\ (Len(q) = 1 <=> x = << >>)
    BY <1>1, <1>2, Take
  <2> HIDE DEF x, q
  <2> QED
    BY <2>1
<1>5. All(x, {"DATA", "DONE"}) /\ LastOnly(x, {"DONE"}) /\ (All(q, {"DATA"}) => All(x, {"DATA"}))
  BY <1>1, <1>2, <1>3, AllTake, LastTake
<1>6. q[Len(q)][1] = "DONE" => x # << >> /\ x[Len(x)][1] = "DONE"
  <2>1. q[Len(q)][1] = "DONE" => x # << >>
    BY <1>2, <1>4
  <2> QED
    BY <2>1, <1>1, <1>2, TakeLast
<1>7. s \in sopen => Body(x, f, sk[s] + 1)
  BY <1>1, <1>2, <1>3, BodyTaken
<1>8. UNCHANGED <<cmd, cpc, sess, flist, at, k, flags, result, got>>
  BY <1>0 DEF Frame, client
<1>9. s = sess =>
        /\ cpc \in {"idle", "data", "status"}
        /\ cpc = "idle" => cmd \in {"push", "one", "sync"}
        /\ cpc \in {"data", "status"} =>
             /\ SendPhase(q, a) /\ (a # << >> => a[1][1] # "OKAY") /\ f = flist[at]
        /\ cpc = "data" /\ Connected(sess) => DataStep(q, a)
        /\ cpc = "status" /\ Connected(sess) => StatusStep(q, a)
        /\ cpc = "data" => k <= Readable[f] /\ k \in Nat
  BY <1>0, Sender
<1>10. /\ s \in sopen => /\ sk[s] + Len(q) = Readable[f] + 1 => q[Len(q)][1] = "DONE"
                         /\ sk[s] + Len(q) <= Readable[f] => All(q, {"DATA"})
  BY <1>1, <1>3, BodyCut, BodyGoesOn
<1> HIDE DEF q, a, f, x
<1>11. s = sess /\ cpc = "data" /\ Connected(sess) =>
         IF s \in sopen THEN sk[s] + Len(q) = k /\ a = << >> ELSE a # << >> /\ All(q, {"DATA"})
  BY <1>0, <1>9 DEF DataStep, Doing
<1>12. s = sess /\ cpc = "status" /\ Connected(sess) =>
         IF s \in sopen THEN sk[s] + Len(q) = Readable[f] + 1 /\ a = << >>
         ELSE a # << >> /\ q[Len(q)][1] = "DONE"
  BY <1>0, <1>9 DEF StatusStep, Doing
<1>13. CASE s \notin sopen /\ UNCHANGED <<remote, s2c, spc, sopen, sk>>
  <2>1. OwnService(s)
    BY <1>0, <1>2, <1>13 DEF OwnService, ExchangeInv, TypeOK
  <2>2. QueueOf(s, c2s[s])'
    BY <1>0, <1>1, <1>2, <1>3, <1>5, <1>8, <1>13 DEF QueueOf, f
  <2>3. ASSUME s = sess
        PROVE  /\ cpc \in {"data", "status"} => SendPhase(c2s[sess], s2c[sess])'
               /\ cpc = "data" /\ Connected(sess) => DataStep(c2s[sess], s2c[sess])'
               /\ cpc = "status" /\ Connected(sess) => StatusStep(c2s[sess], s2c[sess])'
    <3>1. /\ c2s'[sess'] = x /\ spc'[sess'] = "file" /\ s2c'[sess'] = a /\ sfile'[sess'] = f
          /\ sess' \notin sopen' /\ flist'[at'] = flist[at]
      BY <2>3, <1>0, <1>2, <1>8, <1>13 DEF a, f
    <3>2. cpc \in {"data", "status"} => SendPhase(c2s[sess], s2c[sess])'
      BY <3>1, <2>3, <1>8, <1>9 DEF SendPhase, AtFile
    <3>3. cpc = "data" /\ Connected(sess) => DataStep(c2s[sess], s2c[sess])'
      BY <3>1, <2>3, <1>5, <1>9, <1>11, <1>13 DEF DataStep, AtFile
    <3>4. cpc = "status" /\ Connected(sess) => StatusStep(c2s[sess], s2c[sess])'
      BY <3>1, <2>3, <1>6, <1>9, <1>12, <1>13 DEF StatusStep, AtFile
    <3> QED
      BY <3>2, <3>3, <3>4
  <2> QED
    BY <2>1, <2>2, <2>3, <1>0, <1>9, FileKeeps
<1>14. CASE /\ s \in sopen /\ sk' = [sk EXCEPT ![s] = @ + 1]
            /\ remote' = IF Mine(s)
                 THEN [remote EXCEPT ![sfile[s]] =
                         [by |-> s, time |-> Now, data |-> WriteAt(@.data, sk[s] + 1, Arg(s))]]
                 ELSE remote
            /\ UNCHANGED <<s2c, spc, sopen>>
  <2>1. remote' \in [Files -> [by : 0..MaxSessions, data : Seq(Chunks), time : Times]]
    <3> DEFINE d == WriteAt(remote[f].data, sk[s] + 1, Arg(s))
    <3>1. d \in Seq(Chunks) /\ Now \in Times
      BY <1>1, <1>3, WriteAtFacts DEF ExchangeInv, TypeOK, Times
    <3> HIDE DEF d
    <3>2. [remote EXCEPT ![f] = [by |-> s, data |-> d, time |-> Now]]
            \in [Files -> [by : 0..MaxSessions, data : Seq(Chunks), time : Times]]
      BY <3>1, <1>3, RemoteSet DEF ExchangeInv
    <3>3. remote' \in {remote, [remote EXCEPT ![f] = [by |-> s, data |-> d, time |-> Now]]}
      BY <1>14 DEF d, f
    <3> QED
      BY <3>2, <3>3 DEF ExchangeInv, TypeOK
  <2>2. sk' \in [Sessions -> Nat] /\ sk'[s] = sk[s] + 1
        /\ \A r \in Sessions \ {s} : sk'[r] = sk[r]
    BY <1>14 DEF ExchangeInv, TypeOK
  <2>3. OwnService(s)
    BY <2>1, <2>2, <1>0, <1>2, <1>14 DEF OwnService, ExchangeInv, TypeOK
  <2>4. QueueOf(s, c2s[s])'
    BY <2>2, <1>0, <1>1, <1>2, <1>3, <1>5, <1>7, <1>8, <1>14 DEF QueueOf, f
  <2>5. ASSUME s = sess
        PROVE  /\ cpc \in {"data", "status"} => SendPhase(c2s[sess], s2c[sess])'
               /\ cpc = "data" /\ Connected(sess) => DataStep(c2s[sess], s2c[sess])'
               /\ cpc = "status" /\ Connected(sess) => StatusStep(c2s[sess], s2c[sess])'
    <3>1. /\ c2s'[sess'] = x /\ spc'[sess'] = "file" /\ s2c'[sess'] = a /\ sfile'[sess'] = f
          /\ sess' \in sopen' /\ flist'[at'] = flist[at] /\ sk'[sess'] = sk[s] + 1
      BY <2>2, <2>5, <1>0, <1>2, <1>8, <1>14 DEF a, f
    <3>2. cpc \in {"data", "status"} => SendPhase(c2s[sess], s2c[sess])'
      BY <3>1, <2>5, <1>8, <1>9 DEF SendPhase, AtFile
    <3>3. sk[s] + 1 + Len(x) = sk[s] + Len(q)
      BY <1>1, <1>4
    <3>4. cpc = "data" /\ Connected(sess) => DataStep(c2s[sess], s2c[sess])'
      BY <3>1, <3>3, <2>5, <1>8, <1>9, <1>11, <1>14 DEF DataStep, AtFile
    <3>5. cpc = "status" /\ Connected(sess) => StatusStep(c2s[sess], s2c[sess])'
      BY <3>1, <3>3, <2>5, <1>9, <1>12, <1>14 DEF StatusStep, AtFile
    <3> QED
      BY <3>2, <3>4, <3>5
  <2> QED
    BY <2>3, <2>4, <2>5, <1>0, <1>9, FileKeeps
<1>15. CASE /\ s \in sopen /\ sopen' = sopen \ {s} /\ remote' = Unlinked(sfile[s])
            /\ Say(s, <<"FAIL", None>>, "file") /\ UNCHANGED sk
  <2>1. s = sess /\ cpc = "data" /\ Connected(sess) => a = << >> /\ All(x, {"DATA"})
    BY <1>4, <1>1, <1>5, <1>9, <1>10, <1>11, <1>15
  <2>2. s = sess /\ cpc = "status" /\ Connected(sess) =>
          a = << >> /\ x # << >> /\ x[Len(x)][1] = "DONE"
    BY <1>6, <1>10, <1>12, <1>15
  <2>3. /\ sfile' \in [Sessions -> Files \cup {None}] /\ sk' \in [Sessions -> Nat]
        /\ sfile'[s] = f /\ \A r \in Sessions \ {s} : sfile'[r] = sfile[r] /\ sk'[r] = sk[r]
    BY <1>0, <1>15 DEF ExchangeInv, TypeOK, f
  <2>4. remote' = Unlinked(f)
    BY <1>15 DEF f
  <2> QED
    BY <2>1, <2>2, <2>3, <2>4, <1>0, <1>2, <1>3, <1>5, <1>9, <1>15, FailKeeps DEF q, a
<1> QED
  BY <1>13, <1>14, <1>15 DEF TakeChunk

LEMMA TakeDoneKeeps == ASSUME ExchangeInv, NEW s \in Sessions, TakeDone(s) PROVE ExchangeInv'
<1> DEFINE q == c2s[s]
           a == s2c[s]
           f == sfile[s]
           m == <<"OKAY", None>>
           y == Append(a, m)
<1>0. /\ spc[s] = "file" /\ Asked(s, "DONE") /\ Frame /\ UNCHANGED <<sfile, sk, names>>
      /\ sopen' = sopen \ {s}
  BY DEF TakeDone
<1>1. /\ s \in Nat \ {0} /\ sess \in Nat /\ s <= sess /\ sk[s] \in Nat
      /\ q \in Seq(Requests) /\ a \in Seq(Answers) /\ QueueOf(s, q)
      /\ (a = << >> <=> Len(a) = 0) /\ Len(a) \in Nat
  BY <1>0, ServiceFacts
<1>2. /\ c2s' \in [Sessions -> Seq(Requests)] /\ \A r \in Sessions : Len(c2s'[r]) <= Cap
      /\ cut' = cut
      /\ \A r \in Sessions \ {s} : c2s'[r] = c2s[r]
      /\ q # << >> /\ q[1] \in Requests /\ q[1][1] = "DONE" /\ Arg(s) = q[1][2]
      /\ c2s'[s] = Tail(q)
  BY <1>0, AskedFacts DEF ExchangeInv
<1>3. f \in Files /\ LastOnly(q, {"DONE"}) /\ (s \in sopen => Body(q, f, sk[s]))
      /\ Arg(s) = LocalTime /\ LocalTime \in Times /\ Readable[f] \in Nat
  BY <1>0, <1>1, <1>2, RequestKinds, Constants DEF QueueOf, Times
<1>4. c2s'[s] = << >>
  BY <1>1, <1>2, <1>3, LastTake
<1>5. ~All(q, {"DATA"})
  BY <1>1, <1>2, AllTake
<1>6. s \in sopen => ~(sk[s] + Len(q) <= Readable[f])
  BY <1>1, <1>3, <1>5, BodyGoesOn
<1>7. s = sess =>
        /\ cpc \in {"idle", "data", "status"}
        /\ cpc = "idle" => cmd \in {"push", "one", "sync"}
        /\ cpc \in {"data", "status"} =>
             /\ SendPhase(q, a) /\ (a # << >> => a[1][1] # "OKAY") /\ f = flist[at]
        /\ cpc = "data" /\ Connected(sess) => DataStep(q, a)
        /\ cpc = "status" /\ Connected(sess) => StatusStep(q, a)
        /\ cpc = "data" => k <= Readable[f] /\ k \in Nat
  BY <1>0, Sender
<1>8. UNCHANGED <<cmd, cpc, sess, flist, at, k, flags, result, got>>
  BY <1>0 DEF Frame, client
<1>9. m \in Answers /\ m[1] = "OKAY"
  BY AnswerKinds
<1> HIDE DEF q, a, f, m
<1>10. y # << >> /\ Len(y) = Len(a) + 1
  BY <1>1, <1>9, Put
<1>11. s = sess /\ Connected(sess) => cpc # "data"
  BY <1>0, <1>5, <1>6, <1>7 DEF DataStep, Doing
<1>12. s = sess /\ cpc = "status" /\ Connected(sess) => IF s \in sopen THEN a = << >> ELSE a # << >>
  BY <1>0, <1>7 DEF StatusStep, Doing
<1>13. /\ remote' \in [Files -> [by : 0..MaxSessions, data : Seq(Chunks), time : Times]]
       /\ s2c' \in [Sessions -> Seq(Answers)] /\ \A r \in Sessions : Len(s2c'[r]) <= Cap
       /\ spc' \in [Sessions -> {"none", "cmd", "dir", "file", "read", "closed"}]
       /\ \A r \in Sessions \ {s} : s2c'[r] = s2c[r] /\ spc'[r] = spc[r]
       /\ Connected(s) => spc'[s] = "cmd" /\ s2c'[s] = (IF s \in sopen THEN y ELSE a)
       /\ ~Connected(s) => spc'[s] \in {"cmd", "closed"} /\ s2c'[s] = a
  <2>1. CASE s \in sopen
    <3>1. Say(s, m, "cmd")
          /\ remote' = (IF Mine(s) THEN [remote EXCEPT ![f].time = LocalTime] ELSE remote)
      BY <2>1, <1>3 DEF TakeDone, m, f
    <3>2. << >> \in Seq(Chunks)
      OBVIOUS
    <3>3. remote' \in [Files -> [by : 0..MaxSessions, data : Seq(Chunks), time : Times]]
      BY <3>1, <3>2, <1>3, RemoteSet DEF ExchangeInv, TypeOK
    <3> QED
      BY <3>1, <3>3, <2>1, <1>9, SayFacts DEF ExchangeInv, a
  <2>2. CASE s \notin sopen
    BY <2>2, <1>0 DEF TakeDone, ExchangeInv, TypeOK, a
  <2> QED
    BY <2>1, <2>2
<1>14. a = << >> => Len(y) = 1 /\ All(y, {"FAIL", "OKAY"})
  <2> DEFINE kinds == {"FAIL", "OKAY"}
  <2>1. m[1] \in kinds
    BY <1>9
  <2> HIDE DEF kinds
  <2>2. a = << >> => All(y, kinds)
    BY <2>1, <1>9, AllOne
  <2>3. a = << >> => Len(y) = 1
    BY <1>1, <1>10
  <2> QED
    BY <2>2, <2>3 DEF kinds
<1> HIDE DEF y
<1>15. OwnService(s)
  BY <1>0, <1>2, <1>13 DEF OwnService, ExchangeInv, TypeOK
<1>16. QueueOf(s, c2s[s])'
  <2>1. spc'[s] \in {"cmd", "closed"} /\ s \notin sopen'
    BY <1>0, <1>13
  <2> QED
    BY <2>1, <1>1, <1>4, <1>8, AllEmpty DEF QueueOf
<1>17. ASSUME s = sess
       PROVE  /\ cpc \in {"data", "status"} => SendPhase(c2s[sess], s2c[sess])'
              /\ cpc = "data" /\ Connected(sess) => DataStep(c2s[sess], s2c[sess])'
              /\ cpc = "status" /\ Connected(sess) => StatusStep(c2s[sess], s2c[sess])'
  <2>1. c2s'[sess'] = << >> /\ spc'[sess'] \in {"cmd", "closed"}
        /\ (Connected(sess) => s2c'[sess'] = (IF s \in sopen THEN y ELSE a) /\ spc'[sess'] = "cmd")
        /\ (~Connected(sess) => s2c'[sess'] = a)
    BY <1>17, <1>4, <1>8, <1>13
  <2>2. Gone(c2s[sess])'
    BY <2>1 DEF Gone
  <2>3. ASSUME cpc \in {"data", "status"} PROVE SendPhase(c2s[sess], s2c[sess])'
    <3>1. CASE s2c'[sess'] = a
      BY <3>1, <2>2, <2>3, <1>7, <1>8, <1>17 DEF SendPhase
    <3>2. CASE Connected(sess) /\ s \in sopen
      <4>1. cpc' = "status" /\ a = << >> /\ s2c'[sess'] = y
        BY <3>2, <2>1, <2>3, <1>8, <1>11, <1>12, <1>17
      <4> QED
        BY <4>1, <2>2, <1>14 DEF SendPhase
    <3> QED
      BY <3>1, <3>2, <2>1
  <2>4. cpc = "status" /\ Connected(sess) => StatusStep(c2s[sess], s2c[sess])'
    BY <2>1, <1>10, <1>12, <1>17 DEF StatusStep
  <2> QED
    BY <2>3, <2>4, <1>11, <1>17
<1> QED
  BY <1>0, <1>7, <1>15, <1>16, <1>17, FileKeeps

LEMMA ServiceStepKeeps ==
    ASSUME ExchangeInv, NEW s \in Sessions, Service(s) PROVE ExchangeInv'
  BY DoStatKeeps, DoListKeeps, SayNameKeeps, DoSendKeeps, TakeChunkKeeps, TakeDoneKeeps,
     FileLostKeeps, DoRecvKeeps, SayChunkKeeps, LeaveKeeps
     DEF Service

-----------------------------------------------------------------------------
(* Faults and commands *)

\* What has been lost of the stream of a broken connection is what came last.
LEMMA BreakKeeps == ASSUME ExchangeInv, NEW s \in Sessions, Break(s) PROVE ExchangeInv'
<1> DEFINE q == c2s[s]
           a == s2c[s]
<1>0. /\ s \in 1..sess /\ spc[s] # "closed" /\ s \notin cut /\ faults < MaxFaults
      /\ cut' = cut \cup {s} /\ faults' = faults + 1
      /\ UNCHANGED <<cmd, cpc, sess, flist, at, k, flags, result, got, spc, sfile, sk, sopen,
                     names, remote, deaths>>
  BY DEF Break, Connected, client, service
<1>1. /\ s \in Nat \ {0} /\ sess \in Nat /\ s <= sess
      /\ q \in Seq(Requests) /\ a \in Seq(Answers) /\ QueueOf(s, q)
      /\ (s = sess => PhaseOf(q, a)) /\ Len(flist) \in Nat /\ at \in Nat
  <2>1. s \in Nat \ {0} /\ sess \in Nat /\ s <= sess
    BY <1>0, Constants DEF ExchangeInv, TypeOK, Sessions
  <2>2. spc[s] \in {"none", "cmd", "dir", "file", "read", "closed"} /\ QueueOf(s, q)
    BY DEF ExchangeInv, TypeOK, QueueInv
  <2>3. spc[s] \in {"cmd", "dir", "file", "read"}
    BY <2>1, <2>2, <1>0 DEF QueueOf
  <2>4. flist \in Seq(Files \cup {Dir}) /\ at \in 1..(Len(flist) + 1)
    BY DEF ExchangeInv, TypeOK
  <2>5. Len(flist) \in Nat
    BY <2>4, Empty
  <2> QED
    BY <2>1, <2>2, <2>3, <2>4, <2>5, ServiceFacts
<1>2. PICK i \in 0..Len(q), j \in 0..Len(a) :
        /\ c2s' = [c2s EXCEPT ![s] = SubSeq(@, 1, i)]
        /\ s2c' = [s2c EXCEPT ![s] = SubSeq(@, 1, j)]
  BY DEF Break
<1> DEFINE x == SubSeq(q, 1, i)
           b == SubSeq(a, 1, j)
<1>3. /\ x \in Seq(Requests) /\ Len(x) = i /\ b \in Seq(Answers) /\ Len(b) = j
      /\ Len(q) \in Nat /\ Len(a) \in Nat /\ (Len(q) = i => x = q)
  BY <1>1, Cut
<1>4. /\ x # << >> => /\ q # << >> /\ x[1] = q[1] /\ i \in 1..Len(q)
                      /\ Tail(x) = SubSeq(Tail(q), 1, i - 1)
      /\ q = << >> => x = << >>
  BY <1>1, CutEnds
<1>5. /\ b # << >> => /\ a # << >> /\ b[1] = a[1]
                      /\ \A kinds : LastOnly(a, kinds) /\ b[Len(b)][1] \in kinds =>
                           b[Len(b)] = a[Len(a)]
      /\ a = << >> => b = << >>
  BY <1>1, CutEnds
<1>6. /\ \A kinds : All(q, kinds) => All(x, kinds)
      /\ \A kinds : All(a, kinds) => All(b, kinds)
      /\ \A kinds : LastOnly(q, kinds) => LastOnly(x, kinds)
      /\ \A kinds : LastOnly(a, kinds) => LastOnly(b, kinds)
  BY <1>1, AllCut
<1>7. /\ c2s' \in [Sessions -> Seq(Requests)] /\ s2c' \in [Sessions -> Seq(Answers)]
      /\ c2s'[s] = x /\ s2c'[s] = b
      /\ \A r \in Sessions : Len(c2s'[r]) <= Cap /\ Len(s2c'[r]) <= Cap
      /\ \A r \in Sessions \ {s} : c2s'[r] = c2s[r] /\ s2c'[r] = s2c[r]
  <2>1. /\ c2s \in [Sessions -> Seq(Requests)] /\ \A r \in Sessions : Len(c2s[r]) <= Cap
        /\ s2c \in [Sessions -> Seq(Answers)] /\ \A r \in Sessions : Len(s2c[r]) <= Cap
        /\ Cap \in Nat
    BY Constants DEF ExchangeInv, TypeOK
  <2>2. Len(x) <= Cap /\ Len(b) <= Cap
    BY <2>1, <1>3
  <2>3. c2s' = [c2s EXCEPT ![s] = x] /\ s2c' = [s2c EXCEPT ![s] = b]
    BY <1>2
  <2> HIDE DEF x, b
  <2>4. /\ c2s' \in [Sessions -> Seq(Requests)] /\ \A r \in Sessions : Len(c2s'[r]) <= Cap
        /\ c2s'[s] = x /\ \A r \in Sessions \ {s} : c2s'[r] = c2s[r]
    BY <2>1, <2>2, <2>3, <1>3, OneStream
  <2>5. /\ s2c' \in [Sessions -> Seq(Answers)] /\ \A r \in Sessions : Len(s2c'[r]) <= Cap
        /\ s2c'[s] = b /\ \A r \in Sessions \ {s} : s2c'[r] = s2c[r]
    BY <2>1, <2>2, <2>3, <1>3, OneStream
  <2> QED
    BY <2>4, <2>5
<1>8. s \in sopen => Body(x, sfile[s], sk[s])
  <2> SUFFICES ASSUME s \in sopen PROVE Body(x, sfile[s], sk[s])
    OBVIOUS
  <2>1. sfile[s] \in Files /\ Body(q, sfile[s], sk[s]) /\ sk[s] \in Nat
    BY <1>1 DEF QueueOf, ExchangeInv, TypeOK
  <2> QED
    BY <2>1, <1>1, BodyCut
<1>9. x # << >> /\ q[1][1] = "SEND" /\ Body(Tail(q), q[1][2], 0) => Body(Tail(x), x[1][2], 0)
  <2> SUFFICES ASSUME x # << >>, q[1][1] = "SEND", Body(Tail(q), q[1][2], 0)
               PROVE  Body(Tail(x), x[1][2], 0)
    OBVIOUS
  <2>1. /\ Tail(q) \in Seq(Requests) /\ Len(Tail(q)) = Len(q) - 1 /\ q[1] \in Requests
        /\ q[1][2] \in Files
    BY <1>1, <1>4, Take, RequestKinds
  <2>2. i - 1 \in 0..Len(Tail(q)) /\ 0 \in Nat
    BY <2>1, <1>3, <1>4, SMTT(30)
  <2>3. Body(SubSeq(Tail(q), 1, i - 1), q[1][2], 0)
    BY <2>1, <2>2, BodyCut
  <2> QED
    BY <2>3, <1>4
<1>10. Len(q) = 1 => x = << >> \/ x = q
  BY <1>3, <1>4
<1> HIDE DEF q, a, x, b
<1>11. QueueOf(s, c2s[s])'
  <2>1. spc[s] = "cmd" =>
          \/ All(x, {"STAT"})
          \/ Len(x) = 1 /\ x[1][1] \in {"LIST", "RECV", "QUIT"}
          \/ x # << >> /\ x[1][1] = "SEND" /\ Body(Tail(x), x[1][2], 0)
    <3> SUFFICES ASSUME spc[s] = "cmd", x # << >>
                 PROVE  \/ All(x, {"STAT"})
                        \/ Len(x) = 1 /\ x[1][1] \in {"LIST", "RECV", "QUIT"}
                        \/ x # << >> /\ x[1][1] = "SEND" /\ Body(Tail(x), x[1][2], 0)
      BY AllEmpty
    <3> QED
      BY <1>1, <1>4, <1>6, <1>9, <1>10 DEF QueueOf
  <2> QED
    BY <2>1, <1>0, <1>1, <1>4, <1>6, <1>7, <1>8 DEF QueueOf
<1>12. QueueInv'
  <2> SUFFICES ASSUME NEW r \in Sessions, r # s PROVE QueueOf(r, c2s[r])'
    BY <1>11 DEF QueueInv
  <2>1. QueueOf(r, c2s[r])
    BY DEF ExchangeInv, QueueInv
  <2> QED
    BY <2>1, <1>0, <1>7 DEF QueueOf
<1>13. s = sess =>
         /\ c2s'[sess'] = x /\ s2c'[sess'] = b /\ spc'[sess'] = spc[sess]
         /\ sfile'[sess'] = sfile[sess] /\ flist'[at'] = flist[at] /\ cpc' = cpc
  BY <1>0, <1>7
<1>14. s = sess =>
         /\ Gone(q) => Gone(c2s[sess])'
         /\ \A kind : Doing(q, kind) => Gone(c2s[sess])' \/ Doing(c2s[sess], kind)'
         /\ \A pc : AtFile(pc)' <=> AtFile(pc)
         /\ NoSend(q) => NoSend(c2s[sess])'
  BY <1>4, <1>13 DEF Gone, Doing, AtFile, NoSend
<1>15. ASSUME s = sess PROVE PhaseOf(c2s[sess], s2c[sess])'
  <2>1. StatsPhase(q, a) => StatsPhase(c2s[sess], s2c[sess])'
    <3> SUFFICES ASSUME StatsPhase(q, a) PROVE StatsPhase(c2s[sess], s2c[sess])'
      OBVIOUS
    <3> DEFINE w == IF cpc = "ask" THEN at - 1 ELSE Len(flist) - at + 1
    <3>1. Len(q) + Len(a) <= w /\ w \in Int
      BY <1>1 DEF StatsPhase
    <3> HIDE DEF w
    <3>2. Len(x) + Len(b) <= w
      BY <3>1, <1>3
    <3>3. Len(c2s'[sess']) + Len(s2c'[sess'])
            <= (IF cpc' = "ask" THEN at' - 1 ELSE Len(flist') - at' + 1)
      BY <3>2, <1>0, <1>15, <1>13 DEF w
    <3> QED
      BY <3>3, <1>6, <1>15, <1>13, <1>14 DEF StatsPhase
  <2>2. RestPhase(q, a) => RestPhase(c2s[sess], s2c[sess])'
    BY <1>5, <1>15, <1>13, <1>14 DEF RestPhase
  <2>3. ListPhase(q, a) => ListPhase(c2s[sess], s2c[sess])'
    <3> SUFFICES ASSUME ListPhase(q, a) PROVE ListPhase(c2s[sess], s2c[sess])'
      OBVIOUS
    <3>1. All(b, {"DENT", "DONE"}) /\ LastOnly(b, {"DONE"})
      BY <1>6 DEF ListPhase
    <3>2. \/ Gone(c2s[sess])' \/ spc'[sess'] = "dir"
          \/ spc'[sess'] = "cmd" /\ x # << >> /\ x[1][1] = "LIST"
      BY <1>4, <1>15, <1>13, <1>14 DEF ListPhase, Gone
    <3>3. b # << >> /\ b[Len(b)][1] = "DONE" => Gone(c2s[sess])'
      BY <1>5, <1>15, <1>14 DEF ListPhase
    <3> QED
      BY <3>1, <3>2, <3>3, <1>15, <1>13 DEF ListPhase
  <2>4. SendPhase(q, a) => SendPhase(c2s[sess], s2c[sess])'
    <3> SUFFICES ASSUME SendPhase(q, a) PROVE SendPhase(c2s[sess], s2c[sess])'
      OBVIOUS
    <3>1. Len(b) <= 1 /\ All(b, IF cpc' = "data" THEN {"FAIL"} ELSE {"FAIL", "OKAY"})
      BY <1>3, <1>6, <1>15, <1>13 DEF SendPhase
    <3>2. Gone(c2s[sess])' \/ Doing(c2s[sess], "SEND")' \/ AtFile("file")'
      BY <1>15, <1>14 DEF SendPhase
    <3>3. b # << >> /\ b[1][1] = "OKAY" => Gone(c2s[sess])'
      BY <1>5, <1>15, <1>14 DEF SendPhase
    <3> QED
      BY <3>1, <3>2, <3>3, <1>15, <1>13 DEF SendPhase
  <2>5. RecvPhase(q, a) => RecvPhase(c2s[sess], s2c[sess])'
    <3> SUFFICES ASSUME RecvPhase(q, a) PROVE RecvPhase(c2s[sess], s2c[sess])'
      OBVIOUS
    <3>1. All(b, {"DATA", "DONE", "FAIL"}) /\ LastOnly(b, {"DONE", "FAIL"})
      BY <1>6 DEF RecvPhase
    <3>2. Gone(c2s[sess])' \/ Doing(c2s[sess], "RECV")' \/ AtFile("read")'
      BY <1>15, <1>14 DEF RecvPhase
    <3>3. b # << >> /\ b[Len(b)][1] # "DATA" => Gone(c2s[sess])'
      <4>1. b # << >> => b[Len(b)][1] \in {"DATA", "DONE", "FAIL"}
        BY <3>1, <1>3, Empty DEF All
      <4>2. b # << >> /\ b[Len(b)][1] # "DATA" => b[Len(b)] = a[Len(a)] /\ a # << >>
        BY <4>1, <1>5 DEF RecvPhase
      <4> QED
        BY <4>2, <1>15, <1>14 DEF RecvPhase
    <3> QED
      BY <3>1, <3>2, <3>3, <1>15, <1>13 DEF RecvPhase
  <2> QED
    BY <2>1, <2>2, <2>3, <2>4, <2>5, <1>0, <1>1, <1>15, <1>14 DEF PhaseOf
<1>16. TypeOK'
  <2>1. faults' \in 0..MaxFaults /\ deaths' \in 0..faults'
    BY <1>0, Constants DEF ExchangeInv, TypeOK
  <2> QED
    BY <2>1, <1>0, <1>7 DEF ExchangeInv, TypeOK
<1>17. CommandInv'
  BY <1>0 DEF ExchangeInv, CommandInv
<1>18. CASE s = sess
  <2>1. PhaseInv' /\ StepInv'
    BY <1>0, <1>15, <1>18 DEF PhaseInv, StepInv, Connected
  <2> QED
    BY <2>1, <1>12, <1>16, <1>17 DEF ExchangeInv
<1>19. CASE s # sess
  <2>1. sess > 0 /\ sess \in Sessions
    BY <1>1, Constants DEF ExchangeInv, TypeOK, Sessions
  <2>2. /\ c2s'[sess'] = c2s[sess] /\ s2c'[sess'] = s2c[sess] /\ spc'[sess'] = spc[sess]
        /\ sfile'[sess'] = sfile[sess] /\ sk'[sess'] = sk[sess]
        /\ (sess' \in sopen' <=> sess \in sopen) /\ (sess' \in cut' <=> sess \in cut)
    BY <2>1, <1>0, <1>7, <1>19
  <2>3. UNCHANGED <<cmd, cpc, sess, flist, at, k>>
    BY <1>0
  <2>4. PhaseOf(c2s[sess], s2c[sess])
    BY <2>1 DEF ExchangeInv, PhaseInv
  <2>5. PhaseInv'
    BY <2>2, <2>3, <2>4 DEF PhaseInv, PhaseOf, StatsPhase, RestPhase, ListPhase, SendPhase,
                            RecvPhase, NoSend, Gone, Doing, AtFile
  <2>6. Connected(sess)' => Connected(sess)
    BY <2>2, <2>3 DEF Connected
  <2>7. StepInv'
    BY <2>2, <2>3, <2>6 DEF ExchangeInv, StepInv, StepOf, AskStep, StatsStep, ListStep,
                            DataStep, StatusStep, RecvStep, Pending, Doing, AtFile
  <2> QED
    BY <2>5, <2>7, <1>12, <1>16, <1>17 DEF ExchangeInv
<1> QED
  BY <1>18, <1>19

LEMMA PowerLossKeeps == ASSUME ExchangeInv, PowerLoss PROVE ExchangeInv'
<1>0. /\ UNCHANGED <<cmd, cpc, sess, flist, at, k, flags, result, got, s2c, sfile, sk, names,
                     remote>>
      /\ faults < MaxFaults /\ faults' = faults + 1 /\ deaths' = deaths + 1
      /\ cut' = cut \cup {s \in Sessions : spc[s] # "none"} /\ sopen' = {}
      /\ c2s' = [s \in Sessions |-> << >>]
      /\ spc' = [s \in Sessions |-> IF spc[s] = "none" THEN "none" ELSE "closed"]
  BY DEF PowerLoss, client
<1>1. TypeOK'
  <2>1. faults' \in 0..MaxFaults /\ deaths' \in 0..faults'
    BY <1>0, Constants DEF ExchangeInv, TypeOK
  <2>2. /\ c2s' \in [Sessions -> Seq(Requests)] /\ s2c' \in [Sessions -> Seq(Answers)]
        /\ \A s \in Sessions : Len(c2s'[s]) <= Cap /\ Len(s2c'[s]) <= Cap
    <3>1. << >> \in Seq(Requests) /\ Len(<< >>) = 0 /\ 0 <= Cap
      BY Empty, Constants
    <3> QED
      BY <3>1, <1>0 DEF ExchangeInv, TypeOK
  <2> QED
    BY <2>1, <2>2, <1>0 DEF ExchangeInv, TypeOK
<1>2. QueueInv'
  <2> SUFFICES ASSUME NEW s \in Sessions PROVE QueueOf(s, c2s[s])'
    BY DEF QueueInv
  <2>1. QueueOf(s, c2s[s])
    BY DEF ExchangeInv, QueueInv
  <2>2. spc'[s] = (IF spc[s] = "none" THEN "none" ELSE "closed") /\ c2s'[s] = << >>
        /\ s \notin sopen' /\ (s \in cut' <=> s \in cut \/ spc[s] # "none")
    BY <1>0
  <2> QED
    BY <2>1, <2>2, <1>0 DEF QueueOf
<1>3. CommandInv'
  BY <1>0 DEF ExchangeInv, CommandInv
<1>4. sess > 0 => sess \in Sessions /\ sess \in Nat \ {0} /\ spc[sess] # "none"
  <2>1. sess > 0 => sess \in Sessions /\ sess \in Nat \ {0}
    BY Constants DEF ExchangeInv, TypeOK, Sessions
  <2> QED
    BY <2>1 DEF ExchangeInv, QueueInv, QueueOf
<1>5. PhaseInv'
  <2> SUFFICES ASSUME sess > 0 PROVE PhaseOf(c2s[sess], s2c[sess])'
    BY <1>0 DEF PhaseInv
  <2>1. c2s[sess] \in Seq(Requests) /\ s2c[sess] \in Seq(Answers) /\ PhaseOf(c2s[sess], s2c[sess])
    BY <1>4 DEF ExchangeInv, TypeOK, PhaseInv
  <2>2. c2s'[sess] = << >> /\ s2c'[sess] = s2c[sess] /\ spc'[sess] = "closed"
    BY <1>0, <1>4
  <2>3. cpc \in {"ask", "stats"} => at \in Nat /\ Len(flist) \in Nat
    BY ClientFacts
  <2>4. UNCHANGED client
    BY <1>0 DEF client
  <2> QED
    BY <2>1, <2>2, <2>3, <2>4, <1>4, ClosedPhase
<1>6. StepInv'
  <2>0. sess' = sess
    BY <1>0
  <2>1. Connected(sess)' => sess > 0
    <3>1. Connected(sess)' => sess' \in 1..sess'
      BY DEF Connected
    <3>2. sess \in Nat
      BY DEF ExchangeInv, TypeOK
    <3> QED
      BY <3>1, <3>2, <2>0
  <2>2. Connected(sess)' => spc'[sess] # "closed"
    <3>1. Connected(sess)' => spc'[sess'] # "closed"
      BY DEF Connected
    <3> QED
      BY <3>1, <2>0
  <2>3. sess > 0 => spc'[sess] = "closed"
    BY <1>0, <1>4
  <2> QED
    BY <2>1, <2>2, <2>3 DEF StepInv
<1> QED
  BY <1>1, <1>2, <1>3, <1>5, <1>6 DEF ExchangeInv

LEMMA StartKeeps == ASSUME ExchangeInv, NEW c \in Commands, Start(c) PROVE ExchangeInv'
<1> DEFINE s == sess + 1
           ask == {"one", "sync", "would", "pull"}
<1>0. /\ cpc = "idle" /\ sess < MaxSessions /\ sess' = s /\ cmd' = c /\ at' = 1 /\ k' = 0
      /\ flags' = {} /\ result' = "none"
      /\ flist' = (CASE c = "pull" -> <<Dir>> [] c = "ls" -> << >>
                     [] c = "one" -> <<Head(FileList)>> [] OTHER -> FileList)
      /\ cpc' = (CASE c = "push" -> "next" [] c = "ls" -> "list" [] OTHER -> "ask")
      /\ spc' = [spc EXCEPT ![s] = "cmd"]
      /\ UNCHANGED <<got, c2s, s2c, cut, sfile, sk, sopen, names, remote, faults, deaths>>
  <2>1. Start(c)
    OBVIOUS
  <2> USE DEF Start
  <2>2. /\ cpc = "idle" /\ sess < MaxSessions /\ sess' = s /\ cmd' = c /\ at' = 1 /\ k' = 0
        /\ flags' = {} /\ result' = "none"
    BY <2>1
  <2>3. /\ flist' = (CASE c = "pull" -> <<Dir>> [] c = "ls" -> << >>
                       [] c = "one" -> <<Head(FileList)>> [] OTHER -> FileList)
        /\ cpc' = (CASE c = "push" -> "next" [] c = "ls" -> "list" [] OTHER -> "ask")
    BY <2>1
  <2>4. /\ spc' = [spc EXCEPT ![s] = "cmd"]
        /\ UNCHANGED <<got, c2s, s2c, cut, sfile, sk, sopen, names, remote, faults, deaths>>
    BY <2>1 DEF stream
  <2> QED
    BY <2>2, <2>3, <2>4
<1>1. sess \in Nat /\ s \in Sessions /\ s \in Nat \ {0} /\ c \in ask \cup {"push", "ls"} /\ c # None
  <2>1. sess \in 0..MaxSessions
    BY DEF ExchangeInv, TypeOK
  <2>2. sess \in Nat /\ s \in Sessions /\ s \in Nat \ {0}
    BY <2>1, <1>0, Constants DEF Sessions
  <2>3. c \in ask \cup {"push", "ls"} /\ c # None
    BY Constants
  <2> QED
    BY <2>2, <2>3
<1>2. /\ flist' \in Seq(Files \cup {Dir}) /\ Len(flist') \in Nat
      /\ c \notin {"pull", "ls"} => flist' \in Seq(Files)
      /\ c # "ls" => Len(flist') >= 1
  <2>1. Head(FileList) \in Files /\ Len(FileList) \in Nat \ {0} /\ FileList \in Seq(Files)
    BY Take, Constants
  <2>2. /\ <<Head(FileList)>> \in Seq(Files) /\ <<Dir>> \in Seq(Files \cup {Dir})
        /\ Len(<<Head(FileList)>>) = 1 /\ Len(<<Dir>>) = 1
        /\ << >> \in Seq(Files \cup {Dir}) /\ Len(<< >>) = 0
    BY <2>1
  <2>3. \A q \in Seq(Files) : q \in Seq(Files \cup {Dir})
    BY ElementOfSeq
  <2>4. CASE c = "pull"
    BY <2>2, <2>4, <1>0
  <2>5. CASE c = "ls"
    BY <2>2, <2>5, <1>0
  <2>6. CASE c = "one"
    BY <2>2, <2>3, <2>6, <1>0
  <2>7. CASE c \in {"push", "sync", "would"}
    BY <2>1, <2>3, <2>7, <1>0
  <2> QED
    BY <2>4, <2>5, <2>6, <2>7, <1>1
<1>3. cpc' = (IF c = "push" THEN "next" ELSE IF c = "ls" THEN "list" ELSE "ask")
  BY <1>0
<1>4. /\ spc' \in [Sessions -> {"none", "cmd", "dir", "file", "read", "closed"}]
      /\ spc'[s] = "cmd" /\ \A r \in Sessions \ {s} : spc'[r] = spc[r]
  BY <1>0, <1>1 DEF ExchangeInv, TypeOK
<1>5. c2s[s] = << >> /\ s2c[s] = << >> /\ s \notin cut /\ s \notin sopen
  <2>1. QueueOf(s, c2s[s])
    BY <1>1 DEF ExchangeInv, QueueInv
  <2> QED
    BY <2>1, <1>1 DEF QueueOf
<1>6. TypeOK'
  <2>1. sess' \in 0..MaxSessions
    BY <1>0, <1>1, Constants
  <2>2. at' \in 1..(Len(flist') + 1)
    BY <1>0, <1>2
  <2> QED
    BY <2>1, <2>2, <1>0, <1>2, <1>3, <1>4 DEF ExchangeInv, TypeOK
<1>7. QueueInv'
  <2> SUFFICES ASSUME NEW r \in Sessions PROVE QueueOf(r, c2s[r])'
    BY DEF QueueInv
  <2>1. QueueOf(r, c2s[r]) /\ r \in Nat
    BY DEF ExchangeInv, QueueInv, Sessions
  <2>2. CASE r = s
    BY <2>2, <1>0, <1>1, <1>4, <1>5, AllEmpty DEF QueueOf
  <2>3. CASE r # s
    <3>1. spc'[r] = spc[r] /\ (r > s => r > sess) /\ (r <= s => r <= sess)
      BY <2>1, <2>3, <1>1, <1>4
    <3> QED
      BY <2>1, <3>1, <1>0 DEF QueueOf
  <2> QED
    BY <2>2, <2>3
<1>8. CommandInv'
  <2>1. c \in ask => at' <= Len(flist')
    BY <1>0, <1>2
  <2> QED
    BY <2>1, <1>0, <1>1, <1>2, <1>3 DEF CommandInv
<1>9. c2s'[sess'] = << >> /\ s2c'[sess'] = << >> /\ spc'[sess'] = "cmd"
  BY <1>0, <1>4, <1>5
<1>10. Len(<< >>) = 0
  OBVIOUS
<1>11. PhaseInv'
  <2>1. Gone(c2s[sess])' /\ NoSend(c2s[sess])' /\ RestPhase(c2s[sess], s2c[sess])'
    BY <1>9 DEF Gone, NoSend, RestPhase
  <2>2. cpc' = "ask" => StatsPhase(c2s[sess], s2c[sess])'
    BY <2>1, <1>0, <1>9, <1>10, AllEmpty DEF StatsPhase
  <2> QED
    BY <2>1, <2>2, <1>3 DEF PhaseInv, PhaseOf
<1>12. StepInv'
  <2>1. Pending(c2s[sess], s2c[sess], 0)'
    BY <1>9, <1>10 DEF Pending
  <2>2. cpc' = "ask" => AskStep(c2s[sess], s2c[sess])'
    BY <2>1, <1>0, <1>9, <1>10 DEF AskStep
  <2> QED
    BY <2>2, <1>3, <1>9 DEF StepInv, StepOf
<1> QED
  BY <1>6, <1>7, <1>8, <1>11, <1>12 DEF ExchangeInv

-----------------------------------------------------------------------------
LEMMA ExchangeInit == Init => ExchangeInv
<1> SUFFICES ASSUME Init PROVE ExchangeInv
  OBVIOUS
<1>1. << >> \in Seq(Requests) /\ << >> \in Seq(Answers) /\ << >> \in Seq(Files)
      /\ << >> \in Seq(Files \cup {Dir}) /\ << >> \in Seq(Chunks) /\ Len(<< >>) = 0
  OBVIOUS
<1>2. remote \in [Files -> [by : 0..MaxSessions, data : Seq(Chunks), time : Times]]
  <2>1. \A f \in Files : Before(f) \in [by : 0..MaxSessions, data : Seq(Chunks), time : Times]
    BY Constants DEF Before, Times
  <2>2. Absent \in [by : 0..MaxSessions, data : Seq(Chunks), time : Times]
    BY <1>1, Constants DEF Absent, Times
  <2> QED
    BY <2>1, <2>2 DEF Init
<1>3. TypeOK
  BY <1>1, <1>2, Constants DEF Init, TypeOK
<1>4. QueueInv
  BY Constants DEF Init, QueueInv, QueueOf, Sessions
<1>5. CommandInv
  BY DEF Init, CommandInv
<1>6. PhaseInv /\ StepInv
  BY DEF Init, PhaseInv, StepInv
<1> QED
  BY <1>3, <1>4, <1>5, <1>6 DEF ExchangeInv

LEMMA ExchangeStutter == ASSUME ExchangeInv, UNCHANGED vars PROVE ExchangeInv'
<1>1. /\ UNCHANGED <<cmd, cpc, sess, flist, at, k, flags, result, got, c2s, s2c, cut, spc, sfile,
                     sk, sopen, names, remote, faults, deaths>>
  BY DEF vars, client, stream, service
<1>2. TypeOK' /\ CommandInv'
  BY <1>1 DEF ExchangeInv, TypeOK, CommandInv
<1>3. QueueInv'
  BY <1>1 DEF ExchangeInv, QueueInv, QueueOf
<1>4. PhaseInv'
  BY <1>1 DEF ExchangeInv, PhaseInv, PhaseOf, StatsPhase, RestPhase, ListPhase, SendPhase,
              RecvPhase, NoSend, Gone, Doing, AtFile
<1>5. StepInv'
  BY <1>1 DEF ExchangeInv, StepInv, StepOf, AskStep, StatsStep, ListStep, DataStep, StatusStep,
              RecvStep, Pending, Doing, AtFile, Connected
<1> QED
  BY <1>2, <1>3, <1>4, <1>5 DEF ExchangeInv

LEMMA ExchangeStep == ExchangeInv /\ [Next]_vars => ExchangeInv'
<1> SUFFICES ASSUME ExchangeInv, [Next]_vars PROVE ExchangeInv'
  OBVIOUS
<1>1. ASSUME NEW c \in Commands, Start(c) PROVE ExchangeInv'
  BY <1>1, StartKeeps
<1>2. CASE Client
  BY <1>2, ClientStepKeeps
<1>3. CASE PowerLoss
  BY <1>3, PowerLossKeeps
<1>4. ASSUME NEW s \in Sessions, Service(s) PROVE ExchangeInv'
  BY <1>4, ServiceStepKeeps
<1>5. ASSUME NEW s \in Sessions, Break(s) PROVE ExchangeInv'
  BY <1>5, BreakKeeps
<1>6. CASE UNCHANGED vars
  BY <1>6, ExchangeStutter
<1> QED
  BY <1>1, <1>2, <1>3, <1>4, <1>5, <1>6 DEF Next

THEOREM Exchange == Spec => []ExchangeInv
<1>1. ExchangeInv /\ [Next]_vars => ExchangeInv'
  BY ExchangeStep
<1> QED
  BY <1>1, ExchangeInit, PTL DEF Spec

\* Client and service agree on where they are in the exchange: when the client is about to
\* ask for the next file (copy_local_dir_remote, copy_remote_dir_local), nothing is left in
\* the stream of the one before, whatever failed in it.
THEOREM InSync == Spec => []SyncInv
<1>1. ExchangeInv => SyncInv
  <2> SUFFICES ASSUME ExchangeInv, cpc = "next", Connected(sess) PROVE StreamInSync
    BY DEF SyncInv, StreamInSync, ExchangeInv
  <2>1. PhaseOf(c2s[sess], s2c[sess]) /\ StepOf(c2s[sess], s2c[sess])
    BY ClientFacts
  <2>2. RestPhase(c2s[sess], s2c[sess]) /\ spc[sess] = "cmd"
    BY <2>1 DEF PhaseOf, StepOf
  <2> QED
    BY <2>2 DEF RestPhase, Gone, StreamInSync
<1> QED
  BY <1>1, Exchange, PTL
-----------------------------------------------------------------------------
(* The files of the device, and what the client knows of them *)

\* The services of earlier sessions have nothing to do with the files.
Alone == \A s \in Sessions : s < sess => ~Busy(s)

\* A file that can be unlinked is absent, what it was, stored as far as it can be read, or
\* what has been written of it.
Sent(f) == SubSeq(Local[f], 1, Readable[f])
Stored(f) == remote[f].time = LocalTime /\ remote[f].data = Sent(f)
FileOf(f) ==
    \/ remote[f].time = None /\ remote[f].data = << >>
    \/ remote[f].time = OldTime /\ remote[f].data = Old[f]
    \/ Stored(f)
    \/ remote[f].time = Now /\ remote[f].data \in Parts(f)
OpenOf(s) ==
    sfile[s] \notin Locked => /\ Mine(s) /\ remote[sfile[s]].time = Now
                              /\ remote[sfile[s]].data = SubSeq(Local[sfile[s]], 1, sk[s])
FilesInv == /\ \A f \in Files \ Locked : FileOf(f)
            /\ \A s \in sopen : OpenOf(s)

\* The answers to STAT are true, and so is what sync has made of them.
Stat(f) == <<Len(remote[f].data), remote[f].time>>
Attrs(a, n) == \A i \in 1..Len(a) : flist[n + i] \in Files => a[i][2] = Stat(flist[n + i])
StatInv ==
    /\ cpc = "ask" => Attrs(s2c[sess], 0)
    /\ cpc = "stats" => Attrs(s2c[sess], at - 1)
    /\ cpc # "idle" => \A f \in flags : Current(f, Stat(f))

\* The files before the one the client is at are stored.
Settled(f) == f \in Locked \/ Stored(f)
StoredInv ==
    /\ cpc \in {"next", "data", "status"} /\ cmd \in {"push", "one", "sync"} =>
         \A j \in 1..(at - 1) : Settled(flist[j]) \/ (cpc # "next" /\ flist[j] = flist[at])
    /\ cpc = "status" /\ s2c[sess] # << >> /\ s2c[sess][1][1] = "OKAY" => Settled(flist[at])

\* What the client has pulled, and the messages on their way, are what is on the device.
ReadTo(a, d, n) ==
    \A i \in 1..Len(a) : /\ a[i][1] = "DATA" => n + i <= Len(d) /\ a[i][2] = d[n + i]
                         /\ a[i][1] = "DONE" => n + i = Len(d) + 1
Pulled(f) == got[f] \in {None, remote[f].data}
PullAt(a, n) ==
    LET d == remote[flist[at]].data
    IN  /\ n <= Len(d) /\ ReadTo(a, d, n)
        /\ cpc = "more" => got[flist[at]] = SubSeq(d, 1, n)
        /\ Connected(sess) /\ spc[sess] = "read" => sk[sess] = n + Len(a)
PullInv ==
    cmd = "pull" =>
      /\ cpc \in {"next", "first", "more"} \/ (cpc = "idle" /\ result = "okay") =>
           \A j \in 1..(at - 1) : Pulled(flist[j]) \/ (cpc = "more" /\ flist[j] = flist[at])
      /\ cpc = "idle" /\ result = "okay" => at = Len(flist) + 1
      /\ cpc = "first" => PullAt(s2c[sess], 0)
      /\ cpc = "more" => \E n \in 0..Len(remote[flist[at]].data) : PullAt(s2c[sess], n)

FactsInv == FilesInv /\ StatInv /\ StoredInv /\ PullInv
TruthInv == Alone /\ FactsInv

\* What is left of a sequence grows by the next one.
LEMMA PrefixMore ==
    ASSUME NEW A, NEW d \in Seq(A), NEW n \in Nat, n + 1 <= Len(d)
    PROVE  /\ Append(SubSeq(d, 1, n), d[n + 1]) = SubSeq(d, 1, n + 1)
           /\ d[n + 1] \in A /\ SubSeq(d, 1, n) \in Seq(A) /\ Len(SubSeq(d, 1, n)) = n
<1> DEFINE x == SubSeq(d, 1, n)
           y == SubSeq(d, 1, n + 1)
           m == d[n + 1]
           z == Append(x, m)
<1>0. Len(d) \in Nat /\ n \in 0..Len(d) /\ n + 1 \in 0..Len(d) /\ n + 1 \in 1..Len(d)
  BY LenProperties
<1>1. m \in A
  BY <1>0, ElementOfSeq
<1>2. x \in Seq(A) /\ Len(x) = n /\ \A i \in 1..n : x[i] = d[i]
  BY <1>0, Cut
<1>3. y \in Seq(A) /\ Len(y) = n + 1 /\ \A i \in 1..(n + 1) : y[i] = d[i]
  BY <1>0, Cut
<1>4. /\ z \in Seq(A) /\ Len(z) = n + 1 /\ z[n + 1] = m
      /\ \A i \in 1..n : z[i] = x[i]
  BY <1>1, <1>2, Put
<1> HIDE DEF x, y, z
<1>5. ASSUME NEW i \in 1..(n + 1) PROVE z[i] = y[i]
  <2>1. CASE i = n + 1
    BY <2>1, <1>3, <1>4
  <2>2. CASE i \in 1..n
    BY <2>2, <1>2, <1>3, <1>4
  <2> QED
    BY <2>1, <2>2
<1>6. z = y
  BY <1>3, <1>4, <1>5, SeqEqual
<1> QED
  BY <1>1, <1>2, <1>6 DEF x, y, z

\* What of a file can be read is what is sent of it.
LEMMA SentFacts ==
    ASSUME NEW f \in Files
    PROVE  /\ Local[f] \in Seq(Chunks) /\ Len(Local[f]) \in Nat /\ Readable[f] \in 0..Len(Local[f])
           /\ Sent(f) \in Seq(Chunks) /\ Len(Sent(f)) = Readable[f]
           /\ Readable[f] = Len(Local[f]) => Sent(f) = Local[f]
           /\ \A n \in 0..Readable[f] : /\ SubSeq(Local[f], 1, n) \in Parts(f)
                                        /\ SubSeq(Local[f], 1, n) \in Seq(Chunks)
                                        /\ Len(SubSeq(Local[f], 1, n)) = n
           /\ SubSeq(Local[f], 1, 0) = << >> /\ << >> \in Parts(f)
<1>1. Local[f] \in Seq(Chunks) /\ Len(Local[f]) \in Nat /\ Readable[f] \in 0..Len(Local[f])
  BY Constants
<1>2. /\ Sent(f) \in Seq(Chunks) /\ Len(Sent(f)) = Readable[f]
      /\ \A i \in 1..Readable[f] : Sent(f)[i] = Local[f][i]
      /\ Readable[f] = Len(Local[f]) => Sent(f) = Local[f]
  BY <1>1, Cut DEF Sent
<1>3. ASSUME NEW n \in 0..Readable[f]
      PROVE  /\ SubSeq(Local[f], 1, n) \in Parts(f) /\ SubSeq(Local[f], 1, n) \in Seq(Chunks)
             /\ Len(SubSeq(Local[f], 1, n)) = n
  <2>1. n \in 0..Len(Local[f])
    BY <1>1
  <2>2. /\ SubSeq(Local[f], 1, n) \in Seq(Chunks) /\ Len(SubSeq(Local[f], 1, n)) = n
        /\ \A i \in 1..n : SubSeq(Local[f], 1, n)[i] = Local[f][i]
    BY <2>1, <1>1, Cut
  <2> QED
    BY <2>1, <2>2 DEF Parts
<1>4. SubSeq(Local[f], 1, 0) = << >> /\ 0 \in 0..Readable[f]
  BY <1>1, Cut
<1> QED
  BY <1>1, <1>2, <1>3, <1>4

\* While sessions do not overlap only the service of the last one has a file open.
LEMMA OnlyService ==
    ASSUME ExchangeInv, Alone, NEW s \in Sessions, s = sess
    PROVE  sess > 0 /\ sopen \subseteq {s}
<1>1. s \in Nat \ {0}
  BY Constants DEF Sessions
<1>2. ASSUME NEW r \in sopen PROVE r = s
  <2>1. r \in Sessions /\ spc[r] = "file"
    BY DEF ExchangeInv, TypeOK, QueueInv, QueueOf
  <2>2. r \in Nat /\ r <= sess
    BY <2>1, ServiceFacts
  <2>3. ~(r < sess)
    BY <2>1 DEF Alone, Busy
  <2> QED
    BY <2>2, <2>3, <1>1
<1> QED
  BY <1>1, <1>2

LEMMA NoneOpen == ASSUME ExchangeInv, Alone, sess = 0 \/ spc[sess] # "file" PROVE sopen = {}
<1> SUFFICES ASSUME NEW r \in sopen PROVE FALSE
  OBVIOUS
<1>1. r \in Sessions /\ spc[r] = "file"
  BY DEF ExchangeInv, TypeOK, QueueInv, QueueOf
<1>2. r \in Nat \ {0} /\ r <= sess /\ sess \in Nat
  BY <1>1, ServiceFacts
<1>3. ~(r < sess)
  BY <1>1 DEF Alone, Busy
<1> QED
  BY <1>1, <1>2, <1>3

-----------------------------------------------------------------------------
(* What the service does with files *)

\* A file that a client sends, and what becomes of it in a step of the service.
Sends(f) ==
    /\ cpc \in {"idle", "data", "status"} /\ cmd \in {"push", "one", "sync"}
    /\ cpc # "idle" => f = flist[at]
    /\ ~Gone(c2s[sess])
OthersSame(f) == \A g \in Files \ {f} : remote'[g] = remote[g]

NoFileStep(s) == UNCHANGED <<remote, sopen>> /\ (s \in sopen => UNCHANGED <<sfile, sk>>)
FileGone(s, f) == remote' = Unlinked(f) /\ sopen' = {} /\ (s \in sopen => sfile[s] = f)
FileOpened(s, f) ==
    /\ sopen = {} /\ sopen' = {s} /\ sfile'[s] = f /\ sk'[s] = 0 /\ OthersSame(f)
    /\ f \notin Locked => remote'[f] = [by |-> s, data |-> << >>, time |-> Now]
FileWritten(s, f) ==
    /\ sopen = {s} /\ sopen' = {s} /\ sfile[s] = f /\ sfile'[s] = f /\ OthersSame(f)
    /\ sk'[s] = sk[s] + 1 /\ sk'[s] \in 0..Readable[f]
    /\ f \notin Locked =>
         /\ remote[f].by = s
         /\ remote'[f] = [by |-> s, data |-> SubSeq(Local[f], 1, sk[s] + 1), time |-> Now]
FileStored(s, f) ==
    /\ sopen = {s} /\ sopen' = {} /\ sfile[s] = f /\ OthersSame(f)
    /\ f \notin Locked => /\ remote[f].by = s
                          /\ remote'[f] = [by |-> s, data |-> Sent(f), time |-> LocalTime]

FileStep(s) ==
    \/ NoFileStep(s)
    \/ \E f \in Files : Sends(f) /\ (FileGone(s, f) \/ FileOpened(s, f) \/ FileWritten(s, f)
                                     \/ FileStored(s, f))
OkayStep(s) ==
    s2c'[s] # s2c[s] /\ s2c'[s][Len(s2c'[s])][1] = "OKAY" =>
      \E f \in Files : Sends(f) /\ FileStored(s, f)

LEMMA SayLast ==
    ASSUME TypeOK, NEW s \in Sessions, NEW m, NEW next, Say(s, m, next)
    PROVE  /\ s2c'[s] # s2c[s] => s2c'[s] = Append(s2c[s], m) /\ s2c'[s][Len(s2c'[s])] = m
           /\ s2c'[s] # s2c[s] => Connected(s)
<1> DEFINE A == Answers \cup {m}
           a == s2c[s]
           y == Append(a, m)
<1>1. a \in Seq(Answers)
  BY DEF TypeOK
<1>2. a \in Seq(A) /\ m \in A
  BY <1>1, ElementOfSeq
<1> HIDE DEF A
<1>3. Len(y) = Len(a) + 1 /\ y[Len(a) + 1] = m
  BY <1>2, Put
<1>4. s2c'[s] \in {a, y} /\ (s2c'[s] # a => Connected(s))
  BY DEF Say, TypeOK
<1> QED
  BY <1>3, <1>4

\* Every file that the service is given or has is one that the client sends.
LEMMA SendsFile ==
    ASSUME ExchangeInv, NEW s \in Sessions, s = sess, NEW f \in Files,
           \/ spc[s] = "file" /\ sfile[s] = f
           \/ spc[s] = "cmd" /\ c2s[s] # << >> /\ c2s[s][1][1] = "SEND" /\ c2s[s][1][2] = f
    PROVE  Sends(f)
<1>1. /\ cpc \in {"idle", "data", "status"}
      /\ cpc = "idle" => cmd \in {"push", "one", "sync"}
      /\ cpc \in {"data", "status"} =>
           IF spc[s] = "file" THEN sfile[s] = flist[at] ELSE c2s[s][1][2] = flist[at]
  BY Sender
<1>2. cpc \in {"data", "status"} => cmd \in {"push", "one", "sync"}
  BY DEF ExchangeInv, CommandInv
<1>3. ~Gone(c2s[sess])
  BY DEF Gone
<1> QED
  BY <1>1, <1>2, <1>3 DEF Sends

LEMMA DoSendFile ==
    ASSUME ExchangeInv, Alone, NEW s \in Sessions, s = sess, DoSend(s)
    PROVE  FileStep(s) /\ OkayStep(s)
<1> DEFINE f == Arg(s)
<1>0. /\ spc[s] = "cmd" /\ Asked(s, "SEND") /\ Frame
      /\ sfile' = [sfile EXCEPT ![s] = f] /\ sk' = [sk EXCEPT ![s] = 0]
  BY DEF DoSend
<1>1. s = sess /\ sopen = {}
  BY <1>0, OnlyService, NoneOpen
<1>2. /\ c2s[s] # << >> /\ c2s[s][1] \in Requests /\ c2s[s][1][1] = "SEND"
      /\ f = c2s[s][1][2] /\ f \in Files
  BY <1>0, AskedFacts, RequestKinds DEF ExchangeInv
<1>3. Sends(f)
  BY <1>0, <1>1, <1>2, SendsFile
<1> HIDE DEF f
<1>4. CASE /\ remote' = [remote EXCEPT ![f] =
                           IF f \in Locked THEN [@ EXCEPT !.by = s]
                           ELSE [by |-> s, data |-> << >>, time |-> Now]]
           /\ sopen' = sopen \cup {s} /\ UNCHANGED s2c
  <2>1. remote \in [Files -> [by : 0..MaxSessions, data : Seq(Chunks), time : Times]]
        /\ sfile'[s] = f /\ sk'[s] = 0
    BY <1>0 DEF ExchangeInv, TypeOK
  <2>2. OthersSame(f)
    BY <2>1, <1>4 DEF OthersSame
  <2>3. f \notin Locked => remote'[f] = [by |-> s, data |-> << >>, time |-> Now]
    BY <2>1, <1>2, <1>4
  <2>4. FileOpened(s, f)
    BY <2>1, <2>2, <2>3, <1>1, <1>4 DEF FileOpened
  <2> QED
    BY <2>4, <1>2, <1>3, <1>4 DEF FileStep, OkayStep
<1>5. CASE remote' = Unlinked(f) /\ UNCHANGED sopen /\ Say(s, <<"FAIL", None>>, "file")
  <2>1. s2c'[s] # s2c[s] => s2c'[s][Len(s2c'[s])] = <<"FAIL", None>>
    BY <1>5, SayLast DEF ExchangeInv
  <2>2. FileGone(s, f)
    BY <1>1, <1>5 DEF FileGone
  <2> QED
    BY <2>1, <2>2, <1>2, <1>3 DEF FileStep, OkayStep
<1> QED
  BY <1>4, <1>5 DEF DoSend, f

LEMMA TakeChunkFile ==
    ASSUME ExchangeInv, Alone, FilesInv, NEW s \in Sessions, s = sess, TakeChunk(s)
    PROVE  FileStep(s) /\ OkayStep(s)
<1> DEFINE f == sfile[s]
           q == c2s[s]
<1>0. spc[s] = "file" /\ Asked(s, "DATA") /\ Frame /\ UNCHANGED <<sfile, names>>
  BY DEF TakeChunk
<1>1. s = sess /\ sopen \subseteq {s} /\ q \in Seq(Requests) /\ QueueOf(s, q) /\ sk[s] \in Nat
  BY <1>0, OnlyService, ServiceFacts
<1>2. f \in Files /\ Sends(f)
  <2>1. f \in Files
    BY <1>0, <1>1 DEF QueueOf
  <2> QED
    BY <2>1, <1>0, <1>1, SendsFile
<1>3. q # << >> /\ q[1][1] = "DATA" /\ Arg(s) = q[1][2]
  BY <1>0, AskedFacts DEF ExchangeInv
<1>4. CASE s \notin sopen /\ UNCHANGED <<remote, s2c, spc, sopen, sk>>
  BY <1>0, <1>4 DEF FileStep, NoFileStep, OkayStep
<1>5. CASE /\ s \in sopen /\ sk' = [sk EXCEPT ![s] = @ + 1]
           /\ remote' = IF Mine(s)
                THEN [remote EXCEPT ![sfile[s]] =
                        [by |-> s, time |-> Now, data |-> WriteAt(@.data, sk[s] + 1, Arg(s))]]
                ELSE remote
           /\ UNCHANGED <<s2c, spc, sopen>>
  <2>1. sopen = {s} /\ sopen' = {s} /\ sk'[s] = sk[s] + 1
    BY <1>1, <1>5 DEF ExchangeInv, TypeOK
  <2>2. /\ sk[s] + 1 <= Readable[f] /\ Arg(s) = Local[f][sk[s] + 1]
    BY <1>1, <1>2, <1>3, <1>5, BodyTaken DEF QueueOf
  <2>3. /\ Local[f] \in Seq(Chunks) /\ Len(Local[f]) \in Nat /\ Readable[f] \in 0..Len(Local[f])
    BY <1>2, SentFacts
  <2>4. remote \in [Files -> [by : 0..MaxSessions, data : Seq(Chunks), time : Times]]
    BY DEF ExchangeInv, TypeOK
  <2>5. OthersSame(f)
    BY <2>4, <1>5 DEF OthersSame
  <2>6. ASSUME f \notin Locked
        PROVE  /\ remote[f].by = s
               /\ remote'[f] = [by |-> s, data |-> SubSeq(Local[f], 1, sk[s] + 1), time |-> Now]
    <3>1. Mine(s) /\ remote[f].data = SubSeq(Local[f], 1, sk[s])
      BY <2>6, <1>5 DEF FilesInv, OpenOf
    <3>2. /\ Len(remote[f].data) = sk[s]
          /\ Append(remote[f].data, Arg(s)) = SubSeq(Local[f], 1, sk[s] + 1)
      BY <3>1, <2>2, <2>3, <1>1, PrefixMore
    <3>3. WriteAt(remote[f].data, sk[s] + 1, Arg(s)) = SubSeq(Local[f], 1, sk[s] + 1)
      BY <3>2, <1>1 DEF WriteAt
    <3> QED
      BY <3>1, <3>3, <2>4, <1>2, <1>5 DEF Mine
  <2>7. FileWritten(s, f)
    <3>1. sk'[s] \in 0..Readable[f]
      BY <2>1, <2>2, <2>3, <1>1
    <3> QED
      BY <3>1, <2>1, <2>5, <2>6, <1>0 DEF FileWritten
  <2> QED
    BY <2>7, <1>2, <1>5 DEF FileStep, OkayStep
<1>6. CASE /\ s \in sopen /\ sopen' = sopen \ {s} /\ remote' = Unlinked(sfile[s])
           /\ Say(s, <<"FAIL", None>>, "file") /\ UNCHANGED sk
  <2>1. s2c'[s] # s2c[s] => s2c'[s][Len(s2c'[s])] = <<"FAIL", None>>
    BY <1>6, SayLast DEF ExchangeInv
  <2>2. FileGone(s, f)
    BY <1>1, <1>6 DEF FileGone
  <2> QED
    BY <2>1, <2>2, <1>2 DEF FileStep, OkayStep
<1> QED
  BY <1>4, <1>5, <1>6 DEF TakeChunk

LEMMA TakeDoneFile ==
    ASSUME ExchangeInv, Alone, FilesInv, NEW s \in Sessions, s = sess, TakeDone(s)
    PROVE  FileStep(s) /\ OkayStep(s)
<1> DEFINE f == sfile[s]
           q == c2s[s]
<1>0. /\ spc[s] = "file" /\ Asked(s, "DONE") /\ Frame /\ UNCHANGED <<sfile, sk, names>>
      /\ sopen' = sopen \ {s}
  BY DEF TakeDone
<1>1. s = sess /\ sopen \subseteq {s} /\ q \in Seq(Requests) /\ QueueOf(s, q) /\ sk[s] \in Nat
  BY <1>0, OnlyService, ServiceFacts
<1>2. f \in Files /\ Sends(f)
  <2>1. f \in Files
    BY <1>0, <1>1 DEF QueueOf
  <2> QED
    BY <2>1, <1>0, <1>1, SendsFile
<1>3. q # << >> /\ q[1] \in Requests /\ q[1][1] = "DONE" /\ Arg(s) = q[1][2] /\ Arg(s) = LocalTime
  BY <1>0, AskedFacts, RequestKinds DEF ExchangeInv
<1>4. CASE s \notin sopen
  <2>1. UNCHANGED <<remote, s2c, sopen>>
    BY <1>0, <1>4 DEF TakeDone
  <2> QED
    BY <2>1, <1>0 DEF FileStep, NoFileStep, OkayStep
<1>5. CASE s \in sopen
  <2>1. sopen = {s} /\ sopen' = {} /\ sk[s] = Readable[f]
    BY <1>0, <1>1, <1>2, <1>3, <1>5, BodyTaken DEF QueueOf
  <2>2. remote' = IF Mine(s) THEN [remote EXCEPT ![f].time = LocalTime] ELSE remote
    BY <1>3, <1>5 DEF TakeDone
  <2>3. remote \in [Files -> [by : 0..MaxSessions, data : Seq(Chunks), time : Times]]
    BY DEF ExchangeInv, TypeOK
  <2>4. OthersSame(f)
    BY <2>2, <2>3 DEF OthersSame
  <2>5. ASSUME f \notin Locked
        PROVE  /\ remote[f].by = s
               /\ remote'[f] = [by |-> s, data |-> Sent(f), time |-> LocalTime]
    <3>1. remote[f].by = s /\ remote[f].data = Sent(f)
      BY <2>1, <2>5, <1>5 DEF FilesInv, OpenOf, Mine, Sent
    <3>2. remote' = [remote EXCEPT ![f].time = LocalTime]
      BY <3>1, <2>2 DEF Mine
    <3>3. remote'[f] = [remote[f] EXCEPT !.time = LocalTime]
      BY <3>2, <2>3, <1>2
    <3>4. remote[f] \in [by : 0..MaxSessions, data : Seq(Chunks), time : Times]
      BY <2>3, <1>2
    <3> QED
      BY <3>1, <3>3, <3>4
  <2>6. FileStored(s, f)
    BY <2>1, <2>4, <2>5 DEF FileStored
  <2> QED
    BY <2>6, <1>2 DEF FileStep, OkayStep
<1> QED
  BY <1>4, <1>5

LEMMA FileLostFile ==
    ASSUME ExchangeInv, Alone, NEW s \in Sessions, s = sess, FileLost(s)
    PROVE  FileStep(s) /\ OkayStep(s)
<1>0. /\ spc[s] = "file" /\ Frame /\ Ends(s) /\ remote' = Unlinked(sfile[s])
      /\ s2c' = s2c
  BY DEF FileLost, stream
<1>1. s = sess /\ sopen \subseteq {s} /\ QueueOf(s, c2s[s])
  BY <1>0, OnlyService, ServiceFacts
<1>2. sfile[s] \in Files
  BY <1>0, <1>1 DEF QueueOf
<1>3. Sends(sfile[s])
  BY <1>0, <1>1, <1>2, SendsFile
<1>4. FileGone(s, sfile[s])
  BY <1>0, <1>1 DEF FileGone, Ends
<1> QED
  BY <1>0, <1>2, <1>3, <1>4 DEF FileStep, OkayStep

\* The other steps of the service concern no file that is sent.
LEMMA OtherFile ==
    ASSUME ExchangeInv, Alone, NEW s \in Sessions, s = sess,
           DoStat(s) \/ DoList(s) \/ SayName(s) \/ DoRecv(s) \/ SayChunk(s) \/ Leave(s)
    PROVE  FileStep(s) /\ OkayStep(s)
<1>1. spc[s] \in {"cmd", "dir", "read"} /\ UNCHANGED remote /\ (UNCHANGED sopen \/ Ends(s))
  BY DEF DoStat, DoList, SayName, DoRecv, SayChunk, Leave
<1>2. s \notin sopen
  BY <1>1, ServiceFacts
<1>3. NoFileStep(s)
  BY <1>1, <1>2 DEF NoFileStep, Ends
<1>4. OkayStep(s)
  <2>1. ASSUME NEW m, NEW next, Say(s, m, next), m[1] # "OKAY" PROVE OkayStep(s)
    BY <2>1, SayLast DEF ExchangeInv, OkayStep
  <2>2. ASSUME s2c' = s2c PROVE OkayStep(s)
    BY <2>2 DEF OkayStep
  <2>3. CASE DoStat(s)
    <3>1. \E a : Say(s, <<"STAT", a>>, "cmd")
      BY <2>3 DEF DoStat
    <3> QED
      BY <3>1, <2>1
  <2>4. CASE DoList(s)
    BY <2>4, <2>2 DEF DoList
  <2>5. CASE SayName(s)
    <3>1. s2c' = s2c \/ (\E n : Say(s, <<"DENT", n>>, "dir")) \/ Say(s, <<"DONE", 0>>, "cmd")
      BY <2>5 DEF SayName
    <3> QED
      BY <3>1, <2>1, <2>2
  <2>6. CASE DoRecv(s)
    <3>1. s2c' = s2c \/ Say(s, <<"FAIL", None>>, "cmd")
      BY <2>6 DEF DoRecv
    <3> QED
      BY <3>1, <2>1, <2>2
  <2>7. CASE SayChunk(s)
    <3>1. \/ \E d : Say(s, <<"DATA", d>>, "read")
          \/ Say(s, <<"DONE", 0>>, "cmd")
          \/ Say(s, <<"FAIL", None>>, "cmd")
      BY <2>7 DEF SayChunk
    <3> QED
      BY <3>1, <2>1
  <2>8. CASE Leave(s)
    BY <2>8, <2>2 DEF Leave
  <2> QED
    BY <2>3, <2>4, <2>5, <2>6, <2>7, <2>8
<1> QED
  BY <1>3, <1>4 DEF FileStep

LEMMA ServiceFile ==
    ASSUME ExchangeInv, Alone, FilesInv, NEW s \in Sessions, s = sess, Service(s)
    PROVE  /\ FileStep(s) /\ OkayStep(s) /\ s = sess /\ sess > 0 /\ sopen \subseteq {s}
           /\ spc[s] \in {"cmd", "dir", "file", "read"}
           /\ UNCHANGED <<cmd, cpc, sess, flist, at, k, flags, result, got, deaths>>
<1>1. spc[s] \in {"cmd", "dir", "file", "read"} /\ Frame
  BY DEF Service, DoStat, DoList, SayName, DoSend, TakeChunk, TakeDone, FileLost, DoRecv, SayChunk,
         Leave
<1>2. FileStep(s) /\ OkayStep(s)
  BY DoSendFile, TakeChunkFile, TakeDoneFile, FileLostFile, OtherFile DEF Service
<1> QED
  BY <1>1, <1>2, OnlyService DEF Frame, client

\* Only a file that is sent changes.
LEMMA RemoteSame ==
    ASSUME TypeOK, NEW s \in Sessions, FileStep(s), NEW g \in Files, ~Sends(g)
    PROVE  remote'[g] = remote[g]
<1>1. CASE NoFileStep(s)
  BY <1>1 DEF NoFileStep
<1>2. ASSUME NEW f \in Files, Sends(f),
             FileGone(s, f) \/ FileOpened(s, f) \/ FileWritten(s, f) \/ FileStored(s, f)
      PROVE  remote'[g] = remote[g]
  <2>1. g # f
    BY <1>2
  <2>2. CASE FileGone(s, f)
    BY <2>1, <2>2 DEF FileGone, Unlinked, TypeOK
  <2>3. CASE FileOpened(s, f) \/ FileWritten(s, f) \/ FileStored(s, f)
    BY <2>1, <2>3 DEF FileOpened, FileWritten, FileStored, OthersSame
  <2> QED
    BY <1>2, <2>2, <2>3
<1> QED
  BY <1>1, <1>2 DEF FileStep

LEMMA FilesKept ==
    ASSUME FilesInv, UNCHANGED <<remote, sfile, sk>>, sopen' \subseteq sopen
    PROVE  FilesInv'
<1>1. \A f \in Files \ Locked : FileOf(f)'
  BY DEF FilesInv, FileOf, Stored
<1>2. \A s \in sopen' : OpenOf(s)'
  BY DEF FilesInv, OpenOf, Mine
<1> QED
  BY <1>1, <1>2 DEF FilesInv

LEMMA FilesByService ==
    ASSUME ExchangeInv, FilesInv, NEW s \in Sessions, FileStep(s), sopen \subseteq {s}
    PROVE  FilesInv'
<1>1. CASE NoFileStep(s)
  <2>1. \A f \in Files \ Locked : FileOf(f)'
    BY <1>1 DEF FilesInv, FileOf, Stored, NoFileStep
  <2>2. \A r \in sopen' : OpenOf(r)'
    BY <1>1 DEF FilesInv, OpenOf, Mine, NoFileStep
  <2> QED
    BY <2>1, <2>2 DEF FilesInv
<1>2. ASSUME NEW f \in Files, Sends(f),
             FileGone(s, f) \/ FileOpened(s, f) \/ FileWritten(s, f) \/ FileStored(s, f)
      PROVE  FilesInv'
  <2>1. remote \in [Files -> [by : 0..MaxSessions, data : Seq(Chunks), time : Times]]
    BY DEF ExchangeInv, TypeOK
  <2>2. OthersSame(f)
    <3>1. CASE FileGone(s, f)
      BY <3>1, <2>1 DEF FileGone, Unlinked, OthersSame
    <3>2. CASE FileOpened(s, f) \/ FileWritten(s, f) \/ FileStored(s, f)
      BY <3>2 DEF FileOpened, FileWritten, FileStored
    <3> QED
      BY <3>1, <3>2, <1>2
  <2>3. f \notin Locked => FileOf(f)'
    <3> SUFFICES ASSUME f \notin Locked PROVE FileOf(f)'
      OBVIOUS
    <3>1. CASE FileGone(s, f)
      BY <3>1, <2>1 DEF FileGone, Unlinked, Absent, FileOf
    <3>2. CASE FileOpened(s, f)
      BY <3>2, SentFacts DEF FileOpened, FileOf
    <3>3. CASE FileWritten(s, f)
      <4>1. SubSeq(Local[f], 1, sk'[s]) \in Parts(f)
        BY <3>3, SentFacts DEF FileWritten
      <4>2. remote'[f].data = SubSeq(Local[f], 1, sk'[s]) /\ remote'[f].time = Now
        BY <3>3 DEF FileWritten
      <4> QED
        BY <4>1, <4>2 DEF FileOf
    <3>4. CASE FileStored(s, f)
      BY <3>4 DEF FileStored, FileOf, Stored
    <3> QED
      BY <3>1, <3>2, <3>3, <3>4, <1>2
  <2>4. ASSUME NEW g \in Files \ Locked PROVE FileOf(g)'
    <3>1. CASE g = f
      BY <3>1, <2>3, <2>4
    <3>2. CASE g # f
      <4>1. FileOf(g) /\ remote'[g] = remote[g]
        BY <3>2, <2>2, <2>4 DEF OthersSame, FilesInv
      <4> QED
        BY <4>1 DEF FileOf, Stored
    <3> QED
      BY <3>1, <3>2
  <2>5. \A r \in sopen' : OpenOf(r)'
    <3>1. CASE FileGone(s, f) \/ FileStored(s, f)
      BY <3>1 DEF FileGone, FileStored
    <3>2. CASE FileOpened(s, f)
      <4>1. SubSeq(Local[f], 1, 0) = << >>
        BY SentFacts
      <4>2. sfile'[s] = f /\ sk'[s] = 0 /\ sopen' = {s}
            /\ (f \notin Locked => remote'[f] = [by |-> s, data |-> << >>, time |-> Now])
        BY <3>2 DEF FileOpened
      <4>3. ASSUME f \notin Locked
            PROVE  /\ remote'[sfile'[s]].by = s /\ remote'[sfile'[s]].time = Now
                   /\ remote'[sfile'[s]].data = SubSeq(Local[sfile'[s]], 1, sk'[s])
        <5>1. remote'[f].by = s /\ remote'[f].time = Now /\ remote'[f].data = << >>
          BY <4>2, <4>3
        <5> QED
          BY <4>1, <4>2, <5>1, Zenon
      <4>4. OpenOf(s)'
        BY <4>2, <4>3 DEF OpenOf, Mine
      <4> QED
        BY <4>2, <4>4
    <3>3. CASE FileWritten(s, f)
      BY <3>3 DEF FileWritten, OpenOf, Mine
    <3> QED
      BY <3>1, <3>2, <3>3, <1>2
  <2> QED
    BY <2>4, <2>5 DEF FilesInv
<1> QED
  BY <1>1, <1>2 DEF FileStep

\* A step of the service of s leaves the other streams and services alone.
LEMMA OthersStream ==
    ASSUME TypeOK, NEW s \in Sessions, Service(s), NEW r \in Sessions \ {s}
    PROVE  spc'[r] = spc[r] /\ s2c'[r] = s2c[r] /\ c2s'[r] = c2s[r] /\ sk'[r] = sk[r]
<1>1. ASSUME NEW m, NEW next, Say(s, m, next) PROVE spc'[r] = spc[r] /\ s2c'[r] = s2c[r]
  BY <1>1 DEF Say, TypeOK
<1>2. ASSUME NEW kind, Asked(s, kind) PROVE c2s'[r] = c2s[r]
  BY <1>2, AskedFacts
<1>3. sk' = sk \/ (\E i : sk' = [sk EXCEPT ![s] = i]) => sk'[r] = sk[r]
  BY DEF TypeOK
<1>4. CASE DoStat(s)
  BY <1>1, <1>2, <1>4 DEF DoStat
<1>5. CASE DoList(s)
  BY <1>2, <1>5 DEF DoList, TypeOK
<1>6. CASE SayName(s)
  BY <1>1, <1>6 DEF SayName
<1>7. CASE DoSend(s)
  BY <1>1, <1>2, <1>3, <1>7 DEF DoSend, TypeOK
<1>8. CASE TakeChunk(s)
  BY <1>1, <1>2, <1>3, <1>8 DEF TakeChunk
<1>9. CASE TakeDone(s)
  BY <1>1, <1>2, <1>9 DEF TakeDone, TypeOK
<1>10. CASE FileLost(s)
  BY <1>10 DEF FileLost, Ends, stream, TypeOK
<1>11. CASE DoRecv(s)
  BY <1>1, <1>2, <1>3, <1>11 DEF DoRecv, TypeOK
<1>12. CASE SayChunk(s)
  BY <1>1, <1>3, <1>12 DEF SayChunk
<1>13. CASE Leave(s)
  BY <1>2, <1>13 DEF Leave, Ends, TypeOK
<1> QED
  BY <1>4, <1>5, <1>6, <1>7, <1>8, <1>9, <1>10, <1>11, <1>12, <1>13 DEF Service

LEMMA AloneByService ==
    ASSUME ExchangeInv, Alone, FilesInv, NEW s \in Sessions, s = sess, Service(s)
    PROVE  Alone'
<1>1. sess' = sess /\ s \in Nat
  BY ServiceFile DEF Sessions
<1>2. \A r \in Sessions \ {s} : spc'[r] = spc[r] /\ c2s'[r] = c2s[r]
  BY OthersStream DEF ExchangeInv
<1> SUFFICES ASSUME NEW r \in Sessions, r < s PROVE ~Busy(r)'
  BY <1>1 DEF Alone
<1>3. ~Busy(r) /\ spc'[r] = spc[r] /\ c2s'[r] = c2s[r]
  BY <1>1, <1>2 DEF Alone
<1> QED
  BY <1>3 DEF Busy

\* The service of an earlier session ends, or sends what nobody receives.
LEMMA OldService ==
    ASSUME ExchangeInv, Alone, NEW s \in Sessions, s # sess, Service(s)
    PROVE  /\ UNCHANGED <<cmd, cpc, sess, flist, at, k, flags, result, got, deaths>>
           /\ UNCHANGED <<remote, sopen, sfile, c2s, cut>> /\ s \notin sopen
           /\ Alone'
           /\ \A r \in Sessions \ {s} : /\ spc'[r] = spc[r] /\ s2c'[r] = s2c[r]
                                        /\ c2s'[r] = c2s[r] /\ sk'[r] = sk[r]
<1>1. spc[s] \in {"cmd", "dir", "file", "read"} /\ Frame
  BY DEF Service, DoStat, DoList, SayName, DoSend, TakeChunk, TakeDone, FileLost, DoRecv,
         SayChunk, Leave
<1>2. s \in Nat /\ s < sess
  BY <1>1, ServiceFacts
<1>3. spc[s] = "read" \/ (spc[s] = "cmd" /\ c2s[s] = << >>)
  BY <1>1, <1>2 DEF Alone, Busy
<1>4. ASSUME NEW kind, Asked(s, kind) PROVE c2s[s] # << >>
  BY <1>4 DEF Asked
<1>5. SayChunk(s) \/ (Leave(s) /\ c2s' = c2s /\ cut' = cut)
  BY <1>3, <1>4 DEF Service, DoStat, DoList, SayName, DoSend, TakeChunk, TakeDone, FileLost,
                    DoRecv, Leave
<1>6. s \notin sopen
  BY <1>1, <1>3, ServiceFacts
<1>7. UNCHANGED <<remote, sopen, sfile, c2s, cut>>
  BY <1>5, <1>6 DEF SayChunk, Leave, Ends
<1>8. UNCHANGED <<cmd, cpc, sess, flist, at, k, flags, result, got, deaths>>
  BY <1>1 DEF Frame, client
<1>9. \A r \in Sessions \ {s} : /\ spc'[r] = spc[r] /\ s2c'[r] = s2c[r]
                               /\ c2s'[r] = c2s[r] /\ sk'[r] = sk[r]
  BY OthersStream DEF ExchangeInv
<1>10. c2s[s] = << >>
  BY <1>3 DEF ExchangeInv, QueueInv, QueueOf
<1>11. spc'[s] \in {"cmd", "read", "closed"}
  <2>1. spc \in [Sessions -> {"none", "cmd", "dir", "file", "read", "closed"}]
    BY DEF ExchangeInv, TypeOK
  <2>2. ASSUME NEW m, NEW next \in {"cmd", "read"}, Say(s, m, next)
        PROVE  spc'[s] \in {"cmd", "read", "closed"}
    BY <2>1, <2>2 DEF Say
  <2>3. CASE SayChunk(s)
    BY <2>2, <2>3 DEF SayChunk
  <2>4. CASE Leave(s)
    BY <2>1, <2>4 DEF Leave, Ends
  <2> QED
    BY <2>3, <2>4, <1>5
<1>12. Alone'
  <2> SUFFICES ASSUME NEW r \in Sessions, r < sess PROVE ~Busy(r)'
    BY <1>8 DEF Alone
  <2>1. CASE r = s
    BY <2>1, <1>7, <1>10, <1>11 DEF Busy
  <2>2. CASE r # s
    <3>1. ~Busy(r) /\ spc'[r] = spc[r] /\ c2s'[r] = c2s[r]
      BY <2>2, <1>9 DEF Alone
    <3> QED
      BY <3>1 DEF Busy
  <2> QED
    BY <2>1, <2>2
<1> QED
  BY <1>6, <1>7, <1>8, <1>9, <1>12

LEMMA PutAny ==
    ASSUME NEW A, NEW q \in Seq(A), NEW m
    PROVE  /\ Len(q) \in Nat /\ Len(Append(q, m)) = Len(q) + 1 /\ Append(q, m) # << >>
           /\ \A i \in 1..Len(q) : Append(q, m)[i] = q[i]
           /\ Append(q, m)[Len(q) + 1] = m
<1> DEFINE B == A \cup {m}
<1>1. q \in Seq(B) /\ m \in B
  BY ElementOfSeq
<1> HIDE DEF B
<1> QED
  BY <1>1, Put

LEMMA OneLeft == ASSUME NEW A, NEW q \in Seq(A), Len(q) <= 1, q # << >> PROVE Len(q) = 1
<1>1. Len(q) \in Nat /\ Len(q) # 0
  BY Empty
<1> QED
  BY <1>1

\* A file is the same in the next state.
LEMMA SameFile ==
    ASSUME NEW f, remote'[f] = remote[f]
    PROVE  /\ Stat(f)' = Stat(f) /\ (Stored(f)' <=> Stored(f)) /\ (Settled(f)' <=> Settled(f))
           /\ Current(f, Stat(f))' = Current(f, Stat(f))
<1>1. Stat(f)' = Stat(f) /\ (Stored(f)' <=> Stored(f))
  BY DEF Stat, Stored
<1> QED
  BY <1>1 DEF Settled, Current

LEMMA StatByService ==
    ASSUME ExchangeInv, Alone, FilesInv, StatInv, NEW s \in Sessions, s = sess, Service(s)
    PROVE  StatInv'
<1> DEFINE q == c2s[s]
           a == s2c[s]
           n == IF cpc = "ask" THEN 0 ELSE at - 1
<1>1. /\ FileStep(s) /\ s = sess /\ spc[s] \in {"cmd", "dir", "file", "read"}
      /\ UNCHANGED <<cmd, cpc, sess, flist, at, flags>>
  BY ServiceFile
<1>2. q \in Seq(Requests) /\ a \in Seq(Answers) /\ Len(a) \in Nat
      /\ (cpc # "idle" /\ Connected(sess) => StepOf(q, a))
  BY <1>1, ServiceFacts
<1>3. ASSUME cpc # "idle", NEW f \in flags PROVE Current(f, Stat(f))'
  <2>1. f \in Files
    BY DEF ExchangeInv, TypeOK
  <2>2. ~Sends(f)
    BY <1>3 DEF Sends, ExchangeInv, CommandInv
  <2>3. remote'[f] = remote[f]
    BY <2>1, <2>2, <1>1, RemoteSame DEF ExchangeInv
  <2> QED
    BY <2>3, <1>3, SameFile DEF StatInv
<1>4. ASSUME cpc \in {"ask", "stats"} PROVE  Attrs(s2c'[s], n) /\ remote' = remote /\ flist' = flist
  <2>0. Attrs(a, n) /\ n \in Int
    <3>1. at \in Nat
      BY <1>4, ClientFacts
    <3> QED
      BY <3>1, <1>1, <1>4 DEF StatInv
  <2>1. spc[s] = "cmd"
        /\ (q # << >> => q[1][1] \notin {"LIST", "SEND", "RECV", "QUIT"})
    BY <1>1, <1>4, ClientAt
  <2>2. ASSUME NEW kind, Asked(s, kind) PROVE q # << >> /\ q[1][1] = kind
    BY <2>2, AskedFacts DEF ExchangeInv
  <2>3. DoStat(s) \/ (Leave(s) /\ q = << >>)
    BY <2>1, <2>2 DEF Service, DoList, SayName, DoSend, TakeChunk, TakeDone, FileLost, DoRecv,
                      SayChunk, Leave
  <2>4. flist' = flist
    BY <1>1
  <2>5. CASE Leave(s)
    <3>1. s2c' = s2c /\ remote' = remote
      BY <2>5 DEF Leave
    <3> QED
      BY <3>1, <2>0, <2>4 DEF Attrs, Stat
  <2>6. CASE DoStat(s)
    <3> DEFINE f == Arg(s)
               m == <<"STAT", IF f = Dir THEN <<0, Now>> ELSE Stat(f)>>
               y == Append(a, m)
    <3>1. Say(s, m, "cmd") /\ remote' = remote
      BY <2>6 DEF DoStat, Stat
    <3>2. Asked(s, "STAT")
      BY <2>6 DEF DoStat
    <3>3. q # << >> /\ f = q[1][2]
      BY <3>2, AskedFacts DEF ExchangeInv
    <3>4. m[2] = (IF f = Dir THEN <<0, Now>> ELSE Stat(f))
      OBVIOUS
    <3> HIDE DEF m
    <3>5. s2c'[s] = a \/ (s2c'[s] = y /\ Connected(s))
      BY <3>1, SayLast DEF ExchangeInv
    <3>6. /\ Len(y) = Len(a) + 1 /\ \A i \in 1..Len(a) : y[i] = a[i]
          /\ y[Len(a) + 1] = m
      BY <1>2, PutAny
    <3>7. Connected(s) => f = flist[n + Len(a) + 1]
      <4> SUFFICES ASSUME Connected(s) PROVE f = flist[n + Len(a) + 1]
        OBVIOUS
      <4>1. Pending(q, a, n)
        BY <1>1, <1>2, <1>4 DEF StepOf, AskStep, StatsStep
      <4>2. 1 \in 1..Len(q)
        BY <3>3, <1>2, Take
      <4> QED
        BY <4>1, <4>2, <3>3 DEF Pending
    <3> HIDE DEF q, a, n, y
    <3>8. Connected(s) => Attrs(y, n)
      <4> SUFFICES ASSUME Connected(s), NEW i \in 1..Len(y), flist[n + i] \in Files
                   PROVE  y[i][2] = Stat(flist[n + i])
        BY DEF Attrs
      <4>1. CASE i = Len(a) + 1
        <5>1. n + i = n + Len(a) + 1
          BY <4>1, <1>2, <2>0
        <5>2. f \in Files /\ f # Dir /\ flist[n + i] = f
          BY <5>1, <3>7, Constants
        <5> QED
          BY <5>2, <4>1, <3>4, <3>6
      <4>2. CASE i \in 1..Len(a)
        BY <4>2, <2>0, <3>6 DEF Attrs
      <4> QED
        BY <4>1, <4>2, <3>6, <1>2
    <3>9. Attrs(s2c'[s], n)
      BY <3>5, <3>8, <2>0
    <3> QED
      BY <3>1, <3>9, <2>4 DEF Attrs, Stat
  <2> QED
    BY <2>3, <2>5, <2>6
<1> HIDE DEF q, a
<1>5. ASSUME cpc' = "ask" PROVE Attrs(s2c[sess], 0)'
  <2>1. Attrs(s2c'[s], 0) /\ remote' = remote /\ flist' = flist /\ sess' = s
    BY <1>1, <1>4, <1>5
  <2> QED
    BY <2>1 DEF Attrs, Stat
<1>6. ASSUME cpc' = "stats" PROVE Attrs(s2c[sess], at - 1)'
  <2>1. /\ Attrs(s2c'[s], at - 1) /\ remote' = remote /\ flist' = flist /\ sess' = s
        /\ at' = at
    BY <1>1, <1>4, <1>6
  <2> QED
    BY <2>1 DEF Attrs, Stat
<1> QED
  BY <1>1, <1>3, <1>5, <1>6 DEF StatInv

LEMMA StoredByService ==
    ASSUME ExchangeInv, ExchangeInv', Alone, FilesInv, StoredInv, NEW s \in Sessions, s = sess,
           Service(s)
    PROVE  StoredInv'
<1>1. /\ FileStep(s) /\ OkayStep(s) /\ s = sess /\ spc[s] \in {"cmd", "dir", "file", "read"}
      /\ UNCHANGED <<cmd, cpc, sess, flist, at>>
  BY ServiceFile
<1>2. ASSUME cpc \in {"next", "data", "status"}, cmd \in {"push", "one", "sync"},
             NEW j \in 1..(at - 1)
      PROVE  Settled(flist[j])' \/ (cpc # "next" /\ flist[j] = flist[at])
  <2>1. flist \in Seq(Files) /\ at \in Nat /\ Len(flist) \in Nat /\ at <= Len(flist) + 1
    BY <1>2, ClientFacts DEF ExchangeInv, CommandInv
  <2>2. flist[j] \in Files
    <3>1. j \in 1..Len(flist)
      BY <2>1
    <3> QED
      BY <3>1, <2>1, ElementOfSeq
  <2>3. CASE Sends(flist[j])
    BY <2>3, <1>2 DEF Sends
  <2>4. CASE ~Sends(flist[j])
    <3>1. remote'[flist[j]] = remote[flist[j]]
      BY <2>2, <2>4, <1>1, RemoteSame DEF ExchangeInv
    <3>2. Settled(flist[j])' <=> Settled(flist[j])
      BY <3>1, <1>1 DEF Settled, Stored, Sent
    <3> QED
      BY <3>2, <1>2 DEF StoredInv
  <2> QED
    BY <2>3, <2>4
<1>3. ASSUME cpc = "status", s2c'[s] # << >>, s2c'[s][1][1] = "OKAY" PROVE Settled(flist[at])'
  <2>1. flist[at] \in Files
    BY <1>3, ClientFacts DEF ExchangeInv, CommandInv
  <2>2. CASE s2c'[s] = s2c[s]
    <3>1. SendPhase(c2s[s], s2c[s])
      BY <1>1, <1>3, ClientFacts DEF PhaseOf
    <3>2. Gone(c2s[sess])
      BY <3>1, <2>2, <1>1, <1>3 DEF SendPhase
    <3>3. remote'[flist[at]] = remote[flist[at]]
      BY <3>2, <2>1, <1>1, RemoteSame DEF ExchangeInv, Sends
    <3>4. Settled(flist[at])' <=> Settled(flist[at])
      BY <3>3, <1>1 DEF Settled, Stored, Sent
    <3> QED
      BY <3>4, <2>2, <1>1, <1>3 DEF StoredInv
  <2>3. CASE s2c'[s] # s2c[s]
    <3>1. SendPhase(c2s[sess], s2c[sess])'
      BY <1>1, <1>3 DEF ExchangeInv, PhaseInv, PhaseOf, CommandInv, Sessions
    <3>2. Len(s2c'[s]) <= 1 /\ s2c'[s] \in Seq(Answers)
      BY <3>1, <1>1 DEF SendPhase, ExchangeInv, TypeOK
    <3>3. Len(s2c'[s]) = 1
      BY <3>2, <1>3, OneLeft
    <3>4. PICK f \in Files : Sends(f) /\ FileStored(s, f)
      BY <3>3, <2>3, <1>1, <1>3 DEF OkayStep
    <3>5. f = flist[at]
      BY <3>4, <1>3 DEF Sends
    <3> QED
      BY <3>4, <3>5, <1>1 DEF FileStored, Settled, Stored
  <2> QED
    BY <2>2, <2>3
<1> QED
  BY <1>1, <1>2, <1>3 DEF StoredInv

LEMMA ReadToPut ==
    ASSUME NEW A, NEW a \in Seq(A), NEW m, NEW d, NEW n \in Nat, ReadTo(a, d, n),
           m[1] = "DATA" => n + Len(a) + 1 <= Len(d) /\ m[2] = d[n + Len(a) + 1],
           m[1] = "DONE" => n + Len(a) + 1 = Len(d) + 1
    PROVE  ReadTo(Append(a, m), d, n)
<1> DEFINE y == Append(a, m)
<1>1. /\ Len(a) \in Nat /\ Len(y) = Len(a) + 1 /\ \A i \in 1..Len(a) : y[i] = a[i]
      /\ y[Len(a) + 1] = m
  BY PutAny
<1> HIDE DEF y
<1>2. ASSUME NEW i \in 1..Len(y)
      PROVE  /\ y[i][1] = "DATA" => n + i <= Len(d) /\ y[i][2] = d[n + i]
             /\ y[i][1] = "DONE" => n + i = Len(d) + 1
  <2>1. CASE i \in 1..Len(a)
    BY <2>1, <1>1 DEF ReadTo
  <2>2. CASE i = Len(a) + 1
    <3>1. n + i = n + Len(a) + 1 /\ y[i] = m
      BY <2>2, <1>1
    <3> QED
      BY <3>1
  <2> QED
    BY <2>1, <2>2, <1>1
<1> QED
  BY <1>2 DEF ReadTo, y

\* The service reads the file from its beginning and says what it reads.
LEMMA ReadByService ==
    ASSUME ExchangeInv, NEW s \in Sessions, s = sess, Service(s), cpc \in {"first", "more"},
           spc[s] \in {"cmd", "dir", "file", "read"}, UNCHANGED <<cpc, sess>>,
           NEW n \in Nat, cpc = "first" => n = 0, PullAt(s2c[sess], n)
    PROVE  LET d == remote[flist[at]].data
           IN  /\ ReadTo(s2c'[s], d, n)
               /\ Connected(s)' /\ spc'[s] = "read" => sk'[s] = n + Len(s2c'[s])
<1> DEFINE q == c2s[s]
           a == s2c[s]
           d == remote[flist[at]].data
<1>1. /\ q \in Seq(Requests) /\ a \in Seq(Answers) /\ Len(a) \in Nat /\ sk[s] \in Nat
      /\ PhaseOf(q, a) /\ (Connected(s) => StepOf(q, a))
  BY ServiceFacts
<1>2. /\ ReadTo(a, d, n) /\ n <= Len(d)
      /\ Connected(s) /\ spc[s] = "read" => sk[s] = n + Len(a)
  BY DEF PullAt
<1>3. RecvPhase(q, a) /\ (Connected(s) => RecvStep(q, a))
  BY <1>1 DEF PhaseOf, StepOf
<1>4. Gone(q) \/ Doing(q, "RECV") \/ AtFile("read")
  BY <1>3 DEF RecvPhase
<1>5. /\ sk \in [Sessions -> Nat] /\ TypeOK
      /\ spc \in [Sessions -> {"none", "cmd", "dir", "file", "read", "closed"}]
  BY DEF ExchangeInv, TypeOK
<1>6. Connected(s)' /\ cut' = cut => Connected(s)
  BY DEF Connected
<1>7. ASSUME NEW kind, Asked(s, kind) PROVE q # << >> /\ q[1][1] = kind /\ cut' = cut
  BY <1>5, <1>7, AskedFacts
<1>8. DoRecv(s) \/ SayChunk(s) \/ Leave(s)
  BY <1>4, <1>7 DEF Gone, Doing, AtFile, Service, DoStat, DoList, SayName, DoSend, TakeChunk,
                    TakeDone, FileLost
<1>9. ASSUME NEW m, NEW next \in {"cmd", "read"}, Say(s, m, next)
      PROVE  /\ s2c'[s] = a \/ s2c'[s] = Append(a, m)
             /\ Connected(s) => s2c'[s] = Append(a, m) /\ spc'[s] = next
             /\ spc'[s] \in {next, "closed"}
             /\ ~Connected(s) => s2c'[s] = a
  <2>1. s2c \in [Sessions -> Seq(Answers)]
    BY <1>5 DEF TypeOK
  <2> QED
    BY <2>1, <1>5, <1>9 DEF Say
<1>10. CASE Leave(s)
  <2>1. s2c'[s] = a /\ spc'[s] = "closed"
    BY <1>5, <1>10 DEF Leave, Ends
  <2> QED
    BY <2>1, <1>2
<1>11. ASSUME Say(s, <<"FAIL", None>>, "cmd")
       PROVE  ReadTo(s2c'[s], d, n) /\ spc'[s] # "read"
  <2> DEFINE m == <<"FAIL", None>>
  <2>1. m[1] = "FAIL"
    OBVIOUS
  <2>2. (s2c'[s] = a \/ s2c'[s] = Append(a, m)) /\ spc'[s] \in {"cmd", "closed"}
    BY <1>9, <1>11
  <2> HIDE DEF m
  <2>3. ReadTo(Append(a, m), d, n)
    BY <2>1, <1>1, <1>2, ReadToPut
  <2> QED
    BY <2>2, <2>3, <1>2
<1>12. CASE DoRecv(s)
  <2>1. spc[s] = "cmd" /\ Asked(s, "RECV")
    BY <1>12 DEF DoRecv
  <2>2. CASE Say(s, <<"FAIL", None>>, "cmd")
    BY <2>2, <1>11
  <2>3. CASE sk' = [sk EXCEPT ![s] = 0] /\ UNCHANGED s2c
    <3>1. sk'[s] = 0 /\ s2c'[s] = a
      BY <2>3, <1>5
    <3>2. Connected(s) => cpc = "first" /\ a = << >>
      BY <2>1, <1>3, <1>7 DEF RecvStep, AtFile
    <3>3. Connected(s)' => n = 0 /\ Len(a) = 0
      BY <3>2, <2>1, <1>1, <1>6, <1>7, Empty
    <3> QED
      BY <3>1, <3>3, <1>2
  <2> QED
    BY <2>2, <2>3, <1>12 DEF DoRecv
<1>13. CASE SayChunk(s)
  <2>1. spc[s] = "read" /\ cut' = cut
    BY <1>13 DEF SayChunk
  <2>2. sfile[s] = flist[at] /\ remote[sfile[s]].data = d
    BY <2>1, <1>4 DEF Gone, Doing, AtFile
  <2> HIDE DEF d
  <2>3. CASE /\ sk[s] < Len(d) /\ sk' = [sk EXCEPT ![s] = @ + 1]
             /\ Say(s, <<"DATA", d[sk[s] + 1]>>, "read")
    <3> DEFINE m == <<"DATA", d[sk[s] + 1]>>
    <3>1. m[1] = "DATA" /\ m[2] = d[sk[s] + 1]
      OBVIOUS
    <3>2. /\ Connected(s) => s2c'[s] = Append(a, m)
          /\ ~Connected(s) => s2c'[s] = a
      BY <2>3, <1>9
    <3>3. sk'[s] = sk[s] + 1
      BY <2>3, <1>5
    <3> HIDE DEF m
    <3>4. CASE Connected(s)
      <4>1. sk[s] = n + Len(a) /\ s2c'[s] = Append(a, m)
        BY <3>2, <3>4, <2>1, <1>2
      <4>2. n + Len(a) + 1 <= Len(d)
        <5>1. flist[at] \in Files /\ remote[flist[at]].data \in Seq(Chunks)
          <6>1. flist[at] \in Files
            BY <2>1, <2>2, ServiceFacts DEF QueueOf
          <6> QED
            BY <6>1, <1>5 DEF TypeOK
        <5>2. Len(d) \in Nat
          BY <5>1, Empty DEF d
        <5> QED
          BY <5>2, <4>1, <2>3, <1>1
      <4>3. ReadTo(Append(a, m), d, n)
        BY <4>1, <4>2, <3>1, <1>1, <1>2, ReadToPut
      <4>4. Len(Append(a, m)) = Len(a) + 1
        BY <1>1, PutAny
      <4>5. sk'[s] = n + Len(s2c'[s])
        BY <4>1, <4>4, <3>3, <1>1
      <4> QED
        BY <4>1, <4>3, <4>5 DEF d
    <3>5. CASE ~Connected(s)
      BY <3>2, <3>5, <2>1, <1>2, <1>6 DEF d
    <3> QED
      BY <3>4, <3>5
  <2>4. CASE sk[s] = Len(d) /\ UNCHANGED sk /\ Say(s, <<"DONE", 0>>, "cmd")
    <3> DEFINE m == <<"DONE", 0>>
    <3>1. m[1] = "DONE"
      OBVIOUS
    <3>2. /\ Connected(s) => s2c'[s] = Append(a, m)
          /\ ~Connected(s) => s2c'[s] = a
          /\ spc'[s] # "read"
      BY <2>4, <1>9
    <3> HIDE DEF m
    <3>3. CASE Connected(s)
      <4>1. n + Len(a) = Len(d) /\ s2c'[s] = Append(a, m)
        BY <3>2, <3>3, <2>1, <2>4, <1>2
      <4>2. n + Len(a) + 1 = Len(d) + 1
        BY <4>1
      <4>3. ReadTo(Append(a, m), d, n)
        BY <4>2, <3>1, <1>1, <1>2, ReadToPut
      <4> QED
        BY <4>1, <4>3, <3>2 DEF d
    <3>4. CASE ~Connected(s)
      BY <3>2, <3>4, <1>2 DEF d
    <3> QED
      BY <3>3, <3>4
  <2>5. CASE Say(s, <<"FAIL", None>>, "cmd")
    BY <2>5, <1>11 DEF d
  <2> QED
    BY <2>2, <2>3, <2>4, <2>5, <1>13 DEF SayChunk
<1> QED
  BY <1>8, <1>10, <1>12, <1>13

LEMMA PullByService ==
    ASSUME ExchangeInv, Alone, FilesInv, PullInv, NEW s \in Sessions, s = sess, Service(s)
    PROVE  PullInv'
<1>1. /\ FileStep(s) /\ s = sess /\ spc[s] \in {"cmd", "dir", "file", "read"}
      /\ UNCHANGED <<cmd, cpc, sess, flist, at, got, result>>
  BY ServiceFile
<1> SUFFICES ASSUME cmd = "pull" PROVE PullInv'
  BY <1>1 DEF PullInv
<1>2. remote' = remote
  BY <1>1 DEF FileStep, Sends, NoFileStep
<1>3. \A f : Pulled(f)' <=> Pulled(f)
  BY <1>1, <1>2 DEF Pulled
<1>4. ASSUME cpc \in {"first", "more"}, NEW n \in Nat, cpc = "first" => n = 0, PullAt(s2c[sess], n)
      PROVE  PullAt(s2c[sess], n)'
  <2> DEFINE d == remote[flist[at]].data
  <2>1. /\ ReadTo(s2c'[s], d, n)
        /\ Connected(s)' /\ spc'[s] = "read" => sk'[s] = n + Len(s2c'[s])
    BY <1>1, <1>4, ReadByService
  <2>2. n <= Len(d) /\ (cpc = "more" => got[flist[at]] = SubSeq(d, 1, n))
    BY <1>4 DEF PullAt
  <2>3. sess' = s /\ s2c'[sess'] = s2c'[s] /\ remote'[flist'[at']].data = d /\ cpc' = cpc
        /\ got'[flist'[at']] = got[flist[at]] /\ spc'[sess'] = spc'[s] /\ sk'[sess'] = sk'[s]
    BY <1>1, <1>2
  <2>4. ReadTo(s2c[sess], remote[flist[at]].data, n)'
    BY <2>1, <2>3 DEF ReadTo
  <2> QED
    BY <2>1, <2>2, <2>3, <2>4 DEF PullAt
<1>5. cpc = "first" => PullAt(s2c[sess], 0)'
  BY <1>4 DEF PullInv
<1>6. ASSUME cpc = "more"
      PROVE  \E n \in 0..Len(remote'[flist'[at']].data) : PullAt(s2c[sess], n)'
  <2>1. PICK n \in 0..Len(remote[flist[at]].data) : PullAt(s2c[sess], n)
    BY <1>6 DEF PullInv
  <2>2. n \in Nat
    BY <2>1
  <2>3. PullAt(s2c[sess], n)'
    BY <2>1, <2>2, <1>4, <1>6
  <2>4. remote'[flist'[at']].data = remote[flist[at]].data
    BY <1>1, <1>2
  <2> QED
    BY <2>3, <2>4
<1>7. PullInv
  OBVIOUS
<1> QED
  BY <1>1, <1>3, <1>5, <1>6, <1>7 DEF PullInv

-----------------------------------------------------------------------------
(* What the client knows of the files *)

\* A file that is current is stored.
LEMMA CurrentStored ==
    ASSUME FilesInv, NEW f \in Files \ Locked, Current(f, Stat(f))
    PROVE  Stored(f) /\ remote[f].data = Local[f]
<1>1. /\ FileOf(f) /\ f \in Files /\ remote[f].time = LocalTime
      /\ Len(remote[f].data) = Len(Local[f])
  BY DEF FilesInv, Current, Stat
<1>2. Stored(f)
  BY <1>1, Constants DEF FileOf, OldTime, LocalTime, Now
<1>3. Len(Sent(f)) = Len(Local[f])
  BY <1>1, <1>2 DEF Stored
<1>4. Readable[f] = Len(Local[f])
  BY <1>1, <1>3, SentFacts
<1>5. Sent(f) = Local[f]
  BY <1>1, <1>4, SentFacts
<1> QED
  BY <1>2, <1>5 DEF Stored

LEMMA ClientTruth ==
    ASSUME FilesInv, ClientOnly, StatInv', StoredInv', PullInv'
    PROVE  FactsInv'
<1>1. FilesInv'
  BY FilesKept DEF ClientOnly, service
<1> QED
  BY <1>1 DEF FactsInv

LEMMA FlagsKept ==
    ASSUME StatInv, cpc # "idle", remote' = remote, flags' = flags
    PROVE  \A f \in flags' : Current(f, Stat(f))'
  BY DEF StatInv, Current, Stat

LEMMA SettledKept ==
    ASSUME remote' = remote
    PROVE  \A f : Settled(f)' <=> Settled(f)
  BY DEF Settled, Stored, Sent

LEMMA ConnectionLostTruth == ASSUME TruthInv, ConnectionLost PROVE FactsInv'
<1>1. cpc' = "idle" /\ result' = "error" /\ sess' = sess /\ ClientOnly
  BY DEF ConnectionLost, Return
<1>2. StatInv' /\ StoredInv' /\ PullInv'
  BY <1>1 DEF StatInv, StoredInv, PullInv
<1> QED
  BY <1>1, <1>2, ClientTruth DEF TruthInv, FactsInv

LEMMA QuitTruth == ASSUME ExchangeInv, TruthInv, Quit PROVE FactsInv'
<1>1. /\ cpc' = "idle" /\ ClientOnly /\ cpc \in {"quit", "next"}
      /\ UNCHANGED <<cmd, sess, flist, at, got>>
      /\ cpc = "next" => at > Len(flist)
  BY DEF Quit, Return
<1>2. StatInv' /\ StoredInv'
  BY <1>1 DEF StatInv, StoredInv
<1>3. PullInv'
  <2>1. cmd = "pull" => cpc = "next"
    BY <1>1 DEF ExchangeInv, CommandInv
  <2>2. cpc = "next" => at = Len(flist) + 1
    BY <1>1, ClientFacts
  <2>3. remote' = remote
    BY <1>1 DEF ClientOnly
  <2> QED
    BY <1>1, <2>1, <2>2, <2>3 DEF TruthInv, FactsInv, PullInv, Pulled
<1> QED
  BY <1>1, <1>2, <1>3, ClientTruth DEF TruthInv, FactsInv

LEMMA AskStatTruth == ASSUME ExchangeInv, TruthInv, AskStat PROVE FactsInv'
<1>1. /\ cpc = "ask" /\ cpc' \in {"ask", "stats"} /\ (cpc' = "stats" => at' = 1) /\ ClientOnly
      /\ UNCHANGED <<cmd, sess, flist, flags, got, s2c>>
  BY DEF AskStat, Tell
<1>2. remote' = remote
  BY <1>1 DEF ClientOnly
<1>3. Attrs(s2c[sess], 0)'
  BY <1>1, <1>2 DEF TruthInv, FactsInv, StatInv, Attrs, Stat
<1>4. StatInv'
  <2>1. cpc' = "stats" => at' - 1 = 0
    BY <1>1
  <2>2. cpc' = "stats" => Attrs(s2c[sess], at - 1)'
    BY <1>3, <2>1 DEF Attrs
  <2>3. \A f \in flags' : Current(f, Stat(f))'
    BY <1>1, <1>2, FlagsKept DEF TruthInv, FactsInv
  <2> QED
    BY <1>3, <2>2, <2>3 DEF StatInv
<1>5. StoredInv' /\ PullInv'
  BY <1>1 DEF StoredInv, PullInv
<1> QED
  BY <1>1, <1>4, <1>5, ClientTruth DEF TruthInv, FactsInv

LEMMA ReadStatTruth == ASSUME ExchangeInv, TruthInv, ReadStat PROVE FactsInv'
<1> DEFINE a == s2c[sess]
<1>1. /\ cpc = "stats" /\ ClientOnly /\ Heard({"STAT"})
      /\ flags' = IF cmd \in {"sync", "would"} /\ Current(flist[at], Hear[2])
                    THEN flags \cup {flist[at]} ELSE flags
      /\ at' = IF at = Len(flist) THEN 1 ELSE at + 1
      /\ cpc' = IF at < Len(flist) THEN "stats" ELSE IF cmd = "pull" THEN "list" ELSE "next"
      /\ UNCHANGED <<cmd, sess, flist, got>>
  BY DEF ReadStat
<1>2. remote' = remote
  BY <1>1 DEF ClientOnly
<1>3. /\ at \in Nat \ {0} /\ at <= Len(flist) /\ Len(flist) \in Nat /\ sess \in Sessions
      /\ a \in Seq(Answers)
      /\ cmd \in {"sync", "would"} => flist[at] \in Files
  BY <1>1, ClientFacts DEF ExchangeInv, CommandInv
<1>4. a # << >> /\ Hear = a[1] /\ s2c'[sess'] = Tail(a)
  BY <1>1, <1>3, HeardFacts DEF ExchangeInv
<1>5. /\ Len(a) \in Nat \ {0} /\ Len(Tail(a)) = Len(a) - 1
      /\ \A i \in 1..(Len(a) - 1) : Tail(a)[i] = a[i + 1]
  BY <1>3, <1>4, Take
<1>6. \A i \in 1..Len(a) : flist[at - 1 + i] \in Files => a[i][2] = Stat(flist[at - 1 + i])
  BY <1>1 DEF TruthInv, FactsInv, StatInv, Attrs
<1> DEFINE t == Tail(a)
<1> HIDE DEF a, t
<1>7. ASSUME NEW i \in 1..Len(t), flist[at + i] \in Files
      PROVE  t[i][2] = Stat(flist[at + i])
  <2>1. i + 1 \in 1..Len(a) /\ at - 1 + (i + 1) = at + i /\ t[i] = a[i + 1]
    BY <1>3, <1>5, <1>7 DEF t
  <2>2. flist[at - 1 + (i + 1)] \in Files => a[i + 1][2] = Stat(flist[at - 1 + (i + 1)])
    BY <2>1, <1>6
  <2> QED
    BY <2>1, <2>2, <1>7
<1>8. cpc' = "stats" => Attrs(s2c[sess], at - 1)'
  <2> SUFFICES ASSUME cpc' = "stats" PROVE Attrs(s2c[sess], at - 1)'
    OBVIOUS
  <2>1. at' - 1 = at /\ flist' = flist /\ s2c'[sess'] = t
    BY <1>1, <1>3, <1>4 DEF t
  <2> QED
    BY <2>1, <1>2, <1>7 DEF Attrs, Stat
<1>9. ASSUME NEW f \in flags' PROVE Current(f, Stat(f))'
  <2>1. CASE f \in flags
    BY <2>1, <1>1, <1>2 DEF TruthInv, FactsInv, StatInv, Current, Stat
  <2>2. CASE f \notin flags
    <3>1. f = flist[at] /\ cmd \in {"sync", "would"} /\ Current(f, a[1][2])
      BY <2>2, <1>1, <1>4
    <3>2. 1 \in 1..Len(a) /\ at - 1 + 1 = at
      BY <1>3, <1>5
    <3>3. a[1][2] = Stat(f)
      <4>1. flist[at - 1 + 1] \in Files => a[1][2] = Stat(flist[at - 1 + 1])
        BY <3>2, <1>6
      <4> QED
        BY <4>1, <3>1, <3>2, <1>3
    <3> QED
      BY <3>1, <3>3, <1>2 DEF Current, Stat
  <2> QED
    BY <2>1, <2>2
<1>10. StatInv'
  BY <1>1, <1>8, <1>9 DEF StatInv
<1>11. StoredInv'
  <2>1. cpc' = "next" => at' = 1
    BY <1>1, <1>3
  <2>2. cpc' \in {"stats", "list", "next"}
    BY <1>1
  <2> QED
    BY <2>1, <2>2 DEF StoredInv
<1>12. PullInv'
  BY <1>1 DEF PullInv
<1> QED
  BY <1>1, <1>10, <1>11, <1>12, ClientTruth DEF TruthInv, FactsInv

LEMMA ListTruth == ASSUME ExchangeInv, TruthInv, AskList \/ ReadDent \/ ReadDents PROVE FactsInv'
<1>1. /\ cpc \in {"list", "dents"} /\ cpc' \in {"dents", "quit", "next"} /\ ClientOnly
      /\ UNCHANGED <<cmd, sess, at, flags>>
  BY DEF AskList, ReadDent, ReadDents, Goto
<1>2. remote' = remote
  BY <1>1 DEF ClientOnly
<1>3. at = 1 /\ cmd \in {"pull", "ls"}
  BY <1>1 DEF ExchangeInv, CommandInv
<1>4. StatInv'
  BY <1>1, <1>2, FlagsKept DEF TruthInv, FactsInv, StatInv
<1>5. StoredInv'
  BY <1>1, <1>3 DEF StoredInv
<1>6. PullInv'
  BY <1>1, <1>3 DEF PullInv
<1> QED
  BY <1>1, <1>4, <1>5, <1>6, ClientTruth DEF TruthInv, FactsInv

LEMMA SkipTruth == ASSUME ExchangeInv, TruthInv, Skip PROVE FactsInv'
<1>1. /\ cpc = "next" /\ cpc' = "next" /\ at <= Len(flist) /\ at' = at + 1 /\ ClientOnly
      /\ flist[at] \in flags \/ cmd = "would"
      /\ UNCHANGED <<cmd, sess, flist, flags, got, result>>
  BY DEF Skip
<1>2. remote' = remote
  BY <1>1 DEF ClientOnly
<1>3. StatInv'
  BY <1>1, <1>2, FlagsKept DEF TruthInv, FactsInv, StatInv
<1>4. at \in Nat \ {0} /\ flist[at] \in Files
  BY <1>1, ClientFacts DEF ExchangeInv, CommandInv
<1>5. StoredInv'
  <2> SUFFICES ASSUME cmd \in {"push", "one", "sync"}, NEW j \in 1..at PROVE Settled(flist[j])'
    BY <1>1, <1>4 DEF StoredInv
  <2>1. CASE j = at
    <3>1. Current(flist[at], Stat(flist[at]))
      BY <1>1 DEF TruthInv, FactsInv, StatInv
    <3>2. Settled(flist[at])
      BY <3>1, <1>4, CurrentStored DEF TruthInv, FactsInv, Settled
    <3> QED
      BY <3>2, <2>1, <1>1, <1>2, SettledKept
  <2>2. CASE j \in 1..(at - 1)
    <3>1. Settled(flist[j])
      BY <2>2, <1>1 DEF TruthInv, FactsInv, StoredInv
    <3> QED
      BY <3>1, <1>1, <1>2, SettledKept
  <2> QED
    BY <2>1, <2>2, <1>4
<1>6. PullInv'
  <2>1. cmd # "pull"
    BY <1>1 DEF ExchangeInv, CommandInv
  <2> QED
    BY <2>1, <1>1 DEF PullInv
<1> QED
  BY <1>1, <1>3, <1>5, <1>6, ClientTruth DEF TruthInv, FactsInv

LEMMA SendTruth ==
    ASSUME ExchangeInv, TruthInv, AskSend \/ SendChunk \/ SendDone
    PROVE  FactsInv'
<1>1. /\ cpc \in {"next", "data"} /\ cpc' \in {"data", "status"} /\ ClientOnly
      /\ cpc' = "status" => cpc = "data"
      /\ UNCHANGED <<cmd, sess, flist, at, flags, s2c>>
  BY DEF AskSend, Todo, SendChunk, SendDone, Tell, Goto
<1>2. remote' = remote
  BY <1>1 DEF ClientOnly
<1>3. cmd # "pull"
  BY DEF AskSend, SendChunk, SendDone, ExchangeInv, CommandInv
<1>4. StatInv'
  BY <1>1, <1>2, FlagsKept DEF TruthInv, FactsInv, StatInv
<1>5. cpc = "data" /\ s2c[sess] # << >> => s2c[sess][1][1] = "FAIL"
  <2> SUFFICES ASSUME cpc = "data", s2c[sess] # << >> PROVE s2c[sess][1][1] = "FAIL"
    OBVIOUS
  <2>1. s2c[sess] \in Seq(Answers) /\ All(s2c[sess], {"FAIL"})
    BY ClientFacts DEF PhaseOf, SendPhase
  <2> QED
    BY <2>1, AllTake
<1>6. StoredInv'
  <2>1. ASSUME cmd \in {"push", "one", "sync"}, NEW j \in 1..(at - 1)
        PROVE  Settled(flist[j])' \/ flist[j] = flist[at]
    <3>1. Settled(flist[j]) \/ flist[j] = flist[at]
      BY <2>1, <1>1 DEF TruthInv, FactsInv, StoredInv
    <3> QED
      BY <3>1, <1>1, <1>2, SettledKept
  <2> QED
    BY <2>1, <1>1, <1>5 DEF StoredInv
<1>7. PullInv'
  BY <1>1, <1>3 DEF PullInv
<1> QED
  BY <1>1, <1>4, <1>6, <1>7, ClientTruth DEF TruthInv, FactsInv

LEMMA ReadStatusTruth == ASSUME ExchangeInv, TruthInv, ReadStatus PROVE FactsInv'
<1>1. cpc = "status" /\ Heard({"OKAY", "FAIL"}) /\ ClientOnly
      /\ UNCHANGED <<cmd, sess, flist, flags>>
  BY DEF ReadStatus, Return
<1>2. remote' = remote
  BY <1>1 DEF ClientOnly
<1>3. cmd # "pull" /\ at \in Nat \ {0} /\ s2c[sess] # << >> /\ Hear = s2c[sess][1]
  BY <1>1, ClientFacts, HeardFacts DEF ExchangeInv, CommandInv
<1>4. CASE Hear[1] = "OKAY"
  <2>1. cpc' = "next" /\ at' = at + 1
    BY <1>4 DEF ReadStatus
  <2>2. StatInv'
    BY <2>1, <1>1, <1>2, FlagsKept DEF TruthInv, FactsInv, StatInv
  <2>3. StoredInv'
    <3> SUFFICES ASSUME cmd \in {"push", "one", "sync"}, NEW j \in 1..at
                 PROVE  Settled(flist[j])'
      BY <2>1, <1>1, <1>3 DEF StoredInv
    <3>1. Settled(flist[at])
      BY <1>1, <1>3, <1>4 DEF TruthInv, FactsInv, StoredInv
    <3>2. j \in 1..(at - 1) => Settled(flist[j]) \/ flist[j] = flist[at]
      BY <1>1 DEF TruthInv, FactsInv, StoredInv
    <3>3. Settled(flist[j])
      BY <3>1, <3>2, <1>3
    <3> QED
      BY <3>3, <1>1, <1>2, SettledKept
  <2>4. PullInv'
    BY <1>1, <1>3 DEF PullInv
  <2> QED
    BY <2>2, <2>3, <2>4, <1>1, ClientTruth DEF TruthInv, FactsInv
<1>5. CASE Hear[1] # "OKAY"
  <2>1. cpc' = "idle" /\ result' = "error"
    BY <1>5 DEF ReadStatus, Return
  <2>2. StatInv' /\ StoredInv' /\ PullInv'
    BY <2>1 DEF StatInv, StoredInv, PullInv
  <2> QED
    BY <2>2, <1>1, ClientTruth DEF TruthInv, FactsInv
<1> QED
  BY <1>4, <1>5

LEMMA AskRecvTruth == ASSUME ExchangeInv, TruthInv, AskRecv PROVE FactsInv'
<1>1. /\ cpc = "next" /\ cmd = "pull" /\ at <= Len(flist) /\ cpc' = "first" /\ ClientOnly
      /\ UNCHANGED <<cmd, sess, flist, at, flags, got, result, s2c>>
  BY DEF AskRecv, Todo, Goto, Tell
<1>2. remote' = remote /\ spc' = spc
  BY <1>1 DEF ClientOnly, service
<1>3. StatInv'
  BY <1>1, <1>2, FlagsKept DEF TruthInv, FactsInv, StatInv
<1>4. StoredInv'
  BY <1>1 DEF StoredInv
<1>5. PullAt(s2c[sess], 0)'
  <2> DEFINE d == remote[flist[at]].data
  <2>1. flist[at] \in Files /\ RestPhase(c2s[sess], s2c[sess])
    BY <1>1, ClientFacts DEF ExchangeInv, CommandInv, PhaseOf
  <2>2. d \in Seq(Chunks)
    BY <2>1 DEF ExchangeInv, TypeOK
  <2>3. 0 <= Len(d)
    BY <2>2, Empty
  <2>4. s2c[sess] = << >> /\ spc[sess] # "read"
    BY <2>1 DEF RestPhase, Gone
  <2>5. remote'[flist'[at']].data = d /\ s2c'[sess'] = << >> /\ spc'[sess'] # "read"
    BY <2>4, <1>1, <1>2
  <2> HIDE DEF d
  <2> QED
    BY <2>3, <2>5, <1>1 DEF PullAt, ReadTo
<1>6. PullInv'
  <2>1. \A j \in 1..(at - 1) : Pulled(flist[j])
    BY <1>1 DEF TruthInv, FactsInv, PullInv
  <2> QED
    BY <2>1, <1>1, <1>2, <1>5 DEF PullInv, Pulled
<1> QED
  BY <1>1, <1>3, <1>4, <1>6, ClientTruth DEF TruthInv, FactsInv

\* What the client knows when it is about to read a part of a file.
LEMMA Reading ==
    ASSUME ExchangeInv, TruthInv, cpc \in {"first", "more"}
    PROVE  LET f == flist[at]
               d == remote[f].data
               had == IF cpc = "first" THEN << >> ELSE got[f]
           IN  /\ f \in Files /\ d \in Seq(Chunks) /\ Len(d) \in Nat
               /\ \E n \in 0..Len(d) : /\ PullAt(s2c[sess], n) /\ had = SubSeq(d, 1, n)
                                       /\ cpc = "first" => n = 0
<1> DEFINE f == flist[at]
           d == remote[f].data
           had == IF cpc = "first" THEN << >> ELSE got[f]
<1>1. f \in Files /\ cmd = "pull"
  BY ClientFacts DEF ExchangeInv, CommandInv
<1>2. d \in Seq(Chunks) /\ Len(d) \in Nat
  <2>1. d \in Seq(Chunks)
    BY <1>1 DEF ExchangeInv, TypeOK
  <2> QED
    BY <2>1, Empty
<1>3. CASE cpc = "first"
  <2>1. PullAt(s2c[sess], 0)
    BY <1>1, <1>3 DEF TruthInv, FactsInv, PullInv
  <2>2. 0 \in 0..Len(d) /\ SubSeq(d, 1, 0) = << >>
    BY <1>2, Cut
  <2> QED
    BY <2>1, <2>2, <1>1, <1>2, <1>3
<1>4. CASE cpc = "more"
  <2>1. PICK n \in 0..Len(d) : PullAt(s2c[sess], n)
    BY <1>1, <1>4 DEF TruthInv, FactsInv, PullInv
  <2>2. got[f] = SubSeq(d, 1, n)
    BY <2>1, <1>4 DEF PullAt
  <2> QED
    BY <2>1, <2>2, <1>1, <1>2, <1>4
<1> QED
  BY <1>3, <1>4

LEMMA ReadChunkTruth == ASSUME ExchangeInv, TruthInv, ReadChunk PROVE FactsInv'
<1> DEFINE f == flist[at]
           d == remote[f].data
           a == s2c[sess]
           had == IF cpc = "first" THEN << >> ELSE got[f]
<1>1. /\ cpc \in {"first", "more"} /\ Heard({"DATA"}) /\ ClientOnly
      /\ \/ got' = [got EXCEPT ![f] = Append(had, Hear[2])] /\ cpc' = "more" /\ UNCHANGED result
         \/ got' = [got EXCEPT ![f] = had] /\ cpc' = "idle" /\ result' = "error"
      /\ UNCHANGED <<cmd, sess, flist, at, flags>>
  BY DEF ReadChunk
<1>2. remote' = remote /\ UNCHANGED <<spc, sk, cut>>
  BY <1>1, HeardFacts, ClientFacts DEF ClientOnly, service, ExchangeInv, OwnStream
<1>3. /\ f \in Files /\ d \in Seq(Chunks) /\ Len(d) \in Nat
      /\ \E n \in 0..Len(d) : /\ PullAt(a, n) /\ had = SubSeq(d, 1, n)
                              /\ cpc = "first" => n = 0
  BY <1>1, Reading
<1>4. PICK n \in 0..Len(d) : PullAt(a, n) /\ had = SubSeq(d, 1, n) /\ (cpc = "first" => n = 0)
  BY <1>3
<1>5. /\ a \in Seq(Answers) /\ a # << >> /\ Hear = a[1] /\ a[1][1] = "DATA"
      /\ s2c'[sess'] = Tail(a)
  BY <1>1, ClientFacts, HeardFacts DEF ExchangeInv
<1>6. /\ Len(a) \in Nat \ {0} /\ Len(Tail(a)) = Len(a) - 1
      /\ \A i \in 1..(Len(a) - 1) : Tail(a)[i] = a[i + 1]
  BY <1>5, Take
<1>7. ReadTo(a, d, n)
  BY <1>4 DEF PullAt
<1>8. n + 1 <= Len(d) /\ Hear[2] = d[n + 1]
  <2>1. 1 \in 1..Len(a)
    BY <1>6
  <2> QED
    BY <2>1, <1>5, <1>7 DEF ReadTo
<1>9. ReadTo(Tail(a), d, n + 1)
  <2> DEFINE t == Tail(a)
  <2> HIDE DEF t, a, d
  <2>1. ASSUME NEW i \in 1..Len(t)
        PROVE  /\ t[i][1] = "DATA" => n + 1 + i <= Len(d) /\ t[i][2] = d[n + 1 + i]
               /\ t[i][1] = "DONE" => n + 1 + i = Len(d) + 1
    <3>1. i + 1 \in 1..Len(a) /\ t[i] = a[i + 1] /\ n + (i + 1) = n + 1 + i
      BY <1>4, <1>6 DEF t
    <3>2. /\ a[i + 1][1] = "DATA" => n + (i + 1) <= Len(d) /\ a[i + 1][2] = d[n + (i + 1)]
          /\ a[i + 1][1] = "DONE" => n + (i + 1) = Len(d) + 1
      BY <3>1, <1>7 DEF ReadTo
    <3> QED
      BY <3>1, <3>2
  <2> QED
    BY <2>1 DEF ReadTo, t
<1>10. StatInv'
  BY <1>1, <1>2, FlagsKept DEF TruthInv, FactsInv, StatInv
<1>11. StoredInv'
  BY <1>1 DEF StoredInv
<1>12. CASE got' = [got EXCEPT ![f] = Append(had, Hear[2])] /\ cpc' = "more"
  <2>1. got'[f] = Append(SubSeq(d, 1, n), d[n + 1])
    BY <1>3, <1>4, <1>8, <1>12 DEF ExchangeInv, TypeOK
  <2>2. Append(SubSeq(d, 1, n), d[n + 1]) = SubSeq(d, 1, n + 1)
    BY <1>3, <1>4, <1>8, PrefixMore
  <2>3. Connected(sess)' => Connected(sess)
    BY <1>1, <1>2 DEF Connected
  <2>4. Connected(sess)' /\ spc'[sess] = "read" => sk'[sess] = n + 1 + Len(Tail(a))
    <3> SUFFICES ASSUME Connected(sess)', spc'[sess] = "read"
                 PROVE  sk'[sess] = n + 1 + Len(Tail(a))
      OBVIOUS
    <3>1. Connected(sess) /\ spc[sess] = "read" /\ sk' = sk
      BY <2>3, <1>2
    <3>2. sk'[sess] = n + Len(a)
      BY <3>1, <1>4 DEF PullAt
    <3>3. n \in Int /\ Len(a) \in Int /\ Len(Tail(a)) = Len(a) - 1
      BY <1>3, <1>4, <1>6
    <3>4. \A i, j \in Int : i + j = i + 1 + (j - 1)
      OBVIOUS
    <3>5. n + Len(a) = n + 1 + (Len(a) - 1)
      BY <3>3, <3>4, Zenon
    <3> QED
      BY <3>2, <3>3, <3>5, Zenon
  <2>5. /\ remote'[flist'[at']].data = d /\ sess' = sess /\ got'[flist'[at']] = got'[f]
        /\ flist' = flist /\ at' = at
    BY <1>1, <1>2
  <2> DEFINE m == n + 1
  <2>6. m \in 0..Len(d) /\ ReadTo(Tail(a), d, m) /\ got'[f] = SubSeq(d, 1, m) /\ m <= Len(d)
        /\ (Connected(sess)' /\ spc'[sess] = "read" => sk'[sess] = m + Len(Tail(a)))
    <3>1. n + 1 \in 0..Len(d) /\ n + 1 <= Len(d)
      BY <1>3, <1>4, <1>8
    <3>2. got'[f] = SubSeq(d, 1, n + 1)
      BY <2>1, <2>2, Zenon
    <3> HIDE DEF a, d, f
    <3> QED
      BY <3>1, <3>2, <1>9, <2>4
  <2> HIDE DEF m, d, f, a
  <2>7. PullAt(s2c[sess], m)'
    <3>1. ReadTo(s2c[sess], remote[flist[at]].data, m)'
      BY <2>5, <2>6, <1>5 DEF ReadTo
    <3> QED
      BY <3>1, <2>5, <2>6, <1>5 DEF PullAt
  <2>8. \E i \in 0..Len(remote'[flist'[at']].data) : PullAt(s2c[sess], i)'
    BY <2>5, <2>6, <2>7
  <2>9. \A j \in 1..(at - 1) : Pulled(flist[j])' \/ flist[j] = flist[at]
    <3> SUFFICES ASSUME NEW j \in 1..(at - 1), flist[j] # flist[at] PROVE Pulled(flist[j])'
      OBVIOUS
    <3>1. Pulled(flist[j])
      BY <1>1 DEF TruthInv, FactsInv, PullInv, ExchangeInv, CommandInv
    <3>2. got'[flist[j]] = got[flist[j]]
      <4>1. flist[j] \in Files
        <5>1. flist \in Seq(Files) /\ at \in Nat /\ Len(flist) \in Nat /\ at <= Len(flist) + 1
          BY <1>1, ClientFacts DEF ExchangeInv, CommandInv
        <5>2. j \in 1..Len(flist)
          BY <5>1
        <5> QED
          BY <5>1, <5>2, ElementOfSeq
      <4> QED
        BY <4>1, <1>12 DEF ExchangeInv, TypeOK, f
    <3> QED
      BY <3>1, <3>2, <1>1, <1>2 DEF Pulled
  <2>10. PullInv'
    BY <2>5, <2>8, <2>9, <1>12 DEF PullInv
  <2> QED
    BY <2>10, <1>1, <1>10, <1>11, ClientTruth DEF TruthInv, FactsInv
<1>13. CASE cpc' = "idle" /\ result' = "error"
  <2>1. PullInv'
    BY <1>13 DEF PullInv
  <2> QED
    BY <2>1, <1>1, <1>10, <1>11, ClientTruth DEF TruthInv, FactsInv
<1> QED
  BY <1>1, <1>12, <1>13

LEMMA CreatFailsTruth == ASSUME TruthInv, CreatFails PROVE FactsInv'
<1>1. cpc' = "idle" /\ result' = "error" /\ ClientOnly
  BY DEF CreatFails
<1>2. StatInv' /\ StoredInv' /\ PullInv'
  BY <1>1 DEF StatInv, StoredInv, PullInv
<1> QED
  BY <1>1, <1>2, ClientTruth DEF TruthInv, FactsInv

LEMMA ReadEndTruth == ASSUME ExchangeInv, TruthInv, ReadEnd PROVE FactsInv'
<1> DEFINE f == flist[at]
           d == remote[f].data
           a == s2c[sess]
           had == IF cpc = "first" THEN << >> ELSE got[f]
<1>1. /\ cpc \in {"first", "more"} /\ Heard({"DONE", "FAIL"}) /\ ClientOnly /\ cpc' = "next"
      /\ at' = at + 1
      /\ got' = IF Hear[1] = "FAIL" THEN [got EXCEPT ![f] = None]
                ELSE IF cpc = "first" THEN [got EXCEPT ![f] = << >>] ELSE got
      /\ UNCHANGED <<cmd, sess, flist, flags, result>>
  BY DEF ReadEnd
<1>2. remote' = remote
  BY <1>1 DEF ClientOnly
<1>3. /\ f \in Files /\ d \in Seq(Chunks) /\ Len(d) \in Nat
      /\ \E n \in 0..Len(d) : /\ PullAt(a, n) /\ had = SubSeq(d, 1, n)
                              /\ cpc = "first" => n = 0
  BY <1>1, Reading
<1>4. PICK n \in 0..Len(d) : PullAt(a, n) /\ had = SubSeq(d, 1, n) /\ (cpc = "first" => n = 0)
  BY <1>3
<1>5. /\ a \in Seq(Answers) /\ a # << >> /\ Hear = a[1] /\ a[1][1] \in {"DONE", "FAIL"}
  BY <1>1, ClientFacts, HeardFacts DEF ExchangeInv
<1>6. Len(a) \in Nat \ {0}
  BY <1>5, Take
<1>7. a[1][1] = "DONE" => had = d
  <2>1. 1 \in 1..Len(a) /\ ReadTo(a, d, n)
    BY <1>4, <1>6 DEF PullAt
  <2>2. a[1][1] = "DONE" => n + 1 = Len(d) + 1
    BY <2>1 DEF ReadTo
  <2>3. a[1][1] = "DONE" => n = Len(d)
    BY <2>2, <1>3, <1>4
  <2>4. SubSeq(d, 1, Len(d)) = d
    BY <1>3, Cut
  <2> QED
    BY <2>3, <2>4, <1>4, Zenon
<1>8. got'[f] \in {None, remote'[f].data}
  <2>1. CASE a[1][1] = "FAIL"
    <3>1. got'[f] = None
      BY <2>1, <1>1, <1>3, <1>5 DEF ExchangeInv, TypeOK
    <3> QED
      BY <3>1
  <2>2. CASE a[1][1] = "DONE"
    <3>1. got'[f] = had
      BY <2>2, <1>1, <1>3, <1>5 DEF ExchangeInv, TypeOK
    <3>2. got'[f] = remote'[f].data
      BY <3>1, <2>2, <1>2, <1>7
    <3> QED
      BY <3>2
  <2> QED
    BY <2>1, <2>2, <1>5
<1>9. at \in Nat \ {0} /\ flist \in Seq(Files) /\ Len(flist) \in Nat /\ at <= Len(flist)
  BY <1>1, ClientFacts DEF ExchangeInv, CommandInv
<1>10. ASSUME NEW j \in 1..at PROVE Pulled(flist[j])'
  <2>1. CASE flist[j] = f
    BY <2>1, <1>1, <1>8 DEF Pulled
  <2>2. CASE flist[j] # f
    <3>1. j \in 1..(at - 1) /\ j \in 1..Len(flist)
      BY <2>2, <1>9
    <3>2. Pulled(flist[j])
      BY <3>1, <2>2, <1>1 DEF TruthInv, FactsInv, PullInv, ExchangeInv, CommandInv
    <3>3. flist[j] \in Files
      BY <3>1, <1>9, ElementOfSeq
    <3>4. got'[flist[j]] = got[flist[j]]
      BY <3>3, <2>2, <1>1 DEF ExchangeInv, TypeOK
    <3> QED
      BY <3>2, <3>4, <1>1, <1>2 DEF Pulled
  <2> QED
    BY <2>1, <2>2
<1>11. PullInv'
  <2>1. at' - 1 = at /\ flist' = flist
    BY <1>1, <1>9
  <2>2. \A j \in 1..(at' - 1) : Pulled(flist[j])'
    BY <2>1, <1>10
  <2> QED
    BY <2>2, <1>1 DEF PullInv
<1>12. StatInv'
  BY <1>1, <1>2, FlagsKept DEF TruthInv, FactsInv, StatInv
<1>13. StoredInv'
  <2>1. cmd = "pull"
    BY <1>1 DEF ExchangeInv, CommandInv
  <2> QED
    BY <2>1, <1>1 DEF StoredInv
<1> QED
  BY <1>1, <1>11, <1>12, <1>13, ClientTruth DEF TruthInv, FactsInv

LEMMA AloneByClient == ASSUME ExchangeInv, Alone, Client PROVE Alone'
<1>1. cpc # "idle" /\ sess' = sess /\ ClientOnly
  BY DEF Client, ConnectionLost, AskStat, ReadStat, AskList, ReadDent, ReadDents, Skip, AskSend,
         SendChunk, SendDone, ReadStatus, AskRecv, CreatFails, ReadChunk, ReadEnd, Quit, Todo,
         Return, Goto
<1>2. c2s' = c2s \/ \E m : Tell(m)
  BY DEF Client, ConnectionLost, AskStat, ReadStat, AskList, ReadDent, ReadDents, Skip, AskSend,
         SendChunk, SendDone, ReadStatus, AskRecv, CreatFails, ReadChunk, ReadEnd, Quit, Heard,
         stream
<1>3. sess \in Sessions /\ spc' = spc
  BY <1>1, ClientFacts DEF ClientOnly, service
<1>4. \A r \in Sessions \ {sess} : c2s'[r] = c2s[r]
  BY <1>2 DEF Tell, ExchangeInv, TypeOK
<1> SUFFICES ASSUME NEW r \in Sessions, r < sess PROVE ~Busy(r)'
  BY <1>1 DEF Alone
<1>5. ~Busy(r) /\ c2s'[r] = c2s[r]
  <2>1. r \in Nat /\ sess \in Nat
    BY <1>3, Constants DEF Sessions
  <2> QED
    BY <2>1, <1>4 DEF Alone
<1> QED
  BY <1>3, <1>5 DEF Busy

LEMMA ClientStepTruth == ASSUME ExchangeInv, TruthInv, Client PROVE TruthInv'
<1>1. FactsInv'
  BY ConnectionLostTruth, AskStatTruth, ReadStatTruth, ListTruth, SkipTruth, SendTruth,
     ReadStatusTruth, AskRecvTruth, CreatFailsTruth, ReadChunkTruth, ReadEndTruth, QuitTruth
     DEF Client
<1> QED
  BY <1>1, AloneByClient DEF TruthInv

\* What the client knows stays true if its own session's stream and service stay as they
\* are, or the service ends.
LEMMA QuietTruth ==
    ASSUME ExchangeInv, TruthInv, Alone', sopen' \subseteq sopen, cut \subseteq cut',
           UNCHANGED <<cmd, cpc, sess, flist, at, flags, result, got, sfile, remote>>,
           \A s \in sopen' : sk'[s] = sk[s],
           sess \in Sessions => /\ spc'[sess] \in {spc[sess], "closed"}
                                /\ s2c'[sess] = s2c[sess] /\ sk'[sess] = sk[sess]
    PROVE  TruthInv'
<1>0. FilesInv /\ StatInv /\ StoredInv /\ PullInv
  BY DEF TruthInv, FactsInv
<1>1. FilesInv'
  <2>1. \A f \in Files \ Locked : FileOf(f)'
    BY <1>0 DEF FilesInv, FileOf, Stored
  <2>2. \A s \in sopen' : OpenOf(s)'
    BY <1>0 DEF FilesInv, OpenOf, Mine
  <2> QED
    BY <2>1, <2>2 DEF FilesInv
<1>2. cpc # "idle" => /\ sess \in Sessions /\ spc'[sess'] \in {spc[sess], "closed"}
                      /\ s2c'[sess'] = s2c[sess] /\ sk'[sess'] = sk[sess]
  BY DEF ExchangeInv, CommandInv
<1>3. StatInv'
  <2>1. cpc # "idle" => \A f \in flags' : Current(f, Stat(f))'
    BY <1>0, FlagsKept
  <2>2. cpc = "ask" => Attrs(s2c[sess], 0)'
    BY <1>0, <1>2 DEF StatInv, Attrs, Stat
  <2>3. cpc = "stats" => Attrs(s2c[sess], at - 1)'
    BY <1>0, <1>2 DEF StatInv, Attrs, Stat
  <2> QED
    BY <2>1, <2>2, <2>3 DEF StatInv
<1>4. StoredInv'
  <2>1. \A f : Settled(f)' <=> Settled(f)
    BY SettledKept
  <2> QED
    BY <2>1, <1>0, <1>2 DEF StoredInv
<1>5. PullInv'
  <2>1. \A f : Pulled(f)' <=> Pulled(f)
    BY DEF Pulled
  <2>2. cpc # "idle" /\ Connected(sess)' /\ spc'[sess'] = "read" =>
          Connected(sess) /\ spc[sess] = "read"
    BY <1>2 DEF Connected
  <2>3. ASSUME cpc # "idle", NEW n, PullAt(s2c[sess], n) PROVE PullAt(s2c[sess], n)'
    <3>1. ReadTo(s2c[sess], remote[flist[at]].data, n)'
      BY <2>3, <1>2 DEF PullAt, ReadTo
    <3> QED
      BY <2>2, <2>3, <3>1, <1>2 DEF PullAt
  <2>4. cmd = "pull" /\ cpc = "first" => PullAt(s2c[sess], 0)'
    BY <2>3, <1>0 DEF PullInv
  <2>5. ASSUME cmd = "pull", cpc = "more"
        PROVE  \E n \in 0..Len(remote'[flist'[at']].data) : PullAt(s2c[sess], n)'
    <3>1. PICK n \in 0..Len(remote[flist[at]].data) : PullAt(s2c[sess], n)
      BY <2>5, <1>0 DEF PullInv
    <3>2. PullAt(s2c[sess], n)'
      BY <3>1, <2>3, <2>5
    <3> QED
      BY <3>1, <3>2
  <2> QED
    BY <2>1, <2>4, <2>5, <1>0 DEF PullInv
<1> QED
  BY <1>1, <1>3, <1>4, <1>5 DEF TruthInv, FactsInv

LEMMA ServiceStepTruth ==
    ASSUME ExchangeInv, TruthInv, NEW s \in Sessions, Service(s) PROVE TruthInv'
<1>1. ExchangeInv'
  BY ServiceStepKeeps
<1>2. Alone /\ FilesInv /\ StatInv /\ StoredInv /\ PullInv
  BY DEF TruthInv, FactsInv
<1>3. CASE s = sess
  <2>1. FileStep(s) /\ sopen \subseteq {s}
    BY <1>2, <1>3, ServiceFile
  <2>2. FilesInv'
    BY <1>2, <2>1, FilesByService
  <2> QED
    BY <1>1, <1>2, <1>3, <2>2, AloneByService, StatByService, StoredByService, PullByService
       DEF TruthInv, FactsInv
<1>4. CASE s # sess
  <2>1. /\ UNCHANGED <<cmd, cpc, sess, flist, at, flags, result, got, sfile, remote, sopen, cut>>
        /\ Alone' /\ s \notin sopen
        /\ \A r \in Sessions \ {s} : spc'[r] = spc[r] /\ s2c'[r] = s2c[r] /\ sk'[r] = sk[r]
    BY <1>2, <1>4, OldService
  <2>2. sopen \subseteq Sessions
    BY DEF ExchangeInv, TypeOK
  <2> QED
    BY <2>1, <2>2, <1>4, QuietTruth
<1> QED
  BY <1>3, <1>4

-----------------------------------------------------------------------------
(* The steps of both *)

LEMMA StartTruth ==
    ASSUME ~Overlap, ExchangeInv, TruthInv, NEW c \in Commands, Start(c)
    PROVE  TruthInv'
<1> DEFINE s == sess + 1
<1>1. /\ sess < MaxSessions /\ sess' = s /\ cmd' = c /\ at' = 1 /\ flags' = {}
      /\ cpc' = (CASE c = "push" -> "next" [] c = "ls" -> "list" [] OTHER -> "ask")
      /\ spc' = [spc EXCEPT ![s] = "cmd"]
      /\ \A r \in 1..sess : ~Busy(r)
      /\ UNCHANGED <<c2s, s2c, sfile, sk, sopen, remote>>
  BY DEF Start, stream
<1>2. sess \in Nat /\ s \in Sessions
  BY <1>1, Constants DEF ExchangeInv, TypeOK, Sessions
<1>3. cpc' \in {"next", "list", "ask"} /\ (c = "pull" => cpc' = "ask")
  BY <1>1
<1>4. s2c'[sess'] = << >>
  <2>1. QueueOf(s, c2s[s])
    BY <1>2 DEF ExchangeInv, QueueInv
  <2> QED
    BY <2>1, <1>1, <1>2 DEF QueueOf
<1>5. Alone'
  <2> SUFFICES ASSUME NEW r \in Sessions, r < s PROVE ~Busy(r)'
    BY <1>1 DEF Alone
  <2>1. r \in 1..sess /\ r # s
    BY <1>2, Constants DEF Sessions
  <2>2. ~Busy(r)
    BY <2>1, <1>1
  <2>3. spc'[r] = spc[r] /\ c2s'[r] = c2s[r]
    BY <2>1, <1>1 DEF ExchangeInv, TypeOK
  <2> QED
    BY <2>2, <2>3 DEF Busy
<1>6. FilesInv'
  BY <1>1, FilesKept DEF TruthInv, FactsInv
<1>7. StatInv'
  BY <1>1, <1>3, <1>4 DEF StatInv, Attrs
<1>8. StoredInv'
  BY <1>1, <1>3 DEF StoredInv
<1>9. PullInv'
  BY <1>1, <1>3 DEF PullInv
<1> QED
  BY <1>5, <1>6, <1>7, <1>8, <1>9 DEF TruthInv, FactsInv

\* What is left of the answers is true.
LEMMA LeftTrue ==
    ASSUME NEW A, NEW a \in Seq(A), NEW j \in 0..Len(a)
    PROVE  LET b == SubSeq(a, 1, j)
           IN  /\ b # << >> => a # << >> /\ b[1] = a[1]
               /\ \A n : Attrs(a, n) => Attrs(b, n)
               /\ \A d, n : ReadTo(a, d, n) => ReadTo(b, d, n)
<1> DEFINE b == SubSeq(a, 1, j)
<1>1. Len(a) \in Nat /\ Len(b) = j /\ \A i \in 1..j : b[i] = a[i]
  BY Cut
<1>2. b # << >> => a # << >> /\ b[1] = a[1]
  BY CutEnds
<1> HIDE DEF b
<1>3. \A i \in 1..Len(b) : i \in 1..Len(a) /\ b[i] = a[i]
  BY <1>1
<1> QED
  BY <1>2, <1>3 DEF Attrs, ReadTo, b

LEMMA BreakAlone == ASSUME ExchangeInv, Alone, NEW s \in Sessions, Break(s) PROVE Alone'
<1>1. UNCHANGED <<sess, spc>> /\ \E i \in 0..Len(c2s[s]) : c2s' = [c2s EXCEPT ![s] = SubSeq(@, 1, i)]
  BY DEF Break, client, service
<1> SUFFICES ASSUME NEW r \in Sessions, r < sess PROVE ~Busy(r)'
  BY <1>1 DEF Alone
<1>2. ~Busy(r)
  BY DEF Alone
<1>3. c2s[r] = << >> => c2s'[r] = << >>
  <2>1. CASE r # s
    BY <2>1, <1>1 DEF ExchangeInv, TypeOK
  <2>2. CASE r = s
    <3>1. PICK i \in 0..Len(c2s[s]) : c2s' = [c2s EXCEPT ![s] = SubSeq(@, 1, i)]
      BY <1>1
    <3>2. c2s'[s] = SubSeq(c2s[s], 1, i)
      BY <3>1 DEF ExchangeInv, TypeOK
    <3>3. c2s[s] = << >> => i = 0
      BY <3>1
    <3>4. SubSeq(<< >>, 1, 0) = << >>
      OBVIOUS
    <3> QED
      BY <3>2, <3>3, <3>4, <2>2
  <2> QED
    BY <2>1, <2>2
<1> QED
  BY <1>1, <1>2, <1>3 DEF Busy

LEMMA BreakOwnTruth ==
    ASSUME ExchangeInv, TruthInv, NEW s \in Sessions, s = sess, Break(s)
    PROVE  TruthInv'
<1> DEFINE a == s2c[s]
<1>1. /\ cut' = cut \cup {s}
      /\ UNCHANGED <<cmd, cpc, sess, flist, at, flags, result, got, spc, sfile, sk, sopen, remote>>
  BY DEF Break, Connected, client, service
<1>2. PICK j \in 0..Len(a) : s2c' = [s2c EXCEPT ![s] = SubSeq(@, 1, j)]
  BY DEF Break
<1> DEFINE b == SubSeq(a, 1, j)
<1>3. a \in Seq(Answers) /\ s2c'[sess'] = b /\ sess' = s
  BY <1>1, <1>2 DEF ExchangeInv, TypeOK
<1>4. /\ b # << >> => a # << >> /\ b[1] = a[1]
      /\ \A n : Attrs(a, n) => Attrs(b, n)
      /\ \A d, n : ReadTo(a, d, n) => ReadTo(b, d, n)
  BY <1>3, LeftTrue
<1> HIDE DEF b, a
<1>5. Alone' /\ FilesInv'
  <2>1. FilesInv'
    BY <1>1, FilesKept DEF TruthInv, FactsInv
  <2>2. Alone'
    BY BreakAlone DEF TruthInv
  <2> QED
    BY <2>1, <2>2
<1>6. StatInv'
  <2>1. ASSUME NEW n, Attrs(a, n) PROVE Attrs(s2c[sess], n)'
    <3>1. Attrs(b, n)
      BY <2>1, <1>4
    <3> QED
      BY <3>1, <1>1, <1>3 DEF Attrs, Stat
  <2>2. cpc = "ask" => Attrs(s2c[sess], 0)'
    BY <2>1, <1>1 DEF TruthInv, FactsInv, StatInv, a
  <2>3. cpc = "stats" => Attrs(s2c[sess], at - 1)'
    <3> DEFINE n == at - 1
    <3>1. n' = n
      BY <1>1
    <3>2. cpc = "stats" => Attrs(a, n)
      BY <1>1 DEF TruthInv, FactsInv, StatInv, a
    <3>3. cpc = "stats" => Attrs(b, n)
      BY <3>2, <1>4
    <3> HIDE DEF n
    <3>4. cpc = "stats" => Attrs(s2c[sess], n)'
      BY <3>1, <3>3, <1>1, <1>3 DEF Attrs, Stat
    <3> QED
      BY <3>4 DEF n
  <2>4. cpc # "idle" => \A f \in flags' : Current(f, Stat(f))'
    BY <1>1, FlagsKept DEF TruthInv, FactsInv
  <2> QED
    BY <2>2, <2>3, <2>4, <1>1 DEF StatInv
<1>7. StoredInv'
  <2>1. \A f : Settled(f)' <=> Settled(f)
    BY <1>1, SettledKept
  <2>2. StoredInv
    BY DEF TruthInv, FactsInv
  <2>3. ASSUME cpc' = "status", s2c'[sess'] # << >>, s2c'[sess'][1][1] = "OKAY"
        PROVE  Settled(flist[at])'
    BY <2>1, <2>2, <2>3, <1>1, <1>3, <1>4 DEF StoredInv, a
  <2>4. ASSUME cpc' \in {"next", "data", "status"}, cmd' \in {"push", "one", "sync"},
               NEW j1 \in 1..(at' - 1)
        PROVE  Settled(flist[j1])' \/ (cpc' # "next" /\ flist'[j1] = flist'[at'])
    BY <2>1, <2>2, <2>4, <1>1 DEF StoredInv
  <2> QED
    BY <2>3, <2>4 DEF StoredInv
<1>8. PullInv'
  <2>1. \A f : Pulled(f)' <=> Pulled(f)
    BY <1>1 DEF Pulled
  <2>2. ~Connected(sess)'
    BY <1>1 DEF Connected
  <2>3. ASSUME NEW n, PullAt(s2c[sess], n) PROVE PullAt(s2c[sess], n)'
    <3>1. ReadTo(b, remote[flist[at]].data, n)
      BY <2>3, <1>1, <1>4 DEF PullAt, a
    <3>2. ReadTo(s2c[sess], remote[flist[at]].data, n)'
      BY <3>1, <1>1, <1>3 DEF ReadTo
    <3> QED
      BY <2>2, <2>3, <3>2, <1>1 DEF PullAt
  <2>4. cmd = "pull" /\ cpc = "first" => PullAt(s2c[sess], 0)'
    BY <2>3 DEF TruthInv, FactsInv, PullInv
  <2>5. ASSUME cmd = "pull", cpc = "more"
        PROVE  \E n \in 0..Len(remote'[flist'[at']].data) : PullAt(s2c[sess], n)'
    <3>1. PICK n \in 0..Len(remote[flist[at]].data) : PullAt(s2c[sess], n)
      BY <2>5 DEF TruthInv, FactsInv, PullInv
    <3>2. PullAt(s2c[sess], n)'
      BY <3>1, <2>3
    <3> QED
      BY <3>1, <3>2, <1>1
  <2>6. PullInv
    BY DEF TruthInv, FactsInv
  <2> QED
    BY <2>1, <2>4, <2>5, <2>6, <1>1 DEF PullInv
<1> QED
  BY <1>5, <1>6, <1>7, <1>8 DEF TruthInv, FactsInv

LEMMA BreakTruth == ASSUME ExchangeInv, TruthInv, NEW s \in Sessions, Break(s) PROVE TruthInv'
<1>1. CASE s = sess
  BY <1>1, BreakOwnTruth
<1>2. CASE s # sess
  <2>1. /\ cut' = cut \cup {s}
        /\ \E j \in 0..Len(s2c[s]) : s2c' = [s2c EXCEPT ![s] = SubSeq(@, 1, j)]
        /\ UNCHANGED <<cmd, cpc, sess, flist, at, flags, result, got, spc, sfile, sk, sopen, remote>>
    BY DEF Break, client, service
  <2>2. \A r \in Sessions \ {s} : s2c'[r] = s2c[r]
    BY <2>1 DEF ExchangeInv, TypeOK
  <2>3. Alone'
    BY BreakAlone DEF TruthInv
  <2> QED
    BY <2>1, <2>2, <2>3, <1>2, QuietTruth
<1> QED
  BY <1>1, <1>2

LEMMA PowerLossTruth == ASSUME ExchangeInv, TruthInv, PowerLoss PROVE TruthInv'
<1>1. /\ UNCHANGED <<cmd, cpc, sess, flist, at, flags, result, got, s2c, sfile, sk, remote>>
      /\ cut \subseteq cut' /\ sopen' = {}
      /\ spc' = [s \in Sessions |-> IF spc[s] = "none" THEN "none" ELSE "closed"]
  BY DEF PowerLoss, client
<1>2. \A s \in Sessions : spc'[s] \in {spc[s], "closed"}
  BY <1>1
<1>3. Alone'
  <2> SUFFICES ASSUME NEW s \in Sessions, s < sess PROVE ~Busy(s)'
    BY <1>1 DEF Alone
  <2>1. spc[s] # "none"
    BY Constants DEF ExchangeInv, TypeOK, QueueInv, QueueOf, Sessions
  <2> QED
    BY <2>1, <1>1 DEF Busy
<1> QED
  BY <1>1, <1>2, <1>3, QuietTruth

LEMMA StutterTruth == ASSUME ExchangeInv, TruthInv, UNCHANGED vars PROVE TruthInv'
<1>1. /\ UNCHANGED <<cmd, cpc, sess, flist, at, flags, result, got, s2c, sfile, sk, remote>>
      /\ UNCHANGED <<spc, cut, sopen, c2s>>
  BY DEF vars, client, stream, service
<1>2. Alone'
  BY <1>1 DEF TruthInv, Alone, Busy
<1> QED
  BY <1>1, <1>2, QuietTruth

LEMMA TruthInit == Init => TruthInv
<1> SUFFICES ASSUME Init PROVE TruthInv
  OBVIOUS
<1>1. Alone
  BY Constants DEF Init, Alone, Sessions
<1>2. FilesInv
  <2>1. PICK there \in SUBSET Files :
          remote = [f \in Files |-> IF f \in there THEN Before(f) ELSE Absent]
    BY DEF Init
  <2>2. \A f \in Files \ Locked : FileOf(f)
    BY <2>1 DEF FileOf, Before, Absent
  <2> QED
    BY <2>2 DEF Init, FilesInv
<1>3. StatInv /\ StoredInv /\ PullInv
  BY DEF Init, StatInv, StoredInv, PullInv
<1> QED
  BY <1>1, <1>2, <1>3 DEF TruthInv, FactsInv

LEMMA TruthStep ==
    ASSUME ~Overlap, ExchangeInv, TruthInv, [Next]_vars
    PROVE  TruthInv'
<1>1. ASSUME NEW c \in Commands, Start(c) PROVE TruthInv'
  BY <1>1, StartTruth
<1>2. CASE Client
  BY <1>2, ClientStepTruth
<1>3. CASE PowerLoss
  BY <1>3, PowerLossTruth
<1>4. ASSUME NEW s \in Sessions, Service(s) PROVE TruthInv'
  BY <1>4, ServiceStepTruth
<1>5. ASSUME NEW s \in Sessions, Break(s) PROVE TruthInv'
  BY <1>5, BreakTruth
<1>6. CASE UNCHANGED vars
  BY <1>6, StutterTruth
<1> QED
  BY <1>1, <1>2, <1>3, <1>4, <1>5, <1>6 DEF Next

\* The invariant of both, while a command waits for the service of the one before to end.
THEOREM FilesTrue == ASSUME ~Overlap PROVE Spec => [](ExchangeInv /\ TruthInv)
<1>1. Init => ExchangeInv /\ TruthInv
  BY ExchangeInit, TruthInit
<1>2. ExchangeInv /\ TruthInv /\ [Next]_vars => (ExchangeInv /\ TruthInv)'
  BY ExchangeStep, TruthStep
<1> QED
  BY <1>1, <1>2, PTL DEF Spec

\* sync skips a file only when the device has all of it (sync_finish_readtime compares size
\* and time): the time of the client's file is set after the last chunk was written, and what
\* is broken off is unlinked or has a later time.
THEOREM SkippedIsCurrent == ASSUME ~Overlap PROVE Spec => []SkipOnlyCurrent
<1>1. ExchangeInv /\ TruthInv => SkipOnlyCurrent
  <2> SUFFICES ASSUME ExchangeInv, TruthInv, NEW f \in flags \ Locked, cpc # "idle"
               PROVE  remote[f].data = Local[f]
    BY DEF SkipOnlyCurrent
  <2>1. f \in Files \ Locked /\ Current(f, Stat(f)) /\ FilesInv
    BY DEF ExchangeInv, TypeOK, TruthInv, FactsInv, StatInv
  <2> QED
    BY <2>1, CurrentStored
<1> QED
  BY <1>1, FilesTrue, PTL

\* What do_sync_pull leaves of each file after success is the file of the device or no file,
\* although sync_recv goes on with the next file after a failed read.
THEOREM PulledWhole == ASSUME ~Overlap PROVE Spec => []PulledIsWhole
<1>1. ExchangeInv /\ TruthInv => PulledIsWhole
  <2> SUFFICES ASSUME ExchangeInv, TruthInv, cmd = "pull", cpc = "idle", result = "okay",
                      NEW f \in ToSet(flist)
               PROVE  Pulled(f)
    BY DEF PulledIsWhole, Pulled
  <2>1. at = Len(flist) + 1 /\ \A j \in 1..(at - 1) : Pulled(flist[j])
    BY DEF TruthInv, FactsInv, PullInv
  <2>2. flist \in Seq(Files \cup {Dir})
    BY DEF ExchangeInv, TypeOK
  <2>3. Len(flist) \in Nat /\ DOMAIN flist = 1..Len(flist)
    BY <2>2, LenProperties
  <2>4. PICK j \in 1..Len(flist) : f = flist[j]
    BY <2>3 DEF ToSet
  <2> QED
    BY <2>1, <2>3, <2>4
<1> QED
  BY <1>1, FilesTrue, PTL
-----------------------------------------------------------------------------
(* Push and sync implement FileTransfer *)

\* What FileTransfer sees of a file, of the device and of a command.
View(f) == IF Writing(f) THEN NoFile ELSE [data |-> remote[f].data, time |-> remote[f].time]
Device == [f \in Promised |-> View(f)]
Wanted == IF cmd \in {"push", "one", "sync"} THEN ToSet(flist) \cap Promised ELSE {}

\* A promised file is stored as a whole.
LEMMA PromisedFacts ==
    ASSUME NEW f \in Promised
    PROVE  f \in Files /\ f \notin Locked /\ Whole(f) = [data |-> Sent(f), time |-> LocalTime]
<1>1. f \in Files /\ f \notin Locked /\ Readable[f] = Len(Local[f])
  BY DEF Promised
<1>2. Sent(f) = Local[f]
  BY <1>1, SentFacts
<1> QED
  BY <1>1, <1>2 DEF Whole

LEMMA Mapped ==
    /\ Transfer!tvars = <<Device, Wanted, result, deaths>>
    /\ Transfer!tvars' = <<Device', Wanted', result', deaths'>>
  BY DEF Transfer!tvars, Device, Wanted, View

\* Nothing changes but the files.
CommandSame == UNCHANGED <<cmd, flist, result, deaths>>

LEMMA MapStutter ==
    ASSUME CommandSame, Device' = Device
    PROVE  Transfer!tvars' = Transfer!tvars
  BY Mapped DEF CommandSame, Wanted

LEMMA MapReplace ==
    ASSUME NEW f \in Promised, CommandSame, Device' = [Device EXCEPT ![f] = NoFile]
    PROVE  Transfer!TransferNext
<1>1. Wanted' = Wanted /\ result' = result /\ deaths' = deaths
  BY DEF CommandSame, Wanted
<1>2. Transfer!Replace(f)
  BY <1>1 DEF Transfer!Replace, Device, Wanted, View
<1> QED
  BY <1>2 DEF Transfer!TransferNext

LEMMA MapStore ==
    ASSUME NEW f \in Promised, CommandSame, Device[f] = NoFile,
           Device' = [Device EXCEPT ![f] = Whole(f)]
    PROVE  Transfer!TransferNext
<1>1. Wanted' = Wanted /\ result' = result /\ deaths' = deaths
  BY DEF CommandSame, Wanted
<1>2. [g \in Promised |-> Whole(g)][f] = Whole(f)
  OBVIOUS
<1>3. Transfer!Store(f)
  BY <1>1, <1>2 DEF Transfer!Store, Device, Wanted, View
<1> QED
  BY <1>3 DEF Transfer!TransferNext

LEMMA MapReport ==
    ASSUME result = "none", Device' = Device, Wanted' = Wanted, deaths' = deaths,
           \/ result' = "error"
           \/ result' = "okay" /\ \A f \in Wanted : Device[f] = Whole(f)
    PROVE  Transfer!TransferNext
<1>1. \A f \in Wanted : f \in Promised /\ [g \in Promised |-> Whole(g)][f] = Whole(f)
  BY DEF Wanted
<1>2. result' = "okay" => \A f \in Wanted : Device[f] = [g \in Promised |-> Whole(g)][f]
  BY <1>1
<1>3. Transfer!Report
  BY <1>2 DEF Transfer!Report, Device, Wanted, View
<1> QED
  BY <1>3 DEF Transfer!TransferNext

LEMMA MapBegin ==
    ASSUME result # "none" \/ Wanted = {}, Device' = Device, result' = "none", deaths' = deaths
    PROVE  Transfer!TransferNext
<1>1. Wanted' \subseteq Promised
  BY DEF Wanted
<1>2. Transfer!Begin
  BY <1>1 DEF Transfer!Begin, Device, Wanted, View
<1> QED
  BY <1>2 DEF Transfer!TransferNext

LEMMA MapCrash ==
    ASSUME UNCHANGED <<cmd, flist, result>>, deaths' = deaths + 1,
           \A f \in Promised : View(f)' \in MayBe(f),
           \A f \in Promised : Device'[f] = Device[f] \/ Device[f] = NoFile
    PROVE  Transfer!TransferNext
<1>1. Wanted' = Wanted
  BY DEF Wanted
<1>2. Device' \in Transfer!Directories
  <2> DEFINE C == [f \in Promised |-> MayBe(f)]
  <2>1. Device' \in [Promised -> UNION {C[f] : f \in Promised}]
        /\ \A f \in Promised : Device'[f] \in C[f]
    BY DEF Device
  <2> QED
    BY <2>1 DEF Transfer!Directories
<1>3. Transfer!Crash
  BY <1>1, <1>2 DEF Transfer!Crash, Device, Wanted, View
<1> QED
  BY <1>3 DEF Transfer!TransferNext

\* A file of the device is what FileTransfer allows.
LEMMA FileAllowed ==
    ASSUME NEW f \in Promised, FileOf(f)
    PROVE  [data |-> remote[f].data, time |-> remote[f].time] \in MayBe(f)
<1> DEFINE v == [data |-> remote[f].data, time |-> remote[f].time]
<1>1. CASE remote[f].time = None /\ remote[f].data = << >>
  BY <1>1 DEF NoFile, MayBe
<1>2. CASE remote[f].time = OldTime /\ remote[f].data = Old[f]
  BY <1>2 DEF MayBe
<1>3. CASE Stored(f)
  <2>1. v = Whole(f)
    BY <1>3, PromisedFacts DEF Stored
  <2> QED
    BY <2>1 DEF MayBe
<1>4. CASE remote[f].time = Now /\ remote[f].data \in Parts(f)
  <2>1. v \in {[data |-> d, time |-> Now] : d \in Parts(f)}
    BY <1>4
  <2> QED
    BY <2>1 DEF MayBe
<1> QED
  BY <1>1, <1>2, <1>3, <1>4 DEF FileOf

LEMMA DeviceSame ==
    ASSUME remote' = remote, sopen' = sopen, \A s \in sopen : sfile'[s] = sfile[s]
    PROVE  Device' = Device
<1>1. \A f \in Promised : Writing(f)' <=> Writing(f)
  BY DEF Writing
<1>2. \A f \in Promised : View(f)' = View(f)
  BY <1>1 DEF View
<1> QED
  BY <1>2 DEF Device

\* A step of the service replaces a file, writes it or stores it, or does nothing with files.
LEMMA ServiceMaps ==
    ASSUME ExchangeInv, Alone, FilesInv, NEW s \in Sessions, s = sess, Service(s)
    PROVE  Transfer!TransferNext \/ UNCHANGED Transfer!tvars
<1>1. /\ FileStep(s) /\ sopen \subseteq {s} /\ CommandSame
  BY ServiceFile DEF CommandSame
<1>2. CASE NoFileStep(s)
  <2>1. remote' = remote /\ sopen' = sopen /\ \A r \in sopen : sfile'[r] = sfile[r]
    BY <1>1, <1>2 DEF NoFileStep
  <2> QED
    BY <2>1, <1>1, DeviceSame, MapStutter
<1>3. ASSUME NEW f \in Files, Sends(f),
             FileGone(s, f) \/ FileOpened(s, f) \/ FileWritten(s, f) \/ FileStored(s, f)
      PROVE  Transfer!TransferNext \/ UNCHANGED Transfer!tvars
  <2>1. remote \in [Files -> [by : 0..MaxSessions, data : Seq(Chunks), time : Times]]
    BY DEF ExchangeInv, TypeOK
  <2>2. /\ OthersSame(f) /\ sopen' \subseteq {s} /\ (s \in sopen => sfile[s] = f)
        /\ s \in sopen' => sfile'[s] = f
    <3>1. CASE FileGone(s, f)
      BY <3>1, <2>1 DEF FileGone, Unlinked, OthersSame
    <3>2. CASE FileOpened(s, f)
      BY <3>2 DEF FileOpened
    <3>3. CASE FileWritten(s, f)
      BY <3>3 DEF FileWritten
    <3>4. CASE FileStored(s, f)
      BY <3>4 DEF FileStored
    <3> QED
      BY <1>3, <3>1, <3>2, <3>3, <3>4
  <2>3. ASSUME NEW g \in Promised, g # f PROVE View(g)' = View(g)
    <3>1. ~Writing(g) /\ ~Writing(g)'
      BY <2>2, <2>3, <1>1 DEF Writing
    <3>2. remote'[g] = remote[g]
      BY <2>2, <2>3 DEF OthersSame, Promised
    <3> QED
      BY <3>1, <3>2 DEF View
  <2>4. CASE f \notin Promised
    <3>1. \A g \in Promised : View(g)' = View(g)
      BY <2>3, <2>4
    <3>2. Device' = Device
      BY <3>1 DEF Device
    <3> QED
      BY <3>2, <1>1, MapStutter
  <2>5. CASE f \in Promised
    <3>1. f \in Promised /\ f \notin Locked
      BY <2>5, PromisedFacts
    <3>2. ASSUME NEW v, View(f)' = v PROVE Device' = [Device EXCEPT ![f] = v]
      BY <3>1, <3>2, <2>3 DEF Device
    <3>3. CASE FileGone(s, f)
      <4>1. remote'[f] = Absent /\ ~Writing(f)'
        BY <3>3, <2>1, <3>1, <1>3 DEF FileGone, Unlinked, Writing
      <4>2. View(f)' = NoFile
        BY <4>1 DEF View, NoFile, Absent
      <4> QED
        BY <4>2, <3>1, <3>2, <1>1, MapReplace
    <3>4. CASE FileOpened(s, f)
      <4>1. Writing(f)'
        BY <3>4, <3>1 DEF FileOpened, Writing
      <4>2. View(f)' = NoFile
        BY <4>1 DEF View
      <4> QED
        BY <4>2, <3>1, <3>2, <1>1, MapReplace
    <3>5. CASE FileWritten(s, f)
      <4>1. Writing(f)'
        BY <3>5, <3>1 DEF FileWritten, Writing
      <4>2. View(f)' = NoFile
        BY <4>1 DEF View
      <4> QED
        BY <4>2, <3>1, <3>2, <1>1, MapReplace
    <3>6. CASE FileStored(s, f)
      <4>1. Writing(f) /\ ~Writing(f)'
        BY <3>6, <3>1 DEF FileStored, Writing
      <4>2. remote'[f].data = Sent(f) /\ remote'[f].time = LocalTime
        BY <3>6, <3>1 DEF FileStored
      <4> DEFINE v == Whole(f)
      <4>3. View(f)' = v
        BY <4>1, <4>2, <3>1, PromisedFacts DEF View
      <4>4. Device[f] = NoFile
        BY <4>1, <3>1 DEF Device, View
      <4>5. Device' = [Device EXCEPT ![f] = v]
        BY <4>3, <3>2
      <4> QED
        BY <4>4, <4>5, <3>1, <1>1, MapStore
    <3> QED
      BY <1>3, <3>3, <3>4, <3>5, <3>6
  <2> QED
    BY <2>4, <2>5
<1> QED
  BY <1>1, <1>2, <1>3 DEF FileStep

\* A step of the client reports how the command ended, or FileTransfer does not see it.
LEMMA ClientMaps ==
    ASSUME ExchangeInv, TruthInv, Client
    PROVE  Transfer!TransferNext \/ UNCHANGED Transfer!tvars
<1>1. cpc # "idle"
  BY DEF Client, ConnectionLost, AskStat, ReadStat, AskList, ReadDent, ReadDents, Skip, AskSend,
         SendChunk, SendDone, ReadStatus, AskRecv, CreatFails, ReadChunk, ReadEnd, Quit, Todo
<1>2. result = "none" /\ (cpc \in {"list", "dents"} => cmd \notin {"push", "one", "sync"})
  BY <1>1 DEF ExchangeInv, CommandInv
<1>3. ClientOnly /\ cmd' = cmd
  BY DEF Client, ConnectionLost, AskStat, ReadStat, AskList, ReadDent, ReadDents, Skip, AskSend,
         SendChunk, SendDone, ReadStatus, AskRecv, CreatFails, ReadChunk, ReadEnd, Quit, Return, Goto
<1>4. UNCHANGED <<remote, sopen, sfile, deaths>>
  BY <1>3 DEF ClientOnly, service
<1>5. Device' = Device
  BY <1>4, DeviceSame
<1>6. flist' = flist \/ cpc \in {"list", "dents"}
  BY DEF Client, ConnectionLost, AskStat, ReadStat, AskList, ReadDent, ReadDents, Skip, AskSend,
         SendChunk, SendDone, ReadStatus, AskRecv, CreatFails, ReadChunk, ReadEnd, Quit, Return, Goto
<1>7. Wanted' = Wanted
  BY <1>2, <1>3, <1>6 DEF Wanted
<1>8. result' = result \/ result' = "error" \/ Quit
  BY DEF Client, ConnectionLost, AskStat, ReadStat, AskList, ReadDent, ReadDents, Skip, AskSend,
         SendChunk, SendDone, ReadStatus, AskRecv, CreatFails, ReadChunk, ReadEnd, Return, Goto
<1>9. CASE result' = result
  BY <1>4, <1>5, <1>7, <1>9, Mapped
<1>10. CASE result' = "error"
  BY <1>2, <1>4, <1>5, <1>7, <1>10, MapReport
<1>11. CASE Quit
  <2>1. result' = "okay" /\ cpc \in {"quit", "next"} /\ (cpc = "next" => at > Len(flist))
    BY <1>11 DEF Quit, Return
  <2>2. ASSUME NEW f \in Wanted PROVE Device[f] = Whole(f)
    <3>1. cmd \in {"push", "one", "sync"} /\ f \in ToSet(flist) /\ f \in Promised
      BY <2>2 DEF Wanted
    <3>2. cpc = "next" /\ RestPhase(c2s[sess], s2c[sess])
      BY <3>1, <2>1, ClientFacts DEF ExchangeInv, CommandInv, PhaseOf
    <3>3. at = Len(flist) + 1 /\ Len(flist) \in Nat /\ flist \in Seq(Files \cup {Dir})
      BY <3>2, <2>1, ClientFacts
    <3>4. PICK j \in 1..Len(flist) : flist[j] = f
      BY <3>1, <3>3, InList
    <3>5. Settled(flist[j])
      BY <3>1, <3>2, <3>3 DEF TruthInv, FactsInv, StoredInv
    <3>6. Stored(f)
      BY <3>1, <3>4, <3>5 DEF Settled, Promised
    <3>7. spc[sess] # "file"
      BY <3>2 DEF RestPhase, Gone
    <3>8. ~Writing(f)
      BY <3>7, NoneOpen DEF TruthInv, Writing
    <3>9. View(f) = Whole(f)
      BY <3>1, <3>6, <3>8, PromisedFacts DEF View, Stored
    <3> QED
      BY <3>1, <3>9 DEF Device
  <2> QED
    BY <2>1, <2>2, <1>2, <1>4, <1>5, <1>7, MapReport
<1> QED
  BY <1>8, <1>9, <1>10, <1>11

LEMMA StartMaps ==
    ASSUME ExchangeInv, NEW c \in Commands, Start(c) PROVE Transfer!TransferNext
<1>1. cpc = "idle" /\ result' = "none" /\ UNCHANGED <<sfile, sopen, remote, deaths>>
  BY DEF Start
<1>2. result # "none" \/ cmd = None
  BY <1>1 DEF ExchangeInv, CommandInv
<1>3. cmd = None => Wanted = {}
  BY Constants DEF Wanted
<1>4. Device' = Device
  BY <1>1, DeviceSame
<1> QED
  BY <1>1, <1>2, <1>3, <1>4, MapBegin

LEMMA PowerLossMaps == ASSUME ExchangeInv, FilesInv, PowerLoss PROVE Transfer!TransferNext
<1>1. UNCHANGED <<cmd, flist, result>> /\ deaths' = deaths + 1
      /\ UNCHANGED <<remote, sfile, sk>> /\ sopen' = {}
  BY DEF PowerLoss, client
<1>2. ASSUME NEW f \in Promised PROVE View(f)' \in MayBe(f)
  <2>1. ~Writing(f)'
    BY <1>1 DEF Writing
  <2>2. View(f)' = [data |-> remote[f].data, time |-> remote[f].time]
    BY <2>1, <1>1 DEF View
  <2>3. FileOf(f)
    BY DEF FilesInv, Promised
  <2> QED
    BY <2>2, <2>3, FileAllowed
<1>3. ASSUME NEW f \in Promised PROVE Device'[f] = Device[f] \/ Device[f] = NoFile
  <2>1. CASE Writing(f)
    BY <2>1 DEF Device, View
  <2>2. CASE ~Writing(f)
    <3>1. ~Writing(f)'
      BY <1>1 DEF Writing
    <3>2. View(f)' = View(f)
      BY <3>1, <2>2, <1>1 DEF View
    <3> QED
      BY <3>2 DEF Device
  <2> QED
    BY <2>1, <2>2
<1> QED
  BY <1>1, <1>2, <1>3, MapCrash

LEMMA TransferStart == Init => Transfer!TransferInit
<1> SUFFICES ASSUME Init PROVE Transfer!TransferInit
  OBVIOUS
<1>1. TruthInv
  BY TruthInit
<1>2. cmd = None /\ result = "none" /\ deaths = 0 /\ sopen = {}
  BY DEF Init
<1>3. Wanted = {}
  BY <1>2, Constants DEF Wanted
<1>4. ASSUME NEW f \in Promised PROVE View(f) \in MayBe(f)
  <2>1. FileOf(f)
    BY <1>1 DEF TruthInv, FactsInv, FilesInv, Promised
  <2>2. View(f) = [data |-> remote[f].data, time |-> remote[f].time]
    BY <1>2 DEF View, Writing
  <2> QED
    BY <2>1, <2>2, FileAllowed
<1>5. Device \in Transfer!Directories
  <2> DEFINE C == [f \in Promised |-> MayBe(f)]
  <2>1. Device \in [Promised -> UNION {C[f] : f \in Promised}]
        /\ \A f \in Promised : Device[f] \in C[f]
    BY <1>4 DEF Device
  <2> QED
    BY <2>1 DEF Transfer!Directories
<1> QED
  BY <1>2, <1>3, <1>5 DEF Transfer!TransferInit, Device, View, Wanted

LEMMA StepMaps ==
    ASSUME ExchangeInv, TruthInv, [Next]_vars
    PROVE  Transfer!TransferNext \/ UNCHANGED Transfer!tvars
<1>1. ASSUME NEW c \in Commands, Start(c) PROVE Transfer!TransferNext
  BY <1>1, StartMaps
<1>2. CASE Client
  BY <1>2, ClientMaps
<1>3. CASE PowerLoss
  BY <1>3, PowerLossMaps DEF TruthInv, FactsInv
<1>4. ASSUME NEW s \in Sessions, Service(s)
      PROVE  Transfer!TransferNext \/ UNCHANGED Transfer!tvars
  <2>1. CASE s = sess
    BY <1>4, <2>1, ServiceMaps DEF TruthInv, FactsInv
  <2>2. CASE s # sess
    <3>1. UNCHANGED <<cmd, flist, result, deaths, remote, sopen, sfile>>
      BY <1>4, <2>2, OldService DEF TruthInv
    <3> QED
      BY <3>1, DeviceSame, MapStutter DEF CommandSame
  <2> QED
    BY <2>1, <2>2
<1>5. ASSUME NEW s \in Sessions, Break(s) PROVE UNCHANGED Transfer!tvars
  <2>1. UNCHANGED <<cmd, flist, result, deaths, remote, sopen, sfile>>
    BY <1>5 DEF Break, client, service
  <2> QED
    BY <2>1, DeviceSame, MapStutter DEF CommandSame
<1>6. CASE UNCHANGED vars
  <2>1. UNCHANGED <<cmd, flist, result, deaths, remote, sopen, sfile>>
    BY <1>6 DEF vars, client, service
  <2> QED
    BY <2>1, DeviceSame, MapStutter DEF CommandSame
<1> QED
  BY <1>1, <1>2, <1>3, <1>4, <1>5, <1>6 DEF Next

\* Push and sync implement FileTransfer for the files that the client can read to their end
\* and the device can unlink: unless the device dies such a file is what it was, absent or
\* whole, and a command that succeeds has stored all of them as a whole (handle_send_file
\* unlinks a file it could not finish, sync_send waits for its status before the next file).
\* Nothing is promised of a file whose reading fails in write_data_file.
THEOREM ImplementsTransfer == ASSUME ~Overlap PROVE Spec => TransferSpec
<1>1. Init => Transfer!TransferInit
  BY TransferStart
<1>2. ExchangeInv /\ TruthInv /\ [Next]_vars => [Transfer!TransferNext]_(Transfer!tvars)
  BY StepMaps
<1> QED
  BY <1>1, <1>2, FilesTrue, PTL DEF Spec, TransferSpec, Transfer!TransferSpec
=============================================================================
