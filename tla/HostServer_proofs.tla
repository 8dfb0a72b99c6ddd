-------------------------- MODULE HostServer_proofs --------------------------
(***************************************************************************)
(* Proofs about HostServer, for any number of transports, listeners,       *)
(* trackers and waiting services, and for any serial numbers.              *)
(***************************************************************************)
EXTENDS HostServer, Lists_proofs

-----------------------------------------------------------------------------
(* The inductive invariant *)

\* transport_list has running transports, each once.
ListInv == IsInjective(tlist) /\ \A t \in Listed : life[t] = "running"

\* The registration pipe has each message once: a registration for a transport that has
\* not started, a removal for one whose references are gone.
PipeInv ==
    /\ IsInjective(regq)
    /\ \A t \in Transports :
         /\ <<t, 1>> \in ToSet(regq) => life[t] = "registering"
         /\ <<t, 0>> \in ToSet(regq) => life[t] = "running" /\ ref[t] = 0
         /\ life[t] # "running" => ref[t] = 0

\* output_thread posts SYNC(0) after the link is dead.
SyncInv == \A t \in Transports : sync0[t] = "sent" => ~up[t]

\* What a forward may lead to: a transport that runs and is on line, or, when the list
\* is damaged, one that did so once.
Reached(t) == life[t] \in {"running", "freed"}
OnLine(t) == life[t] = "running" /\ conn[t] # "offline"

\* The smart socket's listener is never touched; any other leads to a transport.
ListenInv ==
    /\ lis[SmartName] = [to |-> Star, trans |-> None]
    /\ \A n \in Names \ {SmartName} :
         \/ lis[n] = NoListener
         \/ /\ lis[n].to \in Dests /\ lis[n].trans \in Transports
            /\ Reached(lis[n].trans) /\ (~damaged => OnLine(lis[n].trans))

\* The disconnect list of a running transport has its listeners, each once.
DiscInv ==
    /\ \A t \in Transports : life[t] = "running" =>
         ToSet(disc[t]) = {n \in Names : lis[n].trans = t} /\ IsInjective(disc[t])
    /\ bound = Used

IInv == /\ TypeOK /\ ListInv /\ PipeInv /\ SyncInv /\ ListenInv /\ DiscInv
        /\ TrackersCurrent

\* The part about the transports, which is inductive by itself.
DevInv == DevicesType /\ ListInv /\ PipeInv /\ SyncInv
-----------------------------------------------------------------------------
(* The transports *)

LEMMA DevicesInitInv == DevicesInit => DevInv
<1> SUFFICES ASSUME DevicesInit PROVE DevInv
  OBVIOUS
<1> USE DEF DevicesInit
<1>1. /\ tlist \in Seq(Transports) /\ ToSet(tlist) = {} /\ IsInjective(tlist)
      /\ regq \in Seq(Transports \X {0, 1}) /\ ToSet(regq) = {} /\ IsInjective(regq)
  <2>1. << >> \in Seq(Transports) /\ << >> \in Seq(Transports \X {0, 1})
    BY EmptySeq
  <2>2. ToSet(<< >>) = {}
    BY DEF ToSet
  <2>3. IsInjective(<< >>)
    BY DEF IsInjective
  <2> QED
    BY <2>1, <2>2, <2>3
<1>2. up \in [Transports -> BOOLEAN]
  BY Zenon
<1>3. links \in [Transports -> (Transports \cup {None}) \X (Transports \cup {None})]
  OBVIOUS
<1>4. DevicesType
  <2>1. cnxns \in [Transports -> 0..MaxCnxn] /\ ref \in [Transports -> Nat]
    BY DevicesAssumption
  <2>2. conn \in [Transports -> States] /\ sync0 \in [Transports -> {"no", "sent", "handled"}]
    BY DEF States
  <2> HIDE DEF DevicesInit
  <2>3. /\ life \in [Transports -> {"none", "registering", "running", "freed"}]
        /\ threads \in [Transports -> SUBSET {"out", "in"}] /\ damaged \in BOOLEAN
    BY DEF DevicesInit
  <2> QED
    BY <1>1, <1>2, <1>3, <2>1, <2>2, <2>3 DEF DevicesType
<1> QED
  BY <1>1, <1>4 DEF DevInv, ListInv, PipeInv, SyncInv, Listed

\* The empty list.
LEMMA NoNodes == /\ \A A : << >> \in Seq(A)
                 /\ IsInjective(<< >>) /\ ToSet(<< >>) = {}
<1>1. \A A : << >> \in Seq(A)
  BY EmptySeq
<1>2. ToSet(<< >>) = {}
  BY DEF ToSet
<1>3. IsInjective(<< >>)
  BY DEF IsInjective
<1> QED
  BY <1>1, <1>2, <1>3

\* What transport_unref_locked writes to the registration pipe.
LEMMA Posted ==
    ASSUME NEW A, NEW B, NEW s \in Seq(A), NEW q \in Seq(B), Len(q) = Len(s),
           \A i \in 1..Len(s) : q[i] = <<s[i], 0>>
    PROVE  /\ \A p : p \in ToSet(q) <=> \E x \in ToSet(s) : p = <<x, 0>>
           /\ IsInjective(s) => IsInjective(q)
<1>1. ASSUME NEW p PROVE p \in ToSet(q) <=> \E x \in ToSet(s) : p = <<x, 0>>
  <2>1. p \in ToSet(q) <=> \E i \in 1..Len(s) : q[i] = p
    BY InList
  <2>2. \A x : x \in ToSet(s) <=> \E i \in 1..Len(s) : s[i] = x
    BY InList
  <2> QED
    BY <2>1, <2>2
<1>2. ASSUME IsInjective(s) PROVE IsInjective(q)
  <2>1. \A i, j \in 1..Len(s) : s[i] = s[j] => i = j
    BY <1>2, InjectiveList
  <2>2. \A i, j \in 1..Len(q) : q[i] = q[j] => i = j
    BY <2>1
  <2> QED
    BY <2>2, InjectiveList
<1> QED
  BY <1>1, <1>2

\* transport_unref_locked: a removal is posted with the last reference, and only then.
LEMMA UnrefFacts ==
    ASSUME DevInv, NEW ts \in Seq(Transports), IsInjective(ts),
           Unref(ts), life' = life
    PROVE  /\ PipeInv' /\ ref' \in [Transports -> Nat] /\ regq' \in Seq(Transports \X {0, 1})
<1> DEFINE last == Keep(ts, {t \in Transports : ref[t] = 1})
           post == [i \in 1..Len(last) |-> <<last[i], 0>>]
<1>1. /\ ref' = [t \in Transports |-> IF t \in ToSet(ts) /\ ref[t] > 0 THEN ref[t] - 1 ELSE ref[t]]
      /\ regq' = regq \o post
  BY DEF Unref
<1>2. /\ ref \in [Transports -> Nat] /\ regq \in Seq(Transports \X {0, 1}) /\ PipeInv
  BY DEF DevInv, DevicesType
<1>3. ref' \in [Transports -> Nat]
  BY <1>1, <1>2
<1>4. /\ last \in Seq(Transports) /\ IsInjective(last)
      /\ ToSet(last) = ToSet(ts) \cap {t \in Transports : ref[t] = 1}
  BY KeepFacts
<1> HIDE DEF last
<1>5. /\ post \in Seq(Transports \X {0, 1}) /\ IsInjective(post)
      /\ \A p : p \in ToSet(post) <=> \E x \in ToSet(last) : p = <<x, 0>>
  <2> DEFINE B == Transports \X {0, 1}
  <2>1. Len(last) \in Nat /\ \A i \in 1..Len(last) : last[i] \in Transports
    BY <1>4, LenProperties, ElementOfSeq
  <2>2. post \in Seq(B) /\ Len(post) = Len(last) /\ \A i \in 1..Len(last) : post[i] = <<last[i], 0>>
    BY <2>1
  <2> HIDE DEF B, post
  <2>3. /\ \A p : p \in ToSet(post) <=> \E x \in ToSet(last) : p = <<x, 0>>
        /\ IsInjective(post)
    BY <1>4, <2>2, Posted
  <2> QED
    BY <2>2, <2>3 DEF B
<1> HIDE DEF post
<1>6. ToSet(regq) \cap ToSet(post) = {}
  <2> SUFFICES ASSUME NEW p \in ToSet(regq), p \in ToSet(post) PROVE FALSE
    OBVIOUS
  <2>1. PICK x \in ToSet(last) : p = <<x, 0>>
    BY <1>5
  <2>2. x \in Transports /\ ref[x] = 1
    BY <1>4, <2>1
  <2>3. ref[x] = 0
    BY <1>2, <2>1, <2>2 DEF PipeInv
  <2> QED
    BY <2>2, <2>3
<1>7. /\ regq' \in Seq(Transports \X {0, 1}) /\ IsInjective(regq')
      /\ ToSet(regq') = ToSet(regq) \cup ToSet(post)
  BY <1>1, <1>2, <1>5, <1>6, ConcatFacts DEF PipeInv
<1>8. ASSUME NEW t \in Transports
      PROVE  /\ <<t, 1>> \in ToSet(regq') => life[t] = "registering"
             /\ <<t, 0>> \in ToSet(regq') => life[t] = "running" /\ ref'[t] = 0
             /\ life[t] # "running" => ref'[t] = 0
  <2>1. <<t, 1>> \notin ToSet(post)
    BY <1>5
  <2>2. <<t, 0>> \in ToSet(post) => t \in ToSet(last)
    BY <1>5
  <2>3. t \in ToSet(last) => life[t] = "running" /\ ref'[t] = 0
    <3>1. life[t] # "running" => ref[t] = 0
      BY <1>2 DEF PipeInv
    <3> QED
      BY <1>1, <1>2, <1>4, <3>1
  <2>4. ref[t] = 0 => ref'[t] = 0
    BY <1>1
  <2> QED
    BY <1>2, <1>7, <2>1, <2>2, <2>3, <2>4 DEF PipeInv
<1> QED
  BY <1>3, <1>7, <1>8 DEF PipeInv

\* A list of one.
LEMMA One == ASSUME NEW A, NEW a \in A
             PROVE  <<a>> \in Seq(A) /\ IsInjective(<<a>>) /\ ToSet(<<a>>) = {a}
<1> DEFINE r == <<a>>
<1>1. r \in Seq(A) /\ Len(r) = 1 /\ r[1] = a
  OBVIOUS
<1> HIDE DEF r
<1>2. \A x : x \in ToSet(r) <=> x = a
  BY <1>1, InList
<1>3. IsInjective(r)
  BY <1>1, InjectiveList
<1> QED
  BY <1>1, <1>2, <1>3 DEF r

\* register_transport.
LEMMA RegisterDev == ASSUME DevInv, NEW t \in Transports, RegisterTransport(t) PROVE DevInv'
<1>1. /\ life[t] = "none" /\ life' = [life EXCEPT ![t] = "registering"]
      /\ regq' = Append(regq, <<t, 1>>)
      /\ UNCHANGED <<tlist, links, damaged, conn, up, sync0, threads, ref, cnxns>>
  BY DEF RegisterTransport
<1>2. /\ life \in [Transports -> {"none", "registering", "running", "freed"}]
      /\ regq \in Seq(Transports \X {0, 1}) /\ PipeInv /\ tlist \in Seq(Transports)
  BY DEF DevInv, DevicesType
<1>3. /\ regq' \in Seq(Transports \X {0, 1}) /\ ToSet(regq') = ToSet(regq) \cup {<<t, 1>>}
      /\ IsInjective(regq')
  <2> DEFINE m == <<t, 1>>
             B == Transports \X {0, 1}
  <2>1. m \in B /\ m \notin ToSet(regq) /\ IsInjective(regq) /\ regq \in Seq(B)
    BY <1>1, <1>2 DEF PipeInv
  <2>2. regq' = Append(regq, m)
    BY <1>1
  <2> HIDE DEF m, B
  <2>3. regq' \in Seq(B) /\ ToSet(regq') = ToSet(regq) \cup {m} /\ IsInjective(regq')
    BY <2>1, <2>2, Appended
  <2> QED
    BY <2>3 DEF m, B
<1>4. PipeInv'
  <2>1. ASSUME NEW u \in Transports
        PROVE  /\ <<u, 1>> \in ToSet(regq') => life'[u] = "registering"
               /\ <<u, 0>> \in ToSet(regq') => life'[u] = "running" /\ ref[u] = 0
               /\ life'[u] # "running" => ref[u] = 0
    <3>1. /\ <<u, 0>> # <<t, 1>> /\ (<<u, 1>> = <<t, 1>> => u = t)
      OBVIOUS
    <3>2. /\ <<u, 1>> \in ToSet(regq) => life[u] = "registering"
          /\ <<u, 0>> \in ToSet(regq) => life[u] = "running" /\ ref[u] = 0
          /\ life[u] # "running" => ref[u] = 0
      BY <1>2 DEF PipeInv
    <3>3. life'[u] = IF u = t THEN "registering" ELSE life[u]
      BY <1>1, <1>2
    <3> QED
      BY <1>1, <1>3, <3>1, <3>2, <3>3
  <2> QED
    BY <1>1, <1>3, <2>1 DEF PipeInv
<1>5. ListInv'
  <2>1. Listed \subseteq Transports
    BY <1>2, InList DEF Listed
  <2> QED
    BY <1>1, <1>2, <2>1 DEF DevInv, ListInv, Listed
<1>6. DevicesType'
  BY <1>1, <1>2, <1>3 DEF DevInv, DevicesType
<1> QED
  BY <1>1, <1>4, <1>5, <1>6 DEF DevInv, SyncInv

\* transport_registration_func takes a message, which is not there a second time.
LEMMA TakeMessage ==
    ASSUME DevInv, NEW m, regq # << >>, Head(regq) = m, regq' = Tail(regq)
    PROVE  /\ m \in ToSet(regq) /\ regq' \in Seq(Transports \X {0, 1}) /\ IsInjective(regq')
           /\ ToSet(regq') = ToSet(regq) \ {m}
<1>1. regq \in Seq(Transports \X {0, 1}) /\ IsInjective(regq)
  BY DEF DevInv, DevicesType, PipeInv
<1> QED
  BY <1>1, TailFacts

LEMMA StartDev == ASSUME DevInv, NEW t \in Transports, StartTransport(t)
                  PROVE  DevInv' /\ life[t] = "registering"
<1>1. /\ regq # << >> /\ Head(regq) = <<t, 1>> /\ regq' = Tail(regq)
      /\ life' = [life EXCEPT ![t] = "running"]
      /\ tlist' = IF damaged THEN tlist ELSE Append(tlist, t)
      /\ threads' = [threads EXCEPT ![t] = {"out", "in"}] /\ ref' = [ref EXCEPT ![t] = 2]
      /\ UNCHANGED <<links, damaged, conn, up, sync0, cnxns>>
  BY DEF StartTransport
<1>2. /\ life \in [Transports -> {"none", "registering", "running", "freed"}]
      /\ threads \in [Transports -> SUBSET {"out", "in"}] /\ ref \in [Transports -> Nat]
      /\ PipeInv /\ ListInv /\ tlist \in Seq(Transports)
  BY DEF DevInv, DevicesType
<1>3. /\ <<t, 1>> \in ToSet(regq) /\ regq' \in Seq(Transports \X {0, 1}) /\ IsInjective(regq')
      /\ ToSet(regq') = ToSet(regq) \ {<<t, 1>>}
  BY <1>1, TakeMessage
<1>4. life[t] = "registering" /\ <<t, 0>> \notin ToSet(regq)
  BY <1>2, <1>3 DEF PipeInv
<1>5. PipeInv'
  BY <1>1, <1>2, <1>3, <1>4 DEF PipeInv
<1>6. /\ tlist' \in Seq(Transports) /\ IsInjective(tlist')
      /\ ToSet(tlist') \subseteq ToSet(tlist) \cup {t}
  <2>1. t \notin ToSet(tlist)
    BY <1>2, <1>4 DEF ListInv, Listed
  <2>2. CASE damaged
    BY <1>1, <1>2, <2>2 DEF ListInv
  <2>3. CASE ~damaged
    BY <1>1, <1>2, <2>1, <2>3, Appended DEF ListInv
  <2> QED
    BY <2>2, <2>3
<1>7. ListInv'
  <2>1. Listed \subseteq Transports
    BY <1>2, InList DEF Listed
  <2> QED
    BY <1>1, <1>2, <1>6, <2>1 DEF ListInv, Listed
<1>8. DevicesType'
  BY <1>1, <1>2, <1>3, <1>6 DEF DevInv, DevicesType
<1> QED
  BY <1>1, <1>4, <1>5, <1>7, <1>8 DEF DevInv, SyncInv

LEMMA FreeDev == ASSUME DevInv, NEW t \in Transports, FreeTransport(t)
                 PROVE  DevInv' /\ life[t] = "running" /\ (damaged => damaged')
<1>1. /\ regq # << >> /\ Head(regq) = <<t, 0>> /\ regq' = Tail(regq)
      /\ life' = [life EXCEPT ![t] = "freed"]
      /\ damaged' = (damaged \/ (t \notin Listed /\ ~Adjacent(tlist, links[t])))
      /\ tlist' = IF damaged' THEN << >> ELSE Without(tlist, t)
      /\ links' = [links EXCEPT ![t] = <<None, None>>]
      /\ conn' = [conn EXCEPT ![t] = "offline"] /\ cnxns' = [cnxns EXCEPT ![t] = 0]
      /\ sync0' = [sync0 EXCEPT ![t] = "no"] /\ threads' = [threads EXCEPT ![t] = {}]
      /\ UNCHANGED <<up, ref>>
  BY DEF FreeTransport
<1>2. /\ life \in [Transports -> {"none", "registering", "running", "freed"}]
      /\ threads \in [Transports -> SUBSET {"out", "in"}] /\ cnxns \in [Transports -> 0..MaxCnxn]
      /\ conn \in [Transports -> States] /\ sync0 \in [Transports -> {"no", "sent", "handled"}]
      /\ links \in [Transports -> (Transports \cup {None}) \X (Transports \cup {None})]
      /\ PipeInv /\ ListInv /\ tlist \in Seq(Transports)
  BY DEF DevInv, DevicesType
<1>3. /\ <<t, 0>> \in ToSet(regq) /\ regq' \in Seq(Transports \X {0, 1}) /\ IsInjective(regq')
      /\ ToSet(regq') = ToSet(regq) \ {<<t, 0>>}
  BY <1>1, TakeMessage
<1>4. life[t] = "running" /\ <<t, 1>> \notin ToSet(regq)
  BY <1>2, <1>3 DEF PipeInv
<1>5. PipeInv'
  BY <1>1, <1>2, <1>3, <1>4 DEF PipeInv
<1>6. /\ tlist' \in Seq(Transports) /\ IsInjective(tlist')
      /\ ToSet(tlist') \subseteq ToSet(tlist) \ {t}
  <2>1. /\ Without(tlist, t) \in Seq(Transports) /\ IsInjective(Without(tlist, t))
        /\ ToSet(Without(tlist, t)) = ToSet(tlist) \ {t}
    BY <1>2, WithoutFacts DEF ListInv
  <2>2. /\ << >> \in Seq(Transports) /\ IsInjective(<< >>) /\ ToSet(<< >>) = {}
    BY NoNodes
  <2> QED
    BY <1>1, <2>1, <2>2
<1>7. ListInv'
  <2>1. Listed \subseteq Transports
    BY <1>2, InList DEF Listed
  <2> QED
    BY <1>1, <1>2, <1>6, <2>1 DEF ListInv, Listed
<1>8. conn' \in [Transports -> States] /\ cnxns' \in [Transports -> 0..MaxCnxn]
  <2>1. "offline" \in States /\ 0 \in 0..MaxCnxn
    BY DevicesAssumption DEF States
  <2> QED
    BY <1>1, <1>2, <2>1
<1>9. damaged' \in BOOLEAN /\ links' \in [Transports -> (Transports \cup {None}) \X (Transports \cup {None})]
  <2>1. links' \in [Transports -> (Transports \cup {None}) \X (Transports \cup {None})]
    BY <1>1, <1>2
  <2>2. damaged' \in BOOLEAN
    BY <1>1, Zenon
  <2> QED
    BY <2>1, <2>2
<1>10. DevicesType'
  <2>1. up' \in [Transports -> BOOLEAN] /\ ref' \in [Transports -> Nat]
    BY <1>1 DEF DevInv, DevicesType
  <2>2. /\ life' \in [Transports -> {"none", "registering", "running", "freed"}]
        /\ threads' \in [Transports -> SUBSET {"out", "in"}]
        /\ sync0' \in [Transports -> {"no", "sent", "handled"}]
    BY <1>1, <1>2
  <2> QED
    BY <1>3, <1>6, <1>8, <1>9, <2>1, <2>2 DEF DevicesType, States, Known
<1>11. SyncInv'
  BY <1>1, <1>2 DEF DevInv, SyncInv
<1>12. damaged => damaged'
  BY <1>1
<1> QED
  BY <1>4, <1>5, <1>7, <1>10, <1>11, <1>12 DEF DevInv

\* The steps that change neither the list nor the pipe.
LEMMA QuietDev ==
    ASSUME DevInv, DevicesType', SyncInv', UNCHANGED <<life, tlist, ref, regq>>
    PROVE  DevInv'
  BY DEF DevInv, ListInv, PipeInv, Listed

LEMMA UnplugDev == ASSUME DevInv, NEW t \in Transports, Unplug(t) PROVE DevInv'
<1>1. up' = [up EXCEPT ![t] = FALSE]
      /\ UNCHANGED <<life, tlist, links, damaged, conn, sync0, threads, ref, regq, cnxns>>
  BY DEF Unplug
<1>2. DevicesType'
  BY <1>1 DEF DevInv, DevicesType
<1>3. SyncInv'
  BY <1>1 DEF DevInv, DevicesType, SyncInv
<1> QED
  BY <1>1, <1>2, <1>3, QuietDev

LEMMA PostSync0Dev == ASSUME DevInv, NEW t \in Transports, PostSync0(t) PROVE DevInv'
<1>1. /\ ~up[t] /\ sync0' = [sync0 EXCEPT ![t] = "sent"]
      /\ UNCHANGED <<life, tlist, links, damaged, conn, up, threads, ref, regq, cnxns>>
  BY DEF PostSync0
<1>2. DevicesType'
  BY <1>1 DEF DevInv, DevicesType
<1>3. SyncInv'
  BY <1>1 DEF DevInv, DevicesType, SyncInv
<1> QED
  BY <1>1, <1>2, <1>3, QuietDev

LEMMA TakeSync0Dev == ASSUME DevInv, NEW t \in Transports, TakeSync0(t) PROVE DevInv'
<1>1. /\ sync0' = [sync0 EXCEPT ![t] = "handled"] /\ conn' = [conn EXCEPT ![t] = "offline"]
      /\ UNCHANGED <<life, tlist, links, damaged, up, threads, ref, regq, cnxns>>
  BY DEF TakeSync0
<1>2. DevicesType'
  <2>1. "offline" \in States
    BY DEF States
  <2> QED
    BY <1>1, <2>1 DEF DevInv, DevicesType
<1>3. SyncInv'
  BY <1>1 DEF DevInv, DevicesType, SyncInv
<1> QED
  BY <1>1, <1>2, <1>3, QuietDev

LEMMA TakeCnxnDev == ASSUME DevInv, NEW t \in Transports, NEW b, TakeCnxn(t, b)
                     PROVE  DevInv' /\ conn'[t] # "offline"
<1>1. /\ cnxns[t] < MaxCnxn /\ cnxns' = [cnxns EXCEPT ![t] = @ + 1]
      /\ conn' = [conn EXCEPT ![t] = IF b \in Known THEN b ELSE "host"]
      /\ UNCHANGED <<life, tlist, links, damaged, up, sync0, threads, ref, regq>>
  BY DEF TakeCnxn
<1>2. conn \in [Transports -> States] /\ cnxns \in [Transports -> 0..MaxCnxn]
  BY DEF DevInv, DevicesType
<1>3. (IF b \in Known THEN b ELSE "host") \in States \ {"offline"}
  BY DEF States, Known
<1>4. conn' \in [Transports -> States] /\ conn'[t] # "offline"
  BY <1>1, <1>2, <1>3
<1>5. cnxns' \in [Transports -> 0..MaxCnxn]
  <2>1. cnxns[t] + 1 \in 0..MaxCnxn
    BY <1>1, <1>2, DevicesAssumption
  <2> QED
    BY <1>1, <1>2, <2>1
<1>6. DevicesType'
  BY <1>1, <1>4, <1>5 DEF DevInv, DevicesType
<1>7. SyncInv'
  BY <1>1 DEF DevInv, SyncInv
<1> QED
  BY <1>1, <1>4, <1>6, <1>7, QuietDev

LEMMA ThreadExitDev == ASSUME DevInv, NEW t \in Transports, ThreadExit(t) PROVE DevInv'
<1>1. PICK h \in threads[t] : threads' = [threads EXCEPT ![t] = @ \ {h}]
  BY DEF ThreadExit
<1>2. life[t] = "running" /\ Unref(<<t>>) /\ UNCHANGED <<life, tlist, links, damaged, conn, up, sync0, cnxns>>
  BY DEF ThreadExit, Running
<1>3. PipeInv' /\ ref' \in [Transports -> Nat] /\ regq' \in Seq(Transports \X {0, 1})
  <2> DEFINE ts == <<t>>
  <2>1. ts \in Seq(Transports) /\ IsInjective(ts) /\ ToSet(ts) = {t} /\ Unref(ts)
    BY <1>2, One
  <2> HIDE DEF ts
  <2> QED
    BY <1>2, <2>1, UnrefFacts
<1>4. DevicesType'
  BY <1>1, <1>2, <1>3 DEF DevInv, DevicesType
<1> QED
  BY <1>2, <1>3, <1>4 DEF DevInv, ListInv, SyncInv, Listed

\* The neighbours of a node are nodes or the head.
LEMMA NeighboursType ==
    ASSUME NEW A, NEW list \in Seq(A), NEW t \in ToSet(list)
    PROVE  Neighbours(list, t) \in (A \cup {None}) \X (A \cup {None})
<1> DEFINE B == A \cup {None}
           i == CHOOSE i \in 1..Len(list) : list[i] = t
           ring == Ring(list)
<1>1. Len(list) \in Nat /\ list \in Seq(B) /\ <<None>> \in Seq(B) /\ Len(<<None>>) = 1
  <2>1. None \in B /\ Len(list) \in Nat
    BY LenProperties
  <2>2. list \in Seq(B)
    OBVIOUS
  <2> HIDE DEF B
  <2> QED
    BY <2>1, <2>2
<1>2. \E j \in 1..Len(list) : list[j] = t
  BY InList
<1>3. i \in 1..Len(list)
  BY <1>2
<1> HIDE DEF B, i
<1>4. ring \in Seq(B) /\ Len(ring) = Len(list) + 2
  <2>1. <<None>> \o list \in Seq(B) /\ Len(<<None>> \o list) = 1 + Len(list)
    BY <1>1, ConcatProperties
  <2> QED
    BY <1>1, <2>1, ConcatProperties DEF Ring
<1> HIDE DEF ring
<1>5. i \in 1..Len(ring) /\ i + 2 \in 1..Len(ring)
  BY <1>1, <1>3, <1>4
<1>6. ring[i] \in B /\ ring[i + 2] \in B
  BY <1>4, <1>5, ElementOfSeq
<1> QED
  BY <1>6 DEF B, i, ring, Neighbours

\* unregister_transport and unregister_all_tcp_transports.
LEMMA UnregisterDev ==
    ASSUME DevInv, NEW ts \in Seq(Transports), IsInjective(ts), Unregister(ts)
    PROVE  DevInv' /\ Listed' = Listed \ ToSet(ts)
<1>1. /\ tlist' = Keep(tlist, Transports \ ToSet(ts))
      /\ links' = [t \in Transports |->
                     IF t \in Listed \cap ToSet(ts)
                       THEN Neighbours(ListAt(ts, CHOOSE i \in 1..Len(ts) : ts[i] = t), t)
                       ELSE links[t]]
      /\ up' = [t \in Transports |-> up[t] /\ t \notin ToSet(ts)]
      /\ Unref(ts) /\ UNCHANGED <<life, damaged, conn, sync0, threads, cnxns>>
  BY DEF Unregister
<1>2. tlist \in Seq(Transports) /\ ListInv /\ SyncInv
  BY DEF DevInv, DevicesType
<1>3. PipeInv' /\ ref' \in [Transports -> Nat] /\ regq' \in Seq(Transports \X {0, 1})
  BY <1>1, UnrefFacts
<1>4. /\ tlist' \in Seq(Transports) /\ IsInjective(tlist')
      /\ ToSet(tlist') = ToSet(tlist) \cap (Transports \ ToSet(ts))
  BY <1>1, <1>2, KeepFacts DEF ListInv
<1>5. ToSet(tlist) \subseteq Transports
  BY <1>2, InList
<1>6. Listed' = Listed \ ToSet(ts)
  BY <1>4, <1>5 DEF Listed
<1>7. ListInv'
  BY <1>1, <1>2, <1>4, <1>6 DEF ListInv
<1>8. up' \in [Transports -> BOOLEAN]
  BY <1>1, Zenon
<1>9. links' \in [Transports -> (Transports \cup {None}) \X (Transports \cup {None})]
  <2> DEFINE at(t) == CHOOSE i \in 1..Len(ts) : ts[i] = t
  <2>1. ASSUME NEW t \in Transports, t \in Listed \cap ToSet(ts)
        PROVE  /\ ListAt(ts, at(t)) \in Seq(Transports) /\ t \in ToSet(ListAt(ts, at(t)))
    <3>1. Len(ts) \in Nat /\ \E i \in 1..Len(ts) : ts[i] = t
      BY <2>1, InList, LenProperties
    <3>2. at(t) \in 1..Len(ts) /\ ts[at(t)] = t
      BY <3>1
    <3>3. \A i, j \in 1..Len(ts) : ts[i] = ts[j] => i = j
      BY InjectiveList
    <3>4. t \notin {ts[j] : j \in 1..(at(t) - 1)}
      <4> HIDE DEF at
      <4> QED
        BY <3>1, <3>2, <3>3
    <3>5. /\ Keep(tlist, Transports \ {ts[j] : j \in 1..(at(t) - 1)}) \in Seq(Transports)
          /\ t \in ToSet(Keep(tlist, Transports \ {ts[j] : j \in 1..(at(t) - 1)}))
      BY <1>2, <2>1, <3>4, KeepFacts DEF Listed
    <3> QED
      BY <3>5 DEF ListAt
  <2>2. ASSUME NEW t \in Transports, t \in Listed \cap ToSet(ts)
        PROVE  Neighbours(ListAt(ts, at(t)), t) \in (Transports \cup {None}) \X (Transports \cup {None})
    BY <2>1, <2>2, NeighboursType
  <2>3. links \in [Transports -> (Transports \cup {None}) \X (Transports \cup {None})]
    BY DEF DevInv, DevicesType
  <2> QED
    BY <1>1, <2>2, <2>3, Zenon
<1>10. DevicesType'
  BY <1>1, <1>3, <1>4, <1>8, <1>9 DEF DevInv, DevicesType
<1>11. SyncInv'
  BY <1>1, <1>2 DEF SyncInv
<1> QED
  BY <1>3, <1>6, <1>7, <1>10, <1>11 DEF DevInv

-----------------------------------------------------------------------------
(* The listeners *)

LisInv == ListenersType /\ ListenInv /\ DiscInv

LEMMA ListenersInitInv == DevicesInit /\ ListenersInit => LisInv
<1> SUFFICES ASSUME DevicesInit, ListenersInit PROVE LisInv
  OBVIOUS
<1> USE ListenersAssumption, DevicesAssumption DEF ListenersInit, NoListener
<1>1. ListenersType
  BY EmptySeq DEF ListenersType
<1>2. ListenInv
  BY DEF ListenInv
<1>3. DiscInv
  <2>1. \A t \in Transports : life[t] # "running"
    BY DEF DevicesInit
  <2>2. bound = Used
    BY DEF Used
  <2> QED
    BY <2>1, <2>2 DEF DiscInv
<1> QED
  BY <1>1, <1>2, <1>3 DEF LisInv

\* The listeners that lead to t.
Of(t) == {n \in Names : lis[n].trans = t}

LEMMA OfNotSmart == ASSUME LisInv, NEW t \in Transports PROVE Of(t) \subseteq Names \ {SmartName}
  BY DevicesAssumption DEF LisInv, ListenInv, Of

\* Nothing happens to the listeners, and none of their transports stops or goes off line.
LEMMA SameLis ==
    ASSUME LisInv, UNCHANGED listeners, UNCHANGED damaged,
           \A t \in Transports : life'[t] = "running" => life[t] = "running",
           \A t \in Transports : Reached(t) => life'[t] = life[t],
           \A t \in Transports : life[t] = "running" /\ conn[t] # "offline" => conn'[t] # "offline"
    PROVE  LisInv'
<1>1. lis' = lis /\ disc' = disc /\ bound' = bound
  BY DEF listeners
<1>2. ListenersType'
  BY <1>1 DEF LisInv, ListenersType
<1>3. ListenInv'
  BY <1>1 DEF LisInv, ListenInv, NoListener, Reached, OnLine
<1>4. DiscInv'
  BY <1>1 DEF LisInv, DiscInv, Used, NoListener, Reached
<1> QED
  BY <1>2, <1>3, <1>4 DEF LisInv

\* free_listener for some listeners, none of them the smart socket's.
LEMMA FreeListenersFacts ==
    ASSUME LisInv, NEW ns \in SUBSET (Names \ {SmartName}), FreeListeners(ns)
    PROVE  /\ ListenersType' /\ bound' = Used'
           /\ \A n \in Names : lis'[n] = IF n \in ns THEN NoListener ELSE lis[n]
           /\ \A t \in Transports : life[t] = "running" =>
                /\ ToSet(disc'[t]) = {n \in Names : lis'[n].trans = t} /\ IsInjective(disc'[t])
<1>1. /\ lis' = [n \in Names |-> IF n \in ns THEN NoListener ELSE lis[n]]
      /\ disc' = [t \in Transports |-> Keep(disc[t], {n \in Names : n \notin ns \/ lis[n].trans # t})]
      /\ bound' = bound \ ns
  BY DEF FreeListeners
<1>2. /\ lis \in [Names -> [to : Dests \cup {Star, None}, trans : Transports \cup {None}]]
      /\ disc \in [Transports -> Seq(Names)] /\ bound \subseteq Names /\ bound = Used
  BY DEF LisInv, ListenersType, DiscInv
<1>3. /\ NoListener \in [to : Dests \cup {Star, None}, trans : Transports \cup {None}]
      /\ NoListener.trans = None
  BY DEF NoListener
<1>4. lis' \in [Names -> [to : Dests \cup {Star, None}, trans : Transports \cup {None}]]
  BY <1>1, <1>2, <1>3
<1>5. ASSUME NEW t \in Transports
      PROVE  /\ disc'[t] \in Seq(Names) /\ (IsInjective(disc[t]) => IsInjective(disc'[t]))
             /\ ToSet(disc'[t]) = ToSet(disc[t]) \cap {n \in Names : n \notin ns \/ lis[n].trans # t}
  BY <1>1, <1>2, KeepFacts
<1>6. disc' \in [Transports -> Seq(Names)]
  BY <1>1, <1>5
<1>7. bound' = Used'
  BY <1>1, <1>2 DEF Used
<1>8. ASSUME NEW t \in Transports, life[t] = "running"
      PROVE  ToSet(disc'[t]) = {n \in Names : lis'[n].trans = t} /\ IsInjective(disc'[t])
  <2>1. ToSet(disc[t]) = {n \in Names : lis[n].trans = t} /\ IsInjective(disc[t])
    BY <1>8 DEF LisInv, DiscInv
  <2>2. ToSet(disc'[t]) = {n \in Names : n \notin ns /\ lis[n].trans = t}
    BY <1>5, <2>1
  <2>3. \A n \in Names : lis'[n].trans = t <=> n \notin ns /\ lis[n].trans = t
    BY <1>1, <1>3, DevicesAssumption
  <2> QED
    BY <1>5, <2>1, <2>2, <2>3
<1> QED
  BY <1>1, <1>2, <1>4, <1>6, <1>7, <1>8 DEF ListenersType

\* run_transport_disconnects for a transport that may go away or off line with this step.
LEMMA DisconnectsLis ==
    ASSUME LisInv, NEW t \in Transports, life[t] = "running", RunDisconnects(t),
           damaged => damaged',
           \A s \in Transports \ {t} : life'[s] = life[s] /\ conn'[s] = conn[s]
    PROVE  LisInv'
<1>1. ToSet(disc[t]) = Of(t)
  BY DEF LisInv, DiscInv, Of
<1>2. ToSet(disc[t]) \in SUBSET (Names \ {SmartName})
  BY <1>1, OfNotSmart
<1>3. /\ ListenersType' /\ bound' = Used'
      /\ \A n \in Names : lis'[n] = IF n \in Of(t) THEN NoListener ELSE lis[n]
      /\ \A s \in Transports : life[s] = "running" =>
           /\ ToSet(disc'[s]) = {n \in Names : lis'[n].trans = s} /\ IsInjective(disc'[s])
  BY <1>1, <1>2, FreeListenersFacts DEF RunDisconnects
<1>4. ListenInv'
  <2>1. lis'[SmartName] = lis[SmartName]
    BY <1>1, <1>2, <1>3, ListenersAssumption
  <2>2. ASSUME NEW n \in Names \ {SmartName}, lis'[n] # NoListener
        PROVE  /\ lis'[n].to \in Dests /\ lis'[n].trans \in Transports
               /\ life'[lis'[n].trans] \in {"running", "freed"}
               /\ ~damaged' => life'[lis'[n].trans] = "running" /\ conn'[lis'[n].trans] # "offline"
    <3>1. lis'[n] = lis[n] /\ lis[n].trans # t
      BY <1>3, <2>2 DEF Of
    <3>2. /\ lis[n].to \in Dests /\ lis[n].trans \in Transports
          /\ Reached(lis[n].trans) /\ (~damaged => OnLine(lis[n].trans))
      BY <2>2, <3>1 DEF LisInv, ListenInv
    <3> QED
      BY <3>1, <3>2 DEF Reached, OnLine
  <2>3. NoListener' = NoListener
    BY DEF NoListener
  <2> QED
    BY <2>1, <2>2, <2>3 DEF LisInv, ListenInv, Reached, OnLine
<1>5. DiscInv'
  <2>1. \A s \in Transports : life'[s] = "running" => life[s] = "running"
    OBVIOUS
  <2> QED
    BY <1>3, <2>1 DEF DiscInv
<1> QED
  BY <1>3, <1>4, <1>5 DEF LisInv

\* transport_registration_func empties the disconnect list of a transport that starts.
LEMMA RegisterLis ==
    ASSUME LisInv, NEW t \in Transports, life[t] = "registering",
           life' = [life EXCEPT ![t] = "running"], UNCHANGED <<conn, damaged>>, DevicesType,
           disc' = [disc EXCEPT ![t] = << >>], UNCHANGED <<lis, bound>>
    PROVE  LisInv'
<1>1. /\ disc \in [Transports -> Seq(Names)]
      /\ life \in [Transports -> {"none", "registering", "running", "freed"}]
  BY DEF LisInv, ListenersType, DevicesType
<1>2. << >> \in Seq(Names) /\ ToSet(<< >>) = {} /\ IsInjective(<< >>)
  BY NoNodes
<1>3. ListenersType'
  BY <1>1, <1>2 DEF LisInv, ListenersType
<1>4. ListenInv'
  BY <1>1 DEF LisInv, ListenInv, NoListener, Reached, OnLine
<1>5. \A n \in Names : lis[n].trans # t
  BY ListenersAssumption, DevicesAssumption DEF LisInv, ListenInv, NoListener, Reached
<1>6. DiscInv'
  <2>1. ASSUME NEW s \in Transports, life'[s] = "running"
        PROVE  ToSet(disc'[s]) = {n \in Names : lis'[n].trans = s} /\ IsInjective(disc'[s])
    <3>1. CASE s = t
      <4>1. disc'[s] = << >>
        BY <1>1, <3>1
      <4> QED
        BY <1>2, <1>5, <3>1, <4>1
    <3>2. CASE s # t
      BY <1>1, <2>1, <3>2 DEF LisInv, DiscInv
    <3> QED
      BY <3>1, <3>2
  <2> QED
    BY <2>1 DEF LisInv, DiscInv, Used, NoListener
<1> QED
  BY <1>3, <1>4, <1>6 DEF LisInv

\* install_listener with a new name.
LEMMA InstallLis ==
    ASSUME LisInv, NEW n \in Names, NEW to \in Dests, NEW t \in Transports,
           Reached(t), ~damaged => OnLine(t), Install(n, to, t), UNCHANGED devices
    PROVE  LisInv'
<1>1. /\ lis[n] = NoListener /\ n \notin bound
      /\ lis' = [lis EXCEPT ![n] = [to |-> to, trans |-> t]]
      /\ bound' = bound \cup {n} /\ disc' = [disc EXCEPT ![t] = Append(@, n)]
      /\ UNCHANGED <<life, conn, damaged>>
  BY DEF Install, devices
<1>2. /\ lis \in [Names -> [to : Dests \cup {Star, None}, trans : Transports \cup {None}]]
      /\ disc \in [Transports -> Seq(Names)] /\ bound \subseteq Names /\ bound = Used
  BY DEF LisInv, ListenersType, DiscInv
<1>3. n # SmartName /\ lis[n].trans = None /\ [to |-> to, trans |-> t] # NoListener
  BY <1>1, ListenersAssumption, DevicesAssumption DEF LisInv, ListenInv, NoListener
<1>4. life[t] = "running" =>
        ToSet(disc[t]) = {m \in Names : lis[m].trans = t} /\ IsInjective(disc[t])
  BY DEF LisInv, DiscInv
<1>5. /\ Append(disc[t], n) \in Seq(Names)
      /\ life[t] = "running" => IsInjective(Append(disc[t], n))
      /\ ToSet(Append(disc[t], n)) = ToSet(disc[t]) \cup {n}
  <2>1. life[t] = "running" => n \notin ToSet(disc[t])
    BY <1>3, <1>4, DevicesAssumption
  <2> QED
    BY <1>2, <1>4, <2>1, Appended
<1>6. ListenersType'
  BY <1>1, <1>2, <1>5 DEF ListenersType
<1>7. ListenInv'
  BY <1>1, <1>2, <1>3 DEF LisInv, ListenInv, NoListener, Reached, OnLine
<1>8. \A m \in Names : lis'[m] = IF m = n THEN [to |-> to, trans |-> t] ELSE lis[m]
  BY <1>1, <1>2
<1>9. bound' = Used'
  BY <1>1, <1>2, <1>3, <1>8 DEF Used, NoListener
<1>10. ASSUME NEW s \in Transports, life[s] = "running"
       PROVE  ToSet(disc'[s]) = {m \in Names : lis'[m].trans = s} /\ IsInjective(disc'[s])
  <2>1. CASE s = t
    <3>1. disc'[s] = Append(disc[t], n)
      BY <1>1, <1>2, <2>1
    <3>2. \A m \in Names : lis'[m].trans = t <=> m = n \/ lis[m].trans = t
      BY <1>8
    <3> QED
      BY <1>4, <1>5, <1>10, <2>1, <3>1, <3>2
  <2>2. CASE s # t
    <3>1. disc'[s] = disc[s]
      BY <1>1, <1>2, <2>2
    <3>2. \A m \in Names : lis'[m].trans = s <=> lis[m].trans = s
      BY <1>3, <1>8, <2>2, DevicesAssumption
    <3>3. ToSet(disc[s]) = {m \in Names : lis[m].trans = s} /\ IsInjective(disc[s])
      BY <1>10 DEF LisInv, DiscInv
    <3> QED
      BY <3>1, <3>2, <3>3
  <2> QED
    BY <2>1, <2>2
<1>11. DiscInv'
  BY <1>1, <1>9, <1>10 DEF DiscInv
<1> QED
  BY <1>6, <1>7, <1>11 DEF LisInv

\* install_listener with a name that is there: from the disconnects of one transport to
\* those of another.
LEMMA RebindLis ==
    ASSUME LisInv, NEW n \in Names, NEW to \in Dests, NEW t \in Transports,
           Reached(t), ~damaged => OnLine(t), Rebind(n, to, t), UNCHANGED devices
    PROVE  LisInv'
<1> DEFINE o == lis[n].trans
<1>1. /\ lis[n] # NoListener /\ lis[n].to # Star
      /\ lis' = [lis EXCEPT ![n] = [to |-> to, trans |-> t]] /\ bound' = bound
      /\ disc' = IF o = t THEN disc
                 ELSE [disc EXCEPT ![o] = Without(@, n), ![t] = Append(@, n)]
      /\ UNCHANGED <<life, conn, damaged>>
  BY DEF Rebind, devices
<1>2. /\ lis \in [Names -> [to : Dests \cup {Star, None}, trans : Transports \cup {None}]]
      /\ disc \in [Transports -> Seq(Names)] /\ bound \subseteq Names /\ bound = Used
  BY DEF LisInv, ListenersType, DiscInv
<1>3. n # SmartName /\ o \in Transports
  BY <1>1, ListenersAssumption DEF LisInv, ListenInv
<1>4. \A m \in Names : lis'[m] = IF m = n THEN [to |-> to, trans |-> t] ELSE lis[m]
  BY <1>1, <1>2
<1>5. \A s \in Transports : life[s] = "running" =>
        ToSet(disc[s]) = {m \in Names : lis[m].trans = s} /\ IsInjective(disc[s])
  BY DEF LisInv, DiscInv
<1>6. /\ Append(disc[t], n) \in Seq(Names)
      /\ o # t /\ life[t] = "running" => IsInjective(Append(disc[t], n))
      /\ ToSet(Append(disc[t], n)) = ToSet(disc[t]) \cup {n}
  <2>1. o # t /\ life[t] = "running" => n \notin ToSet(disc[t])
    BY <1>5
  <2> QED
    BY <1>2, <1>5, <2>1, Appended
<1>7. /\ Without(disc[o], n) \in Seq(Names)
      /\ life[o] = "running" => IsInjective(Without(disc[o], n))
      /\ ToSet(Without(disc[o], n)) = ToSet(disc[o]) \ {n}
  BY <1>2, <1>3, <1>5, WithoutFacts
<1> HIDE DEF o
<1>8. disc' \in [Transports -> Seq(Names)]
  BY <1>1, <1>2, <1>3, <1>6, <1>7
<1>9. ListenersType'
  BY <1>1, <1>2, <1>8 DEF ListenersType
<1>10. [to |-> to, trans |-> t] # NoListener
  BY DevicesAssumption DEF NoListener
<1>11. ListenInv'
  BY <1>1, <1>2, <1>3 DEF LisInv, ListenInv, NoListener, Reached, OnLine
<1>12. bound' = Used'
  BY <1>1, <1>2, <1>4, <1>10 DEF Used, NoListener
<1>13. ASSUME NEW s \in Transports, life[s] = "running"
       PROVE  ToSet(disc'[s]) = {m \in Names : lis'[m].trans = s} /\ IsInjective(disc'[s])
  <2>1. \A m \in Names : lis'[m].trans = s <=> IF m = n THEN s = t ELSE lis[m].trans = s
    BY <1>4
  <2>2. \A m \in Names : m \in ToSet(disc[s]) <=> lis[m].trans = s
    BY <1>5, <1>13
  <2>3. n \in ToSet(disc[s]) <=> s = o
    BY <2>2 DEF o
  <2>4. ToSet(disc'[s]) = IF s = t THEN ToSet(disc[s]) \cup {n} ELSE ToSet(disc[s]) \ {n}
    BY <1>1, <1>2, <1>3, <1>6, <1>7, <2>3
  <2>5. IsInjective(disc'[s])
    BY <1>1, <1>2, <1>3, <1>5, <1>6, <1>7, <1>13
  <2>6. ToSet(disc[s]) \subseteq Names
    BY <1>5, <1>13
  <2> QED
    BY <2>1, <2>2, <2>4, <2>5, <2>6
<1>14. DiscInv'
  BY <1>1, <1>12, <1>13 DEF DiscInv
<1> QED
  BY <1>9, <1>11, <1>14 DEF LisInv

\* remove_listener.
LEMMA RemoveLis ==
    ASSUME LisInv, NEW n \in Names, NEW to, NEW t \in Transports, RemoveListener(n, to, t),
           UNCHANGED devices
    PROVE  LisInv'
<1>1. /\ lis[n] = [to |-> to, trans |-> t] /\ FreeListeners({n})
      /\ UNCHANGED <<life, conn, damaged>>
  BY DEF RemoveListener, devices
<1>2. {n} \in SUBSET (Names \ {SmartName})
  BY <1>1, DevicesAssumption DEF LisInv, ListenInv
<1>3. /\ ListenersType' /\ bound' = Used'
      /\ \A m \in Names : lis'[m] = IF m \in {n} THEN NoListener ELSE lis[m]
      /\ \A s \in Transports : life[s] = "running" =>
           /\ ToSet(disc'[s]) = {m \in Names : lis'[m].trans = s} /\ IsInjective(disc'[s])
  BY <1>1, <1>2, FreeListenersFacts
<1>4. ListenInv'
  BY <1>1, <1>2, <1>3, ListenersAssumption DEF LisInv, ListenInv, NoListener, Reached, OnLine
<1>5. DiscInv'
  BY <1>1, <1>3 DEF DiscInv
<1> QED
  BY <1>3, <1>4, <1>5 DEF LisInv

\* A walk over the list finds transports that run, or did once.
LEMMA WalkFacts ==
    ASSUME DevInv, NEW S \in Walks
    PROVE  /\ S \subseteq Transports /\ \A t \in S : Reached(t)
           /\ ~damaged => S = Listed /\ \A t \in S : life[t] = "running"
<1>1. tlist \in Seq(Transports) /\ ListInv
  BY DEF DevInv, DevicesType
<1>2. Listed \subseteq Transports
  BY <1>1, InList DEF Listed
<1> QED
  BY <1>1, <1>2 DEF Walks, ListInv, Reached

\* acquire_one_transport finds a transport that runs and is on line, when the list is sound.
LEMMA Acquired ==
    ASSUME DevInv, NEW S \in Walks, NEW target, AcquireOne(S, target) # None
    PROVE  /\ AcquireOne(S, target) \in Transports /\ Reached(AcquireOne(S, target))
           /\ ~damaged => OnLine(AcquireOne(S, target))
<1> DEFINE on == {t \in Matching(S, target) : conn[t] # "offline" \/ life[t] = "freed"}
<1>1. on # {} /\ AcquireOne(S, target) = CHOOSE t \in on : TRUE
  BY DEF AcquireOne
<1>2. AcquireOne(S, target) \in on
  BY <1>1
<1>3. Matching(S, target) \subseteq S
  BY DEF Matching
<1>4. /\ S \subseteq Transports /\ \A t \in S : Reached(t)
      /\ ~damaged => \A t \in S : life[t] = "running"
  BY WalkFacts
<1> QED
  BY <1>2, <1>3, <1>4 DEF OnLine

-----------------------------------------------------------------------------
(* The trackers *)

TrkInv == TrackerType /\ TrackersCurrent

LEMMA NoListing == << >> \in Listings
<1>1. << >> \in [{} -> States]
  OBVIOUS
<1> QED
  BY <1>1 DEF Listings

LEMMA TrackerInitInv == TrackerInit => TrkInv
  BY NoListing DEF TrackerInit, TrkInv, TrackerType, TrackersCurrent

LEMMA AListing == ASSUME DevInv, NEW S \in Walks PROVE Listing(S) \in Listings
<1>1. conn \in [Transports -> States] /\ S \subseteq Transports
  BY WalkFacts DEF DevInv, DevicesType
<1>2. Listing(S) \in [S -> States]
  BY <1>1 DEF Listing
<1> QED
  BY <1>1, <1>2 DEF Listings

\* update_transports: every tracker that is left has the list as it is now.
LEMMA UpdatedTrk == ASSUME TrkInv, DevInv', UpdateTransports PROVE TrkInv'
<1>1. PICK S \in Walks' :
        told' = [k \in Trackers |-> IF trk'[k] = "on" THEN Listing(S)' ELSE << >>]
  BY DEF UpdateTransports
<1>2. /\ trk' = [k \in Trackers |-> IF trk[k] = "on" /\ client[k] = "down" THEN "closed" ELSE trk[k]]
      /\ client' = client
  BY DEF UpdateTransports
<1>3. Listing(S)' \in Listings
  <2>1. conn' \in [Transports -> States]
    BY DEF DevInv, DevicesType, States, Known
  <2>2. tlist' \in Seq(Transports)
    BY DEF DevInv, DevicesType
  <2>3. Listed' \subseteq Transports
    BY <2>2, InList DEF Listed
  <2>4. S \subseteq Transports
    BY <1>1, <2>3 DEF Walks
  <2>5. Listing(S)' \in [S -> States]
    BY <2>1, <2>4 DEF Listing
  <2> QED
    BY <2>4, <2>5 DEF Listings
<1>4. TrackerType'
  <2>1. told' \in [Trackers -> Listings]
    BY <1>1, <1>3, NoListing
  <2>2. trk' \in [Trackers -> {"none", "on", "closed"}]
    BY <1>2 DEF TrkInv, TrackerType
  <2> QED
    BY <1>2, <2>1, <2>2 DEF TrkInv, TrackerType, Listings, States, Known
<1>5. TrackersCurrent'
  <2> SUFFICES ASSUME ~damaged', NEW k \in Trackers, NEW t \in Transports, trk'[k] = "on"
               PROVE  Current(k, t)'
    BY DEF TrackersCurrent
  <2>1. told'[k] = Listing(S)' /\ S = Listed'
    BY <1>1 DEF Walks
  <2>2. DOMAIN Listing(S)' = S /\ \A s \in S : Listing(S)'[s] = conn'[s]
    BY DEF Listing
  <2> QED
    BY <2>1, <2>2 DEF Current
<1> QED
  BY <1>4, <1>5 DEF TrkInv

\* No tracker is told: what changes is about a device that is going away, or has an
\* unknown banner.
LEMMA SameTrk ==
    ASSUME TrkInv, UNCHANGED trackers, UNCHANGED damaged,
           \A t \in Transports :
             \/ (t \in Listed' <=> t \in Listed) /\ conn'[t] = conn[t] /\ (~up[t] => ~up'[t])
             \/ ~up'[t] \/ conn'[t] = "host"
    PROVE  TrkInv'
<1>1. trk' = trk /\ client' = client /\ told' = told
  BY DEF trackers
<1>2. TrackerType'
  BY <1>1 DEF TrkInv, TrackerType, Listings, States, Known
<1>3. TrackersCurrent'
  <2> SUFFICES ASSUME ~damaged, NEW k \in Trackers, NEW t \in Transports, trk[k] = "on",
                      up'[t], conn'[t] # "host"
               PROVE  Current(k, t)'
    BY <1>1 DEF TrackersCurrent
  <2>1. (t \in Listed' <=> t \in Listed) /\ conn'[t] = conn[t] /\ up[t]
    OBVIOUS
  <2>2. Current(k, t)
    BY <2>1 DEF TrkInv, TrackersCurrent
  <2> QED
    BY <1>1, <2>1, <2>2 DEF Current
<1> QED
  BY <1>2, <1>3 DEF TrkInv

LEMMA WatchTrk == ASSUME DevInv, TrkInv, NEW k \in Trackers,
                         Track(k) \/ ClientLeaves(k) \/ TrackerClose(k), UNCHANGED devices
                  PROVE  TrkInv'
<1>0. /\ UNCHANGED <<tlist, conn, up, damaged>>
      /\ trk \in [Trackers -> {"none", "on", "closed"}] /\ client \in [Trackers -> {"up", "down"}]
      /\ told \in [Trackers -> Listings] /\ TrackersCurrent
  BY DEF devices, TrkInv, TrackerType
<1>1. Listed' = Listed
  BY <1>0 DEF Listed
<1>2. \A j \in Trackers, t \in Transports :
        ~damaged' /\ j # k /\ trk'[j] = trk[j] /\ told'[j] = told[j] =>
         \/ trk'[j] # "on" \/ Current(j, t)' \/ ~up'[t] \/ conn'[t] = "host"
  BY <1>0, <1>1 DEF TrackersCurrent, Current
<1>3. CASE Track(k)
  <2>0. PICK S \in Walks : told' = [told EXCEPT ![k] = Listing(S)]
    BY <1>3 DEF Track
  <2>1. trk' = [trk EXCEPT ![k] = "on"] /\ client' = client
    BY <1>3 DEF Track
  <2>2. TrackerType'
    <3>1. Listing(S) \in Listings
      BY AListing
    <3> QED
      BY <1>0, <2>0, <2>1, <3>1 DEF TrackerType, Listings, States, Known
  <2>3. ~damaged' => \A t \in Transports : Current(k, t)'
    <3>1. ~damaged => S = Listed
      BY DEF Walks
    <3>2. told'[k] = Listing(S) /\ DOMAIN Listing(S) = S /\ \A s \in S : Listing(S)[s] = conn[s]
      BY <1>0, <2>0 DEF Listing
    <3> QED
      BY <1>0, <1>1, <3>1, <3>2 DEF Current
  <2>4. \A j \in Trackers : j # k => trk'[j] = trk[j] /\ told'[j] = told[j]
    BY <1>0, <2>0, <2>1
  <2> QED
    BY <1>2, <2>2, <2>3, <2>4 DEF TrkInv, TrackersCurrent
<1>4. CASE ClientLeaves(k)
  <2>1. client' = [client EXCEPT ![k] = "down"] /\ UNCHANGED <<trk, told>>
    BY <1>4 DEF ClientLeaves
  <2>2. TrackerType'
    BY <1>0, <2>1 DEF TrackerType, Listings, States, Known
  <2>3. TrackersCurrent'
    BY <1>0, <1>1, <2>1 DEF TrackersCurrent, Current
  <2> QED
    BY <2>2, <2>3 DEF TrkInv
<1>5. CASE TrackerClose(k)
  <2>1. /\ trk' = [trk EXCEPT ![k] = "closed"] /\ told' = [told EXCEPT ![k] = << >>]
        /\ client' = client
    BY <1>5 DEF TrackerClose
  <2>2. TrackerType'
    <3>1. told' \in [Trackers -> Listings]
      BY <1>0, <2>1, NoListing
    <3> QED
      BY <1>0, <2>1, <3>1 DEF TrackerType, Listings, States, Known
  <2>3. trk'[k] # "on" /\ \A j \in Trackers : j # k => trk'[j] = trk[j] /\ told'[j] = told[j]
    BY <1>0, <2>1
  <2> QED
    BY <1>2, <2>2, <2>3 DEF TrkInv, TrackersCurrent
<1> QED
  BY <1>3, <1>4, <1>5

-----------------------------------------------------------------------------
(* The waiting services *)

WaitInv ==
    /\ wpc \in [Waiters -> {"none", "scan", "check", "sleep", "okay", "fail"}]
    /\ want \in [Waiters -> Targets \cup {None}]
    /\ found \in [Waiters -> Transports \cup {None}]

LEMMA Matched == ASSUME DevInv, NEW S \in Walks, NEW target,
                        Cardinality(Matching(S, target)) = 1
                 PROVE  (CHOOSE t \in Matching(S, target) : TRUE) \in Transports
<1>1. Matching(S, target) # {}
  BY FS_EmptySet
<1>2. Matching(S, target) \subseteq Transports
  BY WalkFacts DEF Matching
<1> QED
  BY <1>1, <1>2

LEMMA WaitStepInv == ASSUME DevInv, WaitInv, NEW w \in Waiters, WaitStep(w) PROVE WaitInv'
<1>1. CASE WaitScan(w)
  <2> DEFINE Scanned(S) ==
        IF Cardinality(Matching(S, want[w])) = 1
          THEN /\ found' = [found EXCEPT ![w] = CHOOSE t \in Matching(S, want[w]) : TRUE]
               /\ wpc' = [wpc EXCEPT ![w] = "check"]
          ELSE found' = found /\ \E p \in {"fail", "sleep"} : wpc' = [wpc EXCEPT ![w] = p]
  <2>1. want' = want /\ \E S \in Walks : Scanned(S)
    BY <1>1 DEF WaitScan
  <2>2. PICK S \in Walks : Scanned(S)
    BY <2>1
  <2>3. CASE Cardinality(Matching(S, want[w])) = 1
    BY <2>1, <2>2, <2>3, Matched DEF WaitInv
  <2>4. CASE Cardinality(Matching(S, want[w])) # 1
    BY <2>1, <2>2, <2>4 DEF WaitInv
  <2> QED
    BY <2>3, <2>4
<1>2. CASE WaitCheck(w)
  <2>1. /\ \E p \in {"okay", "sleep"} : wpc' = [wpc EXCEPT ![w] = p]
        /\ want' = want /\ found' = found
    BY <1>2 DEF WaitCheck
  <2> QED
    BY <2>1 DEF WaitInv
<1>3. CASE WaitRetry(w)
  BY <1>3 DEF WaitRetry, WaitInv
<1> QED
  BY <1>1, <1>2, <1>3 DEF WaitStep

-----------------------------------------------------------------------------
(* The whole server *)

AllInv == DevInv /\ LisInv /\ TrkInv /\ WaitInv

LEMMA AllIsIInv == AllInv <=> IInv
  BY DEF AllInv, IInv, DevInv, LisInv, TrkInv, WaitInv, TypeOK

LEMMA InitInv == Init => AllInv
<1> SUFFICES ASSUME Init PROVE AllInv
  OBVIOUS
<1>1. WaitInv
  BY DEF Init, WaitInv
<1> QED
  BY <1>1, DevicesInitInv, ListenersInitInv, TrackerInitInv DEF Init, AllInv

LEMMA SameWait == ASSUME WaitInv, UNCHANGED waiters PROVE WaitInv'
  BY DEF WaitInv, waiters

LEMMA SameDev == ASSUME DevInv, UNCHANGED devices PROVE DevInv'
  BY DEF DevInv, DevicesType, ListInv, PipeInv, SyncInv, Listed, devices

\* Devices come and go.
LEMMA ArriveInv == ASSUME AllInv, NEW t \in Transports, UsbArrives(t) \/ Connect(t) PROVE AllInv'
<1>1. RegisterTransport(t) /\ UNCHANGED <<listeners, trackers, waiters>>
  BY DEF UsbArrives, Connect
<1>2. DevInv /\ LisInv /\ TrkInv /\ WaitInv
  BY DEF AllInv
<1>3. DevInv'
  BY <1>1, <1>2, RegisterDev
<1>4. /\ life[t] = "none" /\ life' = [life EXCEPT ![t] = "registering"] /\ tlist' = tlist
      /\ UNCHANGED <<conn, up, damaged>> /\ DOMAIN life = Transports
  BY <1>1, <1>2 DEF RegisterTransport, DevInv, DevicesType
<1>5. LisInv'
  BY <1>1, <1>2, <1>4, SameLis DEF Reached
<1>6. TrkInv'
  BY <1>1, <1>2, <1>4, SameTrk DEF Listed
<1> QED
  BY <1>1, <1>2, <1>3, <1>5, <1>6, SameWait DEF AllInv

LEMMA RegisterInv == ASSUME AllInv, NEW t \in Transports, MainRegister(t) PROVE AllInv'
<1>1. /\ StartTransport(t) /\ disc' = [disc EXCEPT ![t] = << >>] /\ UpdateTransports
      /\ UNCHANGED <<lis, bound>> /\ UNCHANGED waiters
  BY DEF MainRegister
<1>2. DevInv /\ LisInv /\ TrkInv /\ WaitInv
  BY DEF AllInv
<1>3. DevInv' /\ life[t] = "registering"
  BY <1>1, <1>2, StartDev
<1>4. life' = [life EXCEPT ![t] = "running"] /\ UNCHANGED <<conn, damaged>> /\ DevicesType
  BY <1>1, <1>2 DEF StartTransport, DevInv
<1>5. LisInv'
  BY <1>1, <1>2, <1>3, <1>4, RegisterLis
<1>6. TrkInv'
  BY <1>1, <1>2, <1>3, UpdatedTrk
<1> QED
  BY <1>1, <1>2, <1>3, <1>5, <1>6, SameWait DEF AllInv

LEMMA RemoveInv == ASSUME AllInv, NEW t \in Transports, MainRemove(t) PROVE AllInv'
<1>1. FreeTransport(t) /\ RunDisconnects(t) /\ UpdateTransports /\ UNCHANGED waiters
  BY DEF MainRemove
<1>2. DevInv /\ LisInv /\ TrkInv /\ WaitInv
  BY DEF AllInv
<1>3. DevInv' /\ life[t] = "running" /\ (damaged => damaged')
  BY <1>1, <1>2, FreeDev
<1>4. \A s \in Transports \ {t} : life'[s] = life[s] /\ conn'[s] = conn[s]
  BY <1>1, <1>2 DEF FreeTransport, DevInv, DevicesType
<1>5. LisInv'
  BY <1>1, <1>2, <1>3, <1>4, DisconnectsLis
<1>6. TrkInv'
  BY <1>1, <1>2, <1>3, UpdatedTrk
<1> QED
  BY <1>1, <1>2, <1>3, <1>5, <1>6, SameWait DEF AllInv

LEMMA Sync0Inv == ASSUME AllInv, NEW t \in Transports, MainSync0(t) PROVE AllInv'
<1>1. TakeSync0(t) /\ RunDisconnects(t) /\ UNCHANGED trackers /\ UNCHANGED waiters
  BY DEF MainSync0
<1>2. DevInv /\ LisInv /\ TrkInv /\ WaitInv
  BY DEF AllInv
<1>3. DevInv'
  BY <1>1, <1>2, TakeSync0Dev
<1>4. /\ life[t] = "running" /\ sync0[t] = "sent" /\ UNCHANGED <<life, tlist, up, damaged>>
      /\ \A s \in Transports \ {t} : conn'[s] = conn[s]
  BY <1>1, <1>2 DEF TakeSync0, Running, DevInv, DevicesType
<1>5. LisInv'
  BY <1>1, <1>2, <1>4, DisconnectsLis
<1>6. TrkInv'
  <2>1. ~up'[t]
    BY <1>2, <1>4 DEF DevInv, SyncInv
  <2> QED
    BY <1>1, <1>2, <1>4, <2>1, SameTrk DEF Listed
<1> QED
  BY <1>1, <1>2, <1>3, <1>5, <1>6, SameWait DEF AllInv

LEMMA CnxnInv == ASSUME AllInv, NEW t \in Transports, NEW b, MainCnxn(t, b) PROVE AllInv'
<1>1. /\ TakeCnxn(t, b) /\ UNCHANGED waiters
      /\ IF conn[t] # "offline" THEN RunDisconnects(t) ELSE UNCHANGED listeners
      /\ IF b \in Known THEN UpdateTransports ELSE UNCHANGED trackers
  BY DEF MainCnxn
<1>2. DevInv /\ LisInv /\ TrkInv /\ WaitInv
  BY DEF AllInv
<1>3. DevInv' /\ conn'[t] # "offline"
  BY <1>1, <1>2, TakeCnxnDev
<1>4. /\ life[t] = "running" /\ UNCHANGED <<life, tlist, up, damaged>>
      /\ \A s \in Transports \ {t} : conn'[s] = conn[s]
      /\ b \notin Known => conn'[t] = "host"
  BY <1>1, <1>2 DEF TakeCnxn, Running, DevInv, DevicesType
<1>5. LisInv'
  <2>1. CASE conn[t] # "offline"
    BY <1>1, <1>2, <1>4, <2>1, DisconnectsLis
  <2>2. CASE conn[t] = "offline"
    BY <1>1, <1>2, <1>3, <1>4, <2>2, SameLis
  <2> QED
    BY <2>1, <2>2
<1>6. TrkInv'
  <2>1. CASE b \in Known
    BY <1>1, <1>2, <1>3, <2>1, UpdatedTrk
  <2>2. CASE b \notin Known
    BY <1>1, <1>2, <1>4, <2>2, SameTrk DEF Listed
  <2> QED
    BY <2>1, <2>2
<1> QED
  BY <1>1, <1>2, <1>3, <1>5, <1>6, SameWait DEF AllInv

LEMMA OthersInv == ASSUME AllInv, NEW t \in Transports, Others(t) PROVE AllInv'
<1>1. /\ Unplug(t) \/ PostSync0(t) \/ ThreadExit(t)
      /\ UNCHANGED <<listeners, trackers, waiters>>
  BY DEF Others
<1>2. DevInv /\ LisInv /\ TrkInv /\ WaitInv
  BY DEF AllInv
<1>3. DevInv'
  BY <1>1, <1>2, UnplugDev, PostSync0Dev, ThreadExitDev
<1>4. /\ UNCHANGED <<life, tlist, conn, damaged>>
      /\ \A s \in Transports : ~up[s] => ~up'[s]
  BY <1>1, <1>2 DEF Unplug, PostSync0, ThreadExit, DevInv, DevicesType
<1>5. LisInv'
  BY <1>1, <1>2, <1>4, SameLis
<1>6. TrkInv'
  BY <1>1, <1>2, <1>4, SameTrk DEF Listed
<1> QED
  BY <1>1, <1>2, <1>3, <1>5, <1>6, SameWait DEF AllInv

\* Requests.
LEMMA UnregisterInv ==
    ASSUME AllInv, NEW ts \in Seq(Transports), IsInjective(ts),
           Unregister(ts), UNCHANGED <<listeners, trackers, waiters>>
    PROVE  AllInv'
<1>2. DevInv /\ LisInv /\ TrkInv /\ WaitInv
  BY DEF AllInv
<1>3. DevInv' /\ Listed' = Listed \ ToSet(ts)
  BY <1>2, UnregisterDev
<1>4. /\ UNCHANGED <<life, conn, damaged>>
      /\ \A s \in Transports : up'[s] = (up[s] /\ s \notin ToSet(ts))
  BY <1>2 DEF Unregister
<1>5. LisInv'
  BY <1>2, <1>4, SameLis
<1>6. TrkInv'
  BY <1>2, <1>3, <1>4, SameTrk
<1> QED
  BY <1>2, <1>3, <1>5, <1>6, SameWait DEF AllInv

LEMMA DisconnectInv == ASSUME AllInv, NEW t \in Transports, Disconnect(t) PROVE AllInv'
<1>1. Unregister(<<t>>) /\ UNCHANGED <<listeners, trackers, waiters>>
  BY DEF Disconnect
<1> DEFINE ts == <<t>>
<1>2. ts \in Seq(Transports) /\ IsInjective(ts) /\ Unregister(ts)
  BY <1>1, One
<1> HIDE DEF ts
<1> QED
  BY <1>1, <1>2, UnregisterInv

LEMMA DisconnectAllInv == ASSUME AllInv, DisconnectAll PROVE AllInv'
<1> DEFINE ts == Keep(tlist, Tcp)
<1>1. Unregister(ts) /\ UNCHANGED <<listeners, trackers, waiters>>
  BY DEF DisconnectAll
<1>2. tlist \in Seq(Transports) /\ IsInjective(tlist)
  BY DEF AllInv, DevInv, DevicesType, ListInv
<1>3. ts \in Seq(Transports) /\ IsInjective(ts)
  BY <1>2, KeepFacts
<1> HIDE DEF ts
<1> QED
  BY <1>1, <1>3, UnregisterInv

LEMMA ForwardInv ==
    ASSUME AllInv, NEW n \in Names, NEW to \in Dests, NEW target,
           Forward(n, to, target) \/ KillForward(n, to, target)
    PROVE  AllInv'
<1>0. PICK S \in Walks :
        /\ AcquireOne(S, target) # None /\ UNCHANGED <<devices, trackers, waiters>>
        /\ \/ Install(n, to, AcquireOne(S, target)) \/ Rebind(n, to, AcquireOne(S, target))
           \/ RemoveListener(n, to, AcquireOne(S, target))
  BY DEF Forward, KillForward
<1> DEFINE t == AcquireOne(S, target)
<1>1. /\ t # None /\ UNCHANGED <<devices, trackers, waiters>>
      /\ Install(n, to, t) \/ Rebind(n, to, t) \/ RemoveListener(n, to, t)
  BY <1>0
<1>2. DevInv /\ LisInv /\ TrkInv /\ WaitInv
  BY DEF AllInv
<1>3. t \in Transports /\ Reached(t) /\ (~damaged => OnLine(t))
  BY <1>1, <1>2, Acquired
<1> HIDE DEF t
<1>4. LisInv'
  BY <1>1, <1>2, <1>3, InstallLis, RebindLis, RemoveLis
<1>5. DevInv'
  BY <1>1, <1>2, SameDev
<1>6. TrkInv'
  BY <1>1, <1>2, SameTrk DEF Listed, devices
<1> QED
  BY <1>1, <1>2, <1>4, <1>5, <1>6, SameWait DEF AllInv

LEMMA WatchInv == ASSUME AllInv, NEW k \in Trackers, Watch(k) PROVE AllInv'
<1>1. /\ Track(k) \/ ClientLeaves(k) \/ TrackerClose(k)
      /\ UNCHANGED devices /\ UNCHANGED listeners /\ UNCHANGED waiters
  BY DEF Watch
<1>2. LisInv'
  BY <1>1, SameLis DEF AllInv, devices
<1> QED
  BY <1>1, <1>2, WatchTrk, SameDev, SameWait DEF AllInv

LEMMA WaiterInv == ASSUME AllInv, NEW w \in Waiters,
                          WaitStep(w) \/ \E target \in Targets : Wait(w, target)
                   PROVE  AllInv'
<1>1. UNCHANGED devices /\ UNCHANGED listeners /\ UNCHANGED trackers
  BY DEF WaitStep, WaitScan, WaitCheck, WaitRetry, Wait
<1>2. WaitInv'
  <2>1. CASE WaitStep(w)
    BY <2>1, WaitStepInv DEF AllInv
  <2>2. CASE \E target \in Targets : Wait(w, target)
    BY <2>2 DEF Wait, AllInv, WaitInv
  <2> QED
    BY <2>1, <2>2
<1>3. LisInv'
  BY <1>1, SameLis DEF AllInv, devices
<1>4. TrkInv'
  BY <1>1, SameTrk DEF AllInv, devices, Listed
<1> QED
  BY <1>1, <1>2, <1>3, <1>4, SameDev DEF AllInv

LEMMA NextInv == AllInv /\ [Next]_vars => AllInv'
<1> SUFFICES ASSUME AllInv, [Next]_vars PROVE AllInv'
  OBVIOUS
<1>1. ASSUME NEW t \in Transports,
             \/ UsbArrives(t) \/ Connect(t) \/ Disconnect(t) \/ Main(t) \/ Others(t)
             \/ \E b \in Banners : MainCnxn(t, b)
      PROVE  AllInv'
  BY <1>1, ArriveInv, DisconnectInv, RegisterInv, RemoveInv, Sync0Inv, OthersInv, CnxnInv
     DEF Main
<1>2. CASE DisconnectAll
  BY <1>2, DisconnectAllInv
<1>3. CASE \E n \in Names, to \in Dests, target \in Targets :
             Forward(n, to, target) \/ KillForward(n, to, target)
  BY <1>3, ForwardInv
<1>4. CASE \E k \in Trackers : Watch(k)
  BY <1>4, WatchInv
<1>5. CASE \E w \in Waiters : WaitStep(w) \/ \E target \in Targets : Wait(w, target)
  BY <1>5, WaiterInv
<1>6. CASE UNCHANGED vars
  <2>1. UNCHANGED devices /\ UNCHANGED listeners /\ UNCHANGED trackers /\ UNCHANGED waiters
    BY <1>6 DEF vars
  <2>2. LisInv'
    BY <2>1, SameLis DEF AllInv, devices
  <2>3. TrkInv'
    BY <2>1, SameTrk DEF AllInv, devices, Listed
  <2> QED
    BY <2>1, <2>2, <2>3, SameDev, SameWait DEF AllInv
<1> QED
  BY <1>1, <1>2, <1>3, <1>4, <1>5, <1>6 DEF Next

LEMMA InvImplies == AllInv => ServerInv /\ ForwardsOnline /\ TrackersCurrent
<1> SUFFICES ASSUME AllInv PROVE ServerInv /\ ForwardsOnline /\ TrackersCurrent
  OBVIOUS
<1>1. TypeOK
  BY DEF AllInv, TypeOK, DevInv, LisInv, TrkInv, WaitInv
<1>2. ASSUME NEW t \in Transports, life[t] = "running"
      PROVE  Len(disc[t]) = Cardinality(ToSet(disc[t]))
  <2>1. disc[t] \in Seq(Names) /\ IsInjective(disc[t])
    BY <1>2 DEF AllInv, LisInv, ListenersType, DiscInv
  <2> QED
    BY <2>1, LenIsCardinality
<1>3. DisconnectsRight
  BY <1>2 DEF AllInv, LisInv, DiscInv, DisconnectsRight
<1>4. ForwardsOnline
  BY DEF AllInv, LisInv, ListenInv, ForwardsOnline, Used, OnLine
<1> QED
  BY <1>1, <1>3, <1>4 DEF ServerInv, AllInv, TrkInv

LEMMA AllHolds == Spec => []AllInv
<1>1. Init => AllInv
  BY InitInv
<1>2. AllInv /\ [Next]_vars => AllInv'
  BY NextInv
<1> QED
  BY <1>1, <1>2, PTL DEF Spec

\* install_listener, remove_listener, listener_disconnect, run_transport_disconnects and
\* transport_registration_func: the disconnect list of a transport that runs has its
\* listeners, once each, and the open ports are those of the listeners.
THEOREM ServerCorrect == Spec => []ServerInv
<1>1. AllInv => ServerInv
  BY InvImplies
<1> QED
  BY <1>1, AllHolds, PTL

\* While no removal has damaged transport_list, a connection to a forwarded port never
\* meets a transport that is freed or off line, whatever unregister_transport,
\* handle_offline and the two threads do, in any order.  It may meet one that was
\* disconnected, until its SYNC(0) or its removal.
THEOREM ForwardsStayOnline == Spec => []ForwardsOnline
<1>1. AllInv => ForwardsOnline
  BY InvImplies
<1> QED
  BY <1>1, AllHolds, PTL

\* While no removal has damaged transport_list, update_transports is called often enough:
\* a tracker has every device and its state, but for one that is going away or has an
\* unknown banner.
THEOREM TrackersStayCurrent == Spec => []TrackersCurrent
<1>1. AllInv => TrackersCurrent
  BY InvImplies
<1> QED
  BY <1>1, AllHolds, PTL
==============================================================================
