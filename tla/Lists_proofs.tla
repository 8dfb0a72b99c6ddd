---------------------------- MODULE Lists_proofs ----------------------------
(***************************************************************************)
(* What unlinking leaves of a list, and what a list of lists is together,  *)
(* for lists of any length.  The induction over the length goes by the     *)
(* least counterexample, which the well-foundedness of the natural numbers *)
(* provides.                                                               *)
(***************************************************************************)
EXTENDS Lists, FiniteSetTheorems, SequenceTheorems, WellFoundedInduction, TLAPS

\* A set of natural numbers that is not empty has a least element.
LEMMA LeastNat == ASSUME NEW T \in SUBSET Nat, T # {}
                  PROVE  \E n \in T : \A m \in T : n <= m
<1> DEFINE R == OpToRel(<, Nat)
<1>1. IsWellFoundedOn(R, Nat)
  BY NatLessThanWellFounded
<1>2. \A m, n \in Nat : m < n => <<m, n>> \in R
  BY DEF OpToRel
<1> HIDE DEF R
<1>3. PICK n \in T : \A m \in T : ~(<<m, n>> \in R)
  BY <1>1, WFMin
<1>4. ASSUME NEW m \in T PROVE n <= m
  <2>1. m \in Nat /\ n \in Nat /\ ~(m < n)
    BY <1>2, <1>3
  <2> QED
    BY <2>1
<1> QED
  BY <1>4

\* Induction: a set that has 0 and, with each number below n, its successor, has all of 0..n.
LEMMA UpTo == ASSUME NEW n \in Nat, NEW T, 0 \in T, \A i \in 0..n : i \in T /\ i < n => i + 1 \in T
              PROVE  0..n \subseteq T
<1> DEFINE U == {i \in 0..n : i \notin T}
<1> SUFFICES ASSUME U # {} PROVE FALSE
  OBVIOUS
<1>0. U \in SUBSET Nat
  OBVIOUS
<1> HIDE DEF U
<1>1. PICK i \in U : \A m \in U : i <= m
  BY <1>0, LeastNat
<1> USE DEF U
<1>2. i \in 1..n /\ i - 1 \in 0..n /\ i - 1 < n /\ (i - 1) + 1 = i
  BY <1>1
<1>3. i - 1 \in T
  BY <1>1, <1>2
<1> QED
  BY <1>1, <1>2, <1>3

\* The function that Keep is made of.
Step(s, S, f, i) == IF s[i] \in S THEN Append(f[i - 1], s[i]) ELSE f[i - 1]
Kept(s, S, n, f) == f = [i \in 0..n |-> IF i = 0 THEN << >> ELSE Step(s, S, f, i)]

LEMMA KeptExists == ASSUME NEW s, NEW S, NEW n \in Nat PROVE \E f : Kept(s, S, n, f)
<1> DEFINE T == {m \in 0..n : \E f : Kept(s, S, m, f)}
<1>1. 0 \in T
  <2>1. Kept(s, S, 0, [i \in 0..0 |-> << >>])
    BY DEF Kept
  <2> QED
    BY <2>1
<1>2. ASSUME NEW m \in 0..n, m \in T, m < n PROVE m + 1 \in T
  <2>1. PICK f : Kept(s, S, m, f)
    BY <1>2
  <2> DEFINE g == [i \in 0..(m + 1) |-> IF i = m + 1 THEN Step(s, S, f, i) ELSE f[i]]
  <2>2. \A i \in 0..m : g[i] = f[i] /\ f[i] = IF i = 0 THEN << >> ELSE Step(s, S, f, i)
    BY <2>1, <1>2 DEF Kept
  <2>3. \A i \in 1..(m + 1) : i - 1 \in 0..m /\ Step(s, S, g, i) = Step(s, S, f, i)
    BY <2>2, <1>2 DEF Step
  <2>4. \A i \in 0..(m + 1) : g[i] = IF i = 0 THEN << >> ELSE Step(s, S, g, i)
    BY <2>2, <2>3, <1>2
  <2>5. Kept(s, S, m + 1, g)
    BY <2>4 DEF Kept
  <2> QED
    BY <2>5, <1>2
<1>3. 0..n \subseteq T
  BY <1>1, <1>2, UpTo
<1> QED
  BY <1>3

\* How Keep computes: one node after the other.
LEMMA KeepBy == ASSUME NEW s, NEW S, Len(s) \in Nat
                PROVE  \E f : Kept(s, S, Len(s), f) /\ Keep(s, S) = f[Len(s)]
<1> DEFINE f == CHOOSE f : Kept(s, S, Len(s), f)
<1>1. Kept(s, S, Len(s), f)
  BY KeptExists
<1>2. Keep(s, S) = f[Len(s)]
  BY DEF Keep, Kept, Step
<1> QED
  BY <1>1, <1>2

-----------------------------------------------------------------------------
(* Nodes of a list *)

LEMMA InList == ASSUME NEW A, NEW s \in Seq(A), NEW x
                PROVE  /\ x \in ToSet(s) <=> \E i \in 1..Len(s) : s[i] = x
                       /\ ToSet(s) \subseteq A
                       /\ ToSet(s) = {} <=> s = << >>
<1>1. DOMAIN s = 1..Len(s) /\ Len(s) \in Nat /\ \A i \in 1..Len(s) : s[i] \in A
  BY LenProperties, ElementOfSeq
<1>2. x \in ToSet(s) <=> \E i \in 1..Len(s) : s[i] = x
  BY <1>1 DEF ToSet
<1>3. ToSet(s) \subseteq A
  BY <1>1 DEF ToSet
<1>4. ToSet(s) = {} => s = << >>
  <2>1. s # << >> => s[1] \in ToSet(s)
    BY <1>1, EmptySeq DEF ToSet
  <2> QED
    BY <2>1
<1>5. s = << >> => ToSet(s) = {}
  BY DEF ToSet
<1> QED
  BY <1>2, <1>3, <1>4, <1>5

LEMMA InjectiveList == ASSUME NEW A, NEW s \in Seq(A)
                       PROVE  IsInjective(s) <=> \A i, j \in 1..Len(s) : s[i] = s[j] => i = j
<1>1. DOMAIN s = 1..Len(s)
  BY LenProperties
<1> QED
  BY <1>1 DEF IsInjective

\* A node at the end.
LEMMA Appended == ASSUME NEW A, NEW s \in Seq(A), NEW e \in A
                  PROVE  /\ Append(s, e) \in Seq(A) /\ Len(Append(s, e)) = Len(s) + 1
                         /\ ToSet(Append(s, e)) = ToSet(s) \cup {e}
                         /\ IsInjective(s) /\ e \notin ToSet(s) => IsInjective(Append(s, e))
<1> DEFINE r == Append(s, e)
<1>1. /\ Len(s) \in Nat /\ r \in Seq(A) /\ Len(r) = Len(s) + 1
      /\ \A i \in 1..Len(s) : r[i] = s[i]
      /\ r[Len(s) + 1] = e
  BY LenProperties, AppendProperties
<1> HIDE DEF r
<1>2. \A x : x \in ToSet(r) <=> x \in ToSet(s) \cup {e}
  <2> SUFFICES ASSUME NEW x PROVE x \in ToSet(r) <=> x \in ToSet(s) \cup {e}
    OBVIOUS
  <2>1. x \in ToSet(r) <=> \E i \in 1..Len(s) + 1 : r[i] = x
    BY <1>1, InList
  <2>2. x \in ToSet(s) <=> \E i \in 1..Len(s) : s[i] = x
    BY InList
  <2>3. \A i \in 1..Len(s) + 1 : i \in 1..Len(s) \/ i = Len(s) + 1
    BY <1>1
  <2>4. Len(s) + 1 \in 1..Len(s) + 1 /\ \A i \in 1..Len(s) : i \in 1..Len(s) + 1
    BY <1>1
  <2> QED
    BY <1>1, <2>1, <2>2, <2>3, <2>4
<1>3. ASSUME IsInjective(s), e \notin ToSet(s) PROVE IsInjective(r)
  <2>1. \A i \in 1..Len(s) : s[i] # e
    BY <1>3, InList
  <2>2. \A i, j \in 1..Len(s) : s[i] = s[j] => i = j
    BY <1>3, InjectiveList
  <2>3. \A i, j \in 1..Len(s) + 1 : r[i] = r[j] => i = j
    BY <1>1, <2>1, <2>2
  <2> QED
    BY <1>1, <2>3, InjectiveList
<1> QED
  BY <1>1, <1>2, <1>3 DEF r

\* What Keep leaves of a list: the nodes in the set, and each once if it was there once.
LEMMA KeepFacts == ASSUME NEW A, NEW s \in Seq(A), NEW S
                   PROVE  /\ Keep(s, S) \in Seq(A)
                          /\ ToSet(Keep(s, S)) = ToSet(s) \cap S
                          /\ IsInjective(s) => IsInjective(Keep(s, S))
<1>0. Len(s) \in Nat /\ \A i \in 1..Len(s) : s[i] \in A
  BY LenProperties, ElementOfSeq
<1>1. PICK f : Kept(s, S, Len(s), f) /\ Keep(s, S) = f[Len(s)]
  BY <1>0, KeepBy
<1>2. /\ f[0] = << >>
      /\ \A i \in 0..Len(s) : i < Len(s) =>
           f[i + 1] = IF s[i + 1] \in S THEN Append(f[i], s[i + 1]) ELSE f[i]
  <2>1. \A i \in 0..Len(s) : f[i] = IF i = 0 THEN << >> ELSE Step(s, S, f, i)
    BY <1>0, <1>1 DEF Kept
  <2>2. 0 \in 0..Len(s)
    BY <1>0
  <2>3. ASSUME NEW i \in 0..Len(s), i < Len(s)
        PROVE  f[i + 1] = IF s[i + 1] \in S THEN Append(f[i], s[i + 1]) ELSE f[i]
    <3>1. i + 1 \in 0..Len(s) /\ i + 1 # 0 /\ (i + 1) - 1 = i
      BY <1>0, <2>3
    <3>2. f[i + 1] = Step(s, S, f, i + 1)
      BY <2>1, <3>1
    <3> QED
      BY <3>1, <3>2 DEF Step
  <2> QED
    BY <2>1, <2>2, <2>3
<1> DEFINE Upto(i) == {s[j] : j \in 1..i}
           Good(i) == /\ f[i] \in Seq(A) /\ ToSet(f[i]) = Upto(i) \cap S
                      /\ IsInjective(s) => IsInjective(f[i])
           T == {i \in 0..Len(s) : Good(i)}
<1>3. 0 \in T
  <2>1. << >> \in Seq(A) /\ ToSet(<< >>) = {} /\ IsInjective(<< >>)
    BY EmptySeq, InList, InjectiveList
  <2>2. Upto(0) = {} /\ 0 \in 0..Len(s)
    BY <1>0
  <2>3. Good(0)
    BY <1>2, <2>1, <2>2
  <2> QED
    BY <2>2, <2>3
<1>4. ASSUME NEW i \in 0..Len(s), i \in T, i < Len(s) PROVE i + 1 \in T
  <2>1. i + 1 \in 1..Len(s) /\ s[i + 1] \in A /\ Upto(i + 1) = Upto(i) \cup {s[i + 1]}
    BY <1>0, <1>4
  <2>2. Good(i)
    BY <1>4
  <2>3. CASE s[i + 1] \in S
    <3>1. f[i + 1] = Append(f[i], s[i + 1])
      BY <1>2, <1>4, <2>3
    <3>2. IsInjective(s) => s[i + 1] \notin Upto(i)
      BY <1>4, <2>1, InjectiveList
    <3>3. f[i + 1] \in Seq(A) /\ ToSet(f[i + 1]) = ToSet(f[i]) \cup {s[i + 1]}
      BY <2>1, <2>2, <3>1, Appended
    <3>4. IsInjective(s) => IsInjective(f[i + 1])
      BY <2>1, <2>2, <3>1, <3>2, Appended
    <3>5. Good(i + 1)
      BY <2>1, <2>2, <2>3, <3>3, <3>4
    <3> QED
      BY <2>1, <3>5
  <2>4. CASE s[i + 1] \notin S
    <3>1. f[i + 1] = f[i]
      BY <1>2, <1>4, <2>4
    <3>2. Good(i + 1)
      BY <2>1, <2>2, <2>4, <3>1
    <3> QED
      BY <2>1, <3>2
  <2> QED
    BY <2>3, <2>4
<1> HIDE DEF T
<1>5. 0..Len(s) \subseteq T
  BY <1>0, <1>3, <1>4, UpTo
<1>6. Good(Len(s))
  <2>1. Len(s) \in T
    BY <1>0, <1>5
  <2> HIDE DEF Good
  <2> QED
    BY <2>1 DEF T
<1>7. Upto(Len(s)) = ToSet(s)
  BY LenProperties DEF ToSet
<1> QED
  BY <1>1, <1>6, <1>7

LEMMA WithoutFacts == ASSUME NEW A, NEW s \in Seq(A), NEW e
                      PROVE  /\ Without(s, e) \in Seq(A)
                             /\ ToSet(Without(s, e)) = ToSet(s) \ {e}
                             /\ IsInjective(s) => IsInjective(Without(s, e))
  BY KeepFacts DEF Without

\* The first node is taken off.
LEMMA TailFacts == ASSUME NEW A, NEW s \in Seq(A), s # << >>
                   PROVE  /\ Head(s) \in A /\ Tail(s) \in Seq(A)
                          /\ Head(s) \in ToSet(s)
                          /\ ToSet(s) = ToSet(Tail(s)) \cup {Head(s)}
                          /\ IsInjective(s) => IsInjective(Tail(s)) /\ Head(s) \notin ToSet(Tail(s))
<1> DEFINE r == Tail(s)
<1>1. /\ Len(s) \in Nat \ {0} /\ Head(s) = s[1] /\ Head(s) \in A
      /\ r \in Seq(A) /\ Len(r) = Len(s) - 1 /\ \A i \in 1..Len(r) : r[i] = s[i + 1]
  BY EmptySeq, HeadTailProperties
<1> HIDE DEF r
<1>2. \A x : x \in ToSet(s) <=> x = s[1] \/ x \in ToSet(r)
  <2> SUFFICES ASSUME NEW x PROVE x \in ToSet(s) <=> x = s[1] \/ x \in ToSet(r)
    OBVIOUS
  <2>1. x \in ToSet(s) <=> \E i \in 1..Len(s) : s[i] = x
    BY InList
  <2>2. x \in ToSet(r) <=> \E i \in 1..Len(r) : r[i] = x
    BY <1>1, InList
  <2>3. ASSUME NEW i \in 1..Len(s), s[i] = x PROVE x = s[1] \/ \E j \in 1..Len(r) : r[j] = x
    <3>1. i # 1 => i - 1 \in 1..Len(r) /\ (i - 1) + 1 = i
      BY <1>1
    <3> QED
      BY <1>1, <2>3, <3>1
  <2>4. ASSUME NEW j \in 1..Len(r), r[j] = x PROVE \E i \in 1..Len(s) : s[i] = x
    <3>1. j + 1 \in 1..Len(s)
      BY <1>1
    <3> QED
      BY <1>1, <2>4, <3>1
  <2> QED
    BY <1>1, <2>1, <2>2, <2>3, <2>4
<1>3. ASSUME IsInjective(s) PROVE IsInjective(r) /\ s[1] \notin ToSet(r)
  <2>1. \A i, j \in 1..Len(s) : s[i] = s[j] => i = j
    BY <1>3, InjectiveList
  <2>2. \A i, j \in 1..Len(r) : r[i] = r[j] => i = j
    BY <1>1, <2>1
  <2>3. \A i \in 1..Len(r) : r[i] # s[1]
    BY <1>1, <2>1
  <2> QED
    BY <1>1, <2>2, <2>3, InjectiveList, InList
<1> QED
  BY <1>1, <1>2, <1>3 DEF r

\* Two lists, one after the other.
LEMMA ConcatFacts == ASSUME NEW A, NEW s \in Seq(A), NEW r \in Seq(A)
                     PROVE  /\ s \o r \in Seq(A)
                            /\ ToSet(s \o r) = ToSet(s) \cup ToSet(r)
                            /\ IsInjective(s) /\ IsInjective(r) /\ ToSet(s) \cap ToSet(r) = {}
                                  => IsInjective(s \o r)
<1> DEFINE q == s \o r
<1>1. /\ Len(s) \in Nat /\ Len(r) \in Nat /\ q \in Seq(A) /\ Len(q) = Len(s) + Len(r)
      /\ \A i \in 1..Len(s) + Len(r) : q[i] = IF i <= Len(s) THEN s[i] ELSE r[i - Len(s)]
  BY LenProperties, ConcatProperties
<1> HIDE DEF q
<1>2. \A x : x \in ToSet(q) <=> x \in ToSet(s) \/ x \in ToSet(r)
  <2> SUFFICES ASSUME NEW x PROVE x \in ToSet(q) <=> x \in ToSet(s) \/ x \in ToSet(r)
    OBVIOUS
  <2>1. x \in ToSet(q) <=> \E i \in 1..Len(s) + Len(r) : q[i] = x
    BY <1>1, InList
  <2>2. /\ x \in ToSet(s) <=> \E i \in 1..Len(s) : s[i] = x
        /\ x \in ToSet(r) <=> \E i \in 1..Len(r) : r[i] = x
    BY InList
  <2>3. ASSUME NEW i \in 1..Len(s) + Len(r) PROVE q[i] = x => x \in ToSet(s) \/ x \in ToSet(r)
    BY <1>1, <2>2
  <2>4. ASSUME NEW i \in 1..Len(s) PROVE s[i] = x => x \in ToSet(q)
    BY <1>1, <2>1
  <2>5. ASSUME NEW i \in 1..Len(r) PROVE r[i] = x => x \in ToSet(q)
    <3>1. i + Len(s) \in 1..Len(s) + Len(r) /\ ~(i + Len(s) <= Len(s)) /\ (i + Len(s)) - Len(s) = i
      BY <1>1
    <3> QED
      BY <1>1, <2>1, <3>1
  <2> QED
    BY <2>1, <2>2, <2>3, <2>4, <2>5
<1>3. ASSUME IsInjective(s), IsInjective(r), ToSet(s) \cap ToSet(r) = {} PROVE IsInjective(q)
  <2>1. /\ \A i, j \in 1..Len(s) : s[i] = s[j] => i = j
        /\ \A i, j \in 1..Len(r) : r[i] = r[j] => i = j
    BY <1>3, InjectiveList
  <2>2. \A i \in 1..Len(s), j \in 1..Len(r) : s[i] # r[j]
    BY <1>3, InList
  <2>3. ASSUME NEW i \in 1..Len(s) + Len(r), NEW j \in 1..Len(s) + Len(r), q[i] = q[j]
        PROVE  i = j
    <3>1. /\ i <= Len(s) \/ i - Len(s) \in 1..Len(r)
          /\ j <= Len(s) \/ j - Len(s) \in 1..Len(r)
      BY <1>1
    <3>2. CASE i <= Len(s) /\ j <= Len(s)
      BY <1>1, <2>1, <2>3, <3>2
    <3>3. CASE i <= Len(s) /\ ~(j <= Len(s))
      BY <1>1, <2>2, <2>3, <3>1, <3>3
    <3>4. CASE ~(i <= Len(s)) /\ j <= Len(s)
      <4>1. q[i] = r[i - Len(s)] /\ q[j] = s[j] /\ j \in 1..Len(s)
        BY <1>1, <3>4
      <4> QED
        BY <2>2, <2>3, <3>1, <3>4, <4>1
    <3>5. CASE ~(i <= Len(s)) /\ ~(j <= Len(s))
      <4>1. q[i] = r[i - Len(s)] /\ q[j] = r[j - Len(s)]
        BY <1>1, <3>5
      <4>2. i - Len(s) = j - Len(s)
        BY <2>1, <2>3, <3>1, <3>5, <4>1
      <4> QED
        BY <1>1, <4>2
    <3> QED
      BY <3>2, <3>3, <3>4, <3>5
  <2> QED
    BY <1>1, <2>3, InjectiveList
<1> QED
  BY <1>1, <1>2, <1>3 DEF q

\* A list without repetition is as long as the set of its nodes.
LEMMA LenIsCardinality == ASSUME NEW A, NEW s \in Seq(A), IsInjective(s)
                          PROVE  /\ IsFiniteSet(ToSet(s)) /\ Cardinality(ToSet(s)) = Len(s)
<1>1. Len(s) \in Nat /\ DOMAIN s = 1..Len(s)
  BY LenProperties
<1>2. s \in Bijection(1..Len(s), ToSet(s))
  BY <1>1, LenProperties DEF Bijection, Injection, Surjection, IsInjective, ToSet
<1>3. ExistsBijection(1..Len(s), ToSet(s))
  BY <1>2 DEF ExistsBijection
<1> QED
  BY <1>1, <1>3, FS_CountingElements, FS_NatBijection

\* SetToSeq lists a finite set, each element once.
LEMMA SetToSeqFacts == ASSUME NEW S, IsFiniteSet(S)
                       PROVE  /\ SetToSeq(S) \in Seq(S) /\ IsInjective(SetToSeq(S))
                              /\ ToSet(SetToSeq(S)) = S
<1> DEFINE n == Cardinality(S)
           q == SetToSeq(S)
<1>1. n \in Nat /\ ExistsBijection(1..n, S)
  BY FS_CardinalityType
<1>2. \E f \in [1..n -> S] : IsInjective(f)
  BY <1>1 DEF ExistsBijection, Bijection, Injection, IsInjective
<1>3. q \in [1..n -> S] /\ IsInjective(q)
  BY <1>2 DEF SetToSeq
<1> HIDE DEF q
<1>4. IsFiniteSet(1..n) /\ Cardinality(1..n) = n
  BY <1>1, FS_Interval
<1>5. q \in Injection(1..n, S)
  BY <1>3 DEF Injection
<1>6. q \in Surjection(1..n, S)
  BY <1>4, <1>5, FS_Injection
<1>7. ToSet(q) = S
  BY <1>3, <1>6 DEF Surjection, ToSet
<1>8. q \in Seq(S)
  BY <1>1, <1>3
<1> QED
  BY <1>3, <1>7, <1>8 DEF q

-----------------------------------------------------------------------------
(* Keep, and what follows of a list *)

\* The values that Keep goes through.
Runs(s, S, f) == f[0] = << >> /\ \A i \in 1..Len(s) : f[i] = Step(s, S, f, i)

LEMMA RunsStep ==
    ASSUME NEW s, NEW S, NEW f, Runs(s, S, f), NEW n \in Nat, n = Len(s), NEW i \in 0..n, i < n
    PROVE  f[i + 1] = IF s[i + 1] \in S THEN Append(f[i], s[i + 1]) ELSE f[i]
<1>1. i + 1 \in 1..Len(s) /\ (i + 1) - 1 = i
  OBVIOUS
<1>2. f[i + 1] = Step(s, S, f, i + 1)
  BY <1>1 DEF Runs
<1> QED
  BY <1>1, <1>2 DEF Step

LEMMA RunsExists == ASSUME NEW A, NEW s \in Seq(A), NEW S PROVE \E f : Runs(s, S, f)
<1>1. Len(s) \in Nat
  BY LenProperties
<1>2. PICK f : Kept(s, S, Len(s), f)
  BY <1>1, KeptExists
<1>3. \A i \in 0..Len(s) : f[i] = IF i = 0 THEN << >> ELSE Step(s, S, f, i)
  BY <1>1, <1>2 DEF Kept
<1>4. Runs(s, S, f)
  BY <1>1, <1>3 DEF Runs
<1> QED
  BY <1>4

LEMMA KeepRuns ==
    ASSUME NEW A, NEW s \in Seq(A), NEW S, NEW f, Runs(s, S, f)
    PROVE  Keep(s, S) = f[Len(s)] /\ \A i \in 0..Len(s) : f[i] \in Seq(A)
<1>0. Len(s) \in Nat /\ \A i \in 1..Len(s) : s[i] \in A
  BY LenProperties, ElementOfSeq
<1>1. PICK g : Kept(s, S, Len(s), g) /\ Keep(s, S) = g[Len(s)]
  BY <1>0, KeepBy
<1>2. Runs(s, S, g)
  <2>1. \A i \in 0..Len(s) : g[i] = IF i = 0 THEN << >> ELSE Step(s, S, g, i)
    BY <1>0, <1>1 DEF Kept
  <2> QED
    BY <1>0, <2>1 DEF Runs
<1> DEFINE T == {i \in 0..Len(s) : g[i] = f[i] /\ f[i] \in Seq(A)}
<1>3. 0 \in T
  <2>1. g[0] = << >> /\ f[0] = << >>
    BY <1>2 DEF Runs
  <2>2. << >> \in Seq(A) /\ 0 \in 0..Len(s)
    BY <1>0, EmptySeq
  <2> QED
    BY <2>1, <2>2
<1>4. ASSUME NEW i \in 0..Len(s), i \in T, i < Len(s) PROVE i + 1 \in T
  <2>1. i + 1 \in 0..Len(s) /\ s[i + 1] \in A
    BY <1>0, <1>4
  <2>2. f[i + 1] = IF s[i + 1] \in S THEN Append(f[i], s[i + 1]) ELSE f[i]
    BY <1>0, <1>4, RunsStep
  <2>3. g[i + 1] = IF s[i + 1] \in S THEN Append(g[i], s[i + 1]) ELSE g[i]
    BY <1>0, <1>2, <1>4, RunsStep
  <2>4. g[i] = f[i] /\ f[i] \in Seq(A)
    BY <1>4
  <2>5. Append(f[i], s[i + 1]) \in Seq(A)
    BY <2>1, <2>4, AppendProperties
  <2>6. g[i + 1] = f[i + 1] /\ f[i + 1] \in Seq(A)
    <3>1. CASE s[i + 1] \in S
      BY <2>2, <2>3, <2>4, <2>5, <3>1
    <3>2. CASE s[i + 1] \notin S
      BY <2>2, <2>3, <2>4, <3>2
    <3> QED
      BY <3>1, <3>2
  <2> QED
    BY <2>1, <2>6
<1> HIDE DEF T
<1>5. 0..Len(s) \subseteq T
  BY <1>0, <1>3, <1>4, UpTo
<1>6. \A i \in 0..Len(s) : g[i] = f[i] /\ f[i] \in Seq(A)
  BY <1>5 DEF T
<1>7. Len(s) \in 0..Len(s)
  BY <1>0
<1> QED
  BY <1>1, <1>6, <1>7

Together(A) == \A s, t, u \in Seq(A) : (s \o t) \o u = s \o (t \o u)
AtEnd(A) == \A s, t \in Seq(A), x \in A : Append(s \o t, x) = s \o Append(t, x)

LEMMA Regroups == ASSUME NEW A PROVE Together(A) /\ AtEnd(A)
<1>1. ASSUME NEW s \in Seq(A), NEW t \in Seq(A), NEW u \in Seq(A)
      PROVE  (s \o t) \o u = s \o (t \o u)
  BY ConcatAssociative
<1>2. ASSUME NEW s \in Seq(A), NEW t \in Seq(A), NEW x \in A
      PROVE  Append(s \o t, x) = s \o Append(t, x)
  <2> DEFINE one == <<x>>
  <2>1. one \in Seq(A) /\ s \o t \in Seq(A)
    BY ConcatProperties
  <2>2. Append(s \o t, x) = (s \o t) \o one /\ Append(t, x) = t \o one
    BY <2>1, AppendIsConcat
  <2> HIDE DEF one
  <2>3. (s \o t) \o one = s \o (t \o one)
    BY <1>1, <2>1
  <2> QED
    BY <2>2, <2>3
<1> QED
  BY <1>1, <1>2 DEF Together, AtEnd

\* Keep takes a list piece by piece.
LEMMA KeepConcat ==
    ASSUME NEW A, NEW s \in Seq(A), NEW t \in Seq(A), NEW S
    PROVE  Keep(s \o t, S) = Keep(s, S) \o Keep(t, S)
<1> DEFINE q == s \o t
           m == Len(s)
           n == Len(t)
<1>1. PICK f : Runs(s, S, f)
  BY RunsExists
<1>2. PICK g : Runs(t, S, g)
  BY RunsExists
<1>3. /\ m \in Nat /\ n \in Nat /\ q \in Seq(A) /\ Len(q) = m + n
      /\ \A i \in 1..m + n : q[i] = IF i <= m THEN s[i] ELSE t[i - m]
      /\ \A i \in 1..m : s[i] \in A
      /\ \A i \in 1..n : t[i] \in A
  BY LenProperties, ConcatProperties, ElementOfSeq
<1> DEFINE h == [i \in 0..m + n |-> IF i <= m THEN f[i] ELSE f[m] \o g[i - m]]
<1> HIDE DEF q
<1>4. /\ f[0] = << >> /\ g[0] = << >>
      /\ \A i \in 0..m : f[i] \in Seq(A)
      /\ \A i \in 0..n : g[i] \in Seq(A)
      /\ Keep(s, S) = f[m] /\ Keep(t, S) = g[n]
  BY <1>1, <1>2, KeepRuns DEF Runs
<1>10. f[m] \in Seq(A)
  BY <1>3, <1>4
<1>5. \A i \in 0..m + n : h[i] = IF i <= m THEN f[i] ELSE f[m] \o g[i - m]
  OBVIOUS
<1>6. h[m] = f[m] \o g[0]
  <2>1. h[m] = f[m]
    BY <1>3, <1>5
  <2>2. f[m] \o << >> = f[m]
    BY <1>10, ConcatEmptySeq
  <2> QED
    BY <1>4, <2>1, <2>2
<1> HIDE DEF h
<1>7. ASSUME NEW i \in 1..m + n PROVE h[i] = Step(q, S, h, i)
  <2>1. CASE i <= m
    <3>1. i \in 1..m /\ i - 1 \in 0..m + n /\ i - 1 <= m /\ i \in 0..m + n
      BY <1>3, <2>1
    <3>2. h[i] = f[i] /\ h[i - 1] = f[i - 1]
      BY <1>5, <2>1, <3>1
    <3>3. f[i] = Step(s, S, f, i)
      BY <1>1, <3>1 DEF Runs
    <3>4. q[i] = s[i]
      BY <1>3, <2>1
    <3> QED
      BY <3>2, <3>3, <3>4 DEF Step
  <2>2. CASE ~(i <= m)
    <3> DEFINE k == i - m
    <3>1. /\ k \in 1..n /\ i \in 0..m + n /\ i - 1 \in 0..m + n /\ k - 1 = i - 1 - m /\ k - 1 \in 0..n
          /\ i - 1 <= m => i - 1 = m /\ k - 1 = 0
      BY <1>3, <2>2
    <3>2. h[i] = f[m] \o g[k]
      BY <1>5, <2>2, <3>1
    <3>3. h[i - 1] = f[m] \o g[k - 1]
      <4>1. CASE i - 1 <= m
        BY <1>6, <3>1, <4>1
      <4>2. CASE ~(i - 1 <= m)
        BY <1>5, <3>1, <4>2
      <4> QED
        BY <4>1, <4>2
    <3>4. g[k] = Step(t, S, g, k)
      BY <1>2, <3>1 DEF Runs
    <3>5. q[i] = t[k] /\ t[k] \in A
      BY <1>3, <2>2, <3>1
    <3>6. g[k - 1] \in Seq(A)
      BY <1>4, <3>1
    <3> HIDE DEF k
    <3>7. Append(f[m] \o g[k - 1], t[k]) = f[m] \o Append(g[k - 1], t[k])
      <4>1. AtEnd(A)
        BY Regroups
      <4> QED
        BY <1>10, <3>5, <3>6, <4>1 DEF AtEnd
    <3> QED
      BY <3>2, <3>3, <3>4, <3>5, <3>7 DEF Step
  <2> QED
    BY <2>1, <2>2
<1>8. Runs(q, S, h)
  <2>1. h[0] = f[0]
    BY <1>3, <1>5
  <2> QED
    BY <1>3, <1>4, <1>7, <2>1 DEF Runs
<1>9. h[m + n] = f[m] \o g[n]
  <2>1. CASE n = 0
    <3>1. m + n = m
      BY <1>3, <2>1
    <3> QED
      BY <1>6, <2>1, <3>1
  <2>2. CASE n # 0
    <3>1. m + n \in 0..m + n /\ ~(m + n <= m) /\ (m + n) - m = n
      BY <1>3, <2>2
    <3> QED
      BY <1>5, <3>1
  <2> QED
    BY <2>1, <2>2
<1>11. Keep(q, S) = h[Len(q)]
  BY <1>3, <1>8, KeepRuns
<1> QED
  BY <1>3, <1>4, <1>9, <1>11 DEF q

LEMMA KeepOne == ASSUME NEW x, NEW S
                 PROVE  Keep(<<x>>, S) = IF x \in S THEN <<x>> ELSE << >>
<1> DEFINE s == <<x>>
<1>1. s \in Seq({x}) /\ Len(s) = 1 /\ s[1] = x
  OBVIOUS
<1>2. Append(<< >>, x) = s
  OBVIOUS
<1> HIDE DEF s
<1>3. PICK f : Runs(s, S, f)
  BY <1>1, RunsExists
<1>4. Keep(s, S) = f[1]
  BY <1>1, <1>3, KeepRuns
<1>5. f[0] = << >> /\ f[1] = Step(s, S, f, 1)
  BY <1>1, <1>3 DEF Runs
<1>6. f[1] = IF x \in S THEN Append(<< >>, x) ELSE << >>
  <2>1. f[1 - 1] = << >>
    BY <1>5
  <2> QED
    BY <1>1, <1>5, <2>1 DEF Step
<1> QED
  BY <1>2, <1>4, <1>6 DEF s

\* A list of nodes that are all kept is kept whole.
LEMMA KeepAll == ASSUME NEW S, NEW s \in Seq(S) PROVE Keep(s, S) = s
<1>0. Len(s) \in Nat /\ \A i \in 1..Len(s) : s[i] \in S
  BY LenProperties, ElementOfSeq
<1>1. PICK f : Runs(s, S, f)
  BY RunsExists
<1>2. Keep(s, S) = f[Len(s)] /\ \A i \in 0..Len(s) : f[i] \in Seq(S)
  BY <1>1, KeepRuns
<1> DEFINE Same(i) == Len(f[i]) = i /\ \A j \in 1..i : f[i][j] = s[j]
           T == {i \in 0..Len(s) : Same(i)}
<1>3. 0 \in T
  <2>1. f[0] = << >>
    BY <1>1 DEF Runs
  <2> QED
    BY <1>0, <2>1
<1>4. ASSUME NEW i \in 0..Len(s), i \in T, i < Len(s) PROVE i + 1 \in T
  <2>1. i + 1 \in 0..Len(s) /\ i + 1 \in 1..Len(s) /\ s[i + 1] \in S
    BY <1>0, <1>4
  <2>2. f[i + 1] = Append(f[i], s[i + 1])
    BY <1>0, <1>1, <1>4, <2>1, RunsStep
  <2>3. f[i] \in Seq(S) /\ Len(f[i]) = i /\ \A j \in 1..i : f[i][j] = s[j]
    BY <1>2, <1>4
  <2>4. /\ Len(f[i + 1]) = i + 1 /\ f[i + 1][i + 1] = s[i + 1]
        /\ \A j \in 1..i : f[i + 1][j] = f[i][j]
    BY <2>1, <2>2, <2>3, AppendProperties
  <2>5. \A j \in 1..(i + 1) : j \in 1..i \/ j = i + 1
    OBVIOUS
  <2> QED
    BY <2>1, <2>3, <2>4, <2>5
<1> HIDE DEF T
<1>5. Len(s) \in T
  <2>1. 0..Len(s) \subseteq T
    BY <1>0, <1>3, <1>4, UpTo
  <2> QED
    BY <1>0, <2>1
<1>6. f[Len(s)] \in Seq(S) /\ Len(f[Len(s)]) = Len(s) /\ \A j \in 1..Len(s) : f[Len(s)][j] = s[j]
  BY <1>0, <1>2, <1>5 DEF T
<1>7. f[Len(s)] = s
  BY <1>6, SeqEqual
<1> QED
  BY <1>2, <1>7

-----------------------------------------------------------------------------
(* Lists of lists *)

\* The values that FlattenSeq goes through, from the empty one.
Flows(ss, f) == f[0] = << >> /\ \A i \in 1..Len(ss) : f[i] = f[i - 1] \o ss[i]

Part(ss, n, f) == f[0] = << >> /\ \A i \in 1..n : f[i] = f[i - 1] \o ss[i]

LEMMA FlowsExists == ASSUME NEW ss, Len(ss) \in Nat PROVE \E f : Flows(ss, f)
<1> DEFINE T == {n \in 0..Len(ss) : \E f : Part(ss, n, f)}
<1>1. 0 \in T
  <2>1. Part(ss, 0, [i \in 0..0 |-> << >>])
    BY DEF Part
  <2> QED
    BY <2>1
<1>2. ASSUME NEW n \in 0..Len(ss), n \in T, n < Len(ss) PROVE n + 1 \in T
  <2>1. PICK f : Part(ss, n, f)
    BY <1>2
  <2> DEFINE g == [i \in 0..(n + 1) |-> IF i = n + 1 THEN f[n] \o ss[n + 1] ELSE f[i]]
  <2>2. \A i \in 0..n : g[i] = f[i]
    OBVIOUS
  <2>3. g[n + 1] = f[n] \o ss[n + 1] /\ g[0] = f[0] /\ g[n] = f[n]
    OBVIOUS
  <2> HIDE DEF g
  <2>4. ASSUME NEW i \in 1..(n + 1) PROVE g[i] = g[i - 1] \o ss[i]
    <3>1. CASE i = n + 1
      <4>1. i - 1 = n
        BY <3>1
      <4> QED
        BY <2>3, <3>1, <4>1
    <3>2. CASE i # n + 1
      <4>1. i \in 1..n /\ i \in 0..n /\ i - 1 \in 0..n
        BY <3>2
      <4> QED
        BY <2>1, <2>2, <4>1 DEF Part
    <3> QED
      BY <3>1, <3>2
  <2>5. Part(ss, n + 1, g)
    BY <2>1, <2>3, <2>4 DEF Part
  <2> QED
    BY <1>2, <2>5
<1> HIDE DEF T
<1>3. Len(ss) \in T
  <2>1. 0..Len(ss) \subseteq T
    BY <1>1, <1>2, UpTo
  <2> QED
    BY <2>1
<1> QED
  BY <1>3 DEF T, Flows, Part

\* How FlattenSeq computes.
Flat(ss, n, f) == f = [i \in 1..n |-> IF i = 1 THEN ss[i] ELSE f[i - 1] \o ss[i]]

LEMMA FlattenRuns ==
    ASSUME NEW A, NEW ss \in Seq(Seq(A)), NEW f, Flows(ss, f)
    PROVE  FlattenSeq(ss) = f[Len(ss)] /\ \A i \in 0..Len(ss) : f[i] \in Seq(A)
<1>0. Len(ss) \in Nat /\ \A i \in 1..Len(ss) : ss[i] \in Seq(A)
  BY LenProperties, ElementOfSeq
<1>1. f[0] = << >> /\ \A i \in 1..Len(ss) : f[i] = f[i - 1] \o ss[i]
  BY DEF Flows
<1> DEFINE T == {i \in 0..Len(ss) : f[i] \in Seq(A)}
<1>2. 0 \in T
  <2>1. << >> \in Seq(A) /\ 0 \in 0..Len(ss)
    BY <1>0, EmptySeq
  <2> QED
    BY <1>1, <2>1
<1>3. ASSUME NEW i \in 0..Len(ss), i \in T, i < Len(ss) PROVE i + 1 \in T
  <2>1. i + 1 \in 1..Len(ss) /\ (i + 1) - 1 = i
    BY <1>0, <1>3
  <2>2. f[i + 1] = f[i] \o ss[i + 1] /\ f[i] \in Seq(A) /\ ss[i + 1] \in Seq(A)
    BY <1>0, <1>1, <1>3, <2>1
  <2>3. f[i + 1] \in Seq(A)
    BY <2>2, ConcatProperties
  <2> QED
    BY <1>0, <2>1, <2>3
<1> HIDE DEF T
<1>4. \A i \in 0..Len(ss) : f[i] \in Seq(A)
  <2>1. 0..Len(ss) \subseteq T
    BY <1>0, <1>2, <1>3, UpTo
  <2> QED
    BY <2>1 DEF T
<1>5. CASE Len(ss) = 0
  <2>1. FlattenSeq(ss) = ss
    BY <1>5 DEF FlattenSeq
  <2>2. ss = << >>
    BY <1>5, EmptySeq
  <2> QED
    BY <1>1, <1>4, <1>5, <2>1, <2>2
<1>6. CASE Len(ss) # 0
  <2> DEFINE n == Len(ss)
             g == CHOOSE g : Flat(ss, n, g)
             h == [i \in 1..n |-> f[i]]
  <2>1. FlattenSeq(ss) = g[n]
    BY <1>6 DEF FlattenSeq, Flat
  <2>2. Flat(ss, n, h)
    <3>1. ASSUME NEW i \in 1..n
          PROVE  f[i] = IF i = 1 THEN ss[i] ELSE h[i - 1] \o ss[i]
      <4>1. f[i] = f[i - 1] \o ss[i] /\ ss[i] \in Seq(A)
        BY <1>0, <1>1
      <4>2. CASE i = 1
        <5>1. << >> \o ss[i] = ss[i]
          BY <4>1, ConcatEmptySeq
        <5>2. f[i - 1] = << >>
          BY <1>1, <4>2
        <5> QED
          BY <4>1, <4>2, <5>1, <5>2
      <4>3. CASE i # 1
        <5>1. i - 1 \in 1..n
          BY <1>0, <4>3
        <5>2. h[i - 1] = f[i - 1]
          BY <5>1
        <5> QED
          BY <4>1, <4>3, <5>2
      <4> QED
        BY <4>2, <4>3
    <3> QED
      BY <3>1 DEF Flat
  <2>3. Flat(ss, n, g)
    BY <2>2
  <2> HIDE DEF g, h
  <2>4. \A i \in 1..n : g[i] = IF i = 1 THEN ss[i] ELSE g[i - 1] \o ss[i]
    BY <2>3 DEF Flat
  <2> DEFINE U == {i \in 0..n : i # 0 => g[i] = f[i]}
  <2>5. 0 \in U
    BY <1>0
  <2>6. ASSUME NEW i \in 0..n, i \in U, i < n PROVE i + 1 \in U
    <3>1. i + 1 \in 1..n /\ (i + 1) - 1 = i /\ i + 1 \in 0..n
      <4> HIDE DEF U
      <4> QED
        BY <1>0, <2>6
    <3>2. ss[i + 1] \in Seq(A) /\ f[i + 1] = f[i] \o ss[i + 1]
      BY <1>0, <1>1, <3>1
    <3>3. CASE i = 0
      <4>1. g[1] = ss[1]
        BY <2>4, <3>1, <3>3
      <4>2. << >> \o ss[1] = ss[1]
        BY <3>2, <3>3, ConcatEmptySeq
      <4>3. i + 1 = 1
        BY <3>3
      <4>4. g[i + 1] = f[i + 1]
        BY <1>1, <3>2, <3>3, <4>1, <4>2, <4>3
      <4> QED
        BY <3>1, <4>4
    <3>4. CASE i # 0
      <4>1. g[i + 1] = g[i] \o ss[i + 1]
        <5>1. i + 1 # 1
          BY <3>4
        <5> QED
          BY <2>4, <3>1, <5>1
      <4>2. g[i] = f[i]
        BY <2>6, <3>4
      <4> QED
        BY <3>1, <3>2, <4>1, <4>2
    <3> QED
      BY <3>3, <3>4
  <2> HIDE DEF U
  <2>7. n \in U
    <3>1. 0..n \subseteq U
      BY <1>0, <2>5, <2>6, UpTo
    <3> QED
      BY <1>0, <3>1
  <2>8. g[n] = f[n]
    BY <1>6, <2>7 DEF U
  <2> QED
    BY <1>4, <2>1, <2>8
<1> QED
  BY <1>5, <1>6

LEMMA FlattenAppend ==
    ASSUME NEW A, NEW ss \in Seq(Seq(A)), NEW s \in Seq(A)
    PROVE  FlattenSeq(Append(ss, s)) = FlattenSeq(ss) \o s /\ FlattenSeq(ss) \in Seq(A)
<1> DEFINE tt == Append(ss, s)
<1>1. /\ tt \in Seq(Seq(A)) /\ Len(ss) \in Nat /\ Len(tt) = Len(ss) + 1
      /\ \A i \in 1..Len(ss) : tt[i] = ss[i]
      /\ tt[Len(ss) + 1] = s
  BY AppendProperties, LenProperties
<1> HIDE DEF tt
<1>2. PICK f : Flows(tt, f)
  BY <1>1, FlowsExists
<1>3. Flows(ss, f)
  <2>1. \A i \in 1..Len(ss) : i \in 1..Len(tt)
    BY <1>1
  <2> QED
    BY <1>1, <1>2, <2>1 DEF Flows
<1>4. FlattenSeq(tt) = f[Len(tt)]
  BY <1>1, <1>2, FlattenRuns
<1>5. FlattenSeq(ss) = f[Len(ss)] /\ f[Len(ss)] \in Seq(A)
  <2>1. Len(ss) \in 0..Len(ss)
    BY <1>1
  <2> QED
    BY <1>3, <2>1, FlattenRuns
<1>6. f[Len(ss) + 1] = f[Len(ss)] \o s
  <2>1. Len(ss) + 1 \in 1..Len(tt) /\ (Len(ss) + 1) - 1 = Len(ss)
    BY <1>1
  <2> QED
    BY <1>1, <1>2, <2>1 DEF Flows
<1> QED
  BY <1>1, <1>4, <1>5, <1>6 DEF tt

LEMMA FlattenTail ==
    ASSUME NEW A, NEW ss \in Seq(Seq(A)), ss # << >>
    PROVE  FlattenSeq(ss) = Head(ss) \o FlattenSeq(Tail(ss))
<1> DEFINE tt == Tail(ss)
           h == Head(ss)
<1>1. /\ tt \in Seq(Seq(A)) /\ h \in Seq(A) /\ Len(ss) \in Nat \ {0} /\ Len(tt) = Len(ss) - 1
      /\ \A i \in 1..Len(tt) : tt[i] = ss[i + 1]
      /\ h = ss[1] /\ Len(tt) \in Nat
  BY HeadTailProperties, EmptySeq, LenProperties
<1> HIDE DEF tt, h
<1>2. PICK f : Flows(tt, f)
  BY <1>1, FlowsExists
<1>3. /\ FlattenSeq(tt) = f[Len(tt)] /\ f[0] = << >>
      /\ \A i \in 0..Len(tt) : f[i] \in Seq(A)
  BY <1>1, <1>2, FlattenRuns DEF Flows
<1> DEFINE g == [i \in 0..Len(ss) |-> IF i = 0 THEN << >> ELSE h \o f[i - 1]]
<1>4. /\ g[0] = << >>
      /\ \A i \in 1..Len(ss) : g[i] = h \o f[i - 1]
  <2>1. 0 \in 0..Len(ss) /\ \A i \in 1..Len(ss) : i \in 0..Len(ss) /\ i # 0
    BY <1>1
  <2> QED
    BY <2>1
<1> HIDE DEF g
<1>5. ASSUME NEW i \in 1..Len(ss) PROVE g[i] = g[i - 1] \o ss[i]
  <2>1. CASE i = 1
    <3>1. h \o << >> = h /\ << >> \o h = h
      BY <1>1, ConcatEmptySeq
    <3>2. g[i] = h \o f[0] /\ g[i - 1] = << >>
      BY <1>4, <2>1
    <3> QED
      BY <1>1, <1>3, <2>1, <3>1, <3>2
  <2>2. CASE i # 1
    <3> DEFINE k == i - 1
    <3>1. /\ k \in 1..Len(tt) /\ k \in 1..Len(ss) /\ k - 1 \in 0..Len(tt) /\ k + 1 = i
      BY <1>1, <2>2
    <3> HIDE DEF k
    <3>2. g[i] = h \o f[k] /\ g[k] = h \o f[k - 1]
      BY <1>4, <3>1 DEF k
    <3>3. f[k] = f[k - 1] \o tt[k] /\ tt[k] = ss[i]
      BY <1>1, <1>2, <3>1 DEF Flows
    <3>4. f[k - 1] \in Seq(A) /\ tt[k] \in Seq(A)
      BY <1>1, <1>3, <3>1, ElementOfSeq
    <3>5. (h \o f[k - 1]) \o tt[k] = h \o (f[k - 1] \o tt[k])
      <4>1. Together(A)
        BY Regroups
      <4> QED
        BY <1>1, <3>4, <4>1 DEF Together
    <3> QED
      BY <3>2, <3>3, <3>5 DEF k
  <2> QED
    BY <2>1, <2>2
<1>6. Flows(ss, g)
  BY <1>4, <1>5 DEF Flows
<1>7. FlattenSeq(ss) = g[Len(ss)]
  BY <1>6, FlattenRuns
<1>8. g[Len(ss)] = h \o f[Len(tt)]
  <2>1. Len(ss) \in 1..Len(ss) /\ Len(ss) - 1 = Len(tt)
    BY <1>1
  <2> QED
    BY <1>4, <2>1
<1> QED
  BY <1>3, <1>7, <1>8 DEF h, tt
=============================================================================
