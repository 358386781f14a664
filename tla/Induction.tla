------------------------------- MODULE Induction -------------------------------
(***************************************************************************)
(* Induction on the natural numbers, stated about sets and functions: the  *)
(* predicate is the set of numbers that have it, so that the lemmas can be *)
(* used with any formula.  The proofs about the recursive functions of     *)
(* IRCServer and about the smallest slot of PollLoop rest on them.         *)
(***************************************************************************)
EXTENDS Integers, Sequences, FiniteSetTheorems, TLAPS

(* Every set of natural numbers that is not empty has a least element.     *)
(* Among the initial segments 0..m with m in S one is minimal for strict   *)
(* inclusion, and its end is the least element of S.                       *)
LEMMA LeastExists ==
    ASSUME NEW S \in SUBSET Nat, S # {}
    PROVE  \E m \in S : \A k \in S : m <= k
<1> DEFINE segments == {0..m : m \in S}
<1>1. segments \subseteq FiniteSubsetsOf(Nat) /\ segments # {}
  <2>1. \A m \in S : IsFiniteSet(0..m) /\ 0..m \subseteq Nat
    BY FS_Interval
  <2> QED BY <2>1 DEF FiniteSubsetsOf
<1>2. IsWellFoundedOn(StrictSubsetOrdering(Nat), FiniteSubsetsOf(Nat))
  BY FS_StrictSubsetOrderingWellFounded
<1>3. PICK x \in segments : \A y \in segments : <<y, x>> \notin StrictSubsetOrdering(Nat)
  <2> HIDE DEF segments
  <2> QED BY <1>1, <1>2, WFMin
<1>4. PICK m \in S : x = 0..m
  OBVIOUS
<1>5. ASSUME NEW k \in S, ~ (m <= k)
      PROVE  FALSE
  <2>1. m \in Nat /\ k \in Nat /\ k < m
    BY <1>5
  <2>2. 0..k \subseteq 0..m /\ m \in 0..m /\ m \notin 0..k
    BY <2>1
  <2>3. 0..k \in SUBSET Nat /\ 0..m \in SUBSET Nat
    BY <2>1
  <2>4. <<0..k, 0..m>> \in StrictSubsetOrdering(Nat)
    BY <2>2, <2>3 DEF StrictSubsetOrdering
  <2> QED BY <1>3, <1>4, <2>4
<1> QED BY <1>5

(* A set with 0 in it that is closed under the successor, up to n.         *)
LEMMA Induction ==
    ASSUME NEW n \in Nat, NEW S, 0 \in S, \A k \in 1..n : k - 1 \in S => k \in S
    PROVE  0..n \subseteq S
<1> DEFINE missing == {k \in 0..n : k \notin S}
<1> SUFFICES ASSUME missing # {} PROVE FALSE
  OBVIOUS
<1>1. missing \in SUBSET Nat
  OBVIOUS
<1>2. PICK m \in missing : \A k \in missing : m <= k
  <2> HIDE DEF missing
  <2> QED BY <1>1, LeastExists
<1>3. m \in 0..n /\ m \notin S /\ m # 0
  BY <1>2
<1>4. m \in 1..n /\ m - 1 \in 0..n /\ ~ (m <= m - 1)
  BY <1>3
<1>5. m - 1 \in S
  BY <1>2, <1>4
<1> QED BY <1>3, <1>4, <1>5

(* A function on 0..n may be defined by its value at 0 and a step from     *)
(* each value to the next.                                                 *)
Follows(g, n, base, step) ==
    g[0] = base /\ \A k \in 1..n : g[k] = step[k][g[k - 1]]

LEMMA Recursion ==
    ASSUME NEW n \in Nat, NEW T, NEW base \in T, NEW step \in [1..n -> [T -> T]]
    PROVE  \E g \in [0..n -> T] : Follows(g, n, base, step)
<1> DEFINE partly(m) == \E g \in [0..m -> T] : Follows(g, m, base, step)
           S == {m \in 0..n : partly(m)}
<1>1. 0 \in S
  <2> DEFINE g == [k \in 0..0 |-> base]
  <2>1. g \in [0..0 -> T] /\ g[0] = base /\ 1..0 = {}
    OBVIOUS
  <2> HIDE DEF g
  <2>2. partly(0)
    BY <2>1 DEF Follows
  <2> QED BY <2>2
<1>2. ASSUME NEW m \in 1..n, m - 1 \in S
      PROVE  m \in S
  <2>1. PICK g \in [0..m - 1 -> T] :
           /\ g[0] = base
           /\ \A k \in 1..m - 1 : g[k] = step[k][g[k - 1]]
    BY <1>2 DEF Follows
  <2> DEFINE h == [k \in 0..m |-> IF k = m THEN step[m][g[m - 1]] ELSE g[k]]
  <2>2. step[m][g[m - 1]] \in T /\ m - 1 \in 0..m - 1
    <3>1. m - 1 \in 0..m - 1 /\ m \in 1..n
      BY <1>2
    <3> QED BY <2>1, <3>1
  <2>3. \A k \in 0..m : k # m => k \in 0..m - 1
    BY <1>2
  <2>4. h \in [0..m -> T]
    BY <2>1, <2>2, <2>3
  <2>5. h[0] = base
    BY <1>2, <2>1
  <2>6. ASSUME NEW k \in 1..m
        PROVE  h[k] = step[k][h[k - 1]]
    <3>1. k - 1 \in 0..m /\ k \in 0..m /\ k - 1 # m
      BY <1>2
    <3>2. h[k - 1] = g[k - 1]
      BY <3>1
    <3>3. CASE k = m
      BY <3>1, <3>2, <3>3
    <3>4. CASE k # m
      <4>1. k \in 1..m - 1
        BY <1>2, <3>4
      <4> QED BY <2>1, <3>1, <3>2, <3>4, <4>1
    <3> QED BY <3>3, <3>4
  <2> HIDE DEF h
  <2>7. partly(m)
    BY <2>4, <2>5, <2>6 DEF Follows
  <2> HIDE DEF partly
  <2>8. m \in 0..n
    BY <1>2
  <2> QED BY <2>7, <2>8
<1> HIDE DEF S
<1>3. 0..n \subseteq S
  BY <1>1, <1>2, Induction
<1>4. n \in S
  BY <1>3
<1>5. partly(n)
  <2> HIDE DEF partly
  <2> QED BY <1>4 DEF S
<1> QED BY <1>5

(* A set of sequences that has the empty one and is closed under Append    *)
(* has them all.                                                           *)
LEMMA SequenceInduction ==
    ASSUME NEW C, NEW T, <<>> \in T,
           \A s \in Seq(C) : \A x \in C : s \in T => Append(s, x) \in T
    PROVE  Seq(C) \subseteq T
<1> SUFFICES ASSUME NEW t \in Seq(C) PROVE t \in T
  OBVIOUS
<1> DEFINE n == Len(t)
           S == {k \in 0..n : SubSeq(t, 1, k) \in T}
<1>1. n \in Nat
  OBVIOUS
<1>2. 0 \in S
  <2>1. SubSeq(t, 1, 0) = <<>>
    OBVIOUS
  <2>2. SubSeq(t, 1, 0) \in T
    BY <2>1, Zenon
  <2>3. 0 \in 0..n
    BY <1>1
  <2> QED BY <2>2, <2>3
<1>3. ASSUME NEW k \in 1..n, k - 1 \in S
      PROVE  k \in S
  <2>1. SubSeq(t, 1, k - 1) \in Seq(C) /\ t[k] \in C
    BY <1>1
  <2>2. SubSeq(t, 1, k) = Append(SubSeq(t, 1, k - 1), t[k])
    BY <1>1
  <2>3. SubSeq(t, 1, k) \in T
    BY <1>3, <2>1, <2>2
  <2> QED BY <1>1, <2>3
<1> HIDE DEF S
<1>4. 0..n \subseteq S
  BY <1>1, <1>2, <1>3, Induction
<1>5. SubSeq(t, 1, n) = t
  OBVIOUS
<1> HIDE DEF n
<1>6. n \in S
  BY <1>1, <1>4
<1>7. SubSeq(t, 1, n) \in T
  BY <1>6 DEF S
<1> QED BY <1>5, <1>7
==============================================================================
