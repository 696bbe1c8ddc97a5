-------------------------- MODULE SelectionProofs --------------------------
(***************************************************************************)
(* Facts about finite sets of numbers and what is picked from a sequence.  *)
(***************************************************************************)
EXTENDS Selection, FiniteSetsExt, FiniteSetTheorems, SequenceTheorems, WellFoundedInduction, TLAPS

(***************************************************************************)
(* The least and the greatest number of a set.                             *)
(***************************************************************************)
(* Every set of natural numbers that has a member has a least one.         *)
LEMMA LeastNumber ==
  ASSUME NEW T \in SUBSET Nat, T # {}
  PROVE  \E m \in T : \A k \in T : m <= k
<1> DEFINE R == OpToRel(<, Nat)
<1>1. IsWellFoundedOn(R, Nat)
  BY NatLessThanWellFounded
<1>2. \A x \in T, y \in T : <<x, y>> \in R <=> x < y
  BY DEF OpToRel
<1> HIDE DEF R
<1>3. PICK m \in T : \A k \in T : ~ (<<k, m>> \in R)
  BY <1>1, WFMin
<1>4. ASSUME NEW k \in T PROVE m <= k
  <2>1. k \in Nat /\ m \in Nat
    OBVIOUS
  <2>2. ~(k < m)
    BY <1>2, <1>3
  <2> QED BY <2>1, <2>2
<1> QED BY <1>4

(* ... and if it is bounded a greatest one.                                *)
LEMMA GreatestNumber ==
  ASSUME NEW N \in Nat, NEW T \in SUBSET (0 .. N), T # {}
  PROVE  \E m \in T : \A k \in T : k <= m
<1> DEFINE U == {N - k : k \in T}
<1>1. U \in SUBSET Nat /\ U # {}
  <2>1. \A k \in T : k \in 0 .. N
    OBVIOUS
  <2>2. \A k \in T : N - k \in Nat
    BY <2>1
  <2> QED BY <2>2
<1>2. PICK u \in U : \A v \in U : u <= v
  BY <1>1, LeastNumber
<1>3. PICK m \in T : u = N - m
  BY <1>2
<1>4. ASSUME NEW k \in T PROVE k <= m
  <2>1. u <= N - k
    BY <1>2
  <2> QED BY <1>3, <2>1
<1> QED BY <1>4

(* The maximum of such a set is a member, and none is greater.             *)
LEMMA MaxIsGreatest ==
  ASSUME NEW N \in Nat, NEW T \in SUBSET (0 .. N), T # {}
  PROVE  Max(T) \in T /\ \A k \in T : k <= Max(T)
<1>1. PICK m \in T : \A k \in T : k <= m
  BY GreatestNumber
<1>2. \A k \in T : m >= k
  BY <1>1
<1>3. Max(T) \in T /\ \A k \in T : Max(T) >= k
  BY <1>2 DEF Max
<1>4. \A k \in T : k \in Nat
  OBVIOUS
<1> QED BY <1>3, <1>4

(***************************************************************************)
(* The numbers of a finite set in order.                                   *)
(***************************************************************************)
(* The rank of a member is a number up to the size of the set, and grows.  *)
LEMMA Ranks ==
  ASSUME NEW S \in SUBSET Nat, IsFiniteSet(S)
  PROVE  /\ Cardinality(S) \in Nat
         /\ \A i \in S : Cardinality(UpTo(S, i)) \in 1 .. Cardinality(S)
         /\ \A i \in S, k \in S : i < k => Cardinality(UpTo(S, i)) < Cardinality(UpTo(S, k))
<1>1. Cardinality(S) \in Nat
  BY FS_CardinalityType
<1>2. ASSUME NEW i \in S
      PROVE  /\ IsFiniteSet(UpTo(S, i)) /\ Cardinality(UpTo(S, i)) \in Nat
             /\ Cardinality(UpTo(S, i)) <= Cardinality(S) /\ Cardinality(UpTo(S, i)) >= 1
  <2>1. UpTo(S, i) \in SUBSET S /\ i \in UpTo(S, i)
    BY DEF UpTo
  <2>2. IsFiniteSet(UpTo(S, i)) /\ Cardinality(UpTo(S, i)) <= Cardinality(S)
    BY <2>1, FS_Subset
  <2>3. Cardinality(UpTo(S, i)) \in Nat /\ Cardinality(UpTo(S, i)) # 0
    BY <2>1, <2>2, FS_CardinalityType, FS_EmptySet
  <2> QED BY <2>2, <2>3
<1>3. ASSUME NEW i \in S, NEW k \in S, i < k
      PROVE  Cardinality(UpTo(S, i)) < Cardinality(UpTo(S, k))
  <2>1. UpTo(S, i) \in SUBSET UpTo(S, k) /\ k \in UpTo(S, k) /\ k \notin UpTo(S, i)
    <3>1. i \in Nat /\ k \in Nat /\ ~(k <= i)
      BY <1>3
    <3>2. \A j \in S : j <= i => j <= k
      BY <1>3
    <3>3. k <= k
      BY <3>1
    <3>4. UpTo(S, i) \subseteq UpTo(S, k)
      BY <3>2 DEF UpTo
    <3>5. k \in UpTo(S, k) /\ k \notin UpTo(S, i)
      BY <3>1, <3>3 DEF UpTo
    <3> QED BY <3>4, <3>5
  <2>2. /\ Cardinality(UpTo(S, i)) <= Cardinality(UpTo(S, k))
        /\ Cardinality(UpTo(S, i)) # Cardinality(UpTo(S, k))
    BY <1>2, <2>1, FS_Subset
  <2> QED BY <1>2, <2>2
<1> QED BY <1>1, <1>2, <1>3

(* Every number up to the size of the set is the rank of exactly one.      *)
LEMMA RankOfOne ==
  ASSUME NEW S \in SUBSET Nat, IsFiniteSet(S), NEW n \in 1 .. Cardinality(S)
  PROVE  /\ Ascending(S)[n] \in S /\ Cardinality(UpTo(S, Ascending(S)[n])) = n
         /\ \A i \in S : Cardinality(UpTo(S, i)) = n => i = Ascending(S)[n]
<1> DEFINE N == Cardinality(S)
           rank == [i \in S |-> Cardinality(UpTo(S, i))]
<1>1. N \in Nat /\ rank \in [S -> 1 .. N] /\ \A i \in S, k \in S : i < k => rank[i] < rank[k]
  BY Ranks
<1>2. \A i \in S : rank[i] = Cardinality(UpTo(S, i))
  OBVIOUS
<1>3. IsFiniteSet(1 .. N) /\ Cardinality(1 .. N) = N
  BY <1>1, FS_Interval
<1> HIDE DEF rank, N
<1>4. \A i \in S, k \in S : rank[i] = rank[k] => i = k
  <2> SUFFICES ASSUME NEW i \in S, NEW k \in S, i # k PROVE rank[i] # rank[k]
    OBVIOUS
  <2>1. i < k \/ k < i
    OBVIOUS
  <2>2. rank[i] \in Nat /\ rank[k] \in Nat
    BY <1>1
  <2> QED BY <1>1, <2>1, <2>2
<1>5. rank \in Injection(S, 1 .. N)
  BY <1>1, <1>4 DEF Injection, IsInjective
<1>6. rank \in Surjection(S, 1 .. N)
  BY <1>3, <1>5, FS_Injection DEF N
<1>7. \E i \in S : Cardinality(UpTo(S, i)) = n
  BY <1>2, <1>6 DEF Surjection, N
<1>8. Ascending(S)[n] = CHOOSE i \in S : Cardinality(UpTo(S, i)) = n
  BY DEF Ascending
<1>9. Ascending(S)[n] \in S /\ Cardinality(UpTo(S, Ascending(S)[n])) = n
  BY <1>7, <1>8
<1> QED BY <1>2, <1>4, <1>9

(* Ascending lists the members, each once, in order.                       *)
LEMMA AscendingLists ==
  ASSUME NEW S \in SUBSET Nat, IsFiniteSet(S)
  PROVE  /\ Cardinality(S) \in Nat
         /\ Ascending(S) \in Seq(S) /\ Len(Ascending(S)) = Cardinality(S)
         /\ \A n \in 1 .. Cardinality(S) : Ascending(S)[n] \in S
         /\ \A i \in S : \E n \in 1 .. Cardinality(S) : Ascending(S)[n] = i
<1>1. Cardinality(S) \in Nat
  BY Ranks
<1>2. \A n \in 1 .. Cardinality(S) : Ascending(S)[n] \in S
  BY RankOfOne
<1>3. Ascending(S) \in [1 .. Cardinality(S) -> S]
  BY <1>2 DEF Ascending
<1>4. Ascending(S) \in Seq(S)
  BY <1>1, <1>3, SeqDef
<1>5. DOMAIN Ascending(S) = 1 .. Cardinality(S)
  BY DEF Ascending
<1>6. Len(Ascending(S)) = Cardinality(S)
  BY <1>1, <1>4, <1>5, LenProperties
<1>7. ASSUME NEW i \in S PROVE \E n \in 1 .. Cardinality(S) : Ascending(S)[n] = i
  <2>1. Cardinality(UpTo(S, i)) \in 1 .. Cardinality(S)
    BY Ranks
  <2>2. i = Ascending(S)[Cardinality(UpTo(S, i))]
    BY <2>1, RankOfOne
  <2> QED BY <2>1, <2>2
<1> QED BY <1>1, <1>2, <1>4, <1>6, <1>7

(* Places in a sequence are finitely many.                                 *)
LEMMA Places ==
  ASSUME NEW N \in Nat, NEW P \in SUBSET (1 .. N)
  PROVE  P \in SUBSET Nat /\ IsFiniteSet(P)
<1>1. IsFiniteSet(1 .. N)
  BY FS_Interval
<1>2. IsFiniteSet(P)
  BY <1>1, FS_Subset
<1> QED BY <1>2

(* No places, no list.                                                     *)
LEMMA NothingAscends == Ascending({}) = <<>> /\ \A s : Picked(s, {}) = <<>>
<1>1. Cardinality({}) = 0
  BY FS_EmptySet
<1> QED BY <1>1 DEF Ascending, Picked

(* What is picked from a sequence is a sequence of its elements at the     *)
(* places, and has all of them.                                            *)
LEMMA PickedLists ==
  ASSUME NEW T, NEW s \in Seq(T), NEW P \in SUBSET (1 .. Len(s))
  PROVE  /\ Cardinality(P) \in Nat
         /\ Picked(s, P) \in Seq(T) /\ Len(Picked(s, P)) = Cardinality(P)
         /\ \A n \in 1 .. Cardinality(P) :
              Ascending(P)[n] \in P /\ Picked(s, P)[n] = s[Ascending(P)[n]]
         /\ \A i \in P : \E n \in 1 .. Cardinality(P) : Picked(s, P)[n] = s[i]
<1>1. Len(s) \in Nat /\ \A i \in 1 .. Len(s) : s[i] \in T
  BY LenProperties, ElementOfSeq
<1>2. /\ Cardinality(P) \in Nat
      /\ \A n \in 1 .. Cardinality(P) : Ascending(P)[n] \in P
      /\ \A i \in P : \E n \in 1 .. Cardinality(P) : Ascending(P)[n] = i
  BY <1>1, Places, AscendingLists
<1>3. \A n \in 1 .. Cardinality(P) : Picked(s, P)[n] = s[Ascending(P)[n]]
  BY DEF Picked
<1>4. Picked(s, P) \in [1 .. Cardinality(P) -> T]
  <2>1. \A n \in 1 .. Cardinality(P) : s[Ascending(P)[n]] \in T
    BY <1>1, <1>2
  <2> QED BY <2>1 DEF Picked
<1>5. Picked(s, P) \in Seq(T)
  BY <1>2, <1>4, SeqDef
<1>6. DOMAIN Picked(s, P) = 1 .. Cardinality(P)
  BY DEF Picked
<1>7. Len(Picked(s, P)) = Cardinality(P)
  BY <1>2, <1>5, <1>6, LenProperties
<1> QED BY <1>2, <1>3, <1>5, <1>7

(* A number greater than all others comes last.                            *)
LEMMA AscendingExtended ==
  ASSUME NEW S \in SUBSET Nat, IsFiniteSet(S), NEW k \in Nat, \A i \in S : i < k
  PROVE  Ascending(S \cup {k}) = Append(Ascending(S), k)
<1> DEFINE N == Cardinality(S)
           U == S \cup {k}
<1>1. k \notin S /\ U \in SUBSET Nat
  <2>1. ~(k < k)
    OBVIOUS
  <2> QED BY <2>1
<1>2. N \in Nat /\ IsFiniteSet(U) /\ Cardinality(U) = N + 1
  BY <1>1, FS_AddElement, Ranks
<1>3. \A i \in S : UpTo(U, i) = UpTo(S, i)
  <2> SUFFICES ASSUME NEW i \in S, NEW j PROVE j \in UpTo(U, i) <=> j \in UpTo(S, i)
    OBVIOUS
  <2>1. ~(k <= i) /\ i \in Nat
    OBVIOUS
  <2> QED BY <2>1 DEF UpTo
<1>4. UpTo(U, k) = U
  <2>1. \A i \in U : i <= k
    OBVIOUS
  <2> QED BY <2>1 DEF UpTo
<1>5. /\ Ascending(U) \in Seq(U) /\ Len(Ascending(U)) = N + 1
      /\ Ascending(S) \in Seq(S) /\ Len(Ascending(S)) = N
  BY <1>1, <1>2, AscendingLists
<1>6. \A n \in 1 .. N : Ascending(U)[n] = Ascending(S)[n]
  <2> SUFFICES ASSUME NEW n \in 1 .. N PROVE Ascending(U)[n] = Ascending(S)[n]
    OBVIOUS
  <2>1. Ascending(S)[n] \in S /\ Cardinality(UpTo(S, Ascending(S)[n])) = n
    BY RankOfOne
  <2>2. Ascending(S)[n] \in U /\ Cardinality(UpTo(U, Ascending(S)[n])) = n
    BY <1>3, <2>1
  <2>3. n \in 1 .. Cardinality(U)
    BY <1>2
  <2> HIDE DEF U, N
  <2>4. \A i \in U : Cardinality(UpTo(U, i)) = n => i = Ascending(U)[n]
    BY <1>1, <1>2, <2>3, RankOfOne
  <2> QED BY <2>2, <2>4
<1>7. Ascending(U)[N + 1] = k
  <2>1. k \in U /\ Cardinality(UpTo(U, k)) = N + 1 /\ N + 1 \in 1 .. Cardinality(U)
    BY <1>2, <1>4
  <2> HIDE DEF U, N
  <2> QED BY <1>1, <1>2, <2>1, RankOfOne
<1> HIDE DEF U, N
<1>8. /\ Ascending(S) \in Seq(U) /\ k \in U
  BY <1>5, SeqMonotonic DEF U
<1>9. /\ Append(Ascending(S), k) \in Seq(U) /\ Len(Append(Ascending(S), k)) = N + 1
      /\ \A n \in 1 .. N : Append(Ascending(S), k)[n] = Ascending(S)[n]
      /\ Append(Ascending(S), k)[N + 1] = k
  BY <1>5, <1>8, AppendProperties
<1>10. \A n \in 1 .. N + 1 : Ascending(U)[n] = Append(Ascending(S), k)[n]
  BY <1>2, <1>6, <1>7, <1>9
<1>11. Ascending(U) = Append(Ascending(S), k)
  BY <1>5, <1>9, <1>10, SeqEqual
<1> QED BY <1>11 DEF U

(* One more place behind the others picks one more element.                *)
LEMMA PickedExtended ==
  ASSUME NEW T, NEW s \in Seq(T), NEW P \in SUBSET (1 .. Len(s)),
         NEW k \in 1 .. Len(s), \A i \in P : i < k
  PROVE  Picked(s, P \cup {k}) = Append(Picked(s, P), s[k])
<1> DEFINE N == Cardinality(P)
           Q == P \cup {k}
<1>1. Len(s) \in Nat
  BY LenProperties
<1>2. P \in SUBSET Nat /\ IsFiniteSet(P) /\ k \in Nat /\ Q \in SUBSET (1 .. Len(s))
  BY <1>1, Places
<1>3. Ascending(Q) = Append(Ascending(P), k)
  BY <1>2, AscendingExtended
<1>4. N \in Nat /\ Ascending(P) \in Seq(P) /\ Len(Ascending(P)) = N
  BY <1>2, AscendingLists
<1>5. Cardinality(Q) = N + 1
  <2>1. k \notin P
    <3>1. ~(k < k)
      BY <1>2
    <3> QED BY <3>1
  <2> QED BY <1>2, <2>1, FS_AddElement
<1>6. /\ Picked(s, Q) \in Seq(T) /\ Len(Picked(s, Q)) = N + 1
      /\ \A n \in 1 .. N + 1 : Picked(s, Q)[n] = s[Ascending(Q)[n]]
  <2> HIDE DEF Q
  <2> QED BY <1>2, <1>5, PickedLists
<1>7. /\ Picked(s, P) \in Seq(T) /\ Len(Picked(s, P)) = N
      /\ \A n \in 1 .. N : Picked(s, P)[n] = s[Ascending(P)[n]]
  BY PickedLists
<1>8. s[k] \in T
  BY ElementOfSeq
<1> DEFINE more == Append(Picked(s, P), s[k])
<1>9. /\ \A n \in 1 .. N : Append(Ascending(P), k)[n] = Ascending(P)[n]
      /\ Append(Ascending(P), k)[N + 1] = k
  BY <1>2, <1>4
<1>10. /\ more \in Seq(T) /\ Len(more) = N + 1
       /\ \A n \in 1 .. N : more[n] = Picked(s, P)[n]
       /\ more[N + 1] = s[k]
  BY <1>4, <1>7, <1>8
<1> HIDE DEF N, Q, more
<1>11. ASSUME NEW n \in 1 .. N + 1 PROVE Picked(s, Q)[n] = more[n]
  <2>1. Picked(s, Q)[n] = s[Append(Ascending(P), k)[n]]
    BY <1>3, <1>6
  <2>2. n \in 1 .. N \/ n = N + 1
    BY <1>4
  <2>3. CASE n \in 1 .. N
    BY <1>7, <1>9, <1>10, <2>1, <2>3
  <2>4. CASE n = N + 1
    BY <1>9, <1>10, <2>1, <2>4
  <2> QED BY <2>2, <2>3, <2>4
<1>12. Picked(s, Q) = more
  BY <1>6, <1>10, <1>11, SeqEqual
<1> QED BY <1>12 DEF Q, more
=============================================================================
