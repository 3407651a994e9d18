---------------------------- MODULE QueueLemmas -----------------------------
(***************************************************************************)
(* The elements of a std::deque or std::queue, modelled as a sequence,     *)
(* after push_back and pop_front, and of a std::vector after erase.        *)
(***************************************************************************)
EXTENDS Integers, Sequences, FiniteSetTheorems, WellFoundedInduction, Vector, TLAPS

(* push_back adds its argument to the elements. *)
LEMMA AppendElements ==
  ASSUME NEW S, NEW s \in Seq(S), NEW e \in S
  PROVE  LET t == Append(s, e)
         IN  /\ t \in Seq(S)
             /\ Len(t) = Len(s) + 1
             /\ {t[i] : i \in DOMAIN t} = {s[i] : i \in DOMAIN s} \cup {e}
<1> DEFINE t == Append(s, e)
<1>1. /\ t \in Seq(S)
      /\ Len(t) = Len(s) + 1
      /\ DOMAIN t = 1..(Len(s) + 1)
      /\ DOMAIN s = 1..Len(s)
      /\ Len(s) \in Nat
      /\ \A i \in 1..Len(s) : t[i] = s[i]
      /\ t[Len(s) + 1] = e
  OBVIOUS
<1>2. {t[i] : i \in DOMAIN t} \subseteq {s[i] : i \in DOMAIN s} \cup {e}
  <2>1. \A i \in 1..(Len(s) + 1) : i \in 1..Len(s) \/ i = Len(s) + 1
    BY <1>1
  <2> QED
    BY <1>1, <2>1
<1>3. {s[i] : i \in DOMAIN s} \cup {e} \subseteq {t[i] : i \in DOMAIN t}
  <2>1. \A i \in 1..Len(s) : i \in 1..(Len(s) + 1)
    BY <1>1
  <2>2. Len(s) + 1 \in 1..(Len(s) + 1)
    BY <1>1
  <2> QED
    BY <1>1, <2>1, <2>2
<1> QED
  BY <1>1, <1>2, <1>3

(* pop_front removes the front from a queue without repetitions. *)
LEMMA TailElements ==
  ASSUME NEW S, NEW s \in Seq(S), s # <<>>,
         \A i, j \in DOMAIN s : s[i] = s[j] => i = j
  PROVE  LET t == Tail(s)
         IN  /\ t \in Seq(S)
             /\ Head(s) \in S
             /\ Head(s) \in {s[i] : i \in DOMAIN s}
             /\ Len(t) = Len(s) - 1
             /\ {t[i] : i \in DOMAIN t} = {s[i] : i \in DOMAIN s} \ {Head(s)}
             /\ \A i, j \in DOMAIN t : t[i] = t[j] => i = j
<1> DEFINE t == Tail(s)
<1>1. /\ t \in Seq(S)
      /\ Len(s) \in Nat \ {0}
      /\ Len(t) = Len(s) - 1
      /\ DOMAIN s = 1..Len(s)
      /\ DOMAIN t = 1..(Len(s) - 1)
      /\ \A i \in 1..(Len(s) - 1) : t[i] = s[i + 1]
      /\ Head(s) = s[1]
      /\ Head(s) \in S
  OBVIOUS
<1>2. \A i \in 1..(Len(s) - 1) : i + 1 \in 1..Len(s) /\ i + 1 # 1
  BY <1>1
<1>3. \A i \in 1..Len(s) : i = 1 \/ (i - 1 \in 1..(Len(s) - 1) /\ (i - 1) + 1 = i)
  BY <1>1
<1>4. 1 \in 1..Len(s)
  BY <1>1
<1>5. {t[i] : i \in DOMAIN t} \subseteq {s[i] : i \in DOMAIN s} \ {Head(s)}
  BY <1>1, <1>2, <1>4
<1>6. {s[i] : i \in DOMAIN s} \ {Head(s)} \subseteq {t[i] : i \in DOMAIN t}
  <2> SUFFICES ASSUME NEW i \in 1..Len(s), s[i] # Head(s)
               PROVE  s[i] \in {t[k] : k \in DOMAIN t}
    BY <1>1
  <2>1. i - 1 \in 1..(Len(s) - 1) /\ (i - 1) + 1 = i
    BY <1>1, <1>3
  <2>2. t[i - 1] = s[i]
    BY <1>1, <2>1
  <2> QED
    BY <1>1, <2>1, <2>2
<1>7. \A i, j \in DOMAIN t : t[i] = t[j] => i = j
  <2> SUFFICES ASSUME NEW i \in DOMAIN t, NEW j \in DOMAIN t, t[i] = t[j]
               PROVE  i = j
    OBVIOUS
  <2>1. i + 1 = j + 1
    BY <1>1, <1>2
  <2> QED
    BY <1>1, <2>1
<1> QED
  BY <1>1, <1>4, <1>5, <1>6, <1>7

(* push_back of an element that is not there introduces no repetition. *)
LEMMA AppendNoRepeat ==
  ASSUME NEW S, NEW s \in Seq(S), NEW e \in S,
         \A i, j \in DOMAIN s : s[i] = s[j] => i = j,
         \A i \in DOMAIN s : s[i] # e
  PROVE  LET t == Append(s, e)
         IN  \A i, j \in DOMAIN t : t[i] = t[j] => i = j
<1> DEFINE t == Append(s, e)
<1>1. /\ DOMAIN t = 1..(Len(s) + 1)
      /\ DOMAIN s = 1..Len(s)
      /\ Len(s) \in Nat
      /\ \A i \in 1..Len(s) : t[i] = s[i]
      /\ t[Len(s) + 1] = e
  OBVIOUS
<1>2. \A i \in 1..(Len(s) + 1) : i \in 1..Len(s) \/ i = Len(s) + 1
  BY <1>1
<1> QED
  BY <1>1, <1>2

(* A set of positions has a first one: what a search from the front finds. *)
LEMMA LeastExists ==
  ASSUME NEW S \in SUBSET Nat, S # {}
  PROVE  \E x \in S : \A y \in S : x <= y
<1>1. IsWellFoundedOn(OpToRel(<, Nat), Nat)
  BY NatLessThanWellFounded
<1>2. PICK x \in S : \A y \in S : ~ (<<y, x>> \in OpToRel(<, Nat))
  BY <1>1, WFMin
<1>3. \A y \in S : ~ (y < x)
  BY <1>2 DEF OpToRel
<1> QED
  BY <1>3

(* The elements of a finite set of positions are numbered from the first   *)
(* to the last, without gaps.                                              *)
LEMMA PlacesFill ==
  ASSUME NEW K \in SUBSET Nat, IsFiniteSet(K)
  PROVE  LET Place(i) == Cardinality({j \in K : j <= i})
         IN  /\ \A i \in K : Place(i) \in 1 .. Cardinality(K)
             /\ \A i, k \in K : Place(i) = Place(k) => i = k
             /\ \A n \in 1 .. Cardinality(K) : \E i \in K : Place(i) = n
<1> DEFINE Below(i) == {j \in K : j <= i}
           Place(i) == Cardinality(Below(i))
           N == Cardinality(K)
           f == [i \in K |-> Place(i)]
<1>1. N \in Nat
  BY FS_CardinalityType
<1>2. ASSUME NEW i \in K
      PROVE  IsFiniteSet(Below(i)) /\ Place(i) \in 1 .. N
  <2>1. IsFiniteSet(Below(i)) /\ Place(i) <= N
    BY FS_Subset
  <2>2. i \in Below(i)
    OBVIOUS
  <2>3. Place(i) \in Nat /\ Place(i) # 0
    BY <2>1, <2>2, FS_CardinalityType, FS_EmptySet
  <2> QED
    BY <1>1, <2>1, <2>3
<1>3. ASSUME NEW i \in K, NEW k \in K, i < k
      PROVE  Place(i) # Place(k)
  <2>1. Below(i) \in SUBSET Below(k) /\ k \in Below(k) /\ k \notin Below(i)
    <3>1. \A j \in K : j <= i => j <= k
      BY <1>3
    <3>2. k <= k /\ ~ (k <= i)
      BY <1>3
    <3> QED
      BY <3>1, <3>2
  <2>2. IsFiniteSet(Below(k))
    BY <1>2
  <2>3. Cardinality(Below(i)) = Cardinality(Below(k)) => Below(i) = Below(k)
    <3> HIDE DEF Below
    <3> QED
      BY <2>1, <2>2, FS_Subset
  <2> QED
    BY <2>1, <2>3
<1>4. \A i, k \in K : Place(i) = Place(k) => i = k
  <2>1. \A i, k \in K : i < k \/ k < i \/ i = k
    OBVIOUS
  <2> HIDE DEF Place
  <2> QED
    BY <1>3, <2>1
<1>5. f \in Injection(K, 1 .. N)
  <2>1. f \in [K -> 1 .. N]
    BY <1>2
  <2>2. \A i, k \in K : f[i] = f[k] => i = k
    BY <1>4
  <2> HIDE DEF f
  <2>3. DOMAIN f = K
    BY <2>1
  <2>4. IsInjective(f)
    BY <2>2, <2>3 DEF IsInjective
  <2> QED
    BY <2>1, <2>4 DEF Injection
<1>6. IsFiniteSet(1 .. N) /\ Cardinality(1 .. N) = N
  BY <1>1, FS_Interval
<1>7. f \in Surjection(K, 1 .. N)
  BY <1>5, <1>6, FS_Injection
<1>8. \A n \in 1 .. N : \E i \in K : Place(i) = n
  BY <1>7 DEF Surjection
<1> QED
  BY <1>2, <1>4, <1>8

(* A position is not moved back by counting the positions before it. *)
LEMMA PlaceBound ==
  ASSUME NEW n \in Nat, NEW K \in SUBSET (1 .. n), NEW i \in K
  PROVE  Cardinality({j \in K : j <= i}) <= i
<1> DEFINE Below == {j \in K : j <= i}
<1>1. i \in Nat
  OBVIOUS
<1>2. Below \in SUBSET (1 .. i)
  <2>1. \A j \in K : j \in 1 .. n
    OBVIOUS
  <2>2. \A j \in 1 .. n : j <= i => j \in 1 .. i
    BY <1>1
  <2> QED
    BY <2>1, <2>2
<1>3. IsFiniteSet(1 .. i) /\ Cardinality(1 .. i) = i
  BY <1>1, FS_Interval
<1> HIDE DEF Below
<1>4. Cardinality(Below) <= i
  BY <1>2, <1>3, FS_Subset
<1> QED
  BY <1>4 DEF Below

(* What erase keeps: the elements at the other places, none twice, each at *)
(* its place or before it.                                                 *)
LEMMA EraseAtElements ==
  ASSUME NEW S, NEW s \in Seq(S), NEW gone
  PROVE  /\ EraseAt(s, gone) \in Seq(S)
         /\ \A k \in DOMAIN s \ gone :
               \E n \in DOMAIN EraseAt(s, gone) : EraseAt(s, gone)[n] = s[k]
         /\ \A n \in DOMAIN EraseAt(s, gone) :
               \E k \in DOMAIN s \ gone : n <= k /\ EraseAt(s, gone)[n] = s[k]
         /\ (\A j, k \in DOMAIN s : s[j] = s[k] => j = k)
               => \A m, n \in DOMAIN EraseAt(s, gone) :
                     EraseAt(s, gone)[m] = EraseAt(s, gone)[n] => m = n
<1> DEFINE kept == DOMAIN s \ gone
           Place(i) == Cardinality({j \in kept : j <= i})
           At(n) == CHOOSE i \in kept : Place(i) = n
           N == Cardinality(kept)
           t == EraseAt(s, gone)
<1>1. DOMAIN s = 1 .. Len(s) /\ Len(s) \in Nat
  OBVIOUS
<1>2. kept \in SUBSET (1 .. Len(s)) /\ kept \in SUBSET Nat
  BY <1>1
<1>3. IsFiniteSet(kept)
  <2>1. IsFiniteSet(1 .. Len(s))
    BY <1>1, FS_Interval
  <2> HIDE DEF kept
  <2> QED
    BY <1>2, <2>1, FS_Subset
<1>4. N \in Nat
  BY <1>3, FS_CardinalityType
<1>5. /\ \A i \in kept : Place(i) \in 1 .. N
      /\ \A i, j \in kept : Place(i) = Place(j) => i = j
      /\ \A n \in 1 .. N : \E i \in kept : Place(i) = n
  <2> HIDE DEF kept
  <2> QED
    BY <1>2, <1>3, PlacesFill
<1>6. \A i \in kept : Place(i) <= i
  <2> DEFINE n == Len(s)
  <2>1. n \in Nat /\ kept \in SUBSET (1 .. n)
    BY <1>1, <1>2
  <2> HIDE DEF kept, n
  <2> QED
    BY <2>1, PlaceBound
<1>7. \A i \in kept : s[i] \in S /\ i \in DOMAIN s
  OBVIOUS
<1>8. t = [n \in 1 .. N |-> s[At(n)]]
  BY DEF EraseAt
<1>9. kept = DOMAIN s \ gone
  OBVIOUS
<1> HIDE DEF kept, Place, N, t
<1>10. \A n \in 1 .. N : At(n) \in kept /\ Place(At(n)) = n
  BY <1>5
<1>11. \A k \in kept : Place(k) \in 1 .. N /\ At(Place(k)) = k
  BY <1>5, <1>10
<1> HIDE DEF At
<1>12. t \in Seq(S) /\ DOMAIN t = 1 .. N
  BY <1>4, <1>7, <1>8, <1>10
<1>13. \A n \in 1 .. N : t[n] = s[At(n)]
  BY <1>8
<1>14. \A k \in kept : \E n \in DOMAIN t : t[n] = s[k]
  BY <1>11, <1>12, <1>13
<1>15. \A n \in DOMAIN t : \E k \in kept : n <= k /\ t[n] = s[k]
  BY <1>6, <1>10, <1>12, <1>13
<1>16. ASSUME \A j, k \in DOMAIN s : s[j] = s[k] => j = k,
              NEW m \in DOMAIN t, NEW n \in DOMAIN t, t[m] = t[n]
       PROVE  m = n
  <2>1. At(m) = At(n)
    BY <1>7, <1>10, <1>12, <1>13, <1>16
  <2> QED
    BY <1>10, <1>12, <2>1
<1> QED
  BY <1>9, <1>12, <1>14, <1>15, <1>16 DEF t
=============================================================================
