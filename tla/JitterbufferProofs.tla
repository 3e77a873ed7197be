------------------------- MODULE JitterbufferProofs -------------------------
(***************************************************************************)
(* What is proved of Jitterbuffer, for every size of the history, every     *)
(* delay, threshold and option, whatever frames come and whenever:           *)
(*   - TypeCorrect: the type invariant;                                      *)
(*   - CacheSafe: the cached ends of the history are exact;                  *)
(*   - FullFramesSafe: no full frame is lost, doubled or overtaken;          *)
(*   - VoiceSafe: voice is played forward, if its frames have one size.      *)
(***************************************************************************)
EXTENDS Jitterbuffer, TLAPS, SequenceTheorems, FiniteSetTheorems, WellFoundedInduction

-----------------------------------------------------------------------------
(* Naturals *)

Below == {p \in Nat \X Nat : p[1] < p[2]}

(* A set of naturals that is not empty has a least member. *)
LEMMA LeastNatural ==
  ASSUME NEW T, T \subseteq Nat, NEW a \in T
  PROVE  \E n \in T : \A m \in T : n <= m
<1>1. IsWellFoundedOn(Below, Nat)
  BY NatLessThanWellFounded DEF OpToRel, Below
<1>2. PICK n \in T : \A m \in T : ~ (<<m, n>> \in Below)
  BY <1>1, WFMin
<1>3. ASSUME NEW m \in T PROVE n <= m
  <2>1. m \in Nat /\ n \in Nat
    OBVIOUS
  <2>2. m < n => <<m, n>> \in Below
    BY <2>1 DEF Below
  <2> QED BY <1>2, <2>1, <2>2
<1> QED BY <1>3

(* Numbers less than HistSize apart are at different places of the history. *)
LEMMA PlacesDiffer ==
  ASSUME NEW x \in Nat, NEW y \in Nat, x < y, y < x + HistSize
  PROVE  /\ x % HistSize # y % HistSize
         /\ x % HistSize \in 0 .. HistSize - 1 /\ y % HistSize \in 0 .. HistSize - 1
<1> DEFINE n == HistSize
           p == x \div n
           q == y \div n
<1>0. n \in Nat \ {0}
  BY HistoryAssumption
<1>1. x % n \in 0 .. n - 1 /\ p \in Int /\ x = n * p + (x % n)
  BY <1>0
<1>2. y % n \in 0 .. n - 1 /\ q \in Int /\ y = n * q + (y % n)
  BY <1>0
<1>3. ASSUME x % n = y % n PROVE FALSE
  <2>1. n * q - n * p = y - x
    BY <1>0, <1>1, <1>2, <1>3
  <2>2. n * (q - p) = y - x
    BY <2>1, <1>0, <1>1, <1>2
  <2> HIDE DEF p, q, n
  <2>3. q - p \in Int
    BY <1>1, <1>2
  <2>4. CASE q - p <= 0
    <3>1. n * (q - p) <= 0
      BY <1>0, <2>3, <2>4
    <3> QED BY <3>1, <2>2
  <2>5. CASE q - p >= 1
    <3>1. n * (q - p) >= n * 1
      BY <1>0, <2>3, <2>5
    <3> QED BY <3>1, <2>2, <1>0 DEF n
  <2> QED BY <2>3, <2>4, <2>5
<1> QED BY <1>1, <1>2, <1>3

(* Functions are the same that have the same values. *)
LEMMA SameFunction ==
  ASSUME NEW S, NEW T, NEW f \in [S -> T], NEW g \in [S -> T], \A x \in S : f[x] = g[x]
  PROVE  f = g
OBVIOUS

-----------------------------------------------------------------------------
(* The sorted ends of a sequence *)

Above(s, v) == {i \in 1 .. Len(s) : s[i] > v}
AtLeast(s, v) == {i \in 1 .. Len(s) : s[i] >= v}

(* The numbers of the greater elements are naturals. *)
LEMMA CountsType ==
  ASSUME NEW s \in Seq(Int), NEW v
  PROVE  /\ Len(s) \in Nat
         /\ IsFiniteSet(Above(s, v)) /\ Cardinality(Above(s, v)) \in 0 .. Len(s)
         /\ IsFiniteSet(AtLeast(s, v)) /\ Cardinality(AtLeast(s, v)) \in 0 .. Len(s)
<1>1. Len(s) \in Nat
  BY LenProperties
<1> DEFINE n == Len(s)
<1>2. IsFiniteSet(1 .. n) /\ Cardinality(1 .. n) = n
  <2>1. n \in Nat
    BY <1>1
  <2> HIDE DEF n
  <2>2. 1 \in Int /\ n \in Int
    BY <2>1
  <2>3. IsFiniteSet(1 .. n) /\ Cardinality(1 .. n) = IF 1 > n THEN 0 ELSE n - 1 + 1
    BY <2>2, FS_Interval
  <2> QED BY <2>1, <2>3
<1>3. Above(s, v) \in SUBSET (1 .. Len(s)) /\ AtLeast(s, v) \in SUBSET (1 .. Len(s))
  BY <1>1 DEF Above, AtLeast
<1> QED BY <1>1, <1>2, <1>3, FS_Subset, FS_CardinalityType

(* There are as many at or above the greater of two values as above the
   smaller one, or fewer. *)
LEMMA FewerAbove ==
  ASSUME NEW s \in Seq(Int), NEW v \in Int, NEW w \in Int, v < w
  PROVE  Cardinality(AtLeast(s, w)) <= Cardinality(Above(s, v))
<1>1. \A i \in 1 .. Len(s) : s[i] \in Int
  BY ElementOfSeq, CountsType
<1>2. AtLeast(s, w) \in SUBSET Above(s, v)
  BY <1>1 DEF AtLeast, Above
<1> QED BY <1>2, CountsType, FS_Subset

(* ... and fewer than at or above it, if one is between them. *)
LEMMA FewerAtLeast ==
  ASSUME NEW s \in Seq(Int), NEW w \in Int, NEW i \in 1 .. Len(s), s[i] < w
  PROVE  Cardinality(AtLeast(s, w)) < Cardinality(AtLeast(s, s[i]))
<1>1. \A j \in 1 .. Len(s) : s[j] \in Int
  BY ElementOfSeq, CountsType
<1>2. AtLeast(s, w) \in SUBSET AtLeast(s, s[i])
  BY <1>1 DEF AtLeast
<1>3. i \in AtLeast(s, s[i]) /\ i \notin AtLeast(s, w)
  BY <1>1 DEF AtLeast
<1>4. /\ Cardinality(AtLeast(s, w)) <= Cardinality(AtLeast(s, s[i]))
      /\ Cardinality(AtLeast(s, w)) # Cardinality(AtLeast(s, s[i]))
  BY <1>2, <1>3, CountsType, FS_Subset
<1> QED BY <1>4, CountsType

(* Of a set of places one has the smallest value. *)
LEMMA SmallestOf ==
  ASSUME NEW s \in Seq(Int), NEW T, T \subseteq 1 .. Len(s), NEW a \in T
  PROVE  \E i \in T : \A j \in T : s[i] <= s[j]
<1> DEFINE left(i) == Len(s) - Cardinality(AtLeast(s, s[i]))
           D == {left(i) : i \in T}
<1>1. \A i \in 1 .. Len(s) : s[i] \in Int /\ left(i) \in Nat
  BY ElementOfSeq, CountsType
<1>2. PICK n \in D : \A m \in D : n <= m
  <2>1. D \subseteq Nat /\ left(a) \in D
    BY <1>1
  <2> HIDE DEF D
  <2> QED BY <2>1, LeastNatural
<1>3. PICK i \in T : n = left(i)
  BY <1>2
<1>4. ASSUME NEW j \in T PROVE s[i] <= s[j]
  <2>0. SUFFICES ASSUME s[j] < s[i] PROVE FALSE
    BY <1>1, SMTT(30)
  <2>1. Cardinality(AtLeast(s, s[i])) < Cardinality(AtLeast(s, s[j]))
    BY <1>1, <2>0, FewerAtLeast
  <2>2. left(i) <= left(j)
    BY <1>2, <1>3
  <2> QED BY <2>1, <2>2, CountsType
<1> QED BY <1>4

(* Every sequence has a k-th greatest element. *)
LEMMA GreatestExists ==
  ASSUME NEW s \in Seq(Int), NEW k \in 1 .. Len(s)
  PROVE  \E v \in ToSet(s) : IsGreatest(s, k, v)
<1> DEFINE n(i) == Cardinality(AtLeast(s, s[i]))
           Enough == {i \in 1 .. Len(s) : k <= n(i)}
<1>0. /\ Len(s) \in Nat 
      /\ \A i \in 1 .. Len(s) : s[i] \in Int /\ n(i) \in 0 .. Len(s)
  BY ElementOfSeq, CountsType
<1>1. PICK a \in 1 .. Len(s) : \A j \in 1 .. Len(s) : s[a] <= s[j]
  <2>1. 1 \in 1 .. Len(s)
    BY <1>0
  <2> QED BY <2>1, SmallestOf
<1>2. a \in Enough
  <2>1. AtLeast(s, s[a]) = 1 .. Len(s)
    BY <1>0, <1>1 DEF AtLeast
  <2>2. n(a) = Len(s)
    BY <2>1, <1>0, FS_Interval
  <2> QED BY <2>2, <1>0
<1>3. PICK c \in {n(i) : i \in Enough} : \A m \in {n(i) : i \in Enough} : c <= m
  <2> DEFINE C == {n(i) : i \in Enough}
  <2>1. \A i \in 1 .. Len(s) : n(i) \in Nat
    BY <1>0
  <2> HIDE DEF n
  <2>2. C \subseteq Nat /\ n(a) \in C
    BY <2>1, <1>2
  <2> HIDE DEF C
  <2>3. \E x \in C : \A m \in C : x <= m
    BY <2>2, LeastNatural
  <2> QED BY <2>3 DEF C
<1>4. PICK b \in Enough : c = n(b)
  BY <1>3
<1>5. ASSUME Cardinality(Above(s, s[b])) >= k PROVE FALSE
  <2>1. Above(s, s[b]) # {}
    <3>1. Above(s, s[b]) = {} => Cardinality(Above(s, s[b])) = 0
      BY FS_EmptySet, Zenon
    <3>2. k >= 1
      BY <1>0
    <3> QED BY <3>1, <3>2, <1>5
  <2>2. PICK i \in Above(s, s[b]) : \A j \in Above(s, s[b]) : s[i] <= s[j]
    <3>1. Above(s, s[b]) \subseteq 1 .. Len(s)
      BY DEF Above
    <3> QED BY <2>1, <3>1, SmallestOf
  <2>3. AtLeast(s, s[i]) = Above(s, s[b])
    <3>1. i \in 1 .. Len(s) /\ s[b] < s[i] /\ \A j \in 1 .. Len(s) : s[j] \in Int
      BY <2>2, <1>0 DEF Above
    <3>2. ASSUME NEW j \in 1 .. Len(s) PROVE s[j] >= s[i] <=> s[j] > s[b]
      <4>1. s[j] \in Int /\ s[i] \in Int /\ s[b] \in Int
        BY <3>1
      <4>2. s[j] > s[b] => s[i] <= s[j]
        BY <2>2 DEF Above
      <4> QED BY <3>1, <4>1, <4>2, SMTT(30)
    <3> QED BY <3>2 DEF Above, AtLeast
  <2>4. i \in Enough
    BY <2>2, <2>3, <1>5, <1>0 DEF Above
  <2>5. n(i) < n(b)
    <3>1. s[i] \in Int /\ b \in 1 .. Len(s) /\ s[b] < s[i]
      BY <2>2, <1>0 DEF Above
    <3> QED BY <3>1, FewerAtLeast
  <2>6. n(b) <= n(i)
    BY <1>3, <1>4, <2>4
  <2> QED BY <2>4, <2>5, <2>6, <1>0
<1>6. s[b] \in ToSet(s)
  BY <1>0 DEF ToSet
<1>7. Cardinality(Above(s, s[b])) < k /\ k <= Cardinality(AtLeast(s, s[b]))
  <2> DEFINE m == Cardinality(Above(s, s[b]))
             l == Len(s)
  <2>1. m \in 0 .. l /\ l \in Nat
    BY CountsType
  <2>2. k <= Cardinality(AtLeast(s, s[b]))
    OBVIOUS
  <2>3. k \in 1 .. l /\ ~ (m >= k)
    BY <1>5
  <2> HIDE DEF m, l
  <2>4. m < k
    BY <2>1, <2>3
  <2> QED BY <2>2, <2>4 DEF m
<1>8. IsGreatest(s, k, s[b])
  BY <1>7 DEF IsGreatest, Above, AtLeast
<1> QED BY <1>6, <1>8

(* The elements go down as k goes up; in particular each is unique. *)
LEMMA GreatestOrder ==
  ASSUME NEW s \in Seq(Int), NEW j \in Nat, NEW k \in Nat, j <= k,
         NEW v \in Int, NEW w \in Int, IsGreatest(s, j, v), IsGreatest(s, k, w)
  PROVE  w <= v
<1>1. Cardinality(Above(s, v)) < j /\ k <= Cardinality(AtLeast(s, w))
  BY DEF IsGreatest, Above, AtLeast
<1>2. v < w => Cardinality(AtLeast(s, w)) <= Cardinality(Above(s, v))
  BY FewerAbove
<1> QED BY <1>1, <1>2, CountsType

(* The delay d is recorded: the sequence s becomes t, which may drop the first. *)
Recorded(s, t, d) ==
  \/ /\ Len(t) = Len(s) + 1
     /\ \A i \in 1 .. Len(s) : t[i] = s[i]
     /\ t[Len(t)] = d
  \/ /\ Len(t) = Len(s) /\ 0 < Len(s)
     /\ \A i \in 1 .. Len(s) - 1 : t[i] = s[i + 1]
     /\ t[Len(t)] = d

(* What is less than v before and not greater than it now does not change that
   v is the k-th greatest. *)
LEMMA GreatestKept ==
  ASSUME NEW s \in Seq(Int), NEW t \in Seq(Int), NEW d \in Int, Recorded(s, t, d),
         NEW k \in Nat, NEW v \in Int, IsGreatest(s, k, v), d <= v,
         Len(t) = Len(s) => s[1] < v
  PROVE  IsGreatest(t, k, v)
<1>1. /\ Len(s) \in Nat  /\ Len(t) \in Nat 
      /\ \A i \in 1 .. Len(s) : s[i] \in Int
      /\ \A i \in 1 .. Len(t) : t[i] \in Int
  BY ElementOfSeq, CountsType
<1>2. /\ Cardinality(Above(t, v)) <= Cardinality(Above(s, v))
      /\ Cardinality(AtLeast(s, v)) <= Cardinality(AtLeast(t, v))
  <2>1. CASE Len(t) = Len(s) + 1
    <3>1. /\ \A i \in 1 .. Len(s) : t[i] = s[i]
          /\ t[Len(t)] = d
      BY <1>1, <2>1 DEF Recorded
    <3>2. Above(t, v) \in SUBSET Above(s, v)
      <4> SUFFICES ASSUME NEW i \in Above(t, v) PROVE i \in Above(s, v)
        OBVIOUS
      <4>1. i \in 1 .. Len(s) + 1 /\ t[i] > v
        BY <2>1 DEF Above
      <4>2. i # Len(s) + 1
        BY <2>1, <3>1, <4>1
      <4>3. i \in 1 .. Len(s)
        BY <1>1, <4>1, <4>2
      <4> QED BY <3>1, <4>1, <4>3 DEF Above
    <3>3. AtLeast(s, v) \in SUBSET AtLeast(t, v)
      <4> SUFFICES ASSUME NEW i \in AtLeast(s, v) PROVE i \in AtLeast(t, v)
        OBVIOUS
      <4>1. i \in 1 .. Len(s) /\ s[i] >= v
        BY DEF AtLeast
      <4>2. i \in 1 .. Len(t)
        BY <1>1, <2>1, <4>1
      <4> QED BY <3>1, <4>1, <4>2 DEF AtLeast
    <3> QED BY <3>2, <3>3, CountsType, FS_Subset
  <2>2. CASE Len(t) = Len(s)
    <3>1. /\ Len(s) >= 1 /\ s[1] < v
          /\ \A i \in 1 .. Len(s) - 1 : t[i] = s[i + 1]
          /\ t[Len(t)] = d
      BY <1>1, <2>2 DEF Recorded
    <3>2. \A i \in Above(t, v) : i \in 1 .. Len(s) - 1 /\ i + 1 \in Above(s, v)
      BY <1>1, <2>2, <3>1, SMTT(30) DEF Above
    <3>3. \A i \in AtLeast(s, v) : i \in 2 .. Len(s) /\ i - 1 \in AtLeast(t, v)
      <4> SUFFICES ASSUME NEW i \in AtLeast(s, v)
                   PROVE  i \in 2 .. Len(s) /\ i - 1 \in AtLeast(t, v)
        OBVIOUS
      <4>1. i \in 2 .. Len(s) /\ s[i] >= v
        BY <1>1, <3>1 DEF AtLeast
      <4>2. i - 1 \in 1 .. Len(s) - 1 /\ t[i - 1] = s[(i - 1) + 1] /\ (i - 1) + 1 = i
        BY <1>1, <3>1, <4>1
      <4> QED BY <1>1, <2>2, <4>1, <4>2 DEF AtLeast
    <3>4. [i \in Above(t, v) |-> i + 1] \in Injection(Above(t, v), Above(s, v))
      <4>1. \A i \in Above(t, v) : i \in Int
        BY DEF Above
      <4> QED BY <3>2, <4>1 DEF Injection, IsInjective
    <3>5. [i \in AtLeast(s, v) |-> i - 1] \in Injection(AtLeast(s, v), AtLeast(t, v))
      <4>1. \A i \in AtLeast(s, v) : i \in Int
        BY DEF AtLeast
      <4> QED BY <3>3, <4>1 DEF Injection, IsInjective
    <3> QED BY <3>4, <3>5, CountsType, FS_Injection
  <2> QED BY <2>1, <2>2 DEF Recorded
<1>3. Cardinality(Above(s, v)) < k /\ k <= Cardinality(AtLeast(s, v))
  BY DEF IsGreatest, Above, AtLeast
<1>4. Cardinality(Above(t, v)) < k /\ k <= Cardinality(AtLeast(t, v))
  BY <1>2, <1>3, CountsType, SMTT(30)
<1> QED BY <1>4 DEF IsGreatest, Above, AtLeast

-----------------------------------------------------------------------------
(* The least are the greatest of the negated delays. *)

Negated(s) == [i \in 1 .. Len(s) |-> -s[i]]

LEMMA NegatedType ==
  ASSUME NEW s \in Seq(Int)
  PROVE  /\ Negated(s) \in Seq(Int) /\ Len(Negated(s)) = Len(s)
         /\ \A i \in 1 .. Len(s) : s[i] \in Int /\ Negated(s)[i] = -s[i]
<1>1. Len(s) \in Nat /\ \A i \in 1 .. Len(s) : s[i] \in Int
  BY ElementOfSeq, LenProperties
<1>2. Negated(s) \in [1 .. Len(s) -> Int]
  BY <1>1 DEF Negated
<1>3. Negated(s) \in Seq(Int)
  BY <1>1, <1>2, IsASeq DEF Negated
<1> QED BY <1>1, <1>2, <1>3, LenProperties DEF Negated

LEMMA LeastIsGreatest ==
  ASSUME NEW s \in Seq(Int), NEW k, NEW v \in Int
  PROVE  IsLeast(s, k, v) <=> IsGreatest(Negated(s), k, -v)
<1>1. 1 .. Len(Negated(s)) = 1 .. Len(s)
  BY NegatedType, LenProperties
<1>2. {i \in 1 .. Len(s) : s[i] < v} = {i \in 1 .. Len(Negated(s)) : Negated(s)[i] > -v}
  BY <1>1, NegatedType
<1>3. {i \in 1 .. Len(s) : s[i] <= v} = {i \in 1 .. Len(Negated(s)) : Negated(s)[i] >= -v}
  BY <1>1, NegatedType
<1> QED BY <1>2, <1>3 DEF IsLeast, IsGreatest

LEMMA LeastExists ==
  ASSUME NEW s \in Seq(Int), NEW k \in 1 .. Len(s)
  PROVE  \E v \in ToSet(s) : IsLeast(s, k, v)
<1>1. PICK w \in ToSet(Negated(s)) : IsGreatest(Negated(s), k, w)
  BY NegatedType, GreatestExists
<1>2. PICK i \in 1 .. Len(s) : w = Negated(s)[i]
  BY <1>1, NegatedType, LenProperties DEF ToSet
<1>3. s[i] \in ToSet(s) /\ s[i] \in Int /\ w = -s[i]
  BY <1>2, NegatedType, LenProperties DEF ToSet
<1> QED BY <1>1, <1>3, LeastIsGreatest

LEMMA LeastOrder ==
  ASSUME NEW s \in Seq(Int), NEW j \in Nat, NEW k \in Nat, j <= k,
         NEW v \in Int, NEW w \in Int, IsLeast(s, j, v), IsLeast(s, k, w)
  PROVE  v <= w
<1>1. IsGreatest(Negated(s), j, -v) /\ IsGreatest(Negated(s), k, -w)
  BY LeastIsGreatest
<1>2. -v \in Int /\ -w \in Int
  OBVIOUS
<1>3. -w <= -v
  BY <1>1, <1>2, NegatedType, GreatestOrder
<1> QED BY <1>3

LEMMA LeastKept ==
  ASSUME NEW s \in Seq(Int), NEW t \in Seq(Int), NEW d \in Int, Recorded(s, t, d),
         NEW k \in Nat, NEW v \in Int, IsLeast(s, k, v), v <= d,
         Len(t) = Len(s) => v < s[1]
  PROVE  IsLeast(t, k, v)
<1>0. Len(s) \in Nat /\ Len(t) \in Nat
  BY LenProperties
<1>1. IsGreatest(Negated(s), k, -v)
  BY LeastIsGreatest
<1>2. /\ Negated(s) \in Seq(Int) /\ Len(Negated(s)) = Len(s)
      /\ \A i \in 1 .. Len(s) : s[i] \in Int /\ Negated(s)[i] = -s[i]
  BY NegatedType
<1>3. /\ Negated(t) \in Seq(Int) /\ Len(Negated(t)) = Len(t)
      /\ \A i \in 1 .. Len(t) : t[i] \in Int /\ Negated(t)[i] = -t[i]
  BY NegatedType
<1>4. Recorded(Negated(s), Negated(t), -d)
  <2>0. Len(t) >= 1
    BY <1>0 DEF Recorded
  <2>1. CASE Len(t) = Len(s) + 1
    <3>1. (\A i \in 1 .. Len(s) : t[i] = s[i]) /\ t[Len(t)] = d
      BY <1>0, <2>1 DEF Recorded
    <3>2. ASSUME NEW i \in 1 .. Len(s) PROVE Negated(t)[i] = Negated(s)[i]
      <4>1. i \in 1 .. Len(t) /\ t[i] = s[i]
        BY <1>0, <2>1, <3>1
      <4> QED BY <1>2, <1>3, <4>1
    <3>3. Negated(t)[Len(t)] = -d
      BY <1>0, <1>3, <2>0, <3>1
    <3> QED BY <1>2, <1>3, <2>1, <3>2, <3>3 DEF Recorded
  <2>2. CASE Len(t) = Len(s)
    <3>1. (\A i \in 1 .. Len(s) - 1 : t[i] = s[i + 1]) /\ t[Len(t)] = d
      BY <1>0, <2>2 DEF Recorded
    <3>2. ASSUME NEW i \in 1 .. Len(s) - 1 PROVE Negated(t)[i] = Negated(s)[i + 1]
      <4>1. i \in 1 .. Len(t) /\ i + 1 \in 1 .. Len(s) /\ t[i] = s[i + 1]
        BY <1>0, <2>2, <3>1
      <4> QED BY <1>2, <1>3, <4>1
    <3>3. Negated(t)[Len(t)] = -d
      BY <1>0, <1>3, <2>0, <3>1
    <3> QED BY <1>2, <1>3, <2>0, <2>2, <3>2, <3>3 DEF Recorded
  <2> QED BY <2>1, <2>2 DEF Recorded
<1>5. -d <= -v /\ -d \in Int /\ -v \in Int
  OBVIOUS
<1>6. Len(Negated(t)) = Len(Negated(s)) => Negated(s)[1] < -v
  <2> SUFFICES ASSUME Len(t) = Len(s) PROVE Negated(s)[1] < -v
    BY <1>2, <1>3
  <2>1. Len(s) >= 1
    BY <1>0 DEF Recorded
  <2> QED BY <1>0, <1>2, <2>1
<1>7. IsGreatest(Negated(t), k, -v)
  BY <1>1, <1>2, <1>3, <1>4, <1>5, <1>6, GreatestKept
<1> QED BY <1>7, LeastIsGreatest

(* What the arrays hold: the k-th greatest and least, and beyond them the
   initial values. *)
LEMMA SortedEnds ==
  ASSUME NEW s \in Seq(Int)
  PROVE  /\ Greatest(s) \in [1 .. MaxBuf -> Int] /\ Least(s) \in [1 .. MaxBuf -> Int]
         /\ \A k \in 1 .. MaxBuf : k > Len(s) => Greatest(s)[k] = LongMin /\ Least(s)[k] = LongMax
         /\ \A k \in 1 .. MaxBuf : k <= Len(s) => /\ IsGreatest(s, k, Greatest(s)[k])
                                                  /\ IsLeast(s, k, Least(s)[k])
<1>1. \A v \in ToSet(s) : v \in Int
  BY ElementOfSeq, LenProperties DEF ToSet
<1>2. MaxBuf \in Nat /\ Len(s) \in Nat /\ LongMin \in Int /\ LongMax \in Int
  BY HistoryAssumption, DelaysAssumption, LenProperties
<1>3. ASSUME NEW k \in 1 .. MaxBuf, k > Len(s)
      PROVE  Greatest(s)[k] = LongMin /\ Least(s)[k] = LongMax
  BY <1>3 DEF Greatest, Least
<1>4. ASSUME NEW k \in 1 .. MaxBuf, k <= Len(s)
      PROVE  /\ IsGreatest(s, k, Greatest(s)[k]) /\ Greatest(s)[k] \in Int
             /\ IsLeast(s, k, Least(s)[k]) /\ Least(s)[k] \in Int
  <2>1. k \in 1 .. Len(s) /\ ~ (k > Len(s))
    BY <1>2, <1>4
  <2>2. /\ Greatest(s)[k] = CHOOSE v \in ToSet(s) : IsGreatest(s, k, v)
        /\ Least(s)[k] = CHOOSE v \in ToSet(s) : IsLeast(s, k, v)
    BY <2>1 DEF Greatest, Least
  <2>3. \E v \in ToSet(s) : IsGreatest(s, k, v)
    BY <2>1, GreatestExists
  <2>4. \E v \in ToSet(s) : IsLeast(s, k, v)
    BY <2>1, LeastExists
  <2> QED BY <1>1, <2>2, <2>3, <2>4
<1>5. Greatest(s) = [k \in 1 .. MaxBuf |-> Greatest(s)[k]]
  BY DEF Greatest
<1>6. Least(s) = [k \in 1 .. MaxBuf |-> Least(s)[k]]
  BY DEF Least
<1>7. \A k \in 1 .. MaxBuf : Greatest(s)[k] \in Int /\ Least(s)[k] \in Int
  BY <1>2, <1>3, <1>4
<1>8. Greatest(s) \in [1 .. MaxBuf -> Int]
  BY <1>5, <1>7
<1>9. Least(s) \in [1 .. MaxBuf -> Int]
  BY <1>6, <1>7
<1> QED BY <1>3, <1>4, <1>8, <1>9

(* The ends of two sequences are the same if those of the one are the k-th
   greatest and least of the other. *)
LEMMA SameEnds ==
  ASSUME NEW s \in Seq(Int), NEW t \in Seq(Int), MaxBuf <= Len(s), MaxBuf <= Len(t),
         \A k \in 1 .. MaxBuf : IsGreatest(t, k, Greatest(s)[k]) /\ IsLeast(t, k, Least(s)[k])
  PROVE  Greatest(s) = Greatest(t) /\ Least(s) = Least(t)
<1>0. MaxBuf \in Nat /\ Len(t) \in Nat
  BY HistoryAssumption, LenProperties
<1>1. /\ Greatest(s) \in [1 .. MaxBuf -> Int] /\ Least(s) \in [1 .. MaxBuf -> Int]
      /\ Greatest(t) \in [1 .. MaxBuf -> Int] /\ Least(t) \in [1 .. MaxBuf -> Int]
  BY SortedEnds
<1>2. ASSUME NEW k \in 1 .. MaxBuf PROVE Greatest(s)[k] = Greatest(t)[k] /\ Least(s)[k] = Least(t)[k]
  <2>1. IsGreatest(t, k, Greatest(t)[k]) /\ IsLeast(t, k, Least(t)[k])
    BY <1>0, SortedEnds
  <2>2. /\ Greatest(s)[k] \in Int /\ Greatest(t)[k] \in Int
        /\ Least(s)[k] \in Int /\ Least(t)[k] \in Int /\ k \in Nat /\ k <= k
    BY <1>0, <1>1
  <2>3. Greatest(s)[k] <= Greatest(t)[k] /\ Greatest(t)[k] <= Greatest(s)[k]
    BY <2>1, <2>2, GreatestOrder
  <2>4. Least(s)[k] <= Least(t)[k] /\ Least(t)[k] <= Least(s)[k]
    BY <2>1, <2>2, LeastOrder
  <2> QED BY <2>2, <2>3, <2>4
<1>3. Greatest(s) = Greatest(t)
  <2> DEFINE f == Greatest(s)
             g == Greatest(t)
             S == 1 .. MaxBuf
  <2>1. f \in [S -> Int] /\ g \in [S -> Int] /\ \A k \in S : f[k] = g[k]
    BY <1>1, <1>2
  <2> HIDE DEF f, g, S
  <2>2. f = g
    BY <2>1, SameFunction
  <2> QED BY <2>2 DEF f, g
<1>4. Least(s) = Least(t)
  <2> DEFINE f == Least(s)
             g == Least(t)
             S == 1 .. MaxBuf
  <2>1. f \in [S -> Int] /\ g \in [S -> Int] /\ \A k \in S : f[k] = g[k]
    BY <1>1, <1>2
  <2> HIDE DEF f, g, S
  <2>2. f = g
    BY <2>1, SameFunction
  <2> QED BY <2>2 DEF f, g
<1> QED BY <1>3, <1>4

-----------------------------------------------------------------------------
(* The history as a ring *)

History == [entries : [0 .. HistSize - 1 -> Int], ptr : Nat,
            maxbuf : [1 .. MaxBuf -> Int], minbuf : [1 .. MaxBuf -> Int], valid : BOOLEAN]

(* The delays w are what the history h holds, the oldest first. *)
First(h) == IF h.ptr > HistSize THEN h.ptr - HistSize ELSE 0
Held(h, w) ==
  /\ w \in Seq(Int) /\ Len(w) = h.ptr - First(h)
  /\ \A k \in 1 .. Len(w) : w[k] = h.entries[(First(h) + k - 1) % HistSize]
Exact(h, w) == h.valid => h.maxbuf = Greatest(w) /\ h.minbuf = Least(w)

(* A number and the one HistSize above it have the same place. *)
LEMMA SamePlace ==
  ASSUME NEW x \in Nat
  PROVE  (x + HistSize) % HistSize = x % HistSize
<1> DEFINE n == HistSize
           p == x \div n
           q == (x + n) \div n
           r == x % n
           t == (x + n) % n
<1>0. n \in Nat \ {0}
  BY HistoryAssumption
<1>1. r \in 0 .. n - 1 /\ p \in Int /\ x = n * p + r
  BY <1>0
<1>2. t \in 0 .. n - 1 /\ q \in Int /\ x + n = n * q + t
  BY <1>0
<1> SUFFICES r = t
  OBVIOUS
<1> HIDE DEF n, p, q, r, t
<1>3. n * q - n * p = n + r - t
  BY <1>0, <1>1, <1>2
<1>4. n * (q - p - 1) = r - t
  BY <1>0, <1>1, <1>2, <1>3
<1>5. q - p - 1 \in Int
  BY <1>1, <1>2
<1>6. CASE q - p - 1 <= -1
  <2>1. n * (q - p - 1) <= n * (-1)
    BY <1>0, <1>5, <1>6
  <2> QED BY <2>1, <1>0, <1>1, <1>2, <1>4
<1>7. CASE q - p - 1 = 0
  BY <1>0, <1>1, <1>2, <1>4, <1>7
<1>8. CASE q - p - 1 >= 1
  <2>1. n * (q - p - 1) >= n * 1
    BY <1>0, <1>5, <1>8
  <2> QED BY <2>1, <1>0, <1>1, <1>2, <1>4
<1>9. q - p - 1 <= -1 \/ q - p - 1 = 0 \/ q - p - 1 >= 1
  BY <1>1, <1>2
<1> QED BY <1>6, <1>7, <1>8, <1>9

(* history_put: the ring goes on holding the last delays, and what is still
   taken for sorted is. *)
LEMMA RecordedByPut ==
  ASSUME NEW h \in History, NEW w, Held(h, w), NEW d \in Int
  PROVE  /\ HistoryPut(h, d) \in History /\ HistoryPut(h, d).ptr = h.ptr + 1
         /\ Held(HistoryPut(h, d), Recent(Append(w, d)))
         /\ Recorded(w, Recent(Append(w, d)), d)
         /\ Len(Recent(Append(w, d))) = Len(w) => w[1] = h.entries[h.ptr % HistSize]
<1> DEFINE g == HistoryPut(h, d)
           at == h.ptr % HistSize
           t == Recent(Append(w, d))
<1>0. /\ HistSize \in Nat \ {0} /\ w \in Seq(Int) /\ Len(w) \in Nat /\ h.ptr \in Nat
      /\ h.entries \in [0 .. HistSize - 1 -> Int] /\ h.valid \in BOOLEAN
      /\ at \in 0 .. HistSize - 1
  BY HistoryAssumption, LenProperties DEF Held, History
<1>1. /\ g \in History /\ g.ptr = h.ptr + 1
      /\ g.entries = [h.entries EXCEPT ![at] = d]
  <2> DEFINE f == [h EXCEPT !.entries[at] = d, !.ptr = @ + 1]
             b == h.valid /\ StillExact(f, d, h.entries[at])
  <2>1. f \in History /\ f.ptr = h.ptr + 1 /\ f.entries = [h.entries EXCEPT ![at] = d] /\ f.valid = h.valid
    <3> HIDE DEF at
    <3> DEFINE e == [h.entries EXCEPT ![at] = d]
    <3>1. e \in [0 .. HistSize - 1 -> Int]
      BY <1>0
    <3>2. f = [[h EXCEPT !.entries = e] EXCEPT !.ptr = h.ptr + 1]
      BY DEF History
    <3> HIDE DEF e, f
    <3>3. h.ptr + 1 \in Nat
      BY <1>0
    <3>4. f \in History /\ f.ptr = h.ptr + 1 /\ f.entries = e /\ f.valid = h.valid
      BY <3>1, <3>2, <3>3 DEF History
    <3> QED BY <3>4 DEF e, f
  <2>2. b \in BOOLEAN
    BY <1>0 DEF StillExact
  <2>3. g = [f EXCEPT !.valid = b]
    BY <2>1 DEF HistoryPut
  <2> HIDE DEF f, b, g
  <2>4. g \in History /\ g.ptr = f.ptr /\ g.entries = f.entries
    BY <2>1, <2>2, <2>3 DEF History
  <2> QED BY <2>1, <2>4
<1>2. /\ \A i \in 0 .. HistSize - 1 : g.entries[i] = IF i = at THEN d ELSE h.entries[i]
  BY <1>0, <1>1
<1>3. /\ Append(w, d) \in Seq(Int) /\ Len(Append(w, d)) = Len(w) + 1
      /\ \A i \in 1 .. Len(w) : Append(w, d)[i] = w[i]
      /\ Append(w, d)[Len(w) + 1] = d
  BY <1>0, AppendProperties
<1> DEFINE a == Append(w, d)
<1> HIDE DEF g, at, a
<1>4. CASE h.ptr < HistSize
  <2>1. /\ First(h) = 0 /\ Len(w) = h.ptr /\ First(g) = 0
    BY <1>0, <1>1, <1>4 DEF Held, First
  <2>2. t = a
    BY <1>0, <1>3, <1>4, <2>1 DEF Recent, a
  <2>3. Recorded(w, t, d)
    BY <1>3, <2>2 DEF Recorded, a
  <2>4. ASSUME NEW k \in 1 .. Len(a) PROVE a[k] = g.entries[(0 + k - 1) % HistSize]
    <3>1. CASE k = Len(w) + 1
      <4>1. 0 + k - 1 = h.ptr
        BY <1>0, <2>1, <3>1
      <4> QED BY <1>0, <1>2, <1>3, <3>1, <4>1 DEF a, at
    <3>2. CASE k \in 1 .. Len(w)
      <4>1. 0 + k - 1 \in Nat /\ 0 + k - 1 < h.ptr /\ h.ptr < 0 + k - 1 + HistSize
        BY <1>0, <1>4, <2>1, <3>2
      <4>2. (0 + k - 1) % HistSize \in 0 .. HistSize - 1 /\ (0 + k - 1) % HistSize # at
        BY <1>0, <4>1, PlacesDiffer DEF at
      <4>3. w[k] = h.entries[(0 + k - 1) % HistSize]
        BY <2>1, <3>2 DEF Held
      <4> QED BY <1>2, <1>3, <3>2, <4>2, <4>3 DEF a
    <3> QED BY <1>0, <1>3, <3>1, <3>2 DEF a
  <2>5. Held(g, t)
    <3>1. Len(a) = g.ptr - First(g)
      BY <1>0, <1>1, <1>3, <2>1 DEF a
    <3> QED BY <1>3, <2>1, <2>2, <2>4, <3>1 DEF Held, a
  <2>6. Len(t) # Len(w)
    BY <1>0, <1>3, <2>2 DEF a
  <2> QED BY <1>1, <2>3, <2>5, <2>6 DEF g
<1>5. CASE h.ptr >= HistSize
  <2>1. /\ First(h) = h.ptr - HistSize /\ Len(w) = HistSize /\ First(g) = h.ptr + 1 - HistSize
        /\ First(g) \in Nat
    <3>1. First(h) = h.ptr - HistSize
      BY <1>0, <1>5 DEF First
    <3>2. First(g) = h.ptr + 1 - HistSize
      BY <1>0, <1>1, <1>5 DEF First
    <3>3. Len(w) = h.ptr - First(h)
      BY DEF Held
    <3> QED BY <1>0, <1>5, <3>1, <3>2, <3>3
  <2>2. t = Tail(a) /\ a # << >>
    <3>1. Len(a) > HistSize /\ Len(a) \in Nat \ {0}
      BY <1>0, <1>3, <2>1 DEF a
    <3>2. t = Tail(a)
      BY <3>1 DEF Recent, a
    <3>3. a # << >>
      BY <3>1, EmptySeq, Zenon
    <3> QED BY <3>2, <3>3
  <2>3. /\ t \in Seq(Int) /\ Len(t) = HistSize
        /\ \A i \in 1 .. Len(t) : t[i] = a[i + 1]
    <3>1. a \in Seq(Int) /\ Len(a) = HistSize + 1
      BY <1>3, <2>1 DEF a
    <3>2. /\ Tail(a) \in Seq(Int) /\ Len(Tail(a)) = Len(a) - 1
          /\ \A i \in 1 .. Len(Tail(a)) : Tail(a)[i] = a[i + 1]
      BY <2>2, <3>1, HeadTailProperties
    <3>3. Len(Tail(a)) = HistSize
      BY <1>0, <3>1, <3>2
    <3> QED BY <2>2, <3>2, <3>3
  <2> HIDE DEF t
  <2>4. t[Len(t)] = d /\ \A i \in 1 .. Len(w) - 1 : t[i] = w[i + 1]
    <3>1. t[Len(t)] = a[Len(w) + 1]
      BY <1>0, <2>1, <2>3
    <3>2. ASSUME NEW i \in 1 .. Len(w) - 1 PROVE t[i] = w[i + 1]
      <4>1. i \in 1 .. Len(t) /\ i + 1 \in 1 .. Len(w)
        BY <1>0, <2>1, <2>3
      <4> QED BY <1>3, <2>3, <4>1 DEF a
    <3> QED BY <1>3, <3>1, <3>2 DEF a
  <2>5. Recorded(w, t, d)
    BY <1>0, <2>1, <2>3, <2>4 DEF Recorded
  <2>6. ASSUME NEW k \in 1 .. Len(t) PROVE t[k] = g.entries[(First(g) + k - 1) % HistSize]
    <3>1. CASE k = HistSize
      <4>1. First(g) + k - 1 = h.ptr
        BY <1>0, <2>1, <3>1
      <4>2. t[k] = d
        BY <2>3, <2>4, <3>1
      <4>3. at \in 0 .. HistSize - 1 /\ at = (First(g) + k - 1) % HistSize
        BY <1>0, <4>1 DEF at
      <4>4. g.entries[at] = d
        BY <1>2, <4>3
      <4> QED BY <4>2, <4>3, <4>4
    <3>2. CASE k \in 1 .. HistSize - 1
      <4>1. /\ First(g) + k - 1 \in Nat /\ First(g) + k - 1 < h.ptr
            /\ h.ptr < First(g) + k - 1 + HistSize
            /\ First(h) + (k + 1) - 1 = First(g) + k - 1 /\ k + 1 \in 1 .. Len(w)
            /\ k \in 1 .. Len(w) - 1
        <5> DEFINE z == First(g)
                   u == First(h)
                   l == Len(w)
                   p == h.ptr
        <5>1. /\ u = p - HistSize /\ l = HistSize /\ z = p + 1 - HistSize
              /\ HistSize \in Nat /\ p \in Nat /\ p >= HistSize
          BY <1>0, <1>5, <2>1
        <5>2. k \in Nat /\ 1 <= k /\ k <= HistSize - 1
          BY <1>0, <3>2
        <5> HIDE DEF z, u, l, p
        <5>3. z + k - 1 \in Nat /\ z + k - 1 < p /\ p < z + k - 1 + HistSize
          BY <5>1, <5>2
        <5>4. u + (k + 1) - 1 = z + k - 1 /\ k + 1 \in 1 .. l /\ k \in 1 .. l - 1
          BY <5>1, <5>2
        <5> QED BY <5>3, <5>4 DEF z, u, l, p
      <4>2. /\ (First(g) + k - 1) % HistSize \in 0 .. HistSize - 1
            /\ (First(g) + k - 1) % HistSize # at
        BY <1>0, <4>1, PlacesDiffer DEF at
      <4>3. w[k + 1] = h.entries[(First(h) + (k + 1) - 1) % HistSize]
        BY <4>1 DEF Held
      <4> QED BY <1>2, <2>4, <4>1, <4>2, <4>3
    <3> QED BY <1>0, <2>3, <3>1, <3>2
  <2>7. Held(g, t)
    <3>1. Len(t) = g.ptr - First(g)
      BY <1>0, <1>1, <2>1, <2>3
    <3> QED BY <2>3, <2>6, <3>1 DEF Held
  <2>8. w[1] = h.entries[h.ptr % HistSize]
    <3>1. First(h) + 1 - 1 = h.ptr - HistSize /\ h.ptr - HistSize \in Nat /\ 1 \in 1 .. Len(w)
      BY <1>0, <1>5, <2>1
    <3>2. w[1] = h.entries[(First(h) + 1 - 1) % HistSize]
      BY <3>1 DEF Held
    <3>3. (h.ptr - HistSize + HistSize) % HistSize = (h.ptr - HistSize) % HistSize
      BY <3>1, SamePlace
    <3>4. h.ptr - HistSize + HistSize = h.ptr
      BY <1>0
    <3> QED BY <3>1, <3>2, <3>3, <3>4
  <2> QED BY <1>1, <2>5, <2>7, <2>8 DEF g, t
<1> QED BY <1>0, <1>4, <1>5

LEMMA ExactByPut ==
  ASSUME NEW h \in History, NEW w, Held(h, w), Exact(h, w), NEW d \in Int
  PROVE  Exact(HistoryPut(h, d), Recent(Append(w, d)))
<1> DEFINE at == h.ptr % HistSize
           kicked == h.entries[at]
           f == [h EXCEPT !.entries[at] = d, !.ptr = @ + 1]
           g == HistoryPut(h, d)
           t == Recent(Append(w, d))
<1>1. /\ h.ptr \in Nat /\ h.valid \in BOOLEAN /\ h.maxbuf \in [1 .. MaxBuf -> Int]
      /\ h.minbuf \in [1 .. MaxBuf -> Int]
  BY DEF History
<1>2. /\ f.ptr = h.ptr + 1 /\ f.maxbuf = h.maxbuf /\ f.minbuf = h.minbuf /\ f.valid = h.valid
  BY DEF History
<1>3. /\ g.maxbuf = h.maxbuf /\ g.minbuf = h.minbuf
      /\ g.valid => h.valid /\ StillExact(f, d, kicked)
  <2> DEFINE b == h.valid /\ StillExact(f, d, kicked)
  <2>1. g = [f EXCEPT !.valid = b]
    BY <1>2 DEF HistoryPut
  <2>2. "valid" \in DOMAIN f
    BY DEF History
  <2>3. b \in BOOLEAN
    BY <1>1 DEF StillExact
  <2> HIDE DEF b, f, g
  <2>4. g.maxbuf = f.maxbuf /\ g.minbuf = f.minbuf /\ g.valid = b
    BY <2>1, <2>2
  <2> QED BY <1>2, <2>4 DEF b
<1> SUFFICES ASSUME g.valid PROVE g.maxbuf = Greatest(t) /\ g.minbuf = Least(t)
  BY DEF Exact
<1>4. /\ h.maxbuf = Greatest(w) /\ h.minbuf = Least(w)
      /\ h.ptr + 1 >= HistSize
      /\ h.minbuf[MaxBuf] <= d /\ d <= h.maxbuf[MaxBuf]
      /\ h.minbuf[MaxBuf] < kicked /\ kicked < h.maxbuf[MaxBuf]
  BY <1>2, <1>3 DEF StillExact, Exact
<1>5. /\ HistSize \in Nat \ {0} /\ MaxBuf \in Nat \ {0} /\ MaxBuf <= HistSize
      /\ LongMin \in Int /\ LongMax \in Int /\ LongMin < LongMax
  BY HistoryAssumption, DelaysAssumption
<1>6. /\ w \in Seq(Int) /\ t \in Seq(Int) /\ Recorded(w, t, d)
      /\ Len(t) = Len(w) => w[1] = kicked
  BY RecordedByPut DEF Held
<1>7. Len(w) \in Nat /\ Len(t) \in Nat
  BY <1>6, LenProperties
<1>8. Len(w) = IF h.ptr > HistSize THEN HistSize ELSE h.ptr
  BY <1>1, <1>5 DEF Held, First
<1> HIDE DEF t, g, f, kicked
<1>9. MaxBuf <= Len(w)
  <2>1. MaxBuf \in 1 .. MaxBuf
    BY <1>5
  <2>2. MaxBuf > Len(w) => h.maxbuf[MaxBuf] = LongMin /\ h.minbuf[MaxBuf] = LongMax
    BY <1>4, <1>6, <2>1, SortedEnds
  <2>3. h.maxbuf[MaxBuf] \in Int /\ h.minbuf[MaxBuf] \in Int
    BY <1>1, <2>1
  <2> QED BY <1>4, <1>5, <1>7, <2>2, <2>3
<1>10. MaxBuf <= Len(t)
  BY <1>5, <1>6, <1>7, <1>9 DEF Recorded
<1>11. ASSUME NEW k \in 1 .. MaxBuf
       PROVE  IsGreatest(t, k, Greatest(w)[k]) /\ IsLeast(t, k, Least(w)[k])
  <2> DEFINE v == Greatest(w)[k]
             x == Least(w)[k]
             vl == Greatest(w)[MaxBuf]
             xl == Least(w)[MaxBuf]
  <2>1. k \in Nat /\ k <= MaxBuf /\ MaxBuf \in 1 .. MaxBuf /\ k <= Len(w)
    BY <1>5, <1>7, <1>9
  <2>2. v \in Int /\ vl \in Int /\ x \in Int /\ xl \in Int
    BY <1>1, <1>4, <2>1
  <2>3. /\ IsGreatest(w, k, v) /\ IsGreatest(w, MaxBuf, vl)
        /\ IsLeast(w, k, x) /\ IsLeast(w, MaxBuf, xl)
    BY <1>6, <1>9, <2>1, SortedEnds
  <2>4. xl <= d /\ d <= vl /\ (Len(t) = Len(w) => xl < w[1] /\ w[1] < vl)
    BY <1>4, <1>6
  <2> HIDE DEF v, x, vl, xl
  <2>5. vl <= v /\ x <= xl
    BY <1>5, <1>6, <2>1, <2>2, <2>3, GreatestOrder, LeastOrder
  <2>6. \A i \in 1 .. Len(w) : w[i] \in Int
    BY <1>6, ElementOfSeq
  <2>7. w[1] \in Int
    BY <1>5, <1>7, <1>9, <2>6
  <2>8. /\ d <= v /\ x <= d
        /\ Len(t) = Len(w) => w[1] < v
        /\ Len(t) = Len(w) => x < w[1]
    BY <2>2, <2>4, <2>5, <2>7
  <2>9. IsGreatest(t, k, v)
    BY <1>6, <2>1, <2>2, <2>3, <2>8, GreatestKept
  <2>10. IsLeast(t, k, x)
    BY <1>6, <2>1, <2>2, <2>3, <2>8, LeastKept
  <2> QED BY <2>9, <2>10 DEF v, x
<1>12. Greatest(w) = Greatest(t) /\ Least(w) = Least(t)
  BY <1>6, <1>9, <1>10, <1>11, SameEnds
<1> QED BY <1>3, <1>4, <1>12

(* history_calc_maxbuf: what it sorts are the delays that are held. *)
LEMMA CalculatedExact ==
  ASSUME NEW h \in History, NEW w, Held(h, w), Exact(h, w)
  PROVE  /\ Calculated(h) \in History /\ Calculated(h).ptr = h.ptr
         /\ Held(Calculated(h), w) /\ Exact(Calculated(h), w)
<1> DEFINE delays == [k \in 1 .. h.ptr - First(h) |-> h.entries[(First(h) + k - 1) % HistSize]]
           c == [h EXCEPT !.maxbuf = Greatest(delays), !.minbuf = Least(delays), !.valid = TRUE]
<1>1. Calculated(h) = IF h.valid \/ h.ptr = 0 THEN h ELSE c
  BY DEF Calculated, First
<1>2. w \in Seq(Int) /\ Len(w) = h.ptr - First(h)
  BY DEF Held
<1>3. delays = w
  <2> DEFINE S == 1 .. Len(w)
  <2>1. w \in [S -> Int]
    BY <1>2, LenProperties
  <2>2. delays = [k \in S |-> w[k]]
    BY <1>2 DEF Held
  <2> HIDE DEF S, delays
  <2>3. w = [k \in S |-> w[k]]
    BY <2>1
  <2> QED BY <2>2, <2>3
<1> HIDE DEF delays
<1>4. Greatest(w) \in [1 .. MaxBuf -> Int] /\ Least(w) \in [1 .. MaxBuf -> Int]
  BY <1>2, SortedEnds
<1>5. /\ c \in History /\ c.ptr = h.ptr /\ c.entries = h.entries
      /\ c.maxbuf = Greatest(w) /\ c.minbuf = Least(w)
  <2> DEFINE a == Greatest(w)
             b == Least(w)
  <2>1. c = [h EXCEPT !.maxbuf = a, !.minbuf = b, !.valid = TRUE]
    BY <1>3
  <2>2. a \in [1 .. MaxBuf -> Int] /\ b \in [1 .. MaxBuf -> Int]
    BY <1>4
  <2> HIDE DEF a, b, c
  <2>3. /\ c \in History /\ c.ptr = h.ptr /\ c.entries = h.entries
        /\ c.maxbuf = a /\ c.minbuf = b
    BY <2>1, <2>2 DEF History
  <2> QED BY <2>3 DEF a, b
<1> HIDE DEF c
<1>6. Held(c, w) /\ Exact(c, w)
  <2>1. First(c) = First(h)
    BY <1>5 DEF First
  <2> QED BY <1>5, <2>1 DEF Held, Exact
<1> QED BY <1>1, <1>5, <1>6

-----------------------------------------------------------------------------
(* The queue of frames *)

InOrder(q) == \A j, k \in 1 .. Len(q) : j < k => q[j].ts <= q[k].ts

(* r is the queue q with f at place p: what is before it is not later, what is
   behind it is. *)
Enqueued(q, r, f, p) ==
  /\ p \in 1 .. Len(q) + 1 /\ r \in Seq(Frame) /\ Len(r) = Len(q) + 1 /\ r[p] = f
  /\ \A i \in 1 .. p - 1 : r[i] = q[i] /\ q[i].ts <= f.ts
  /\ \A i \in p .. Len(q) : r[i + 1] = q[i] /\ q[i].ts > f.ts

(* What is where when one sequence follows another. *)
Joins(r, s, t) ==
  /\ Len(r) = Len(s) + Len(t)
  /\ \A i \in 1 .. Len(s) : r[i] = s[i]
  /\ \A i \in 1 .. Len(t) : r[Len(s) + i] = t[i]

LEMMA Joined ==
  ASSUME NEW S, NEW s \in Seq(S), NEW t \in Seq(S)
  PROVE  s \o t \in Seq(S) /\ Joins(s \o t, s, t)
<1> DEFINE r == s \o t
           m == Len(s)
           n == Len(t)
<1>0. m \in Nat /\ n \in Nat
  BY LenProperties
<1>1. /\ r \in Seq(S) /\ Len(r) = m + n
      /\ \A i \in 1 .. m + n : r[i] = IF i <= m THEN s[i] ELSE t[i - m]
  BY ConcatProperties
<1> HIDE DEF r, m, n
<1>2. \A i \in 1 .. m : r[i] = s[i]
  BY <1>0, <1>1
<1>3. ASSUME NEW i \in 1 .. n PROVE r[m + i] = t[i]
  <2>1. m + i \in 1 .. m + n /\ ~ (m + i <= m) /\ m + i - m = i
    BY <1>0
  <2>2. r[m + i] = t[m + i - m]
    BY <1>0, <1>1, <2>1
  <2> QED BY <2>1, <2>2
<1> QED BY <1>1, <1>2, <1>3 DEF r, m, n, Joins

(* What InsertAt puts at which place. *)
Inserted(r, s, p, e) ==
  /\ Len(r) = Len(s) + 1 /\ r[p] = e
  /\ \A i \in 1 .. p - 1 : r[i] = s[i]
  /\ \A i \in p .. Len(s) : r[i + 1] = s[i]

LEMMA InsertedAt ==
  ASSUME NEW S, NEW s \in Seq(S), NEW e \in S, NEW p \in 1 .. Len(s)
  PROVE  InsertAt(s, p, e) \in Seq(S) /\ Inserted(InsertAt(s, p, e), s, p, e)
<1> DEFINE n == Len(s)
           u == SubSeq(s, 1, p - 1)
           m == <<e>>
           v == SubSeq(s, p, n)
           r == InsertAt(s, p, e)
<1>1. n \in Nat /\ p \in 1 .. n /\ \A i \in 1 .. n : s[i] \in S
  BY LenProperties, ElementOfSeq
<1>2. u \in Seq(S) /\ Len(u) = p - 1 /\ \A i \in 1 .. p - 1 : u[i] = s[i]
  <2>1. 1 \in Int /\ p - 1 \in Int /\ \A i \in 1 .. p - 1 : s[i] \in S
    BY <1>1
  <2> HIDE DEF n
  <2>2. /\ u \in Seq(S) /\ Len(u) = IF 1 <= p - 1 THEN p - 1 - 1 + 1 ELSE 0
        /\ \A i \in 1 .. p - 1 - 1 + 1 : u[i] = s[1 + i - 1]
    BY <2>1, SubSeqProperties
  <2> HIDE DEF u
  <2>3. Len(u) = p - 1
    BY <1>1, <2>2
  <2>4. ASSUME NEW i \in 1 .. p - 1 PROVE u[i] = s[i]
    <3>1. i \in 1 .. p - 1 - 1 + 1 /\ 1 + i - 1 = i
      BY <1>1
    <3>2. u[i] = s[1 + i - 1]
      BY <2>2, <3>1
    <3> QED BY <3>1, <3>2
  <2> QED BY <2>2, <2>3, <2>4
<1>3. v \in Seq(S) /\ Len(v) = n - p + 1 /\ \A i \in 1 .. n - p + 1 : v[i] = s[p + i - 1]
  <2>1. n \in Int /\ p \in Int /\ \A i \in p .. n : s[i] \in S
    BY <1>1
  <2> HIDE DEF n
  <2>2. /\ v \in Seq(S) /\ Len(v) = IF p <= n THEN n - p + 1 ELSE 0
        /\ \A i \in 1 .. n - p + 1 : v[i] = s[p + i - 1]
    BY <2>1, SubSeqProperties
  <2> QED BY <1>1, <2>2
<1>4. m \in Seq(S) /\ Len(m) = 1 /\ m[1] = e
  OBVIOUS
<1>5. r = (u \o m) \o v
  BY DEF InsertAt
<1> HIDE DEF n, u, v, m, r
<1> DEFINE um == u \o m
<1>6. /\ um \in Seq(S) /\ Len(um) = p /\ um[p] = e
      /\ \A i \in 1 .. p - 1 : um[i] = s[i]
  <2>1. /\ um \in Seq(S) /\ Len(um) = Len(u) + Len(m)
        /\ \A i \in 1 .. Len(u) : um[i] = u[i]
        /\ \A i \in 1 .. Len(m) : um[Len(u) + i] = m[i]
    <3> HIDE DEF um
    <3>1. um \in Seq(S) /\ Joins(um, u, m)
      BY <1>2, <1>4, Joined DEF um
    <3> QED BY <3>1 DEF Joins
  <2> HIDE DEF um
  <2>2. um[Len(u) + 1] = m[1]
    BY <1>4, <2>1
  <2>3. Len(u) + 1 = p
    BY <1>1, <1>2
  <2> QED BY <1>2, <1>4, <2>1, <2>2, <2>3
<1>7. /\ r \in Seq(S) /\ Len(r) = Len(um) + Len(v)
      /\ \A i \in 1 .. Len(um) : r[i] = um[i]
      /\ \A i \in 1 .. Len(v) : r[Len(um) + i] = v[i]
  <2>1. um \in Seq(S) /\ r = um \o v
    BY <1>5, <1>6
  <2> HIDE DEF um
  <2>2. r \in Seq(S) /\ Joins(r, um, v)
    BY <1>3, <2>1, Joined
  <2> QED BY <2>2 DEF Joins
<1> HIDE DEF um
<1>8. r \in Seq(S) /\ Len(r) = n + 1
  BY <1>1, <1>3, <1>6, <1>7
<1>9. r[p] = e /\ \A i \in 1 .. p - 1 : r[i] = s[i]
  BY <1>1, <1>6, <1>7
<1>10. ASSUME NEW i \in p .. n PROVE r[i + 1] = s[i]
  <2>1. i + 1 - p \in 1 .. n - p + 1 /\ p + (i + 1 - p) - 1 = i /\ p + (i + 1 - p) = i + 1
    BY <1>1
  <2>2. r[p + (i + 1 - p)] = v[i + 1 - p]
    BY <1>3, <1>6, <1>7, <2>1
  <2>3. v[i + 1 - p] = s[p + (i + 1 - p) - 1]
    BY <1>3, <2>1
  <2> QED BY <2>1, <2>2, <2>3
<1> QED BY <1>8, <1>9, <1>10 DEF n, r, Inserted

(* queue_put *)
LEMMA PutInOrder ==
  ASSUME queue \in Seq(Frame), InOrder(queue), NEW f \in Frame
  PROVE  \E p \in 1 .. Len(queue) + 1 : Enqueued(queue, Queued(f), f, p)
<1> DEFINE n == Len(queue)
           later == {i \in 1 .. n : queue[i].ts > f.ts}
           at == IF later # {} THEN Min(later) ELSE 0
<1>0. Queued(f) = IF at = 0 THEN Append(queue, f) ELSE InsertAt(queue, at, f)
  BY DEF Queued, SelectInSeq
<1>1. n \in Nat /\ \A i \in 1 .. n : queue[i] \in Frame /\ queue[i].ts \in Int
  <2>1. n \in Nat /\ \A i \in 1 .. n : queue[i] \in Frame
    BY LenProperties, ElementOfSeq
  <2>2. \A g \in Frame : g.ts \in Int
    BY DEF Frame
  <2> HIDE DEF n
  <2> QED BY <2>1, <2>2
<1>2. f.ts \in Int
  BY DEF Frame
<1>3. CASE later = {}
  <2>1. Queued(f) = Append(queue, f)
    BY <1>0, <1>3
  <2>2. /\ Append(queue, f) \in Seq(Frame) /\ Len(Append(queue, f)) = n + 1
        /\ \A i \in 1 .. n : Append(queue, f)[i] = queue[i]
        /\ Append(queue, f)[n + 1] = f
    BY AppendProperties
  <2>3. \A i \in 1 .. n : queue[i].ts <= f.ts
    BY <1>1, <1>2, <1>3
  <2> DEFINE r == Append(queue, f)
  <2> HIDE DEF r
  <2>4. Enqueued(queue, r, f, n + 1)
    <3>1. \A i \in 1 .. n + 1 - 1 : i \in 1 .. n
      BY <1>1
    <3>2. \A i \in n + 1 .. n : FALSE
      BY <1>1
    <3>3. n + 1 \in 1 .. n + 1
      BY <1>1
    <3> QED BY <2>2, <2>3, <3>1, <3>2, <3>3 DEF Enqueued, r
  <2>5. n + 1 \in 1 .. n + 1
    BY <1>1
  <2> QED BY <2>1, <2>4, <2>5 DEF r
<1>4. CASE later # {}
  <2>1. PICK a \in later : TRUE
    BY <1>4
  <2>2. later \subseteq Nat
    BY <1>1
  <2>3. \E x \in later : \A y \in later : x <= y
    <3> HIDE DEF later
    <3> QED BY <2>1, <2>2, LeastNatural
  <2>4. Min(later) \in later /\ \A y \in later : Min(later) <= y
    BY <2>3 DEF Min
  <2>5. at = Min(later)
    BY <1>4
  <2> HIDE DEF at
  <2>6. /\ at \in 1 .. n /\ queue[at].ts > f.ts /\ \A y \in later : at <= y
    BY <2>4, <2>5
  <2>7. Queued(f) = InsertAt(queue, at, f)
    BY <1>0, <1>1, <2>6
  <2> DEFINE r == InsertAt(queue, at, f)
  <2>8. /\ r \in Seq(Frame) /\ Len(r) = n + 1 /\ r[at] = f
        /\ \A i \in 1 .. at - 1 : r[i] = queue[i]
        /\ \A i \in at .. n : r[i + 1] = queue[i]
    <3>1. at \in 1 .. Len(queue)
      BY <2>6
    <3> HIDE DEF r
    <3>2. r \in Seq(Frame) /\ Inserted(r, queue, at, f)
      BY <3>1, InsertedAt DEF r
    <3> QED BY <3>2 DEF Inserted
  <2> HIDE DEF r
  <2>9. ASSUME NEW i \in 1 .. at - 1 PROVE queue[i].ts <= f.ts
    <3>1. i \in 1 .. n /\ ~ (at <= i)
      BY <1>1, <2>6
    <3>2. i \notin later
      BY <2>6, <3>1
    <3> QED BY <1>1, <1>2, <3>1, <3>2
  <2>10. ASSUME NEW i \in at .. n PROVE queue[i].ts > f.ts
    <3>1. i \in 1 .. n /\ (i = at \/ at < i)
      BY <1>1, <2>6
    <3>2. at < i => queue[at].ts <= queue[i].ts
      BY <2>6, <3>1 DEF InOrder
    <3> QED BY <1>1, <1>2, <2>6, <3>1, <3>2
  <2>11. Enqueued(queue, r, f, at)
    <3>1. at \in 1 .. n + 1
      BY <1>1, <2>6
    <3> QED BY <2>8, <2>9, <2>10, <3>1 DEF Enqueued
  <2> QED BY <1>1, <2>6, <2>7, <2>11 DEF r
<1> QED BY <1>3, <1>4

(* What is in the queue, and its order, after a frame came. *)
LEMMA OrderedByPut ==
  ASSUME NEW q \in Seq(Frame), NEW r, NEW f \in Frame, NEW p, Enqueued(q, r, f, p), InOrder(q)
  PROVE  /\ r \in Seq(Frame) /\ InOrder(r)
         /\ \A k \in 1 .. Len(r) : r[k] = f \/ \E i \in 1 .. Len(q) : r[k] = q[i]
<1> DEFINE n == Len(q)
           m == Len(r)
<1>1. /\ p \in 1 .. n + 1 /\ r \in Seq(Frame) /\ m = n + 1 /\ r[p] = f
      /\ \A i \in 1 .. p - 1 : r[i] = q[i] /\ q[i].ts <= f.ts
      /\ \A i \in p .. n : r[i + 1] = q[i] /\ q[i].ts > f.ts
  BY DEF Enqueued
<1>2. n \in Nat /\ \A i \in 1 .. n : q[i] \in Frame
  BY LenProperties, ElementOfSeq
<1>3. \A g \in Frame : g.ts \in Int
  BY DEF Frame
<1>4. \A j, k \in 1 .. n : j < k => q[j].ts <= q[k].ts
  BY DEF InOrder
<1> HIDE DEF n, m
<1>5. ASSUME NEW k \in 1 .. m
      PROVE  \/ k \in 1 .. p - 1 /\ r[k] = q[k] /\ k \in 1 .. n
             \/ k = p /\ r[k] = f
             \/ k \in p + 1 .. m /\ r[k] = q[k - 1] /\ k - 1 \in p .. n /\ k - 1 \in 1 .. n
  <2>1. p \in Nat /\ 1 <= p /\ p <= n + 1 /\ m = n + 1 /\ k \in Nat /\ 1 <= k /\ k <= m
    BY <1>1, <1>2
  <2>2. CASE k < p
    BY <1>1, <1>2, <2>1, <2>2
  <2>3. CASE k = p
    BY <1>1, <2>3
  <2>4. CASE k > p
    <3>1. k - 1 \in p .. n /\ k - 1 + 1 = k /\ k \in p + 1 .. m /\ k - 1 \in 1 .. n
      BY <1>2, <2>1, <2>4
    <3>2. r[k - 1 + 1] = q[k - 1]
      BY <1>1, <3>1
    <3> QED BY <3>1, <3>2
  <2> QED BY <2>1, <2>2, <2>3, <2>4
<1>6. ASSUME NEW j \in 1 .. m, NEW k \in 1 .. m, j < k PROVE r[j].ts <= r[k].ts
  <2>0. f.ts \in Int /\ \A i \in 1 .. n : q[i].ts \in Int
    BY <1>2, <1>3
  <2>1. CASE j \in 1 .. p - 1 /\ r[j] = q[j] /\ j \in 1 .. n
    <3>1. CASE k \in 1 .. p - 1 /\ r[k] = q[k] /\ k \in 1 .. n
      BY <1>4, <1>6, <2>1, <3>1
    <3>2. CASE k = p /\ r[k] = f
      BY <1>1, <2>1, <3>2
    <3>3. CASE k \in p + 1 .. m /\ r[k] = q[k - 1] /\ k - 1 \in p .. n /\ k - 1 \in 1 .. n
      <4>1. q[j].ts <= f.ts /\ q[k - 1].ts > f.ts
        BY <1>1, <2>1, <3>3
      <4> QED BY <2>0, <2>1, <3>3, <4>1
    <3> QED BY <1>5, <3>1, <3>2, <3>3
  <2>2. CASE j = p /\ r[j] = f
    <3>1. k \in p + 1 .. m /\ r[k] = q[k - 1] /\ k - 1 \in p .. n /\ k - 1 \in 1 .. n
      <4>1. ~ (k \in 1 .. p - 1) /\ k # p
        BY <1>1, <1>2, <1>6, <2>2
      <4> QED BY <1>5, <4>1
    <3>2. q[k - 1].ts > f.ts
      BY <1>1, <3>1
    <3> QED BY <2>0, <2>2, <3>1, <3>2
  <2>3. CASE j \in p + 1 .. m /\ r[j] = q[j - 1] /\ j - 1 \in p .. n /\ j - 1 \in 1 .. n
    <3>1. k \in p + 1 .. m /\ r[k] = q[k - 1] /\ k - 1 \in p .. n /\ k - 1 \in 1 .. n
      <4>1. ~ (k \in 1 .. p - 1) /\ k # p
        BY <1>1, <1>2, <1>6, <2>3
      <4> QED BY <1>5, <4>1
    <3>2. j - 1 < k - 1
      BY <1>1, <1>2, <1>6
    <3> QED BY <1>4, <2>3, <3>1, <3>2
  <2> QED BY <1>5, <2>1, <2>2, <2>3
<1>7. InOrder(r)
  BY <1>6 DEF InOrder, m
<1>8. ASSUME NEW k \in 1 .. m PROVE r[k] = f \/ \E i \in 1 .. n : r[k] = q[i]
  BY <1>5
<1> QED BY <1>1, <1>7, <1>8 DEF n, m

(* ... and after its head was taken. *)
LEMMA OrderedByTail ==
  ASSUME NEW q \in Seq(Frame), q # << >>, InOrder(q)
  PROVE  /\ Tail(q) \in Seq(Frame) /\ InOrder(Tail(q)) /\ Len(Tail(q)) = Len(q) - 1
         /\ \A i \in 1 .. Len(q) - 1 : i + 1 \in 1 .. Len(q) /\ Tail(q)[i] = q[i + 1]
         /\ Len(q) \in Nat \ {0} /\ Head(q) = q[1] /\ Head(q) \in Frame
<1> DEFINE n == Len(q)
           t == Tail(q)
<1>1. n \in Nat \ {0}
  BY EmptySeq
<1>2. /\ t \in Seq(Frame) /\ Len(t) = n - 1 /\ Head(q) \in Frame
      /\ \A i \in 1 .. Len(t) : t[i] = q[i + 1]
  BY HeadTailProperties
<1>3. Head(q) = q[1]
  OBVIOUS
<1>4. \A j, k \in 1 .. n : j < k => q[j].ts <= q[k].ts
  BY DEF InOrder
<1> HIDE DEF n, t
<1>5. \A i \in 1 .. n - 1 : i + 1 \in 1 .. n /\ t[i] = q[i + 1]
  BY <1>1, <1>2
<1>6. ASSUME NEW j \in 1 .. n - 1, NEW k \in 1 .. n - 1, j < k PROVE t[j].ts <= t[k].ts
  <2>1. j + 1 \in 1 .. n /\ k + 1 \in 1 .. n /\ j + 1 < k + 1
    BY <1>1, <1>6
  <2> QED BY <1>4, <1>5, <2>1
<1>7. InOrder(t)
  BY <1>2, <1>6 DEF InOrder
<1> QED BY <1>1, <1>2, <1>3, <1>5, <1>7 DEF n, t

-----------------------------------------------------------------------------
(* What jb_get decides on *)

Info == [jitter : Int, min : Int, current : Int, target : Int, next_voice_ts : Int,
         last_voice_ms : Nat, silence_begin_ts : Int, last_adjustment : Nat,
         last_delay : Int, cnt_delay_discont : 0 .. MaxDiscont, resync_offset : Int]

(* jb differs from info in the delays only. *)
SameClock(jb) ==
  /\ jb.current = info.current /\ jb.next_voice_ts = info.next_voice_ts
  /\ jb.last_voice_ms = info.last_voice_ms /\ jb.silence_begin_ts = info.silence_begin_ts
  /\ jb.resync_offset = info.resync_offset

LEMMA FrameFields ==
  ASSUME NEW g \in Frame
  PROVE  g.ts \in Int /\ g.ms \in Nat
<1>1. g.ts \in Int /\ g.ms \in Sizes \cup {0}
  BY DEF Frame
<1>2. Sizes \cup {0} \subseteq Nat
  BY InputsAssumption
<1> QED BY <1>1, <1>2

LEMMA InfoFields ==
  ASSUME NEW jb \in Info
  PROVE  /\ jb.jitter \in Int /\ jb.min \in Int /\ jb.current \in Int /\ jb.target \in Int
         /\ jb.next_voice_ts \in Int /\ jb.last_voice_ms \in Nat /\ jb.silence_begin_ts \in Int
         /\ jb.last_delay \in Int /\ jb.cnt_delay_discont \in 0 .. MaxDiscont
         /\ jb.resync_offset \in Int
BY DEF Info

LEMMA MeasuredType ==
  ASSUME info \in Info, NEW h \in History
  PROVE  Measured(h) \in Info /\ SameClock(Measured(h))
<1> DEFINE count == IF h.ptr < HistSize THEN h.ptr ELSE HistSize
           wanted == (count * DropPct) \div 100
           index == 1 + (IF wanted > MaxBuf - 1 THEN MaxBuf - 1 ELSE wanted)
           a == h.minbuf[index]
           b == h.maxbuf[index] - h.minbuf[index]
<1>1. /\ HistSize \in Nat /\ DropPct \in Nat /\ MaxBuf \in Nat \ {0}
      /\ h.ptr \in Nat /\ h.maxbuf \in [1 .. MaxBuf -> Int] /\ h.minbuf \in [1 .. MaxBuf -> Int]
  BY HistoryAssumption DEF History
<1>2. count \in Nat
  BY <1>1
<1> HIDE DEF count
<1>3. count * DropPct \in Nat
  BY <1>1, <1>2
<1>4. wanted \in Nat
  BY <1>3
<1> HIDE DEF wanted
<1>5. index \in 1 .. MaxBuf
  BY <1>1, <1>4
<1>6. Measured(h) = [info EXCEPT !.min = a, !.jitter = b]
  BY DEF Measured, count, wanted
<1> HIDE DEF index
<1>7. a \in Int /\ b \in Int
  BY <1>1, <1>5
<1> HIDE DEF a, b
<1> QED BY <1>6, <1>7 DEF Info, SameClock

LEMMA CurrentType ==
  ASSUME info \in Info, NEW h \in History
  PROVE  Current(h) \in Info /\ SameClock(Current(h))
<1> DEFINE jb == Measured(h)
           a == jb.jitter + jb.min + TargetExtra
<1>1. Current(h) = [jb EXCEPT !.target = a]
  BY DEF Current
<1>2. jb \in Info /\ SameClock(jb)
  BY MeasuredType
<1> HIDE DEF jb
<1>3. a \in Int
  BY <1>2, DelaysAssumption DEF Info
<1> HIDE DEF a
<1> QED BY <1>1, <1>2, <1>3 DEF Info, SameClock

LEMMA InSilenceType ==
  ASSUME NEW jb \in Info, now \in Nat
  PROVE  /\ InSilence(jb) \in Info
         /\ InSilence(jb).next_voice_ts = jb.next_voice_ts
         /\ InSilence(jb).last_voice_ms = jb.last_voice_ms
         /\ InSilence(jb).silence_begin_ts = jb.silence_begin_ts
         /\ InSilence(jb).resync_offset = jb.resync_offset
<1> DEFINE a == jb.current - Interp
           c == [jb EXCEPT !.current = a, !.last_adjustment = now]
<1>1. InSilence(jb) = jb \/ InSilence(jb) = c
  BY DEF InSilence
<1>2. a \in Int
  BY DelaysAssumption DEF Info
<1> HIDE DEF a
<1>3. /\ c \in Info /\ c.next_voice_ts = jb.next_voice_ts /\ c.last_voice_ms = jb.last_voice_ms
      /\ c.silence_begin_ts = jb.silence_begin_ts /\ c.resync_offset = jb.resync_offset
  BY <1>2 DEF Info
<1> QED BY <1>1, <1>3

(* A call of jb_get hands out the head of the queue, drops it if it is voice, or
   leaves the queue as it is. *)
LEMMA GetSteps ==
  ASSUME info \in Info, hist' \in History, now \in Nat, queue \in Seq(Frame), Get
  PROVE  /\ info' \in Info /\ info'.resync_offset = info.resync_offset
         /\ \/ HandOut /\ queue # << >>
            \/ Drop /\ queue # << >> /\ Head(queue).type = "VOICE"
            \/ Keep
<1>1. PICK jb : /\ jb = Current(hist')
                /\ \/ GetGrow(jb) \/ GetFull(jb) \/ GetOverlapping(jb) \/ GetLate(jb) \/ GetShrink(jb)
                   \/ GetVoice(jb) \/ GetShrinkEmpty(jb) \/ GetLost(jb)
                   \/ SilentNothing(jb) \/ SilentFull(jb) \/ SilentLate(jb) \/ SilentVoice(jb)
  BY DEF Get
<1>2. jb \in Info /\ jb.resync_offset = info.resync_offset
  BY <1>1, CurrentType DEF SameClock
<1>20. jb.current \in Int /\ jb.next_voice_ts \in Int /\ jb.last_voice_ms \in Nat
  <2>1. jb \in Info
    BY <1>2
  <2> QED BY <2>1, InfoFields, Zenon
<1>3. queue # << >> => Head(queue) \in Frame
  BY HeadTailProperties
<1>4. \A g \in Frame : g.ts \in Int /\ g.ms \in Nat
  BY FrameFields
<1>5. Interp \in Nat
  BY DelaysAssumption
<1> DEFINE hd == Head(queue)
           si == InSilence(jb)
<1>6. si \in Info /\ si.resync_offset = jb.resync_offset
  BY <1>2, InSilenceType
<1>7. \A ts : Takes(ts) => queue # << >> /\ hd \in Frame /\ hd.ts \in Int /\ hd.ms \in Nat
  BY <1>3, <1>4 DEF Takes
<1> HIDE DEF hd, si
<1>8. CASE GetGrow(jb)
  <2> DEFINE a == jb.current + Interp
             b == jb.next_voice_ts + Interp
  <2>1. info' = [jb EXCEPT !.current = a, !.next_voice_ts = b, !.last_voice_ms = Interp,
                           !.last_adjustment = now]
    BY <1>8 DEF GetGrow
  <2>2. a \in Int /\ b \in Int
    BY <1>20, <1>5
  <2> HIDE DEF a, b
  <2>3. info' \in Info /\ info'.resync_offset = jb.resync_offset
    BY <1>2, <1>5, <2>1, <2>2 DEF Info
  <2> QED BY <1>2, <1>8, <2>3 DEF GetGrow
<1>9. CASE GetFull(jb)
  <2>1. /\ hd.ts \in Int /\ queue # << >> /\ HandOut
        /\ info' = jb \/ info' = [jb EXCEPT !.silence_begin_ts = hd.ts]
    BY <1>7, <1>9 DEF GetFull, hd
  <2>2. info' \in Info /\ info'.resync_offset = jb.resync_offset
    BY <1>2, <2>1 DEF Info
  <2> QED BY <1>2, <2>1, <2>2
<1>10. CASE GetOverlapping(jb)
  <2> DEFINE a == hd.ts + jb.current + hd.ms
  <2>1. /\ hd.ts \in Int /\ hd.ms \in Nat /\ queue # << >> /\ HandOut
        /\ info' = [jb EXCEPT !.next_voice_ts = a]
    BY <1>7, <1>10 DEF GetOverlapping, TakesVoice, hd
  <2>2. a \in Int
    BY <1>20, <2>1
  <2> HIDE DEF a
  <2>3. info' \in Info /\ info'.resync_offset = jb.resync_offset
    BY <1>2, <2>1, <2>2 DEF Info
  <2> QED BY <1>2, <2>1, <2>3
<1>11. CASE GetLate(jb)
  BY <1>2, <1>7, <1>11 DEF GetLate, TakesVoice
<1>12. CASE GetShrink(jb)
  <2> DEFINE a == jb.current - hd.ms
  <2>1. /\ hd.ms \in Nat /\ queue # << >> /\ Drop /\ Head(queue).type = "VOICE"
        /\ info' = [jb EXCEPT !.last_voice_ms = hd.ms, !.last_adjustment = now, !.current = a]
    BY <1>7, <1>12 DEF GetShrink, OnTime, TakesVoice, hd
  <2>2. a \in Int
    BY <1>20, <2>1
  <2> HIDE DEF a
  <2>3. info' \in Info /\ info'.resync_offset = jb.resync_offset
    BY <1>2, <2>1, <2>2 DEF Info
  <2> QED BY <1>2, <2>1, <2>3
<1>13. CASE GetVoice(jb)
  <2> DEFINE a == jb.next_voice_ts + hd.ms
  <2>1. /\ hd.ms \in Nat /\ queue # << >> /\ HandOut
        /\ info' = [jb EXCEPT !.last_voice_ms = hd.ms, !.next_voice_ts = a]
    BY <1>7, <1>13 DEF GetVoice, OnTime, TakesVoice, hd
  <2>2. a \in Int
    BY <1>20, <2>1
  <2> HIDE DEF a
  <2>3. info' \in Info /\ info'.resync_offset = jb.resync_offset
    BY <1>2, <2>1, <2>2 DEF Info
  <2> QED BY <1>2, <2>1, <2>3
<1>14. CASE GetShrinkEmpty(jb)
  <2> DEFINE a == jb.current - jb.last_voice_ms
  <2>1. Keep /\ info' = [jb EXCEPT !.last_adjustment = now, !.current = a]
    BY <1>14 DEF GetShrinkEmpty
  <2>2. a \in Int
    BY <1>20
  <2> HIDE DEF a
  <2>3. info' \in Info /\ info'.resync_offset = jb.resync_offset
    BY <1>2, <2>1, <2>2 DEF Info
  <2> QED BY <1>2, <2>1, <2>3
<1>15. CASE GetLost(jb)
  <2> DEFINE a == jb.next_voice_ts + Interp
  <2>1. Keep /\ info' = [jb EXCEPT !.next_voice_ts = a, !.last_voice_ms = Interp]
    BY <1>15 DEF GetLost
  <2>2. a \in Int
    BY <1>20, <1>5
  <2> HIDE DEF a
  <2>3. info' \in Info /\ info'.resync_offset = jb.resync_offset
    BY <1>2, <1>5, <2>1, <2>2 DEF Info
  <2> QED BY <1>2, <2>1, <2>3
<1>16. CASE SilentNothing(jb)
  BY <1>2, <1>6, <1>16 DEF SilentNothing, si
<1>17. CASE SilentFull(jb)
  BY <1>2, <1>6, <1>7, <1>17 DEF SilentFull, TakesSilent, si
<1>18. CASE SilentLate(jb)
  BY <1>2, <1>6, <1>7, <1>18 DEF SilentLate, TakesSilent, si
<1>19. CASE SilentVoice(jb)
  <2> DEFINE a == hd.ts + si.target + hd.ms
             b == si.target
             m == hd.ms
  <2>1. /\ hd.ms \in Nat /\ hd.ts \in Int /\ queue # << >> /\ HandOut
        /\ info' = [si EXCEPT !.current = b, !.silence_begin_ts = 0, !.next_voice_ts = a,
                              !.last_voice_ms = hd.ms]
    BY <1>7, <1>19 DEF SilentVoice, TakesSilent, hd, si
  <2>2. a \in Int /\ b \in Int
    <3>1. si.target \in Int
      BY <1>6, InfoFields
    <3> QED BY <2>1, <3>1
  <2> HIDE DEF a, b
  <2>3. info' \in Info /\ info'.resync_offset = si.resync_offset
    <3>1. si \in Info /\ m \in Nat
      BY <1>6, <2>1
    <3>2. info' = [si EXCEPT !.current = b, !.silence_begin_ts = 0, !.next_voice_ts = a,
                             !.last_voice_ms = m]
      BY <2>1
    <3> DEFINE z == 0
    <3>3. z \in Int /\ info' = [si EXCEPT !.current = b, !.silence_begin_ts = z,
                                        !.next_voice_ts = a, !.last_voice_ms = m]
      BY <3>2
    <3> HIDE DEF m, z
    <3> QED BY <2>2, <3>1, <3>3 DEF Info
  <2> QED BY <1>2, <1>6, <2>1, <2>3
<1> QED BY <1>1, <1>8, <1>9, <1>10, <1>11, <1>12, <1>13, <1>14, <1>15, <1>16, <1>17, <1>18, <1>19

-----------------------------------------------------------------------------
(* Types, and the history *)

Right(g, n) == IF g.type = "VOICE" THEN g.ms \in Sizes ELSE g.id \in 1 .. n
QueueShape ==
  /\ queue \in Seq(Frame) /\ InOrder(queue)
  /\ full \in Seq(Nat) /\ Len(full) <= put
  /\ \A k \in 1 .. Len(queue) : Right(queue[k], Len(full))
HandedShape == done \in Seq(1 .. MaxFrames) /\ spurt \in Seq(Int)
HistoryShape == hist \in History /\ hist.ptr <= put /\ Held(hist, window) /\ Exact(hist, window)
OtherShape == now \in 0 .. MaxTime /\ put \in 0 .. MaxFrames /\ resynced \in BOOLEAN /\ info \in Info
Shape == QueueShape /\ HandedShape /\ HistoryShape /\ OtherShape

LEMMA ShapeInit == Init => Shape
<1> SUFFICES ASSUME Init PROVE Shape
  OBVIOUS
<1> USE DEF Init
<1>0. /\ HistSize \in Nat \ {0} /\ MaxBuf \in Nat /\ MaxTime \in Nat /\ MaxFrames \in Nat
      /\ MaxDiscont \in Nat /\ TargetExtra \in Nat
  BY HistoryAssumption, DelaysAssumption, InputsAssumption
<1>1. \A S : << >> \in Seq(S) /\ Len(<< >>) = 0
  BY EmptySeq
<1>2. QueueShape /\ HandedShape
  BY <1>1 DEF QueueShape, HandedShape, InOrder
<1>3. NewHistory \in History /\ NewHistory.ptr = 0 /\ ~NewHistory.valid
  BY <1>0 DEF NewHistory, History
<1>4. HistoryShape
  <2>1. hist = NewHistory /\ window = << >> /\ put = 0
    OBVIOUS
  <2>2. First(hist) = 0
    BY <1>0, <1>3, <2>1 DEF First
  <2>3. Held(hist, window)
    BY <1>0, <1>1, <1>3, <2>1, <2>2 DEF Held
  <2> QED BY <1>3, <2>1, <2>3 DEF HistoryShape, Exact
<1>5. NewInfo \in Info
  BY <1>0 DEF NewInfo, Info
<1>6. OtherShape
  <2>1. info \in Info
    BY <1>5
  <2>2. now = 0 /\ put = 0 /\ resynced = FALSE
    OBVIOUS
  <2> HIDE DEF Init
  <2>3. now \in 0 .. MaxTime /\ put \in 0 .. MaxFrames /\ resynced \in BOOLEAN
    <3>1. 0 \in 0 .. MaxTime /\ 0 \in 0 .. MaxFrames
      BY InputsAssumption
    <3> QED BY <2>2, <3>1
  <2> QED BY <2>1, <2>3 DEF OtherShape
<1> QED BY <1>2, <1>4, <1>6 DEF Shape

(* The queue after jb_put, of voice or of the next full frame. *)
LEMMA ShapeByPut ==
  ASSUME QueueShape, put \in Nat, put' = put + 1, NEW f \in Frame, queue' = Queued(f),
         \/ full' = full
         \/ full' \in Seq(Nat) /\ Len(full') = Len(full) + 1,
         Right(f, Len(full'))
  PROVE  QueueShape'
<1>1. PICK p \in 1 .. Len(queue) + 1 : Enqueued(queue, queue', f, p)
  BY PutInOrder DEF QueueShape
<1>2. /\ queue' \in Seq(Frame) /\ InOrder(queue')
      /\ \A k \in 1 .. Len(queue') : queue'[k] = f \/ \E i \in 1 .. Len(queue) : queue'[k] = queue[i]
  <2>1. queue \in Seq(Frame) /\ InOrder(queue)
    BY DEF QueueShape
  <2> QED BY <1>1, <2>1, OrderedByPut
<1>3. full' \in Seq(Nat) /\ Len(full) \in Nat /\ Len(full') \in Nat /\ Len(full) <= Len(full')
      /\ Len(full') <= put'
  <2>1. full \in Seq(Nat) /\ Len(full) <= put
    BY DEF QueueShape
  <2>2. Len(full) \in Nat
    BY <2>1, LenProperties
  <2> QED BY <2>1, <2>2
<1>4. \A g : Right(g, Len(full)) => Right(g, Len(full'))
  BY <1>3 DEF Right
<1>5. \A k \in 1 .. Len(queue') : Right(queue'[k], Len(full'))
  BY <1>2, <1>4 DEF QueueShape
<1> QED BY <1>2, <1>3, <1>5 DEF QueueShape

(* The queue after its head was taken. *)
LEMMA ShapeByTail ==
  ASSUME QueueShape, queue # << >>, queue' = Tail(queue), full' = full, put' = put
  PROVE  QueueShape' /\ Head(queue) \in Frame /\ Right(Head(queue), Len(full))
<1>1. /\ Tail(queue) \in Seq(Frame) /\ InOrder(Tail(queue)) /\ Len(Tail(queue)) = Len(queue) - 1
      /\ \A i \in 1 .. Len(queue) - 1 : i + 1 \in 1 .. Len(queue) /\ Tail(queue)[i] = queue[i + 1]
      /\ Len(queue) \in Nat \ {0} /\ Head(queue) = queue[1] /\ Head(queue) \in Frame
  BY OrderedByTail DEF QueueShape
<1>2. \A k \in 1 .. Len(queue) : Right(queue[k], Len(full))
  BY DEF QueueShape
<1>3. \A k \in 1 .. Len(queue') : Right(queue'[k], Len(full'))
  BY <1>1, <1>2
<1>4. Right(Head(queue), Len(full))
  BY <1>1, <1>2
<1> QED BY <1>1, <1>3, <1>4 DEF QueueShape

(* What was handed out. *)
LEMMA ShapeByHandOut ==
  ASSUME HandedShape, HandOut, Head(queue) \in Frame, Right(Head(queue), Len(full)),
         full \in Seq(Nat), Len(full) <= MaxFrames
  PROVE  HandedShape'
<1> DEFINE f == Head(queue)
           row == Append(spurt, f.ts)
<1>1. f.ts \in Int
  BY FrameFields
<1>2. f.type # "VOICE" => f.id \in 1 .. MaxFrames
  <2>1. f.type # "VOICE" => f.id \in 1 .. Len(full)
    BY DEF Right
  <2>2. Len(full) \in Nat /\ MaxFrames \in Nat
    BY LenProperties, InputsAssumption
  <2> QED BY <2>1, <2>2
<1>3. done' \in Seq(1 .. MaxFrames)
  <2>1. done \in Seq(1 .. MaxFrames)
    BY DEF HandedShape
  <2>2. f.type # "VOICE" => Append(done, f.id) \in Seq(1 .. MaxFrames)
    BY <1>2, <2>1, AppendProperties
  <2> QED BY <2>1, <2>2 DEF HandOut
<1>4. row \in Seq(Int) /\ row # << >>
  <2>1. spurt \in Seq(Int)
    BY DEF HandedShape
  <2> QED BY <1>1, <2>1, AppendProperties
<1>5. spurt' \in Seq(Int)
  <2>1. Tail(row) \in Seq(Int)
    BY <1>4, HeadTailProperties
  <2>2. << >> \in Seq(Int) /\ spurt \in Seq(Int)
    BY EmptySeq DEF HandedShape
  <2>3. spurt' = row \/ spurt' = Tail(row) \/ spurt' = << >> \/ spurt' = spurt
    BY DEF HandOut
  <2> HIDE DEF row
  <2> QED BY <1>4, <2>1, <2>2, <2>3
<1> QED BY <1>3, <1>5 DEF HandedShape

(* The frames that jb_put makes. *)
LEMMA VoiceType ==
  ASSUME NEW ts \in Stamps, NEW ms \in Sizes, NEW offset \in Int, NEW n
  PROVE  Voice(ts, ms, offset) \in Frame /\ Right(Voice(ts, ms, offset), n)
<1> DEFINE a == ts - offset
           z == 0
<1>1. a \in Int /\ z \in 0 .. MaxFrames
  BY InputsAssumption
<1>2. Voice(ts, ms, offset) = [type |-> "VOICE", ts |-> a, ms |-> ms, id |-> z]
  BY DEF Voice
<1> HIDE DEF a, z
<1> QED BY <1>1, <1>2 DEF Frame, Right

LEMMA DelayType ==
  ASSUME OtherShape, NEW ts \in Stamps
  PROVE  ts \in Int /\ Delay(ts) \in Int /\ now \in Int /\ info.resync_offset \in Int
<1>1. ts \in Int /\ MaxTime \in Nat
  BY InputsAssumption
<1>2. now \in 0 .. MaxTime /\ info \in Info
  BY DEF OtherShape
<1>3. info.resync_offset \in Int
  BY <1>2, InfoFields
<1> QED BY <1>1, <1>2, <1>3 DEF Delay

(* The history is the same, and put may be greater. *)
LEMMA SameHistory ==
  ASSUME HistoryShape, hist' = hist, window' = window, put \in Nat,
         put' = put \/ put' = put + 1
  PROVE  HistoryShape'
<1>1. hist \in History /\ hist.ptr <= put /\ Held(hist, window) /\ Exact(hist, window)
  BY DEF HistoryShape
<1>2. hist.ptr \in Nat
  BY <1>1 DEF History
<1>3. hist.ptr <= put'
  BY <1>1, <1>2
<1> QED BY <1>1, <1>3 DEF HistoryShape

(* Every jb_put keeps the shape. *)
LEMMA ShapePutFull ==
  ASSUME Shape, NEW type \in Types, NEW ts \in Stamps, PutFull(type, ts)
  PROVE  Shape'
<1> USE DEF Shape
<1>0. /\ put \in Nat /\ put' = put + 1 /\ put' \in 0 .. MaxFrames /\ MaxFrames \in Nat
      /\ full \in Seq(Nat) /\ Len(full) \in Nat /\ Len(full) <= put
      /\ full' = Append(full, ts) /\ ts \in Nat /\ type # "VOICE"
  BY InputsAssumption, LenProperties DEF PutFull, Arrives, OtherShape, QueueShape
<1> DEFINE a == ts - info.resync_offset
           z == 0
           n == Len(full) + 1
           f == [type |-> type, ts |-> a, ms |-> z, id |-> n]
<1>1. queue' = Queued(f)
  BY DEF PutFull
<1>2. a \in Int /\ z \in Sizes \cup {0} /\ n \in 1 .. n /\ n \in 0 .. MaxFrames
  <2>1. a \in Int
    BY DelayType
  <2> QED BY <1>0, <2>1
<1>3. full' \in Seq(Nat) /\ Len(full') = n
  BY <1>0, AppendProperties
<1>4. f \in Frame /\ Right(f, n)
  <2> HIDE DEF a, z, n
  <2> QED BY <1>0, <1>2 DEF Frame, Right
<1> HIDE DEF f
<1>5. QueueShape'
  BY <1>0, <1>1, <1>3, <1>4, ShapeByPut
<1>6. HandedShape'
  BY DEF PutFull, HandedShape
<1>7. HistoryShape'
  BY <1>0, SameHistory DEF PutFull
<1>8. OtherShape'
  BY <1>0 DEF PutFull, OtherShape
<1> QED BY <1>5, <1>6, <1>7, <1>8

LEMMA ShapePutVoice ==
  ASSUME Shape, NEW ts \in Stamps, NEW ms \in Sizes, PutVoice(ts, ms)
  PROVE  Shape'
<1> USE DEF Shape
<1>0. put \in Nat /\ put' = put + 1 /\ put' \in 0 .. MaxFrames /\ full' = full
  BY InputsAssumption DEF PutVoice, Arrives, OtherShape
<1> DEFINE d == Delay(ts)
           f == Voice(ts, ms, info.resync_offset)
<1>1. d \in Int /\ f \in Frame /\ Right(f, Len(full')) /\ queue' = Queued(f)
  BY DelayType, VoiceType DEF PutVoice
<1> HIDE DEF f
<1>2. QueueShape'
  BY <1>0, <1>1, ShapeByPut
<1>3. HandedShape'
  BY DEF PutVoice, HandedShape
<1>4. CASE UNCHANGED <<info, hist, window>>
  <2>1. HistoryShape'
    BY <1>0, <1>4, SameHistory
  <2>2. OtherShape'
    BY <1>0, <1>4 DEF PutVoice, OtherShape
  <2> QED BY <1>2, <1>3, <2>1, <2>2
<1>5. CASE /\ info' = [info EXCEPT !.last_delay = d, !.cnt_delay_discont = 0]
           /\ hist' = HistoryPut(hist, d) /\ window' = Recent(Append(window, d))
  <2> HIDE DEF d
  <2>1. /\ hist \in History /\ Held(hist, window) /\ Exact(hist, window) /\ hist.ptr <= put
        /\ hist.ptr \in Nat
    BY DEF HistoryShape, History
  <2>2. hist' \in History /\ hist'.ptr = hist.ptr + 1 /\ Held(hist', window')
    BY <1>1, <1>5, <2>1, RecordedByPut
  <2>3. Exact(hist', window')
    BY <1>1, <1>5, <2>1, ExactByPut
  <2>4. HistoryShape'
    <3>1. hist'.ptr <= put'
      BY <1>0, <2>1, <2>2
    <3> QED BY <2>2, <2>3, <3>1 DEF HistoryShape
  <2>5. info' \in Info
    <3> DEFINE z == 0
    <3>1. info \in Info /\ z \in 0 .. MaxDiscont
      BY DelaysAssumption DEF OtherShape
    <3>2. info' = [info EXCEPT !.last_delay = d, !.cnt_delay_discont = z]
      BY <1>5
    <3> HIDE DEF z
    <3> QED BY <1>1, <3>1, <3>2 DEF Info
  <2>6. OtherShape'
    BY <1>0, <2>5 DEF PutVoice, OtherShape
  <2> QED BY <1>2, <1>3, <2>4, <2>6
<1> QED BY <1>4, <1>5 DEF PutVoice

LEMMA ShapePutDiscontinuous ==
  ASSUME Shape, NEW ts, PutDiscontinuous(ts)
  PROVE  Shape'
<1> USE DEF Shape
<1>0. put \in Nat /\ put' = put + 1 /\ put' \in 0 .. MaxFrames
  BY InputsAssumption DEF PutDiscontinuous, Arrives, OtherShape
<1>1. QueueShape'
  <2>1. Len(full) \in Nat /\ Len(full) <= put
    BY LenProperties DEF QueueShape
  <2>2. Len(full) <= put'
    BY <1>0, <2>1
  <2> QED BY <2>2 DEF PutDiscontinuous, QueueShape
<1>2. HandedShape'
  BY DEF PutDiscontinuous, HandedShape
<1>3. HistoryShape'
  BY <1>0, SameHistory DEF PutDiscontinuous
<1>4. info' \in Info
  <2> DEFINE c == info.cnt_delay_discont + 1
  <2>1. info \in Info /\ info.cnt_delay_discont \in 0 .. MaxDiscont /\ MaxDiscont \in Nat
    BY InfoFields, DelaysAssumption DEF OtherShape
  <2>2. c \in 0 .. MaxDiscont
    BY <2>1 DEF PutDiscontinuous
  <2>3. info' = [info EXCEPT !.cnt_delay_discont = c]
    BY DEF PutDiscontinuous
  <2> HIDE DEF c
  <2> QED BY <2>1, <2>2, <2>3 DEF Info
<1>5. OtherShape'
  BY <1>0, <1>4 DEF PutDiscontinuous, OtherShape
<1> QED BY <1>1, <1>2, <1>3, <1>5

LEMMA ShapeResync ==
  ASSUME Shape, NEW ts \in Stamps, NEW ms \in Sizes, Resync(ts, ms)
  PROVE  Shape'
<1> USE DEF Shape
<1>0. /\ put \in Nat /\ put' = put + 1 /\ put' \in 0 .. MaxFrames /\ full' = full
  BY InputsAssumption DEF Resync, Arrives, OtherShape
<1> DEFINE offset == ts - now
           f == Voice(ts, ms, offset)
           z == 0
<1>1. offset \in Int
  BY DelayType
<1>2. f \in Frame /\ Right(f, Len(full')) /\ queue' = Queued(f)
  BY <1>1, VoiceType DEF Resync
<1> HIDE DEF f, offset
<1>3. QueueShape'
  BY <1>0, <1>2, ShapeByPut
<1>4. HandedShape'
  BY DEF Resync, HandedShape
<1>5. HistoryShape'
  <2> DEFINE h == [hist EXCEPT !.ptr = 0, !.valid = FALSE]
             w == << >>
  <2>1. /\ h \in History /\ h.ptr = 0 /\ h.valid = FALSE
    BY DEF HistoryShape, History
  <2>2. /\ hist' = HistoryPut(h, 0) /\ window' = <<0>>
    BY DEF Resync
  <2>3. /\ w \in Seq(Int) /\ Len(w) = 0
    BY EmptySeq
  <2>4. /\ Append(w, 0) = <<0>> /\ Len(<<0>>) = 1
    OBVIOUS
  <2> HIDE DEF h, w
  <2>5. HistSize \in Nat \ {0}
    BY HistoryAssumption
  <2>6. Held(h, w) /\ Exact(h, w)
    <3>1. First(h) = 0
      BY <2>1, <2>5 DEF First
    <3> QED BY <2>1, <2>3, <3>1 DEF Held, Exact
  <2>7. window' = Recent(Append(w, 0))
    BY <2>2, <2>4, <2>5 DEF Recent
  <2>8. hist' \in History /\ hist'.ptr = 1 /\ Held(hist', window')
    BY <2>1, <2>2, <2>6, <2>7, RecordedByPut
  <2>9. Exact(hist', window')
    BY <2>1, <2>2, <2>6, <2>7, ExactByPut
  <2> QED BY <1>0, <2>8, <2>9 DEF HistoryShape
<1>6. info' \in Info
  <2>1. info \in Info /\ z \in 0 .. MaxDiscont /\ z \in Int
    BY DelaysAssumption DEF OtherShape
  <2>2. info' = [info EXCEPT !.cnt_delay_discont = z, !.resync_offset = offset, !.last_delay = z]
    BY DEF Resync, offset
  <2> HIDE DEF z
  <2> QED BY <1>1, <2>1, <2>2 DEF Info
<1>7. OtherShape'
  BY <1>0, <1>6 DEF Resync, OtherShape
<1> QED BY <1>3, <1>4, <1>5, <1>7

LEMMA ShapeGet ==
  ASSUME Shape, Get
  PROVE  Shape'
<1> USE DEF Shape
<1>0. /\ put \in Nat /\ put' = put /\ put \in 0 .. MaxFrames /\ full' = full /\ window' = window
      /\ hist' = Calculated(hist) /\ now \in Nat /\ now' = now /\ resynced' = resynced
      /\ info \in Info
  BY InputsAssumption DEF Get, OtherShape
<1>1. HistoryShape' /\ hist' \in History
  <2>1. hist \in History /\ hist.ptr <= put /\ Held(hist, window) /\ Exact(hist, window)
    BY DEF HistoryShape
  <2>2. /\ Calculated(hist) \in History /\ Calculated(hist).ptr = hist.ptr
        /\ Held(Calculated(hist), window) /\ Exact(Calculated(hist), window)
    BY <2>1, CalculatedExact
  <2> QED BY <1>0, <2>1, <2>2 DEF HistoryShape
<1>2. queue \in Seq(Frame) /\ full \in Seq(Nat) /\ Len(full) <= MaxFrames
  <2>1. queue \in Seq(Frame) /\ full \in Seq(Nat) /\ Len(full) <= put
    BY DEF QueueShape
  <2>2. Len(full) \in Nat /\ MaxFrames \in Nat
    BY <2>1, LenProperties, InputsAssumption
  <2> QED BY <1>0, <2>1, <2>2
<1>3. /\ info' \in Info
      /\ \/ HandOut /\ queue # << >>
         \/ Drop /\ queue # << >> /\ Head(queue).type = "VOICE"
         \/ Keep
  BY <1>0, <1>1, <1>2, GetSteps
<1>4. OtherShape'
  BY <1>0, <1>3 DEF OtherShape
<1>5. CASE HandOut /\ queue # << >>
  <2>1. queue' = Tail(queue)
    BY <1>5 DEF HandOut
  <2>2. QueueShape' /\ Head(queue) \in Frame /\ Right(Head(queue), Len(full))
    BY <1>0, <1>5, <2>1, ShapeByTail
  <2>3. HandedShape'
    BY <1>2, <1>5, <2>2, ShapeByHandOut
  <2> QED BY <1>1, <1>4, <2>2, <2>3
<1>6. CASE Drop /\ queue # << >>
  <2>1. QueueShape'
    BY <1>0, <1>6, ShapeByTail DEF Drop
  <2>2. HandedShape'
    BY <1>6 DEF Drop, HandedShape
  <2> QED BY <1>1, <1>4, <2>1, <2>2
<1>7. CASE Keep
  <2>1. QueueShape' /\ HandedShape'
    BY <1>0, <1>7 DEF Keep, QueueShape, HandedShape
  <2> QED BY <1>1, <1>4, <2>1
<1> QED BY <1>3, <1>5, <1>6, <1>7

LEMMA ShapeGetInfo ==
  ASSUME Shape, GetInfo
  PROVE  Shape' /\ SameClock(info')
<1> USE DEF Shape
<1>1. hist \in History /\ hist.ptr <= put /\ Held(hist, window) /\ Exact(hist, window)
  BY DEF HistoryShape
<1>2. /\ Calculated(hist) \in History /\ Calculated(hist).ptr = hist.ptr
      /\ Held(Calculated(hist), window) /\ Exact(Calculated(hist), window)
  BY <1>1, CalculatedExact
<1>3. hist' = Calculated(hist) /\ info' = Measured(hist') /\ UNCHANGED <<now, queue, ghosts>>
  BY DEF GetInfo
<1>4. HistoryShape'
  BY <1>1, <1>2, <1>3 DEF HistoryShape, ghosts
<1>5. info' \in Info /\ SameClock(info')
  <2>1. info \in Info /\ hist' \in History
    BY <1>2, <1>3 DEF OtherShape
  <2> QED BY <1>3, <2>1, MeasuredType
<1>6. QueueShape' /\ HandedShape' /\ OtherShape'
  BY <1>3, <1>5 DEF QueueShape, HandedShape, OtherShape, ghosts
<1> QED BY <1>4, <1>5, <1>6

LEMMA ShapeReset ==
  ASSUME Reset
  PROVE  Shape'
<1>1. Init'
  BY DEF Reset, Init, NewInfo, NewHistory
<1>2. Init' => Shape'
  BY ShapeInit, PTL
<1> QED BY <1>1, <1>2

LEMMA ShapeTick ==
  ASSUME Shape, Tick
  PROVE  Shape'
<1>1. /\ now' = now + 1 /\ now < MaxTime
      /\ UNCHANGED <<info, hist, queue, window, done, spurt, put, full, resynced>>
  BY DEF Tick, ghosts
<1>2. now' \in 0 .. MaxTime
  BY <1>1, InputsAssumption DEF Shape, OtherShape
<1>3. QueueShape' /\ HandedShape' /\ HistoryShape'
  BY <1>1 DEF Shape, QueueShape, HandedShape, HistoryShape
<1>4. OtherShape'
  BY <1>1, <1>2 DEF Shape, OtherShape
<1> QED BY <1>3, <1>4 DEF Shape

LEMMA ShapeStep == Shape /\ [Next]_vars => Shape'
<1> SUFFICES ASSUME Shape, [Next]_vars PROVE Shape'
  OBVIOUS
<1>1. ASSUME NEW type \in Types, NEW ts \in Stamps, PutFull(type, ts) PROVE Shape'
  BY <1>1, ShapePutFull
<1>2. ASSUME NEW ts \in Stamps, NEW ms \in Sizes, PutVoice(ts, ms) PROVE Shape'
  BY <1>2, ShapePutVoice
<1>3. ASSUME NEW ts \in Stamps, NEW ms \in Sizes, Resync(ts, ms) PROVE Shape'
  BY <1>3, ShapeResync
<1>4. ASSUME NEW ts \in Stamps, PutDiscontinuous(ts) PROVE Shape'
  BY <1>4, ShapePutDiscontinuous
<1>5. CASE Get
  BY <1>5, ShapeGet
<1>6. CASE GetInfo
  BY <1>6, ShapeGetInfo
<1>7. CASE Reset
  BY <1>7, ShapeReset
<1>8. CASE Tick
  BY <1>8, ShapeTick
<1>9. CASE UNCHANGED vars
  BY <1>9 DEF vars, ghosts, Shape, QueueShape, HandedShape, HistoryShape, OtherShape
<1> QED BY <1>1, <1>2, <1>3, <1>4, <1>5, <1>6, <1>7, <1>8, <1>9 DEF Next, Put

(* The types: what is in the queue, the arrays of the history, the delays and
   the times stay what they are declared to be. *)
THEOREM TypeCorrect == Spec => []TypeOK
<1>1. Init => Shape
  BY ShapeInit
<1>2. Shape /\ [Next]_vars => Shape'
  BY ShapeStep
<1>3. Shape => TypeOK
  <2> SUFFICES ASSUME Shape PROVE TypeOK
    OBVIOUS
  <2>1. /\ hist.entries \in [0 .. HistSize - 1 -> Int] /\ hist.ptr \in Nat
        /\ hist.maxbuf \in [1 .. MaxBuf -> Int] /\ hist.minbuf \in [1 .. MaxBuf -> Int]
        /\ hist.valid \in BOOLEAN /\ hist.ptr <= put
    BY DEF Shape, HistoryShape, History
  <2>2. hist.ptr \in 0 .. MaxFrames
    BY <2>1, InputsAssumption DEF Shape, OtherShape
  <2>3. queue \in Seq(Frame)
    BY DEF Shape, QueueShape
  <2>4. now \in 0 .. MaxTime /\ put \in 0 .. MaxFrames /\ resynced \in BOOLEAN /\ info \in Info
    BY DEF Shape, OtherShape
  <2>5. done \in Seq(1 .. MaxFrames) /\ spurt \in Seq(Int)
    BY DEF Shape, HandedShape
  <2> QED BY <2>1, <2>2, <2>3, <2>4, <2>5 DEF TypeOK, Info
<1> QED BY <1>1, <1>2, <1>3, PTL DEF Spec

(* Whenever the sorted ends are taken for valid they are the k-th greatest and
   the k-th least of the delays since the last resync: history_put invalidates
   them in time, when the ring wraps, when what falls out of it was one of
   them, and when it starts anew. *)
THEOREM CacheSafe == Spec => []CacheExact
<1>1. Init => Shape
  BY ShapeInit
<1>2. Shape /\ [Next]_vars => Shape'
  BY ShapeStep
<1>3. Shape => CacheExact
  BY DEF Shape, HistoryShape, Exact, CacheExact
<1> QED BY <1>1, <1>2, <1>3, PTL DEF Spec

-----------------------------------------------------------------------------
(* Voice *)

(* The frames of a codec all have one duration, and what is interpolated is no
   longer than that. *)
OneSize == \A x, y \in Sizes : x = y /\ Interp <= x

(* What is played next is not earlier than the last frame's time and the time it
   takes; silence starts a new row of frames. *)
Behind(i, s) == 0 < Len(s) => s[Len(s)] <= i.next_voice_ts - i.current - i.last_voice_ms
Short(i) == Interp <= i.last_voice_ms /\ \A x \in Sizes : i.last_voice_ms <= x
Forward ==
  /\ Silent => spurt = << >>
  /\ ~Silent => Short(info) /\ Behind(info, spurt)
  /\ VoiceForward /\ Len(spurt) <= 2

(* A later frame makes the row longer. *)
Row(s, e, r, t) ==
  /\ Len(s) = 0 => Len(r) = 1 /\ r[1] = e
  /\ Len(s) = 1 => Len(r) = 2 /\ r[1] = s[1] /\ r[2] = e
  /\ Len(s) = 2 => Len(r) = 3 /\ Len(t) = 2 /\ t[1] = s[2] /\ t[2] = e

LEMMA RowOf ==
  ASSUME NEW S, NEW s \in Seq(S), NEW e \in S
  PROVE  Row(s, e, Append(s, e), Tail(Append(s, e)))
<1> DEFINE r == Append(s, e)
           t == Tail(r)
           n == Len(s)
<1>1. n \in Nat
  BY LenProperties
<1>2. /\ r \in Seq(S) /\ Len(r) = n + 1 /\ r # << >>
      /\ \A i \in 1 .. n : r[i] = s[i]
      /\ r[n + 1] = e
  BY AppendProperties
<1>3. Len(t) = Len(r) - 1 /\ \A i \in 1 .. Len(t) : t[i] = r[i + 1]
  BY <1>2, HeadTailProperties
<1> HIDE DEF r, t, n
<1>4. n = 0 => Len(r) = 1 /\ r[1] = e
  BY <1>2
<1>5. n = 1 => Len(r) = 2 /\ r[1] = s[1] /\ r[2] = e
  BY <1>2
<1>6. ASSUME n = 2 PROVE Len(r) = 3 /\ Len(t) = 2 /\ t[1] = s[2] /\ t[2] = e
  <2>1. Len(r) = 3 /\ r[2] = s[2] /\ r[3] = e
    BY <1>2, <1>6
  <2>2. Len(t) = 2
    BY <1>3, <2>1
  <2> DEFINE m == Len(t)
  <2>3. t[1] = r[1 + 1] /\ t[2] = r[2 + 1]
    <3>1. m = 2 /\ \A i \in 1 .. m : t[i] = r[i + 1]
      BY <1>3, <2>2
    <3> HIDE DEF m
    <3> QED BY <3>1
  <2> QED BY <2>1, <2>2, <2>3
<1> QED BY <1>4, <1>5, <1>6 DEF Row, r, t, n

LEMMA RowGrows ==
  ASSUME NEW ts, Row(spurt, ts, Append(spurt, ts), Tail(Append(spurt, ts))),
         Len(spurt) \in 0 .. 2, 0 < Len(spurt) => spurt[Len(spurt)] < ts,
         HandOut, Head(queue).type = "VOICE", Head(queue).ts = ts
  PROVE  VoiceForward' /\ Len(spurt') \in 1 .. 2 /\ spurt'[Len(spurt')] = ts
<1> DEFINE row == Append(spurt, ts)
           tail == Tail(row)
           n == Len(spurt)
           k == Len(row)
           m == Len(spurt')
<1>1. spurt' = IF k > 2 THEN tail ELSE row
  BY DEF HandOut
<1>2. /\ n = 0 => k = 1 /\ row[1] = ts
      /\ n = 1 => k = 2 /\ row[1] = spurt[1] /\ row[2] = ts
      /\ n = 2 => k = 3 /\ Len(tail) = 2 /\ tail[1] = spurt[2] /\ tail[2] = ts
  BY DEF Row
<1>3. n \in 0 .. 2 /\ (0 < n => spurt[n] < ts)
  OBVIOUS
<1>4. (VoiceForward' <=> (m = 2 => spurt'[1] < spurt'[2])) /\ (spurt' = row => m = k)
      /\ (spurt' = tail => m = Len(tail))
  BY DEF VoiceForward
<1> SUFFICES VoiceForward' /\ m \in 1 .. 2 /\ spurt'[m] = ts
  OBVIOUS
<1> HIDE DEF row, tail, n, k, m
<1>5. CASE n = 0
  BY <1>1, <1>2, <1>4, <1>5
<1>6. CASE n = 1
  BY <1>1, <1>2, <1>3, <1>4, <1>6
<1>7. CASE n = 2
  BY <1>1, <1>2, <1>3, <1>4, <1>7
<1> QED BY <1>3, <1>5, <1>6, <1>7

LEMMA ForwardGet ==
  ASSUME OneSize, Shape, Forward, Get
  PROVE  Forward'
<1>1. PICK jb : /\ jb = Current(hist')
                /\ \/ GetGrow(jb) \/ GetFull(jb) \/ GetOverlapping(jb) \/ GetLate(jb) \/ GetShrink(jb)
                   \/ GetVoice(jb) \/ GetShrinkEmpty(jb) \/ GetLost(jb)
                   \/ SilentNothing(jb) \/ SilentFull(jb) \/ SilentLate(jb) \/ SilentVoice(jb)
  BY DEF Get
<1>2. jb \in Info /\ SameClock(jb)
  <2>1. hist' \in History /\ info \in Info
    BY ShapeGet DEF Shape, HistoryShape, OtherShape
  <2> QED BY <1>1, <2>1, CurrentType
<1> DEFINE hd == Head(queue)
           si == InSilence(jb)
           c == jb.current
           n == jb.next_voice_ts
           l == jb.last_voice_ms
           ts == hd.ts
           ms == hd.ms
<1>3. c \in Int /\ n \in Int /\ l \in Nat
  <2>1. jb \in Info
    BY <1>2
  <2> QED BY <2>1, InfoFields
<1>4. /\ c = info.current /\ n = info.next_voice_ts /\ l = info.last_voice_ms
      /\ jb.silence_begin_ts = info.silence_begin_ts
  BY <1>2 DEF SameClock
<1>5. spurt \in Seq(Int) /\ Len(spurt) \in 0 .. 2 /\ \A i \in 1 .. Len(spurt) : spurt[i] \in Int
  <2>1. spurt \in Seq(Int)
    BY DEF Shape, HandedShape
  <2> DEFINE m == Len(spurt)
  <2>2. m \in Nat /\ m <= 2
    BY <2>1, LenProperties DEF Forward
  <2>3. m \in 0 .. 2
    <3> HIDE DEF m
    <3> QED BY <2>2
  <2>4. \A i \in 1 .. Len(spurt) : spurt[i] \in Int
    BY <2>1, ElementOfSeq
  <2> QED BY <2>1, <2>3, <2>4
<1>6. /\ \A x : Takes(x) => queue # << >>
      /\ queue # << >> => hd \in Frame /\ ts \in Int /\ ms \in Nat /\ (hd.type = "VOICE" => ms \in Sizes)
  <2>1. \A x : Takes(x) => queue # << >>
    BY DEF Takes
  <2>2. ASSUME queue # << >> PROVE hd \in Frame /\ ts \in Int /\ ms \in Nat /\ (hd.type = "VOICE" => ms \in Sizes)
    <3>1. /\ hd \in Frame /\ hd = queue[1] /\ 1 \in 1 .. Len(queue)
      BY <2>2, OrderedByTail DEF Shape, QueueShape
    <3>2. Right(hd, Len(full))
      BY <3>1 DEF Shape, QueueShape
    <3>3. ts \in Int /\ ms \in Nat
      BY <3>1, FrameFields
    <3> QED BY <3>1, <3>2, <3>3 DEF Right
  <2> QED BY <2>1, <2>2
<1>7. Interp \in Nat \ {0} /\ \A x \in Sizes : x \in Nat /\ Interp <= x /\ \A y \in Sizes : x = y
  BY DelaysAssumption, InputsAssumption DEF OneSize
<1> DEFINE e == spurt[Len(spurt)]
<1>8. ~Silent => /\ Interp <= l /\ \A x \in Sizes : l <= x
                 /\ 0 < Len(spurt) => e \in Int /\ e <= n - c - l
  BY <1>4, <1>5 DEF Forward, Short, Behind
<1>9. (Silent => spurt = << >>) /\ VoiceForward /\ Len(spurt) <= 2
  BY DEF Forward
<1> DEFINE Clock(a, b, d) == info'.current = a /\ info'.next_voice_ts = b /\ info'.last_voice_ms = d
<1>10. ASSUME NEW a \in Int, NEW b \in Int, NEW d \in Nat, Clock(a, b, d), ~Silent,
              info'.silence_begin_ts = info.silence_begin_ts,
              Interp <= d, \A x \in Sizes : d <= x,
              \/ spurt' = spurt /\ n - c - l <= b - a - d
              \/ /\ HandOut /\ hd.type = "VOICE" /\ ts \in Int
                 /\ n - c - l < ts /\ ts <= b - a - d
       PROVE  Forward'
  <2>1. ~Silent'
    BY <1>10 DEF Silent
  <2>2. CASE spurt' = spurt /\ n - c - l <= b - a - d
    <3>1. VoiceForward'
      BY <1>9, <2>2 DEF VoiceForward
    <3>2. 0 < Len(spurt') => spurt'[Len(spurt')] <= b - a - d
      BY <1>3, <1>8, <1>10, <2>2
    <3>3. Short(info') /\ Behind(info', spurt')
      BY <1>10, <3>2 DEF Short, Behind
    <3> QED BY <1>9, <2>1, <2>2, <3>1, <3>3 DEF Forward
  <2>3. CASE /\ HandOut /\ hd.type = "VOICE" /\ ts \in Int
             /\ n - c - l < ts /\ ts <= b - a - d
    <3>1. 0 < Len(spurt) => spurt[Len(spurt)] < ts
      BY <1>3, <1>8, <1>10, <2>3
    <3>2. VoiceForward' /\ Len(spurt') \in 1 .. 2 /\ spurt'[Len(spurt')] = ts
      <4>1. Row(spurt, ts, Append(spurt, ts), Tail(Append(spurt, ts)))
        BY <1>5, <2>3, RowOf
      <4> QED BY <1>5, <2>3, <3>1, <4>1, RowGrows
    <3>3. Short(info') /\ Behind(info', spurt')
      BY <1>10, <2>3, <3>2 DEF Short, Behind
    <3> QED BY <2>1, <3>2, <3>3 DEF Forward
  <2> QED BY <1>10, <2>2, <2>3
<1>11. ASSUME spurt' = << >>, ~Silent' => Short(info') PROVE Forward'
  <2>1. Len(spurt') = 0
    BY <1>11
  <2> QED BY <1>11, <2>1 DEF Forward, Behind, VoiceForward
<1>12. CASE GetGrow(jb)
  <2>1. /\ ~Silent /\ spurt' = spurt
        /\ info' = [jb EXCEPT !.current = c + Interp, !.next_voice_ts = n + Interp,
                              !.last_voice_ms = Interp, !.last_adjustment = now]
    BY <1>12 DEF GetGrow, Keep
  <2>2. Clock(c + Interp, n + Interp, Interp) /\ info'.silence_begin_ts = jb.silence_begin_ts
    BY <1>2, <2>1 DEF Info
  <2>3. n - c - l <= (n + Interp) - (c + Interp) - Interp
    BY <1>3, <1>7, <1>8, <2>1
  <2>4. c + Interp \in Int /\ n + Interp \in Int /\ Interp \in Nat /\ Interp <= Interp
        /\ \A x \in Sizes : Interp <= x
    BY <1>3, <1>7
  <2> HIDE DEF Clock
  <2> QED BY <1>4, <1>10, <2>1, <2>2, <2>3, <2>4
<1>13. CASE GetFull(jb)
  <2>1. ~Silent /\ queue # << >> /\ hd.type # "VOICE" /\ HandOut
    BY <1>6, <1>13 DEF GetFull
  <2>2. CASE hd.type = "SILENCE"
    <3>1. spurt' = << >>
      BY <2>1, <2>2 DEF HandOut
    <3>2. info' = [jb EXCEPT !.silence_begin_ts = ts]
      BY <1>13, <2>2 DEF GetFull
    <3>3. info'.last_voice_ms = l
      BY <1>2, <3>2 DEF Info
    <3>4. Short(info')
      BY <1>8, <2>1, <3>3 DEF Short
    <3> QED BY <1>11, <3>1, <3>4
  <2>3. CASE hd.type # "SILENCE"
    <3>1. spurt' = spurt /\ info' = jb
      BY <1>13, <2>1, <2>3 DEF HandOut, GetFull
    <3>2. Clock(c, n, l) /\ info'.silence_begin_ts = info.silence_begin_ts
      BY <1>4, <3>1
    <3>3. n - c - l <= n - c - l /\ Interp <= l /\ \A x \in Sizes : l <= x
      BY <1>3, <1>8, <2>1
    <3> HIDE DEF Clock
    <3> QED BY <1>3, <1>10, <2>1, <3>1, <3>2, <3>3
  <2> QED BY <2>2, <2>3
<1>14. CASE GetOverlapping(jb)
  <2>1. /\ ~Silent /\ queue # << >> /\ HandOut /\ hd.type = "VOICE"
        /\ ts > n - c - l
        /\ info' = [jb EXCEPT !.next_voice_ts = ts + c + ms]
    BY <1>6, <1>14 DEF GetOverlapping, TakesVoice, IsOverlapping, Playing
  <2>2. ts \in Int /\ ms \in Nat /\ ms \in Sizes
    BY <1>6, <2>1
  <2>3. Clock(c, ts + c + ms, l) /\ info'.silence_begin_ts = jb.silence_begin_ts
    BY <1>2, <2>1 DEF Info
  <2>4. /\ ts + c + ms \in Int /\ n - c - l < ts /\ ts <= (ts + c + ms) - c - l
        /\ Interp <= l /\ \A x \in Sizes : l <= x
    BY <1>3, <1>8, <2>1, <2>2
  <2> HIDE DEF Clock
  <2> QED BY <1>3, <1>4, <1>10, <2>1, <2>2, <2>3, <2>4
<1>15. CASE GetLate(jb)
  <2>1. ~Silent /\ spurt' = spurt /\ info' = jb
    BY <1>15 DEF GetLate, TakesVoice, Drop
  <2>2. Clock(c, n, l) /\ info'.silence_begin_ts = info.silence_begin_ts
    BY <1>4, <2>1
  <2>3. n - c - l <= n - c - l /\ Interp <= l /\ \A x \in Sizes : l <= x
    BY <1>3, <1>8, <2>1
  <2> HIDE DEF Clock
  <2> QED BY <1>3, <1>10, <2>1, <2>2, <2>3
<1>16. CASE GetShrink(jb)
  <2>1. /\ ~Silent /\ queue # << >> /\ hd.type = "VOICE" /\ spurt' = spurt
        /\ info' = [jb EXCEPT !.last_voice_ms = ms, !.last_adjustment = now, !.current = c - ms]
    BY <1>6, <1>16 DEF GetShrink, OnTime, TakesVoice, Drop
  <2>2. ms \in Nat /\ ms \in Sizes
    BY <1>6, <2>1
  <2>3. Clock(c - ms, n, ms) /\ info'.silence_begin_ts = jb.silence_begin_ts
    BY <1>2, <2>1 DEF Info
  <2>4. /\ c - ms \in Int /\ n - c - l <= n - (c - ms) - ms
        /\ Interp <= ms /\ \A x \in Sizes : ms <= x
    BY <1>3, <1>7, <2>2
  <2> HIDE DEF Clock
  <2> QED BY <1>3, <1>4, <1>10, <2>1, <2>2, <2>3, <2>4
<1>17. CASE GetVoice(jb)
  <2>1. /\ ~Silent /\ queue # << >> /\ hd.type = "VOICE" /\ HandOut
        /\ ts <= n - c /\ ~ (ts < n - c)
        /\ info' = [jb EXCEPT !.last_voice_ms = ms, !.next_voice_ts = n + ms]
    BY <1>6, <1>17 DEF GetVoice, OnTime, TakesVoice, Takes, IsEarlier, Playing
  <2>2. ts \in Int /\ ms \in Nat /\ ms \in Sizes
    BY <1>6, <2>1
  <2>3. Clock(c, n + ms, ms) /\ info'.silence_begin_ts = jb.silence_begin_ts
    BY <1>2, <2>1 DEF Info
  <2>4. /\ n + ms \in Int /\ n - c - l < ts /\ ts <= (n + ms) - c - ms
        /\ Interp <= ms /\ \A x \in Sizes : ms <= x
    BY <1>3, <1>7, <1>8, <2>1, <2>2
  <2> HIDE DEF Clock
  <2> QED BY <1>3, <1>4, <1>10, <2>1, <2>2, <2>3, <2>4
<1>18. CASE GetShrinkEmpty(jb)
  <2>1. /\ ~Silent /\ spurt' = spurt
        /\ info' = [jb EXCEPT !.last_adjustment = now, !.current = c - l]
    BY <1>18 DEF GetShrinkEmpty, Nothing, Keep
  <2>2. Clock(c - l, n, l) /\ info'.silence_begin_ts = jb.silence_begin_ts
    BY <1>2, <2>1 DEF Info
  <2>3. /\ c - l \in Int /\ n - c - l <= n - (c - l) - l
        /\ Interp <= l /\ \A x \in Sizes : l <= x
    BY <1>3, <1>8, <2>1
  <2> HIDE DEF Clock
  <2> QED BY <1>3, <1>4, <1>10, <2>1, <2>2, <2>3
<1>19. CASE GetLost(jb)
  <2>1. /\ ~Silent /\ spurt' = spurt
        /\ info' = [jb EXCEPT !.next_voice_ts = n + Interp, !.last_voice_ms = Interp]
    BY <1>19 DEF GetLost, Nothing, Keep
  <2>2. Clock(c, n + Interp, Interp) /\ info'.silence_begin_ts = jb.silence_begin_ts
    BY <1>2, <2>1 DEF Info
  <2>3. /\ n + Interp \in Int /\ Interp \in Nat /\ n - c - l <= (n + Interp) - c - Interp
        /\ Interp <= Interp /\ \A x \in Sizes : Interp <= x
    BY <1>3, <1>7
  <2> HIDE DEF Clock
  <2> QED BY <1>3, <1>4, <1>10, <2>1, <2>2, <2>3
<1>20. si \in Info /\ si.silence_begin_ts = info.silence_begin_ts
  <2>1. now \in Nat /\ jb \in Info
    BY <1>2, InputsAssumption DEF Shape, OtherShape
  <2> QED BY <1>4, <2>1, InSilenceType
<1>21. ASSUME Silent, info' = si, spurt' = << >> PROVE Forward'
  <2>1. Silent'
    BY <1>20, <1>21 DEF Silent
  <2> QED BY <1>11, <1>21, <2>1
<1>22. CASE SilentNothing(jb)
  BY <1>9, <1>21, <1>22 DEF SilentNothing, Keep
<1>23. CASE SilentFull(jb)
  <2>1. /\ Silent /\ info' = si /\ HandOut /\ hd.type # "VOICE"
    BY <1>23 DEF SilentFull
  <2>2. spurt' = << >>
    BY <1>9, <2>1 DEF HandOut
  <2> QED BY <1>21, <2>1, <2>2
<1>24. CASE SilentLate(jb)
  BY <1>9, <1>21, <1>24 DEF SilentLate, Drop
<1>25. CASE SilentVoice(jb)
  <2> DEFINE b == si.target
             z == 0
             t == ts + si.target + ms
  <2>1. /\ Silent /\ queue # << >> /\ hd.type = "VOICE" /\ HandOut
        /\ info' = [si EXCEPT !.current = b, !.silence_begin_ts = z,
                              !.next_voice_ts = t, !.last_voice_ms = ms]
    BY <1>6, <1>25 DEF SilentVoice, TakesSilent
  <2>2. ts \in Int /\ ms \in Nat /\ ms \in Sizes
    BY <1>6, <2>1
  <2>3. b \in Int
    BY <1>20, InfoFields
  <2>4. t = ts + b + ms
    OBVIOUS
  <2>5. z = 0
    OBVIOUS
  <2> HIDE DEF b, z, t, si
  <2>6. Clock(b, t, ms) /\ info'.silence_begin_ts = z
    BY <1>20, <2>1 DEF Info
  <2>7. ~Silent'
    BY <2>5, <2>6 DEF Silent
  <2>8. VoiceForward' /\ Len(spurt') \in 1 .. 2 /\ spurt'[Len(spurt')] = ts
    <3>1. Len(spurt) = 0
      BY <1>9, <2>1
    <3>2. Row(spurt, ts, Append(spurt, ts), Tail(Append(spurt, ts)))
      BY <1>5, <2>2, RowOf
    <3> QED BY <1>5, <2>1, <3>1, <3>2, RowGrows
  <2>9. Short(info') /\ Behind(info', spurt')
    <3>1. Interp <= ms /\ \A x \in Sizes : ms <= x
      BY <1>7, <2>2
    <3>2. ts <= t - b - ms
      BY <2>2, <2>3, <2>4
    <3> QED BY <2>6, <2>8, <3>1, <3>2 DEF Short, Behind
  <2> QED BY <2>7, <2>8, <2>9 DEF Forward
<1> QED BY <1>1, <1>12, <1>13, <1>14, <1>15, <1>16, <1>17, <1>18, <1>19, <1>22, <1>23, <1>24, <1>25

(* jb_put, jb_getinfo and the clock leave the voice that was played alone. *)
LEMMA ForwardSame ==
  ASSUME Forward, spurt' = spurt, info'.current = info.current,
         info'.next_voice_ts = info.next_voice_ts, info'.last_voice_ms = info.last_voice_ms,
         info'.silence_begin_ts = info.silence_begin_ts
  PROVE  Forward'
BY DEF Forward, Silent, Short, Behind, VoiceForward

LEMMA ForwardStep == OneSize /\ Shape /\ Forward /\ [Next]_vars => Forward'
<1> SUFFICES ASSUME OneSize, Shape, Forward, [Next]_vars PROVE Forward'
  OBVIOUS
<1>0. info \in Info
  BY DEF Shape, OtherShape
<1>1. ASSUME NEW type \in Types, NEW ts \in Stamps, PutFull(type, ts) PROVE Forward'
  BY <1>1, ForwardSame DEF PutFull
<1>2. ASSUME NEW ts \in Stamps, NEW ms \in Sizes, PutVoice(ts, ms) PROVE Forward'
  <2>1. spurt' = spurt
    BY <1>2 DEF PutVoice
  <2>2. /\ info'.current = info.current /\ info'.next_voice_ts = info.next_voice_ts
        /\ info'.last_voice_ms = info.last_voice_ms /\ info'.silence_begin_ts = info.silence_begin_ts
    BY <1>0, <1>2 DEF PutVoice, Info
  <2> QED BY <2>1, <2>2, ForwardSame
<1>3. ASSUME NEW ts \in Stamps, NEW ms \in Sizes, Resync(ts, ms) PROVE Forward'
  <2>1. spurt' = spurt
    BY <1>3 DEF Resync
  <2>2. /\ info'.current = info.current /\ info'.next_voice_ts = info.next_voice_ts
        /\ info'.last_voice_ms = info.last_voice_ms /\ info'.silence_begin_ts = info.silence_begin_ts
    BY <1>0, <1>3 DEF Resync, Info
  <2> QED BY <2>1, <2>2, ForwardSame
<1>4. ASSUME NEW ts \in Stamps, PutDiscontinuous(ts) PROVE Forward'
  <2>1. spurt' = spurt
    BY <1>4 DEF PutDiscontinuous
  <2>2. /\ info'.current = info.current /\ info'.next_voice_ts = info.next_voice_ts
        /\ info'.last_voice_ms = info.last_voice_ms /\ info'.silence_begin_ts = info.silence_begin_ts
    BY <1>0, <1>4 DEF PutDiscontinuous, Info
  <2> QED BY <2>1, <2>2, ForwardSame
<1>5. CASE Get
  BY <1>5, ForwardGet
<1>6. CASE GetInfo
  <2>1. SameClock(info')
    BY <1>6, ShapeGetInfo
  <2> QED BY <1>6, <2>1, ForwardSame DEF GetInfo, ghosts, SameClock
<1>7. CASE Reset
  <2>1. spurt' = << >> /\ Len(spurt') = 0 /\ info'.silence_begin_ts = -1
    BY <1>7 DEF Reset, NewInfo
  <2> QED BY <2>1 DEF Forward, Silent, VoiceForward
<1>8. CASE Tick
  BY <1>8, ForwardSame DEF Tick, ghosts
<1>9. CASE UNCHANGED vars
  BY <1>9, ForwardSame DEF vars, ghosts
<1> QED BY <1>1, <1>2, <1>3, <1>4, <1>5, <1>6, <1>7, <1>8, <1>9 DEF Next, Put

(* If all voice frames have one duration and interpolation is no longer, voice
   is played forward: whatever is interpolated, dropped, shrunk or resynced
   between them, of two frames handed out in a row the second was sent later. *)
THEOREM VoiceSafe == Spec => [](OneSize => VoiceForward)
<1>1. Init => Shape /\ Forward
  <2> SUFFICES ASSUME Init PROVE Shape /\ Forward
    OBVIOUS
  <2>1. spurt = << >> /\ Len(spurt) = 0 /\ info.silence_begin_ts = -1
    BY DEF Init, NewInfo
  <2>2. Forward
    BY <2>1 DEF Forward, Silent, VoiceForward
  <2> QED BY <2>2, ShapeInit
<1>2. Shape /\ (OneSize => Forward) /\ [Next]_vars => Shape' /\ (OneSize' => Forward')
  <2>1. OneSize' <=> OneSize
    BY DEF OneSize
  <2> QED BY <2>1, ShapeStep, ForwardStep
<1>3. (OneSize => Forward) => (OneSize => VoiceForward)
  BY DEF Forward
<1> QED BY <1>1, <1>2, <1>3, PTL DEF Spec

-----------------------------------------------------------------------------
(* Full frames *)

(* Of the full frames 1 .. n those in d were handed out and those in q wait. *)
Waits(q) == {k \in 1 .. Len(q) : q[k].type # "VOICE"}
Covered(q, d, n) ==
  \A x \in 1 .. n : (\E j \in 1 .. Len(d) : d[j] = x) \/ (\E k \in Waits(q) : q[k].id = x)
Within(q, d, n) ==
  (\A j \in 1 .. Len(d) : d[j] \in 1 .. n) /\ (\A k \in Waits(q) : q[k].id \in 1 .. n)
Single(q, d) ==
  /\ \A i, j \in 1 .. Len(d) : i < j => d[i] # d[j]
  /\ \A j \in 1 .. Len(d), k \in Waits(q) : d[j] # q[k].id
  /\ \A j, k \in Waits(q) : j < k => q[j].id # q[k].id
Rising(q, d) ==
  /\ \A i, j \in 1 .. Len(d) : i < j => d[i] < d[j]
  /\ \A j \in 1 .. Len(d), k \in Waits(q) : d[j] < q[k].id
  /\ \A j, k \in Waits(q) : j < k => q[j].id < q[k].id
Timely(q, t) == \A k \in Waits(q) : q[k].ts = t[q[k].id]

Numbered ==
  /\ Covered(queue, done, Len(full)) /\ Within(queue, done, Len(full)) /\ Single(queue, done)
  /\ \/ resynced
     \/ info.resync_offset = 0 /\ Rising(queue, done) /\ Timely(queue, full)

(* Where a frame was before one came to place p, and where it is since. *)
Old(p, k) == IF k < p THEN k ELSE k - 1
New(p, i) == IF i < p THEN i ELSE i + 1

LEMMA Places ==
  ASSUME NEW q \in Seq(Frame), NEW r, NEW f, NEW p, Enqueued(q, r, f, p)
  PROVE  /\ \A k \in 1 .. Len(r) : k = p \/ (Old(p, k) \in 1 .. Len(q) /\ r[k] = q[Old(p, k)])
         /\ \A j, k \in 1 .. Len(r) : j < k /\ j # p /\ k # p => Old(p, j) < Old(p, k)
         /\ \A i \in 1 .. Len(q) : New(p, i) \in 1 .. Len(r) /\ r[New(p, i)] = q[i]
         /\ p \in 1 .. Len(r) /\ r[p] = f
         /\ \A k \in 1 .. Len(r) : p < k => q[Old(p, k)].ts > f.ts
<1> DEFINE n == Len(q)
           m == Len(r)
<1>1. /\ p \in 1 .. n + 1 /\ m = n + 1 /\ r[p] = f
      /\ \A i \in 1 .. p - 1 : r[i] = q[i]
      /\ \A i \in p .. n : r[i + 1] = q[i] /\ q[i].ts > f.ts
  BY DEF Enqueued
<1>2. n \in Nat
  BY LenProperties
<1> HIDE DEF n, m
<1>3. ASSUME NEW k \in 1 .. m, k # p
      PROVE  Old(p, k) \in 1 .. n /\ r[k] = q[Old(p, k)] /\ (p < k => q[Old(p, k)].ts > f.ts)
  <2>1. CASE k < p
    BY <1>1, <1>2, <2>1 DEF Old
  <2>2. CASE p < k
    <3>1. Old(p, k) = k - 1 /\ k - 1 \in p .. n /\ k - 1 \in 1 .. n /\ k - 1 + 1 = k
      BY <1>1, <1>2, <2>2 DEF Old
    <3>2. r[k - 1 + 1] = q[k - 1] /\ q[k - 1].ts > f.ts
      BY <1>1, <3>1
    <3> QED BY <3>1, <3>2
  <2> QED BY <1>1, <1>2, <1>3, <2>1, <2>2
<1>4. \A j, k \in 1 .. m : j < k /\ j # p /\ k # p => Old(p, j) < Old(p, k)
  BY <1>1, <1>2 DEF Old
<1>5. ASSUME NEW i \in 1 .. n PROVE New(p, i) \in 1 .. m /\ r[New(p, i)] = q[i]
  <2>1. CASE i < p
    BY <1>1, <1>2, <2>1 DEF New
  <2>2. CASE p <= i
    <3>1. New(p, i) = i + 1 /\ i \in p .. n /\ i + 1 \in 1 .. m
      BY <1>1, <1>2, <2>2 DEF New
    <3> QED BY <1>1, <3>1
  <2> QED BY <1>1, <1>2, <2>1, <2>2
<1>6. p \in 1 .. m /\ r[p] = f
  BY <1>1
<1>7. \A k \in 1 .. m : p < k => k # p
  BY <1>1
<1> QED BY <1>3, <1>4, <1>5, <1>6, <1>7 DEF n, m

(* A voice frame comes: the full frames that wait do so in the same order. *)
LEMMA NumberedPutVoice ==
  ASSUME NEW q \in Seq(Frame), NEW r, NEW f, NEW p, Enqueued(q, r, f, p), f.type = "VOICE",
         NEW d, NEW n, Covered(q, d, n), Within(q, d, n), Single(q, d)
  PROVE  /\ Covered(r, d, n) /\ Within(r, d, n) /\ Single(r, d)
         /\ Rising(q, d) => Rising(r, d)
         /\ \A t : Timely(q, t) => Timely(r, t)
<1>1. ASSUME NEW k \in Waits(r) PROVE k # p /\ Old(p, k) \in Waits(q) /\ r[k] = q[Old(p, k)]
  <2>1. k \in 1 .. Len(r) /\ r[k].type # "VOICE"
    BY DEF Waits
  <2>2. k # p
    BY <2>1, Places
  <2>3. Old(p, k) \in 1 .. Len(q) /\ r[k] = q[Old(p, k)]
    BY <2>1, <2>2, Places
  <2> QED BY <2>1, <2>2, <2>3 DEF Waits
<1>2. ASSUME NEW i \in Waits(q) PROVE New(p, i) \in Waits(r) /\ r[New(p, i)] = q[i]
  <2>1. i \in 1 .. Len(q) /\ q[i].type # "VOICE"
    BY DEF Waits
  <2>2. New(p, i) \in 1 .. Len(r) /\ r[New(p, i)] = q[i]
    BY <2>1, Places
  <2> QED BY <2>1, <2>2 DEF Waits
<1>3. \A j, k \in Waits(r) : j < k => Old(p, j) < Old(p, k)
  <2>1. \A k \in Waits(r) : k \in 1 .. Len(r)
    BY DEF Waits
  <2> QED BY <1>1, <2>1, Places
<1>4. Covered(r, d, n)
  BY <1>2 DEF Covered
<1>5. Within(r, d, n)
  BY <1>1 DEF Within
<1>6. Single(r, d)
  BY <1>1, <1>3 DEF Single
<1>7. Rising(q, d) => Rising(r, d)
  BY <1>1, <1>3 DEF Rising
<1>8. \A t : Timely(q, t) => Timely(r, t)
  BY <1>1 DEF Timely
<1> QED BY <1>4, <1>5, <1>6, <1>7, <1>8

(* The next full frame comes: it goes behind the full frames that wait. *)
RisingGoesOn(q, r, d, n, ts) ==
  \A t, u : /\ Rising(q, d) /\ Timely(q, t)
            /\ \A k \in 1 .. n : t[k] \in Nat /\ t[k] <= ts /\ u[k] = t[k]
            /\ u[n + 1] = ts
            => Rising(r, d) /\ Timely(r, u)

LEMMA NumberedPutFull ==
  ASSUME NEW q \in Seq(Frame), NEW r, NEW f \in Frame, NEW p, Enqueued(q, r, f, p), f.type # "VOICE",
         NEW d, NEW n \in Nat, Covered(q, d, n), Within(q, d, n), Single(q, d), f.id = n + 1
  PROVE  /\ Covered(r, d, n + 1) /\ Within(r, d, n + 1) /\ Single(r, d)
         /\ RisingGoesOn(q, r, d, n, f.ts)
<1>0. p \in Waits(r) /\ r[p] = f /\ f.id = n + 1 /\ f.id \notin 1 .. n /\ f.ts \in Int
  <2>1. p \in 1 .. Len(r) /\ r[p] = f
    BY Places
  <2> QED BY <2>1, FrameFields DEF Waits
<1>1. ASSUME NEW k \in Waits(r), k # p PROVE Old(p, k) \in Waits(q) /\ r[k] = q[Old(p, k)]
  <2>1. k \in 1 .. Len(r) /\ r[k].type # "VOICE"
    BY DEF Waits
  <2>2. Old(p, k) \in 1 .. Len(q) /\ r[k] = q[Old(p, k)]
    BY <1>1, <2>1, Places
  <2> QED BY <2>1, <2>2 DEF Waits
<1>2. ASSUME NEW i \in Waits(q) PROVE New(p, i) \in Waits(r) /\ r[New(p, i)] = q[i]
  <2>1. i \in 1 .. Len(q) /\ q[i].type # "VOICE"
    BY DEF Waits
  <2>2. New(p, i) \in 1 .. Len(r) /\ r[New(p, i)] = q[i]
    BY <2>1, Places
  <2> QED BY <2>1, <2>2 DEF Waits
<1>3. \A j, k \in Waits(r) : j < k /\ j # p /\ k # p => Old(p, j) < Old(p, k)
  <2>1. \A k \in Waits(r) : k \in 1 .. Len(r)
    BY DEF Waits
  <2> QED BY <2>1, Places
<1>4. \A k \in Waits(r) : k # p => r[k].id \in 1 .. n
  BY <1>1 DEF Within
<1>5. \A x \in 1 .. n + 1 : x = n + 1 \/ x \in 1 .. n
  OBVIOUS
<1>6. \A x \in 1 .. n : x \in 1 .. n + 1 /\ x < n + 1
  OBVIOUS
<1>7. \A j \in 1 .. Len(d) : d[j] \in 1 .. n
  BY DEF Within
<1>8. Covered(r, d, n + 1)
  <2> SUFFICES ASSUME NEW x \in 1 .. n + 1
               PROVE  (\E j \in 1 .. Len(d) : d[j] = x) \/ (\E k \in Waits(r) : r[k].id = x)
    BY DEF Covered
  <2>1. CASE x = n + 1
    BY <1>0, <2>1
  <2>2. CASE x \in 1 .. n
    BY <1>2, <2>2 DEF Covered
  <2> QED BY <1>5, <2>1, <2>2
<1>9. Within(r, d, n + 1)
  <2>1. ASSUME NEW k \in Waits(r) PROVE r[k].id \in 1 .. n + 1
    BY <1>0, <1>4, <1>6
  <2> QED BY <1>6, <1>7, <2>1 DEF Within
<1>10. Single(r, d)
  <2>1. \A i, j \in 1 .. Len(d) : i < j => d[i] # d[j]
    BY DEF Single
  <2>2. ASSUME NEW j \in 1 .. Len(d), NEW k \in Waits(r) PROVE d[j] # r[k].id
    BY <1>0, <1>1, <1>7 DEF Single
  <2>3. ASSUME NEW j \in Waits(r), NEW k \in Waits(r), j < k PROVE r[j].id # r[k].id
    <3>1. CASE j = p
      <4>1. k # p
        BY <2>3, <3>1 DEF Waits
      <4> QED BY <1>0, <1>4, <3>1, <4>1
    <3>2. CASE k = p
      <4>1. j # p
        BY <2>3, <3>2 DEF Waits
      <4> QED BY <1>0, <1>4, <3>2, <4>1
    <3>3. CASE j # p /\ k # p
      BY <1>1, <1>3, <2>3, <3>3 DEF Single
    <3> QED BY <3>1, <3>2, <3>3
  <2> QED BY <2>1, <2>2, <2>3 DEF Single
<1>11. ASSUME NEW t, NEW u, Rising(q, d), Timely(q, t),
              \A k \in 1 .. n : t[k] \in Nat /\ t[k] <= f.ts /\ u[k] = t[k],
              u[n + 1] = f.ts
       PROVE  Rising(r, d) /\ Timely(r, u)
  <2>1. \A i, j \in 1 .. Len(d) : i < j => d[i] < d[j]
    BY <1>11 DEF Rising
  <2>2. ASSUME NEW j \in 1 .. Len(d), NEW k \in Waits(r) PROVE d[j] < r[k].id
    <3>1. CASE k = p
      BY <1>0, <1>6, <1>7, <3>1
    <3>2. CASE k # p
      BY <1>1, <1>11, <3>2 DEF Rising
    <3> QED BY <3>1, <3>2
  <2>3. ASSUME NEW j \in Waits(r), NEW k \in Waits(r), j < k PROVE r[j].id < r[k].id
    <3>0. j \in 1 .. Len(r) /\ k \in 1 .. Len(r) /\ j \in Int /\ k \in Int
      BY DEF Waits
    <3>1. CASE j = p
      <4>1. k # p /\ p < k
        BY <2>3, <3>0, <3>1
      <4>2. q[Old(p, k)].ts > f.ts
        BY <3>0, <4>1, Places
      <4>3. Old(p, k) \in Waits(q) /\ q[Old(p, k)].id \in 1 .. n
        BY <1>1, <4>1 DEF Within
      <4>4. q[Old(p, k)].ts = t[q[Old(p, k)].id]
        BY <1>11, <4>3 DEF Timely
      <4>5. /\ t[q[Old(p, k)].id] <= f.ts /\ t[q[Old(p, k)].id] \in Nat
        BY <1>11, <4>3
      <4> QED BY <1>0, <4>2, <4>4, <4>5
    <3>2. CASE k = p
      <4>1. j # p
        BY <2>3, <3>0, <3>2
      <4> QED BY <1>0, <1>4, <1>6, <3>2, <4>1
    <3>3. CASE j # p /\ k # p
      BY <1>1, <1>3, <1>11, <2>3, <3>3 DEF Rising
    <3> QED BY <3>1, <3>2, <3>3
  <2>4. ASSUME NEW k \in Waits(r) PROVE r[k].ts = u[r[k].id]
    <3>1. CASE k = p
      BY <1>0, <1>11, <3>1
    <3>2. CASE k # p
      <4>1. Old(p, k) \in Waits(q) /\ r[k] = q[Old(p, k)] /\ r[k].id \in 1 .. n
        BY <1>1, <1>4, <3>2
      <4>2. r[k].ts = t[r[k].id]
        BY <1>11, <4>1 DEF Timely
      <4> QED BY <1>11, <4>1, <4>2
    <3> QED BY <3>1, <3>2
  <2> QED BY <2>1, <2>2, <2>3, <2>4 DEF Rising, Timely
<1> QED BY <1>8, <1>9, <1>10, <1>11 DEF RisingGoesOn

(* The head of the queue is taken: the places move up by one. *)
Follows(q, r) ==
  /\ Len(q) \in Nat \ {0} /\ Len(r) = Len(q) - 1
  /\ \A i \in 1 .. Len(q) - 1 : r[i] = q[i + 1]

LEMMA WaitsFollow ==
  ASSUME NEW q, NEW r, Follows(q, r)
  PROVE  /\ \A k \in Waits(r) : k + 1 \in Waits(q) /\ r[k] = q[k + 1]
         /\ \A k \in Waits(q) : k = 1 \/ (k - 1 \in Waits(r) /\ r[k - 1] = q[k])
         /\ \A j, k \in Waits(r) : j < k => j + 1 < k + 1
         /\ \A k \in Waits(r) : 1 < k + 1
<1> DEFINE n == Len(q)
           m == Len(r)
<1>1. n \in Nat \ {0} /\ m = n - 1 /\ \A i \in 1 .. n - 1 : r[i] = q[i + 1]
  BY DEF Follows
<1>2. /\ \A k : k \in Waits(q) <=> k \in 1 .. n /\ q[k].type # "VOICE"
      /\ \A k : k \in Waits(r) <=> k \in 1 .. m /\ r[k].type # "VOICE"
  BY DEF Waits
<1> HIDE DEF n, m
<1>3. ASSUME NEW k \in Waits(r) PROVE k + 1 \in Waits(q) /\ r[k] = q[k + 1] /\ k \in Nat /\ 1 < k + 1
  <2>1. k \in 1 .. n - 1 /\ r[k].type # "VOICE"
    BY <1>1, <1>2
  <2>2. k + 1 \in 1 .. n /\ r[k] = q[k + 1] /\ k \in Nat /\ 1 < k + 1
    BY <1>1, <2>1
  <2> QED BY <1>2, <2>1, <2>2
<1>4. ASSUME NEW k \in Waits(q), k # 1 PROVE k - 1 \in Waits(r) /\ r[k - 1] = q[k]
  <2>1. k \in 1 .. n /\ q[k].type # "VOICE"
    BY <1>2
  <2>2. k - 1 \in 1 .. n - 1 /\ k - 1 + 1 = k
    BY <1>1, <1>4, <2>1
  <2>3. r[k - 1] = q[k - 1 + 1]
    BY <1>1, <2>2
  <2> QED BY <1>1, <1>2, <2>1, <2>2, <2>3
<1>5. \A j, k \in Waits(r) : j < k => j + 1 < k + 1
  BY <1>3
<1> QED BY <1>3, <1>4, <1>5

LEMMA NumberedTailVoice ==
  ASSUME NEW q, NEW r, Follows(q, r), q[1].type = "VOICE",
         NEW d, NEW n, Covered(q, d, n), Within(q, d, n), Single(q, d)
  PROVE  /\ Covered(r, d, n) /\ Within(r, d, n) /\ Single(r, d)
         /\ Rising(q, d) => Rising(r, d)
         /\ \A t : Timely(q, t) => Timely(r, t)
<1>1. /\ \A k \in Waits(r) : k + 1 \in Waits(q) /\ r[k] = q[k + 1]
      /\ \A k \in Waits(q) : k - 1 \in Waits(r) /\ r[k - 1] = q[k]
      /\ \A j, k \in Waits(r) : j < k => j + 1 < k + 1
  <2>1. 1 \notin Waits(q)
    BY DEF Waits
  <2> QED BY <2>1, WaitsFollow
<1>2. Covered(r, d, n)
  <2> SUFFICES ASSUME NEW x \in 1 .. n
               PROVE  (\E j \in 1 .. Len(d) : d[j] = x) \/ (\E k \in Waits(r) : r[k].id = x)
    BY DEF Covered
  <2>1. CASE \E j \in 1 .. Len(d) : d[j] = x
    BY <2>1
  <2>2. CASE \E k \in Waits(q) : q[k].id = x
    BY <1>1, <2>2
  <2> QED BY <2>1, <2>2 DEF Covered
<1>3. Within(r, d, n)
  BY <1>1 DEF Within
<1>4. Single(r, d)
  BY <1>1 DEF Single
<1>5. Rising(q, d) => Rising(r, d)
  BY <1>1 DEF Rising
<1>6. \A t : Timely(q, t) => Timely(r, t)
  BY <1>1 DEF Timely
<1> QED BY <1>2, <1>3, <1>4, <1>5, <1>6

(* ... and was a full frame, which is the next that is handed out. *)
Appended(e, d, x) ==
  /\ Len(d) \in Nat /\ Len(e) = Len(d) + 1 /\ e[Len(d) + 1] = x
  /\ \A j \in 1 .. Len(d) : e[j] = d[j]

LEMMA NumberedTailFull ==
  ASSUME NEW q, NEW r, Follows(q, r), q[1].type # "VOICE",
         NEW d, NEW e, Appended(e, d, q[1].id),
         NEW n \in Nat, Covered(q, d, n), Within(q, d, n), Single(q, d)
  PROVE  /\ Covered(r, e, n) /\ Within(r, e, n) /\ Single(r, e)
         /\ Rising(q, d) => Rising(r, e)
         /\ \A t : Timely(q, t) => Timely(r, t)
<1> DEFINE l == Len(d)
           m == Len(e)
           x1 == q[1].id
<1>1. /\ \A k \in Waits(r) : k + 1 \in Waits(q) /\ r[k] = q[k + 1] /\ 1 < k + 1
      /\ \A k \in Waits(q) : k = 1 \/ (k - 1 \in Waits(r) /\ r[k - 1] = q[k])
      /\ \A j, k \in Waits(r) : j < k => j + 1 < k + 1
  BY WaitsFollow
<1>2. 1 \in Waits(q) /\ x1 \in 1 .. n
  BY DEF Waits, Follows, Within
<1>3. l \in Nat /\ m = l + 1 /\ e[m] = x1 /\ \A j \in 1 .. l : e[j] = d[j]
  BY DEF Appended
<1>4. /\ \A x \in 1 .. n : (\E j \in 1 .. l : d[j] = x) \/ (\E k \in Waits(q) : q[k].id = x)
      /\ \A j \in 1 .. l : d[j] \in 1 .. n
      /\ \A k \in Waits(q) : q[k].id \in 1 .. n
      /\ \A i, j \in 1 .. l : i < j => d[i] # d[j]
      /\ \A j \in 1 .. l, k \in Waits(q) : d[j] # q[k].id
      /\ \A j, k \in Waits(q) : j < k => q[j].id # q[k].id
  BY DEF Covered, Within, Single
<1>5. Rising(q, d) => /\ \A i, j \in 1 .. l : i < j => d[i] < d[j]
                      /\ \A j \in 1 .. l, k \in Waits(q) : d[j] < q[k].id
                      /\ \A j, k \in Waits(q) : j < k => q[j].id < q[k].id
  BY DEF Rising
<1> HIDE DEF l, m
<1>6. /\ \A j \in 1 .. m : j = m \/ j \in 1 .. l
      /\ \A j \in 1 .. l : j \in 1 .. m /\ j # m
      /\ m \in 1 .. m /\ \A j \in 1 .. m : ~ (m < j)
  BY <1>3
<1>7. ASSUME NEW x \in 1 .. n
      PROVE  (\E j \in 1 .. m : e[j] = x) \/ (\E k \in Waits(r) : r[k].id = x)
  <2>1. CASE \E j \in 1 .. l : d[j] = x
    BY <1>3, <1>6, <2>1
  <2>2. CASE \E k \in Waits(q) : q[k].id = x
    <3>1. PICK k \in Waits(q) : q[k].id = x
      BY <2>2
    <3>2. CASE k = 1
      BY <1>3, <1>6, <3>1, <3>2
    <3>3. CASE k # 1
      BY <1>1, <3>1, <3>3
    <3> QED BY <3>2, <3>3
  <2> QED BY <1>4, <2>1, <2>2
<1>8. (\A j \in 1 .. m : e[j] \in 1 .. n) /\ (\A k \in Waits(r) : r[k].id \in 1 .. n)
  BY <1>1, <1>2, <1>3, <1>4, <1>6
<1>9. ASSUME NEW i \in 1 .. m, NEW j \in 1 .. m, i < j
      PROVE  e[i] # e[j] /\ (Rising(q, d) => e[i] < e[j])
  <2>1. i \in 1 .. l /\ e[i] = d[i]
    BY <1>3, <1>6, <1>9
  <2>2. CASE j = m
    BY <1>2, <1>3, <1>4, <1>5, <2>1, <2>2
  <2>3. CASE j \in 1 .. l
    BY <1>3, <1>4, <1>5, <1>9, <2>1, <2>3
  <2> QED BY <1>6, <2>2, <2>3
<1>10. ASSUME NEW j \in 1 .. m, NEW k \in Waits(r)
       PROVE  e[j] # r[k].id /\ (Rising(q, d) => e[j] < r[k].id)
  <2>1. k + 1 \in Waits(q) /\ r[k] = q[k + 1] /\ 1 < k + 1
    BY <1>1
  <2>2. CASE j = m
    BY <1>2, <1>3, <1>4, <1>5, <2>1, <2>2
  <2>3. CASE j \in 1 .. l
    BY <1>3, <1>4, <1>5, <2>1, <2>3
  <2> QED BY <1>6, <2>2, <2>3
<1>11. ASSUME NEW j \in Waits(r), NEW k \in Waits(r), j < k
       PROVE  r[j].id # r[k].id /\ (Rising(q, d) => r[j].id < r[k].id)
  BY <1>1, <1>4, <1>5, <1>11
<1>12. \A t : Timely(q, t) => Timely(r, t)
  BY <1>1 DEF Timely
<1> QED BY <1>7, <1>8, <1>9, <1>10, <1>11, <1>12 DEF Covered, Within, Single, Rising, l, m

LEMMA NumberedInit == Init => Numbered
<1> SUFFICES ASSUME Init PROVE Numbered
  OBVIOUS
<1>1. /\ queue = << >> /\ done = << >> /\ full = << >> /\ info.resync_offset = 0
  BY DEF Init, NewInfo
<1>2. Len(queue) = 0 /\ Len(done) = 0 /\ Len(full) = 0
  BY <1>1
<1>3. Waits(queue) = {}
  BY <1>2 DEF Waits
<1> HIDE DEF Init
<1> QED BY <1>1, <1>2, <1>3 DEF Numbered, Covered, Within, Single, Rising, Timely

LEMMA NumberedGet ==
  ASSUME Shape, Numbered, Get
  PROVE  Numbered'
<1>1. /\ full' = full /\ resynced' = resynced /\ info'.resync_offset = info.resync_offset
      /\ \/ HandOut /\ queue # << >>
         \/ Drop /\ queue # << >> /\ Head(queue).type = "VOICE"
         \/ Keep
  <2>1. hist' \in History
    BY ShapeGet DEF Shape, HistoryShape
  <2>2. info \in Info /\ now \in Nat /\ queue \in Seq(Frame)
    BY InputsAssumption DEF Shape, OtherShape, QueueShape
  <2>3. full' = full /\ resynced' = resynced
    BY DEF Get
  <2> QED BY <2>1, <2>2, <2>3, GetSteps
<1> DEFINE n == Len(full)
<1>2. /\ Covered(queue, done, n) /\ Within(queue, done, n) /\ Single(queue, done)
      /\ \/ resynced
         \/ info.resync_offset = 0 /\ Rising(queue, done) /\ Timely(queue, full)
  BY DEF Numbered
<1>3. n \in Nat
  BY LenProperties DEF Shape, QueueShape
<1>4. Numbered' <=> /\ Covered(queue', done', n) /\ Within(queue', done', n) /\ Single(queue', done')
                    /\ \/ resynced
                       \/ info.resync_offset = 0 /\ Rising(queue', done') /\ Timely(queue', full)
  BY <1>1 DEF Numbered
<1> HIDE DEF n
<1>5. ASSUME queue # << >>, queue' = Tail(queue) PROVE Follows(queue, queue') /\ Head(queue) = queue[1]
  <2>1. queue \in Seq(Frame) /\ InOrder(queue)
    BY DEF Shape, QueueShape
  <2> QED BY <1>5, <2>1, OrderedByTail DEF Follows
<1>6. CASE HandOut /\ queue # << >> /\ Head(queue).type # "VOICE"
  <2>1. queue' = Tail(queue) /\ done' = Append(done, Head(queue).id)
    BY <1>6 DEF HandOut
  <2>2. Follows(queue, queue') /\ Head(queue) = queue[1]
    BY <1>5, <1>6, <2>1
  <2>3. Appended(done', done, queue[1].id)
    <3>1. 1 \in Waits(queue)
      BY <1>6, <2>2 DEF Waits, Follows
    <3>2. queue[1].id \in 0 .. MaxFrames /\ done \in Seq(1 .. MaxFrames)
      <4>1. queue[1] \in Frame
        BY <1>6, <2>2, HeadTailProperties DEF Shape, QueueShape
      <4> QED BY <4>1 DEF Frame, Shape, HandedShape
    <3>3. queue[1].id \in 1 .. MaxFrames
      BY <1>2, <1>3, <3>1, <3>2 DEF Within
    <3>4. done' = Append(done, queue[1].id)
      BY <2>1, <2>2
    <3> DEFINE S == 1 .. MaxFrames
               x == queue[1].id
    <3>5. done \in Seq(S) /\ x \in S
      BY <3>2, <3>3
    <3> HIDE DEF S, x
    <3>6. Len(done) \in Nat
      BY <3>5, LenProperties
    <3>7. /\ Len(Append(done, x)) = Len(done) + 1 /\ Append(done, x)[Len(done) + 1] = x
          /\ \A j \in 1 .. Len(done) : Append(done, x)[j] = done[j]
      BY <3>5, AppendProperties
    <3> QED BY <3>4, <3>6, <3>7 DEF Appended, x
  <2> QED BY <1>2, <1>3, <1>4, <1>6, <2>2, <2>3, NumberedTailFull
<1>7. CASE (HandOut \/ Drop) /\ queue # << >> /\ Head(queue).type = "VOICE"
  <2>1. queue' = Tail(queue) /\ done' = done
    BY <1>7 DEF HandOut, Drop
  <2>2. Follows(queue, queue') /\ Head(queue) = queue[1]
    BY <1>5, <1>7, <2>1
  <2> QED BY <1>2, <1>4, <1>7, <2>1, <2>2, NumberedTailVoice
<1>8. CASE Keep
  BY <1>2, <1>4, <1>8 DEF Keep
<1> QED BY <1>1, <1>6, <1>7, <1>8

LEMMA NumberedByVoice ==
  ASSUME Shape, Numbered, NEW f \in Frame, f.type = "VOICE", queue' = Queued(f),
         UNCHANGED <<done, full>>,
         resynced' = TRUE \/ (resynced' = resynced /\ info'.resync_offset = info.resync_offset)
  PROVE  Numbered'
<1>1. queue \in Seq(Frame) /\ InOrder(queue)
  BY DEF Shape, QueueShape
<1>2. PICK p : Enqueued(queue, queue', f, p)
  BY <1>1, PutInOrder
<1>3. /\ Covered(queue, done, Len(full)) /\ Within(queue, done, Len(full)) /\ Single(queue, done)
      /\ \/ resynced
         \/ info.resync_offset = 0 /\ Rising(queue, done) /\ Timely(queue, full)
  BY DEF Numbered
<1>4. /\ Covered(queue', done, Len(full)) /\ Within(queue', done, Len(full)) /\ Single(queue', done)
      /\ Rising(queue, done) => Rising(queue', done)
      /\ \A t : Timely(queue, t) => Timely(queue', t)
  BY <1>1, <1>2, <1>3, NumberedPutVoice
<1> QED BY <1>3, <1>4 DEF Numbered

LEMMA NumberedByFull ==
  ASSUME Shape, Numbered, NEW type \in Types, NEW ts \in Stamps, PutFull(type, ts)
  PROVE  Numbered'
<1> DEFINE n == Len(full)
           m == n + 1
           a == ts - info.resync_offset
           z == 0
           f == [type |-> type, ts |-> a, ms |-> z, id |-> m]
<1>1. /\ queue \in Seq(Frame) /\ InOrder(queue) /\ full \in Seq(Nat) /\ n \in Nat /\ n <= put
      /\ put < MaxFrames /\ put \in Nat /\ MaxFrames \in Nat /\ ts \in Nat /\ type # "VOICE"
      /\ info.resync_offset \in Int /\ type \in Types
  <2>1. info.resync_offset \in Int
    BY DelayType DEF Shape
  <2> QED BY <2>1, InputsAssumption, LenProperties DEF Shape, QueueShape, OtherShape, PutFull, Arrives
<1>2. /\ queue' = Queued(f) /\ done' = done /\ resynced' = resynced /\ info' = info
      /\ full' = Append(full, ts) /\ \A k \in DOMAIN full : full[k] <= ts
  BY DEF PutFull
<1>3. /\ Len(full') = m /\ full'[m] = ts
      /\ \A k \in 1 .. n : full'[k] = full[k] /\ full[k] \in Nat /\ full[k] <= ts
  <2>1. DOMAIN full = 1 .. n /\ \A k \in 1 .. n : full[k] \in Nat
    BY <1>1, LenProperties, ElementOfSeq
  <2>2. /\ Len(full') = m /\ full'[m] = ts
        /\ \A k \in 1 .. n : full'[k] = full[k]
    BY <1>1, <1>2, AppendProperties
  <2> QED BY <1>2, <2>1, <2>2
<1>4. /\ Covered(queue, done, n) /\ Within(queue, done, n) /\ Single(queue, done)
      /\ \/ resynced
         \/ info.resync_offset = 0 /\ Rising(queue, done) /\ Timely(queue, full)
  BY DEF Numbered
<1>5. /\ m \in 0 .. MaxFrames /\ a \in Int /\ z \in Sizes \cup {0}
      /\ info.resync_offset = 0 => a = ts
  <2> HIDE DEF n
  <2> QED BY <1>1
<1>6. f \in Frame /\ f.type # "VOICE" /\ f.id = m /\ f.ts = a
  <2> HIDE DEF a, z, m
  <2> QED BY <1>1, <1>5 DEF Frame
<1> HIDE DEF a, z, f
<1>7. PICK p : Enqueued(queue, queue', f, p)
  BY <1>1, <1>2, <1>6, PutInOrder
<1>8. /\ Covered(queue', done, m) /\ Within(queue', done, m) /\ Single(queue', done)
      /\ RisingGoesOn(queue, queue', done, n, f.ts)
  <2> HIDE DEF n
  <2> QED BY <1>1, <1>4, <1>6, <1>7, NumberedPutFull
<1>9. CASE resynced
  BY <1>2, <1>3, <1>8, <1>9 DEF Numbered
<1>10. CASE info.resync_offset = 0 /\ Rising(queue, done) /\ Timely(queue, full)
  <2>1. f.ts = ts
    BY <1>5, <1>6, <1>10
  <2>2. Rising(queue', done) /\ Timely(queue', full')
    BY <1>3, <1>8, <1>10, <2>1 DEF RisingGoesOn
  <2> QED BY <1>2, <1>3, <1>8, <1>10, <2>2 DEF Numbered
<1> QED BY <1>4, <1>9, <1>10

(* Nothing of it changes. *)
LEMMA NumberedSame ==
  ASSUME Numbered, UNCHANGED <<queue, done, full, resynced>>,
         info'.resync_offset = info.resync_offset
  PROVE  Numbered'
BY DEF Numbered

LEMMA NumberedStep == Shape /\ Numbered /\ [Next]_vars => Numbered'
<1> SUFFICES ASSUME Shape, Numbered, [Next]_vars PROVE Numbered'
  OBVIOUS
<1>0. info \in Info
  BY DEF Shape, OtherShape
<1>1. ASSUME NEW type \in Types, NEW ts \in Stamps, PutFull(type, ts) PROVE Numbered'
  BY <1>1, NumberedByFull
<1>2. ASSUME NEW ts \in Stamps, NEW ms \in Sizes, PutVoice(ts, ms) PROVE Numbered'
  <2> DEFINE f == Voice(ts, ms, info.resync_offset)
             n == 0
  <2>1. f \in Frame /\ f.type = "VOICE"
    <3>1. info.resync_offset \in Int
      BY <1>0, InfoFields
    <3> QED BY <3>1, VoiceType DEF Voice
  <2>2. /\ queue' = Queued(f) /\ UNCHANGED <<done, full, resynced>>
        /\ info'.resync_offset = info.resync_offset
    BY <1>0, <1>2 DEF PutVoice, Info
  <2> HIDE DEF f
  <2> QED BY <2>1, <2>2, NumberedByVoice
<1>3. ASSUME NEW ts \in Stamps, NEW ms \in Sizes, Resync(ts, ms) PROVE Numbered'
  <2> DEFINE f == Voice(ts, ms, ts - now)
  <2>1. f \in Frame /\ f.type = "VOICE"
    <3>1. ts - now \in Int
      BY DelayType DEF Shape
    <3> QED BY <3>1, VoiceType DEF Voice
  <2>2. queue' = Queued(f) /\ UNCHANGED <<done, full>> /\ resynced' = TRUE
    BY <1>3 DEF Resync
  <2> HIDE DEF f
  <2> QED BY <2>1, <2>2, NumberedByVoice
<1>4. ASSUME NEW ts \in Stamps, PutDiscontinuous(ts) PROVE Numbered'
  <2>1. info'.resync_offset = info.resync_offset /\ UNCHANGED <<queue, done, full, resynced>>
    BY <1>0, <1>4 DEF PutDiscontinuous, Info
  <2> QED BY <2>1, NumberedSame
<1>5. CASE Get
  BY <1>5, NumberedGet
<1>6. CASE GetInfo
  <2>1. SameClock(info')
    BY <1>6, ShapeGetInfo
  <2> QED BY <1>6, <2>1, NumberedSame DEF GetInfo, ghosts, SameClock
<1>7. CASE Reset
  <2>1. Init'
    BY <1>7 DEF Reset, Init, NewInfo, NewHistory
  <2>2. Init' => Numbered'
    BY NumberedInit, PTL
  <2> QED BY <2>1, <2>2
<1>8. CASE Tick
  BY <1>8, NumberedSame DEF Tick, ghosts
<1>9. CASE UNCHANGED vars
  BY <1>9, NumberedSame DEF vars, ghosts
<1> QED BY <1>1, <1>2, <1>3, <1>4, <1>5, <1>6, <1>7, <1>8, <1>9 DEF Next, Put

LEMMA NumberedInOrder == Shape /\ Numbered => FullInOrder
<1> SUFFICES ASSUME Shape, Numbered PROVE FullInOrder
  OBVIOUS
<1> DEFINE n == Len(full)
           l == Len(done)
           W == {k \in DOMAIN queue : queue[k].type # "VOICE"}
           ids == {queue[k].id : k \in W}
           D == {done[i] : i \in DOMAIN done}
<1>1. DOMAIN queue = 1 .. Len(queue) /\ DOMAIN done = 1 .. l
  BY LenProperties DEF Shape, QueueShape, HandedShape
<1>2. W = Waits(queue) /\ ToSet(done) = D
  BY <1>1 DEF Waits, ToSet
<1>3. /\ Covered(queue, done, n) /\ Within(queue, done, n) /\ Single(queue, done)
      /\ resynced \/ Rising(queue, done)
  BY DEF Numbered
<1>4. D \cup ids = 1 .. n
  <2>1. \A x \in 1 .. n : x \in D \cup ids
    BY <1>1, <1>2, <1>3 DEF Covered
  <2>2. \A x \in D \cup ids : x \in 1 .. n
    BY <1>1, <1>2, <1>3 DEF Within
  <2> QED BY <2>1, <2>2
<1>5. D \cap ids = {}
  BY <1>1, <1>2, <1>3 DEF Single
<1>6. /\ \A j, k \in DOMAIN done : j < k => done[j] # done[k]
      /\ \A j, k \in W : j < k => queue[j].id # queue[k].id
  BY <1>1, <1>2, <1>3 DEF Single
<1>7. resynced \/ /\ \A j, k \in DOMAIN done : j < k => done[j] < done[k]
                  /\ \A j \in DOMAIN done, k \in W : done[j] < queue[k].id
                  /\ \A j, k \in W : j < k => queue[j].id < queue[k].id
  BY <1>1, <1>2, <1>3 DEF Rising
<1>8. ToSet(done) \cup ids = 1 .. n /\ ToSet(done) \cap ids = {}
  BY <1>2, <1>4, <1>5
<1> HIDE DEF D
<1> QED BY <1>6, <1>7, <1>8 DEF FullInOrder

(* Whatever jb_put and jb_get decide about the voice around them, no full frame
   is lost or handed out twice, and as long as there was no resync the full
   frames are handed out in the order in which they were sent: queue_put goes
   behind what is not later, and JB_DROP is only of voice. *)
THEOREM FullFramesSafe == Spec => []FullInOrder
<1>1. Init => Shape /\ Numbered
  BY ShapeInit, NumberedInit
<1>2. Shape /\ Numbered /\ [Next]_vars => Shape' /\ Numbered'
  BY ShapeStep, NumberedStep
<1>3. Shape /\ Numbered => FullInOrder
  BY NumberedInOrder
<1> QED BY <1>1, <1>2, <1>3, PTL DEF Spec

=============================================================================
