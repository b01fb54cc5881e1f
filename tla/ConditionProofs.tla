--------------------------- MODULE ConditionProofs ----------------------------
(***************************************************************************)
(* The forecast begins today and has today's hours, and a verdict on the   *)
(* conditions of a chore is about the world, for any number of records,    *)
(* pages and conditions.                                                   *)
(***************************************************************************)
EXTENDS ConditionEvaluator, FiniteSetTheorems, SequenceTheorems, TLAPS

-------------------------------------------------------------------------------
(* Sequences and their positions. *)

(* Some number of a set is the least. *)
LEMMA Least ==
    ASSUME NEW T \in SUBSET Nat, T # {}
    PROVE  \E n \in T : \A m \in T : n <= m
<1> DEFINE below == {0..n : n \in T}
<1>1. below \subseteq FiniteSubsetsOf(Nat) /\ below # {}
  <2>1. ASSUME NEW n \in T PROVE 0..n \in FiniteSubsetsOf(Nat)
    <3>1. n \in Int /\ 0..n \in SUBSET Nat
      OBVIOUS
    <3> QED
      BY <3>1, FS_Interval DEF FiniteSubsetsOf
  <2> QED
    BY <2>1
<1>2. IsWellFoundedOn(StrictSubsetOrdering(Nat), FiniteSubsetsOf(Nat))
  BY FS_StrictSubsetOrderingWellFounded
<1> HIDE DEF below
<1>3. PICK x \in below : \A y \in below : <<y, x>> \notin StrictSubsetOrdering(Nat)
  BY <1>1, <1>2, WFMin
<1>4. PICK n \in T : x = 0..n
  BY <1>3 DEF below
<1>5. ASSUME NEW m \in T, m < n PROVE FALSE
  <2>1. 0..m \in below /\ <<0..m, x>> \notin StrictSubsetOrdering(Nat)
    BY <1>3 DEF below
  <2>2. 0..m \subseteq 0..n /\ n \notin 0..m /\ n \in 0..n
    BY <1>5
  <2>3. <<0..m, 0..n>> \in StrictSubsetOrdering(Nat)
    BY <2>2 DEF StrictSubsetOrdering
  <2> QED
    BY <1>4, <2>1, <2>3
<1>6. \A m \in T : n <= m
  BY <1>4, <1>5
<1> QED
  BY <1>4, <1>6

(* The number of places up to k. *)
Count(places, k) == Cardinality(places \cap 1..k)

(* It grows by one at a place, and stays the same elsewhere. *)
LEMMA Counting ==
    ASSUME NEW N \in Nat, NEW places \in SUBSET (1..N)
    PROVE  /\ IsFiniteSet(places) /\ Cardinality(places) \in Nat
           /\ Count(places, 0) = 0 /\ Count(places, N) = Cardinality(places)
           /\ \A k \in 0..N : Count(places, k) \in Nat
           /\ \A k \in 1..N : Count(places, k) = Count(places, k - 1) + (IF k \in places THEN 1 ELSE 0)
           /\ \A j, k \in 0..N : j <= k => Count(places, j) <= Count(places, k)
<1>1. IsFiniteSet(places) /\ \A k \in 0..N : IsFiniteSet(places \cap 1..k)
  <2>1. IsFiniteSet(1..N)
    BY FS_Interval
  <2>2. \A k \in 0..N : places \cap 1..k \in SUBSET (1..N)
    OBVIOUS
  <2> QED
    BY <2>1, <2>2, FS_Subset
<1>2. Cardinality(places) \in Nat /\ \A k \in 0..N : Count(places, k) \in Nat
  BY <1>1, FS_CardinalityType DEF Count
<1>3. places \cap 1..0 = {} /\ places \cap 1..N = places
  <2>1. 1..0 = {}
    OBVIOUS
  <2> QED
    BY <2>1
<1>4. ASSUME NEW k \in 1..N
      PROVE  Count(places, k) = Count(places, k - 1) + (IF k \in places THEN 1 ELSE 0)
  <2> DEFINE below == places \cap 1..(k - 1)
  <2>1. IsFiniteSet(below) /\ k \notin below
    BY <1>1
  <2>2. CASE k \in places
    <3>1. (places \cap 1..k) = below \cup {k}
      BY <2>2
    <3> QED
      BY <2>1, <2>2, <3>1, FS_AddElement DEF Count
  <2>3. CASE k \notin places
    <3>1. (places \cap 1..k) = below
      BY <2>3
    <3> QED
      BY <1>2, <2>3, <3>1 DEF Count
  <2> QED
    BY <2>2, <2>3
<1>5. ASSUME NEW j \in 0..N, NEW k \in 0..N, j <= k
      PROVE  Count(places, j) <= Count(places, k)
  <2>1. places \cap 1..j \in SUBSET (places \cap 1..k)
    BY <1>5
  <2> QED
    BY <1>1, <2>1, FS_Subset DEF Count
<1> QED
  BY <1>1, <1>2, <1>3, <1>4, <1>5, FS_EmptySet DEF Count

(* Subsequence goes through the places one after the other. *)
Enumerates(e, places, s) ==
    /\ e \in [1..Cardinality(places) -> places]
    /\ \A i, j \in 1..Cardinality(places) : i < j => e[i] < e[j]
    /\ \A k \in places : \E i \in 1..Cardinality(places) : e[i] = k
    /\ Subsequence(s, places) = [n \in 1..Cardinality(places) |-> s[e[n]]]

(* There is such a walk through the places. *)
LEMMA Enumerated ==
    ASSUME NEW N \in Nat, NEW places \in SUBSET (1..N), NEW s
    PROVE  \E e : Enumerates(e, places, s)
<1> DEFINE M == Cardinality(places)
           Place(n) == CHOOSE k \in places : Count(places, k) = n
           e == [n \in 1..M |-> Place(n)]
<1>1. M \in Nat
  BY Counting
<1>2. ASSUME NEW n \in 1..M PROVE \E k \in places : Count(places, k) = n
  <2> DEFINE T == {k \in 1..N : Count(places, k) >= n}
  <2>1. N \in T /\ T \in SUBSET Nat
    <3>1. N # 0 /\ Count(places, N) = M /\ n <= M
      BY <1>1, Counting
    <3> QED
      BY <1>1, <3>1
  <2> HIDE DEF T
  <2>2. PICK k \in T : \A m \in T : k <= m
    BY <2>1, Least
  <2> USE DEF T
  <2>3. k \in 1..N /\ Count(places, k) >= n /\ Count(places, k - 1) < n
    <3>1. k - 1 \in 0..N /\ Count(places, k - 1) \in Nat
      BY Counting
    <3>2. k - 1 \notin T
      BY <2>2
    <3> QED
      BY <1>1, <3>1, <3>2, Counting
  <2>4. Count(places, k) = Count(places, k - 1) + (IF k \in places THEN 1 ELSE 0)
    BY <2>3, Counting
  <2>5. Count(places, k - 1) \in Nat /\ Count(places, k) \in Nat
    <3>1. k - 1 \in 0..N /\ k \in 0..N
      BY <2>3
    <3> QED
      BY <3>1, Counting
  <2> QED
    BY <2>3, <2>4, <2>5
<1>3. \A n \in 1..M : Place(n) \in places /\ Count(places, Place(n)) = n
  BY <1>2
<1>4. ASSUME NEW k \in places PROVE Count(places, k) \in 1..M
  <2>1. k \in 1..N /\ k - 1 \in 0..N /\ k \in 0..N /\ N \in 0..N
    OBVIOUS
  <2>2. /\ Count(places, k) = Count(places, k - 1) + 1 /\ Count(places, k - 1) \in Nat
        /\ Count(places, k) <= Count(places, N) /\ Count(places, N) = M
    BY <2>1, Counting
  <2> QED
    BY <1>1, <2>2
<1>5. ASSUME NEW j \in places, NEW k \in places, j < k
      PROVE  Count(places, j) < Count(places, k)
  <2>1. /\ Count(places, k) = Count(places, k - 1) + 1 /\ Count(places, j) <= Count(places, k - 1)
        /\ Count(places, k - 1) \in Nat /\ Count(places, j) \in Nat
    <3>1. k \in 1..N /\ k - 1 \in 0..N /\ j \in 0..N /\ j <= k - 1
      BY <1>5
    <3> QED
      BY <3>1, Counting
  <2> QED
    BY <2>1
<1>6. e \in [1..M -> places]
  BY <1>3
<1>7. ASSUME NEW i \in 1..M, NEW j \in 1..M, i < j PROVE e[i] < e[j]
  <2>1. ASSUME NEW p \in places, NEW q \in places, Count(places, p) = i, Count(places, q) = j
        PROVE  p < q
    <3>1. p \in 1..N /\ q \in 1..N /\ p # q
      BY <1>7, <2>1
    <3>2. q < p => j < i
      BY <1>5, <2>1
    <3> QED
      BY <1>7, <3>1, <3>2
  <2>2. /\ e[i] \in places /\ e[j] \in places /\ Count(places, e[i]) = i /\ Count(places, e[j]) = j
    BY <1>3
  <2> QED
    BY <2>1, <2>2
<1>8. ASSUME NEW k \in places PROVE \E i \in 1..M : e[i] = k
  <2>1. Count(places, k) \in 1..M
    BY <1>4
  <2>2. Place(Count(places, k)) = k
    <3> DEFINE j == Place(Count(places, k))
    <3>1. j \in places /\ Count(places, j) = Count(places, k)
      BY <1>3, <2>1
    <3> HIDE DEF j
    <3>2. ~(j < k) /\ ~(k < j)
      BY <1>4, <1>5, <3>1
    <3>3. j = k
      BY <3>1, <3>2
    <3> QED
      BY <3>3 DEF j
  <2> QED
    BY <2>1, <2>2
<1>9. Subsequence(s, places) = [n \in 1..M |-> s[e[n]]]
  BY DEF Subsequence, Count
<1> QED
  BY <1>6, <1>7, <1>8, <1>9 DEF Enumerates

(* Numbers that grow, from a on, reach at least a + k - 1 at the k-th.     *)
Grows(s, m, a) ==
    /\ s \in [1..m -> Int]
    /\ \A i, j \in 1..m : i < j => s[i] < s[j]
    /\ \A k \in 1..m : s[k] >= a

(* Nothing is skipped twice: whole numbers grow by one at least. *)
LEMMA Growing ==
    ASSUME NEW m \in Nat, NEW s, NEW a \in Int, Grows(s, m, a)
    PROVE  \A k \in 1..m : s[k] >= a + k - 1
<1> USE DEF Grows
<1> DEFINE T == {k \in 1..m : s[k] < a + k - 1}
<1> SUFFICES ASSUME T # {} PROVE FALSE
  OBVIOUS
<1>0. T \in SUBSET Nat
  OBVIOUS
<1> HIDE DEF T
<1>1. PICK k \in T : \A j \in T : k <= j
  BY <1>0, Least
<1> USE DEF T
<1>2. k # 1 /\ k - 1 \in 1..m /\ k - 1 \notin T
  BY <1>1
<1>3. s[k - 1] < s[k] /\ s[k - 1] >= a + (k - 1) - 1 /\ s[k] \in Int /\ s[k - 1] \in Int
  BY <1>1, <1>2
<1> QED
  BY <1>1, <1>3

(* If all the c numbers from a on are among them, they come first.         *)
Covers(s, m, a, c) ==
    /\ Grows(s, m, a)
    /\ \A d \in a..(a + c - 1) : \E k \in 1..m : s[k] = d

(* Numbers that grow from a on and leave none of the first c out begin     *)
(* with those, in a row.                                                   *)
LEMMA Consecutive ==
    ASSUME NEW m \in Nat, NEW s, NEW a \in Int, NEW c \in Nat, Covers(s, m, a, c)
    PROVE  c <= m /\ \A k \in 1..c : s[k] = a + k - 1
<1> USE DEF Covers, Grows
<1> DEFINE T == {k \in 1..c : ~(k <= m /\ s[k] = a + k - 1)}
<1>1. \A k \in 1..m : s[k] >= a + k - 1
  BY Growing
<1>2. T = {}
  <2> SUFFICES ASSUME T # {} PROVE FALSE
    OBVIOUS
  <2>0. T \in SUBSET Nat
    OBVIOUS
  <2> HIDE DEF T
  <2>1. PICK k \in T : \A j \in T : k <= j
    BY <2>0, Least
  <2> USE DEF T
  <2>2. PICK i \in 1..m : s[i] = a + k - 1
    <3>1. a + k - 1 \in a..(a + c - 1)
      BY <2>1
    <3> QED
      BY <3>1
  <2>3. i >= k
    <3> SUFFICES ASSUME i < k PROVE FALSE
      BY <2>1
    <3>1. i \in 1..c /\ i \notin T
      BY <2>1
    <3> QED
      BY <2>1, <2>2, <3>1
  <2>4. k \in 1..m /\ s[k] <= s[i]
    BY <2>1, <2>2, <2>3
  <2> QED
    BY <1>1, <2>1, <2>2, <2>4
<1>3. \A k \in 1..c : k <= m /\ s[k] = a + k - 1
  BY <1>2
<1> HIDE DEF T
<1>4. c <= m
  <2>1. c = 0 \/ c \in 1..c
    OBVIOUS
  <2>2. c \in 1..c => c <= m
    BY <1>3
  <2> QED
    BY <2>1, <2>2
<1> QED
  BY <1>3, <1>4

-------------------------------------------------------------------------------
(* Pages. *)

(* What follows on the last record, or on itself when it came early, keeps *)
(* a timeline in steps.                                                    *)
LEMMA StepsGoOn ==
    ASSUME NEW s \in Seq(Int), NEW r \in Seq(Int), NEW first \in Int, NEW extra \in Nat,
           NEW early \in {0, 1}, InSteps(s, first, extra),
           Len(s) <= Len(r), Len(s) = Len(r) => early = 0,
           \A k \in 1..Len(s) : r[k] = s[k],
           \A k \in (Len(s) + 1)..Len(r) :
              r[k] = (IF s = <<>> THEN first ELSE s[Len(s)] + 1) + (k - Len(s)) - 1 - early
    PROVE  InSteps(r, first, extra + early)
<1>1. Len(s) \in Nat /\ Len(r) \in Nat /\ (s = <<>> <=> Len(s) = 0) /\ (r = <<>> <=> Len(r) = 0)
  OBVIOUS
<1>2. /\ \A k \in 1..Len(s) : s[k] \in Int
      /\ \A k \in 1..Len(r) : r[k] \in Int
  OBVIOUS
<1>3. CASE s = <<>>
  <2>1. \A k \in 1..Len(r) : r[k] = first + k - 1 - early
    BY <1>1, <1>3
  <2>2. extra = 0
    BY <1>3 DEF InSteps
  <2> QED
    BY <1>1, <2>1, <2>2 DEF InSteps
<1>4. CASE s # <<>>
  <2> DEFINE m == Len(s)
             l == Len(r)
             last == s[m]
  <2>1. /\ m \in 1..m /\ m \in Nat /\ last \in Int /\ last = first + m - 1 - extra
        /\ s[1] \in {first - 1, first}
        /\ \A j, k \in 1..m : j <= k => s[j] <= s[k] /\ s[k] <= s[j] + (k - j)
    BY <1>1, <1>2, <1>4 DEF InSteps
  <2>2. /\ l \in Nat /\ m <= l /\ (early = 0 \/ (early = 1 /\ m < l))
        /\ \A k \in 1..m : r[k] = s[k]
        /\ \A k \in (m + 1)..l : r[k] = last + (k - m) - early
        /\ r[m] = last
    BY <1>1, <1>4, <2>1
  <2>3. r # <<>> /\ r[1] \in {first - 1, first}
    BY <1>1, <2>1, <2>2
  <2>4. \A k \in 1..m : s[k] \in Int /\ s[k] <= last /\ last <= s[k] + (m - k)
    BY <1>2, <2>1
  <2> HIDE DEF m, l, last
  <2>5. r[l] = first + l - 1 - (extra + early)
    <3>1. CASE l = m
      BY <2>1, <2>2, <3>1
    <3>2. CASE l > m
      <4>1. l \in (m + 1)..l
        BY <2>1, <2>2, <3>2
      <4>2. r[l] = last + (l - m) - early
        BY <2>2, <4>1
      <4> QED
        BY <2>1, <2>2, <4>2
    <3> QED
      BY <2>1, <2>2, <3>1, <3>2
  <2>6. ASSUME NEW j \in 1..l, NEW k \in 1..l, j <= k
        PROVE  r[j] <= r[k] /\ r[k] <= r[j] + (k - j)
    <3>1. CASE k <= m
      <4>1. j \in 1..m /\ k \in 1..m
        BY <2>1, <2>2, <2>6, <3>1
      <4> QED
        BY <2>1, <2>2, <2>6, <4>1
    <3>2. CASE j > m
      <4>1. j \in (m + 1)..l /\ k \in (m + 1)..l
        BY <2>1, <2>2, <2>6, <3>2
      <4>2. r[j] = last + (j - m) - early /\ r[k] = last + (k - m) - early
        BY <2>2, <4>1
      <4> QED
        BY <2>1, <2>2, <2>6, <4>2
    <3>3. CASE j <= m /\ k > m
      <4>1. j \in 1..m /\ k \in (m + 1)..l
        BY <2>1, <2>2, <3>3
      <4>2. r[j] = s[j] /\ r[k] = last + (k - m) - early
        BY <2>2, <4>1
      <4>3. s[j] \in Int /\ s[j] <= last /\ last <= s[j] + (m - j)
        BY <2>4, <4>1
      <4>4. m \in Nat /\ last \in Int /\ (early = 0 \/ early = 1) /\ j \in Nat /\ k \in Nat
        BY <2>1, <2>2
      <4> QED
        BY <3>3, <4>2, <4>3, <4>4
    <3> QED
      BY <2>1, <2>2, <3>1, <3>2, <3>3
  <2> QED
    BY <2>3, <2>5, <2>6 DEF InSteps, l
<1> QED
  BY <1>3, <1>4

(* A number between the first record and the last is one of them. *)
LEMMA NoneLeftOut ==
    ASSUME NEW s \in Seq(Int), NEW first \in Int, NEW extra \in Nat, InSteps(s, first, extra),
           s # <<>>, NEW d \in Int, first <= d, d <= s[Len(s)]
    PROVE  \E k \in 1..Len(s) : s[k] = d
<1> DEFINE T == {k \in 1..Len(s) : s[k] >= d}
<1>1. Len(s) \in 1..Len(s) /\ Len(s) \in Nat /\ \A k \in 1..Len(s) : s[k] \in Int
  OBVIOUS
<1>2. Len(s) \in T /\ T \in SUBSET Nat
  BY <1>1
<1> HIDE DEF T
<1>3. PICK k \in T : \A j \in T : k <= j
  BY <1>2, Least
<1>4. k \in 1..Len(s) /\ s[k] >= d
  BY <1>3 DEF T
<1>5. CASE k = 1
  BY <1>1, <1>4, <1>5 DEF InSteps
<1>6. CASE k # 1
  <2>1. k - 1 \in 1..Len(s) /\ k - 1 \notin T
    BY <1>1, <1>3, <1>4, <1>6
  <2>2. s[k - 1] < d /\ s[k - 1] \in Int /\ s[k] \in Int
    BY <1>1, <1>4, <2>1 DEF T
  <2>3. s[k] <= s[k - 1] + 1
    <3>1. k - 1 <= k /\ k - (k - 1) = 1
      BY <1>4
    <3> QED
      BY <1>4, <2>1, <3>1 DEF InSteps
  <2> QED
    BY <1>4, <2>2, <2>3
<1> QED
  BY <1>5, <1>6

(* A function on 1..n is a sequence of length n. *)
LEMMA SequenceOf ==
    ASSUME NEW S, NEW n \in Nat, NEW f \in [1..n -> S]
    PROVE  f \in Seq(S) /\ Len(f) = n /\ DOMAIN f = 1..n
<1>1. f \in Seq(S)
  BY SeqDef
<1>2. DOMAIN f = 1..Len(f) /\ Len(f) \in Nat
  BY <1>1, LenProperties
<1>3. 1..n = 1..Len(f)
  BY <1>2
<1>4. n = Len(f)
  <2>1. n <= Len(f)
    <3>1. n = 0 \/ n \in 1..Len(f)
      BY <1>3
    <3> QED
      BY <1>2, <3>1
  <2>2. Len(f) <= n
    <3>1. Len(f) = 0 \/ Len(f) \in 1..n
      BY <1>2, <1>3
    <3> QED
      BY <1>2, <3>1
  <2> QED
    BY <1>2, <2>1, <2>2
<1> QED
  BY <1>1, <1>2, <1>4

(* The days _build_response lists grow from today on, and every day there  *)
(* is a record of is among them.                                           *)
LEMMA DaysListed ==
    ASSUME today \in Nat, NEW records \in Seq(Int),
           \A j, k \in 1..Len(records) : j <= k => records[j] <= records[k]
    PROVE  \E m \in Nat : LET days == Listed(records) IN
              /\ days \in [1..m -> Nat] /\ days \in [1..m -> Int]
              /\ \A i, j \in 1..m : i < j => days[i] < days[j]
              /\ \A i \in 1..m : days[i] >= today
              /\ \A k \in 1..Len(records) : records[k] >= today => \E i \in 1..m : days[i] = records[k]
<1> DEFINE N == Len(records)
           P == {k \in 1..N : records[k] >= today /\ \A j \in 1..(k - 1) : records[j] # records[k]}
           M == Cardinality(P)
<1>1. N \in Nat /\ DOMAIN records = 1..N /\ \A k \in 1..N : records[k] \in Int
  OBVIOUS
<1>2. P \in SUBSET (1..N)
  OBVIOUS
<1>3. Listed(records) = Subsequence(records, P)
  BY <1>1 DEF Listed
<1>4. M \in Nat
  BY <1>1, <1>2, Counting
<1>5. ASSUME NEW j \in P, NEW k \in P, j < k PROVE records[j] < records[k]
  <2>1. j \in 1..(k - 1) /\ j \in 1..N /\ k \in 1..N /\ records[j] # records[k] /\ records[j] <= records[k]
    BY <1>1, <1>5
  <2> QED
    BY <1>1, <2>1
<1>6. \A k \in P : records[k] >= today /\ records[k] \in Nat
  BY <1>1
<1>7. ASSUME NEW k \in 1..N, records[k] >= today PROVE \E j \in P : records[j] = records[k]
  <2> DEFINE T == {j \in 1..N : records[j] = records[k]}
  <2>1. k \in T /\ T \in SUBSET Nat
    BY <1>1
  <2> HIDE DEF T
  <2>2. PICK j \in T : \A i \in T : j <= i
    BY <2>1, Least
  <2>3. j \in 1..N /\ records[j] = records[k]
    BY <2>2 DEF T
  <2>4. ASSUME NEW i \in 1..(j - 1) PROVE records[i] # records[j]
    <3>1. i \in 1..N /\ i < j
      BY <1>1, <2>3
    <3>2. i \notin T
      BY <2>2, <2>3, <3>1
    <3> QED
      BY <2>3, <3>1, <3>2 DEF T
  <2> QED
    BY <1>7, <2>3, <2>4
<1> HIDE DEF N, P, M
<1>e. PICK e : Enumerates(e, P, records)
  BY <1>1, <1>2, Enumerated
<1>8. /\ e \in [1..M -> P]
      /\ \A i, j \in 1..M : i < j => e[i] < e[j]
      /\ \A k \in P : \E i \in 1..M : e[i] = k
      /\ Listed(records) = [n \in 1..M |-> records[e[n]]]
  BY <1>3, <1>e, Zenon DEF M, Enumerates
<1> DEFINE days == Listed(records)
<1>9. \A i \in 1..M : days[i] = records[e[i]] /\ e[i] \in P
  BY <1>8
<1>10. days \in [1..M -> Nat] /\ days \in [1..M -> Int] /\ \A i \in 1..M : days[i] >= today
  BY <1>6, <1>8, <1>9
<1>11. \A i, j \in 1..M : i < j => days[i] < days[j]
  BY <1>5, <1>8, <1>9
<1>12. ASSUME NEW k \in 1..N, records[k] >= today PROVE \E i \in 1..M : days[i] = records[k]
  BY <1>7, <1>8, <1>9, <1>12
<1> QED
  BY <1>4, <1>10, <1>11, <1>12 DEF N

(* The hours of a day are those from its midnight to the next. *)
LEMMA HoursOfDay ==
    ASSUME NEW d \in Nat, NEW h \in Int
    PROVE  /\ d * HoursPerDay \in Nat
           /\ (d + 1) * HoursPerDay = d * HoursPerDay + HoursPerDay
           /\ DayOf("hourly", h) = d <=> d * HoursPerDay <= h /\ h < d * HoursPerDay + HoursPerDay
<1>1. HoursPerDay \in Nat /\ HoursPerDay > 0
  BY ForecastAssumption
<1> DEFINE q == h \div HoursPerDay
           p == d * HoursPerDay
<1>2. p \in Nat /\ (d + 1) * HoursPerDay = p + HoursPerDay
  BY <1>1, SMTT(30)
<1>3. q \in Int /\ HoursPerDay * q <= h /\ h < HoursPerDay * q + HoursPerDay
  BY <1>1, SMTT(30)
<1> HIDE DEF q
<1>4. q <= d - 1 => HoursPerDay * q + HoursPerDay <= p
  <2> SUFFICES ASSUME q <= d - 1 PROVE HoursPerDay * q + HoursPerDay <= p
    OBVIOUS
  <2>1. HoursPerDay * (q + 1) <= HoursPerDay * d
    BY <1>1, <1>3, SMTT(30)
  <2> QED
    BY <1>1, <1>3, <2>1, SMTT(30)
<1>5. q >= d + 1 => HoursPerDay * q >= p + HoursPerDay
  <2> SUFFICES ASSUME q >= d + 1 PROVE HoursPerDay * q >= p + HoursPerDay
    OBVIOUS
  <2>1. HoursPerDay * (d + 1) <= HoursPerDay * q
    BY <1>1, <1>3, SMTT(30)
  <2> QED
    BY <1>1, <1>3, <2>1, SMTT(30)
<1>6. q = d => HoursPerDay * q = p
  BY <1>1, SMTT(30)
<1>7. HoursPerDay * q \in Int
  BY <1>1, <1>3, SMTT(30)
<1> DEFINE r == HoursPerDay * q
<1> HIDE DEF p, r
<1>8. q = d <=> p <= h /\ h < p + HoursPerDay
  BY <1>1, <1>2, <1>3, <1>4, <1>5, <1>6, <1>7 DEF r
<1> QED
  BY <1>2, <1>8 DEF p, q, DayOf

(* The hours of a day, as _parse_hourly_from_data picks them, are hours;   *)
(* of a timeline that begins at or before its midnight, ends no earlier    *)
(* than the next and skips and repeats nothing, they are all of them.      *)
LEMMA HoursPicked ==
    ASSUME call \in Call, NEW d \in Nat
    PROVE  /\ HoursOf(d) \in Seq(Int)
           /\ \A first \in Int :
                 /\ call.got["hourly"] # None
                 /\ \A k \in 1..Len(call.got["hourly"]) : call.got["hourly"][k] = first + k - 1
                 /\ first <= d * HoursPerDay
                 /\ d * HoursPerDay + HoursPerDay <= first + Len(call.got["hourly"])
                 => HoursOf(d) = [k \in 1..HoursPerDay |-> FirstOf("hourly", d) + k - 1]
<1> DEFINE hours == call.got["hourly"]
           N == Len(hours)
           P == {k \in DOMAIN hours : DayOf("hourly", hours[k]) = d}
           M == Cardinality(P)
<1>1. CASE hours = None
  BY <1>1, EmptySeq DEF HoursOf
<1>2. CASE hours # None
  <2>1. hours \in Seq(Int)
    BY <1>2 DEF Call, Timelines
  <2>2. N \in Nat /\ DOMAIN hours = 1..N /\ \A k \in 1..N : hours[k] \in Int
    BY <2>1
  <2>3. P \in SUBSET (1..N) /\ HoursOf(d) = Subsequence(hours, P)
    BY <1>2, <2>2 DEF HoursOf
  <2>4. M \in Nat
    BY <2>2, <2>3, Counting
  <2>5. \A k \in P : /\ hours[k] \in Int /\ k \in 1..N
                     /\ d * HoursPerDay <= hours[k] /\ hours[k] < d * HoursPerDay + HoursPerDay
    BY <2>2, HoursOfDay
  <2>6. \A k \in 1..N : d * HoursPerDay <= hours[k] /\ hours[k] < d * HoursPerDay + HoursPerDay => k \in P
    BY <2>2, HoursOfDay
  <2> HIDE DEF P, M, N, hours
  <2>7. PICK e : Enumerates(e, P, hours)
    BY <2>2, <2>3, Enumerated
  <2>8. /\ e \in [1..M -> P]
        /\ \A i, j \in 1..M : i < j => e[i] < e[j]
        /\ \A k \in P : \E i \in 1..M : e[i] = k
        /\ HoursOf(d) = [n \in 1..M |-> hours[e[n]]]
    BY <2>3, <2>7, Zenon DEF M, Enumerates
  <2> DEFINE picked == HoursOf(d)
  <2>9. picked \in [1..M -> Int] /\ \A n \in 1..M : picked[n] = hours[e[n]] /\ e[n] \in P
    BY <2>5, <2>8
  <2>10. picked \in Seq(Int)
    BY <2>4, <2>9, SequenceOf
  <2>11. ASSUME NEW first \in Int, \A k \in 1..N : hours[k] = first + k - 1,
                first <= d * HoursPerDay, d * HoursPerDay + HoursPerDay <= first + N
         PROVE  picked = [k \in 1..HoursPerDay |-> FirstOf("hourly", d) + k - 1]
    <3> DEFINE a == d * HoursPerDay
    <3>1. a \in Nat /\ HoursPerDay \in Nat /\ FirstOf("hourly", d) = a
      BY ForecastAssumption, HoursOfDay DEF FirstOf
    <3> HIDE DEF a
    <3>2. \A n \in 1..M : picked[n] >= a /\ picked[n] < a + HoursPerDay
      BY <2>5, <2>9 DEF a
    <3>3. ASSUME NEW i \in 1..M, NEW j \in 1..M, i < j PROVE picked[i] < picked[j]
      <4>1. e[i] < e[j] /\ e[i] \in 1..N /\ e[j] \in 1..N
        BY <2>5, <2>8, <3>3
      <4>2. hours[e[i]] = first + e[i] - 1 /\ hours[e[j]] = first + e[j] - 1
        BY <2>11, <4>1
      <4> QED
        BY <2>2, <2>9, <4>1, <4>2
    <3>4. ASSUME NEW x \in a..(a + HoursPerDay - 1) PROVE \E n \in 1..M : picked[n] = x
      <4> DEFINE k == x - first + 1
      <4>1. k \in 1..N /\ hours[k] = x
        BY <2>2, <2>11, <3>1 DEF a
      <4>2. k \in P
        BY <2>6, <3>1, <4>1 DEF a
      <4> HIDE DEF k
      <4> QED
        BY <2>8, <2>9, <4>1, <4>2
    <3>q. /\ \A i, j \in 1..M : i < j => picked[i] < picked[j]
          /\ \A n \in 1..M : picked[n] >= a
          /\ \A x \in a..(a + HoursPerDay - 1) : \E n \in 1..M : picked[n] = x
          /\ picked \in [1..M -> Int] /\ a \in Int
      BY <2>9, <3>1, <3>2, <3>3, <3>4
    <3> HIDE DEF picked
    <3>c. /\ a \in Int /\ Covers(picked, M, a, HoursPerDay)
      BY <3>q DEF Covers, Grows
    <3>5. HoursPerDay <= M /\ \A n \in 1..HoursPerDay : picked[n] = a + n - 1
      BY <2>4, <3>1, <3>c, Consecutive
    <3>6. \A n \in 1..M : picked[n] >= a + n - 1
      BY <2>4, <3>c, Growing DEF Covers
    <3> USE DEF picked
    <3>7. M = HoursPerDay
      <4>1. M \in 1..M \/ M = 0
        BY <2>4
      <4> QED
        BY <2>4, <2>9, <3>1, <3>2, <3>5, <3>6, <4>1
    <3> QED
      BY <2>8, <3>1, <3>5, <3>7
  <2> QED
    BY <2>10, <2>11 DEF N, hours
<1> QED
  BY <1>1, <1>2

-------------------------------------------------------------------------------
(* The steps of get_weather. *)

(* A call that is not under way, or only begins, has fetched nothing. *)
LEMMA CallBegins ==
    ASSUME NEW a \in {"idle", "current", "raised"}
    PROVE  LET x == [NoCall EXCEPT !.at = a]
           IN  /\ x \in Call /\ x.at = a /\ x.paging = {} /\ Len(x.shown) = 0
               /\ x.ended = {}
               /\ \A t \in Timelines : x.got[t] = <<>> /\ x.extra[t] = 0
<1>1. <<>> \in Seq(Int) /\ <<>> \in Seq([day : Nat, hours : Seq(Int)]) /\ 0 \in Days /\ 0 \in 0..MaxExtra
  BY ForecastAssumption DEF Days
<1> QED
  BY <1>1 DEF NoCall, Call

(* What such a call has fetched is right. *)
LEMMA Begun ==
    ASSUME today \in Days, outside \in Readings, NEW a \in {"idle", "current", "raised"},
           call = [NoCall EXCEPT !.at = a]
    PROVE  ForecastInv
<1>1. /\ call \in Call /\ call.at = a /\ call.paging = {} /\ Len(call.shown) = 0
  BY CallBegins
<1>2. DatesOK /\ StartsToday /\ TodayHasHours
  BY <1>1 DEF DatesOK, StartsToday, TodayHasHours, InCall
<1> QED
  BY <1>1, <1>2, ForecastAssumption DEF ForecastInv

(* A call that begins, raises or is forgotten. *)
LEMMA ShortStep ==
    ASSUME ForecastInv, UNCHANGED <<today, outside>>,
           GetWeather \/ RaiseWeather \/ call' = NoCall
    PROVE  ForecastInv'
<1>1. PICK a \in {"idle", "current", "raised"} : call' = [NoCall EXCEPT !.at = a]
  <2>1. NoCall = [NoCall EXCEPT !.at = "idle"]
    <3>1. NoCall \in Call
      <4>1. <<>> \in Seq(Int) /\ <<>> \in Seq([day : Nat, hours : Seq(Int)])
        OBVIOUS
      <4> QED
        BY <4>1, ForecastAssumption DEF NoCall, Call, Days
    <3>2. NoCall.at = "idle"
      BY DEF NoCall
    <3>3. \A x \in Call : [x EXCEPT !.at = x.at] = x
      BY DEF Call
    <3> QED
      BY <3>1, <3>2, <3>3
  <2> QED
    BY <2>1 DEF GetWeather, RaiseWeather
<1>2. /\ call' \in Call /\ call'.at = a /\ call'.paging = {} /\ Len(call'.shown) = 0
  BY <1>1, CallBegins
<1>3. DatesOK' /\ StartsToday' /\ TodayHasHours'
  BY <1>2 DEF DatesOK, StartsToday, TodayHasHours, InCall
<1> QED
  BY <1>1, <1>2, <1>3, ForecastAssumption DEF ForecastInv

(* The timelines are asked for from today on. *)
LEMMA ReceiveCurrentStep ==
    ASSUME ForecastInv, ReceiveCurrent
    PROVE  ForecastInv'
<1>1. call = [NoCall EXCEPT !.at = "current"] /\ call \in Call
  BY DEF ForecastInv, ReceiveCurrent, InCall
<1>2. /\ Len(call.shown) = 0 /\ \A t \in Timelines : call.got[t] = <<>> /\ call.extra[t] = 0
  BY <1>1, CallBegins
<1>3. /\ today \in Days /\ outside \in Readings /\ UNCHANGED <<today, outside>>
      /\ call' = [call EXCEPT !.at = "timelines", !.reading = outside,
                              !.start = today, !.paging = Timelines]
  BY DEF ForecastInv, ReceiveCurrent
<1>4. /\ call' \in Call /\ call'.at = "timelines" /\ call'.reading = outside
      /\ call'.start = today /\ call'.paging = Timelines /\ call'.shown = call.shown
      /\ call'.got = call.got /\ call'.extra = call.extra
  BY <1>1, <1>3 DEF Call
<1>5. <<>> # None /\ Len(<<>>) = 0
  <2>1. <<>> \in Seq(Int)
    OBVIOUS
  <2> QED
    BY <2>1, ForecastAssumption
<1>6. ASSUME NEW t \in Timelines PROVE PagesOK(t)'
  <2>1. MaxRecords(t) \in Nat \ {0}
    BY ForecastAssumption DEF MaxRecords
  <2>2. call'.got[t] = <<>> /\ call'.extra[t] = 0
    BY <1>2, <1>4
  <2>3. InSteps(call'.got[t], FirstOf(t, call'.start), call'.extra[t])
    BY <2>2, <1>5 DEF InSteps
  <2> QED
    BY <1>4, <1>5, <2>1, <2>2, <2>3 DEF PagesOK
<1>7. DatesOK' /\ StartsToday' /\ TodayHasHours'
  BY <1>3, <1>4 DEF DatesOK, StartsToday, TodayHasHours, InCall, Days
<1> QED
  BY <1>2, <1>3, <1>4, <1>6, <1>7, ForecastAssumption DEF ForecastInv

(* A step that changes the records of one timeline only. *)
LEMMA TimelineStep ==
    ASSUME ForecastInv, NEW t \in Timelines, t \in call.paging, UNCHANGED <<today, outside>>,
           call' \in Call, call'.at = call.at, call'.reading = call.reading,
           call'.start = call.start, call'.shown = call.shown,
           call'.paging \subseteq call.paging,
           \A u \in Timelines \ {t} :
              /\ call'.got[u] = call.got[u] /\ call'.extra[u] = call.extra[u]
              /\ u \in call'.paging <=> u \in call.paging
              /\ u \in call'.ended <=> u \in call.ended,
           PagesOK(t)'
    PROVE  ForecastInv'
<1>1. call.at = "timelines"
  BY DEF ForecastInv
<1>2. ASSUME NEW u \in Timelines PROVE PagesOK(u)'
  <2>1. CASE u = t
    BY <2>1
  <2>2. CASE u # t
    BY <1>1, <2>2 DEF ForecastInv, PagesOK
  <2> QED
    BY <2>1, <2>2
<1>3. DatesOK' /\ StartsToday' /\ TodayHasHours'
  BY <1>1 DEF ForecastInv, DatesOK, StartsToday, TodayHasHours, InCall
<1> QED
  BY <1>1, <1>2, <1>3 DEF ForecastInv

(* A page lost, and the timeline with it. *)
LEMMA LosePageStep ==
    ASSUME ForecastInv, NEW t \in Timelines, LosePage(t)
    PROVE  ForecastInv'
<1>1. /\ call \in Call /\ t \in call.paging /\ UNCHANGED <<today, outside>>
      /\ call' = [call EXCEPT !.got[t] = None, !.paging = @ \ {t}]
  BY DEF ForecastInv, LosePage
<1>2. /\ call' \in Call /\ call'.at = call.at /\ call'.reading = call.reading
      /\ call'.start = call.start /\ call'.shown = call.shown
      /\ call'.paging = call.paging \ {t} /\ call'.ended = call.ended
      /\ call'.extra = call.extra /\ call'.got = [call.got EXCEPT ![t] = None]
      /\ call'.got[t] = None
  BY <1>1 DEF Call
<1>3. PagesOK(t)'
  BY <1>2 DEF PagesOK
<1> QED
  BY <1>1, <1>2, <1>3, TimelineStep DEF Call

(* A page: its records follow on those there are. *)
LEMMA ReceivePageStep ==
    ASSUME ForecastInv, NEW t \in Timelines, ReceivePage(t)
    PROVE  ForecastInv'
<1>1. /\ call \in Call /\ t \in call.paging /\ UNCHANGED <<today, outside>>
      /\ call.at = "timelines" /\ PagesOK(t)
  BY DEF ForecastInv, ReceivePage
<1> DEFINE s == call.got[t]
           most == MaxRecords(t)
           first == FirstOf(t, call.start)
           extra == call.extra[t]
<1>2. /\ s \in Seq(Int) /\ Len(s) < most /\ most \in Nat /\ InSteps(s, first, extra)
      /\ extra \in Nat /\ first \in Int
  <2>1. most \in Nat /\ call.start \in Nat
    BY <1>1, ForecastAssumption DEF MaxRecords, Call, Days
  <2>2. first \in Int
    BY <2>1, HoursOfDay DEF FirstOf
  <2> QED
    BY <1>1, <2>1, <2>2, ForecastAssumption DEF PagesOK, Call
<1>3. PICK n \in 0..PageSize, early \in {0, 1}, next \in BOOLEAN :
         /\ n = 0 => early = 0 /\ ~next
         /\ extra + early <= MaxExtra
         /\ LET all == s \o PageFrom(t, n, early)
                full == Len(all) >= most
            IN  call' = [call EXCEPT
                   !.got[t] = IF full THEN SubSeq(all, 1, most) ELSE all,
                   !.paging = IF next /\ ~full THEN @ ELSE @ \ {t},
                   !.ended = IF next \/ full THEN @ ELSE @ \cup {t},
                   !.extra[t] = @ + early]
  BY DEF ReceivePage
<1> DEFINE page == PageFrom(t, n, early)
           all == s \o page
           full == Len(all) >= most
           r == IF full THEN SubSeq(all, 1, most) ELSE all
           from == IF s = <<>> THEN first ELSE s[Len(s)] + 1
<1>4. from \in Int /\ Following(t) = from
  BY <1>2 DEF Following, Last
<1>5. /\ n \in Nat /\ page \in Seq(Int) /\ Len(page) = n
      /\ \A k \in 1..n : page[k] = from + k - 1 - early
  <2>1. n \in Nat /\ page = [k \in 1..n |-> from + k - 1 - early]
    BY <1>4, ForecastAssumption DEF PageFrom
  <2> HIDE DEF page, from
  <2>2. page \in [1..n -> Int]
    BY <1>4, <2>1
  <2> QED
    BY <2>1, <2>2, SequenceOf
<1> HIDE DEF page, from, most, first, extra, s
<1>6. /\ all \in Seq(Int) /\ Len(all) = Len(s) + n /\ Len(s) \in Nat
      /\ \A k \in 1..Len(s) : all[k] = s[k]
      /\ \A k \in (Len(s) + 1)..Len(all) : all[k] = from + (k - Len(s)) - 1 - early
  <2>1. /\ all \in Seq(Int) /\ Len(all) = Len(s) + Len(page) /\ Len(s) \in Nat
        /\ \A k \in 1..Len(s) + Len(page) : all[k] = IF k <= Len(s) THEN s[k] ELSE page[k - Len(s)]
    <3>1. s \in Seq(Int) /\ page \in Seq(Int)
      BY <1>2, <1>5
    <3> QED
      BY <3>1, ConcatProperties
  <2> HIDE DEF all
  <2> QED
    BY <1>5, <2>1
<1> HIDE DEF all
<1>7. /\ r \in Seq(Int) /\ Len(r) = (IF full THEN most ELSE Len(all))
      /\ \A k \in 1..Len(r) : r[k] = all[k]
      /\ Len(s) <= Len(r) /\ Len(r) <= Len(all) /\ Len(r) <= most
      /\ Len(s) = Len(r) => n = 0
  <2>1. CASE full
    <3>1. \A k \in 1..most : all[k] \in Int
      BY <1>2, <1>6, <2>1
    <3>2. /\ SubSeq(all, 1, most) \in Seq(Int) /\ Len(SubSeq(all, 1, most)) = most
          /\ \A k \in 1..most : SubSeq(all, 1, most)[k] = all[k]
      BY <1>2, <1>6, <2>1, <3>1, SubSeqProperties
    <3> QED
      BY <1>2, <1>6, <2>1, <3>2
  <2>2. CASE ~full
    BY <1>2, <1>5, <1>6, <2>2
  <2> QED
    BY <2>1, <2>2
<1>8. /\ call' = [call EXCEPT
                   !.got[t] = r,
                   !.paging = IF next /\ ~full THEN @ ELSE @ \ {t},
                   !.ended = IF next \/ full THEN @ ELSE @ \cup {t},
                   !.extra[t] = @ + early]
  BY <1>3 DEF all, page
<1> HIDE DEF r
<1>9. InSteps(r, first, extra + early)
  <2>1. \A k \in 1..Len(s) : r[k] = s[k]
    BY <1>6, <1>7
  <2>2. \A k \in (Len(s) + 1)..Len(r) : r[k] = from + (k - Len(s)) - 1 - early
    BY <1>6, <1>7
  <2>3. Len(s) = Len(r) => early = 0
    BY <1>3, <1>7
  <2> QED
    BY <1>2, <1>7, <2>1, <2>2, <2>3, StepsGoOn DEF from
<1>10. extra + early \in 0..MaxExtra
  BY <1>2, <1>3, ForecastAssumption
<1>11. /\ call' \in Call /\ call'.at = call.at /\ call'.reading = call.reading
       /\ call'.start = call.start /\ call'.shown = call.shown
       /\ call'.paging = (IF next /\ ~full THEN call.paging ELSE call.paging \ {t})
       /\ call'.ended = (IF next \/ full THEN call.ended ELSE call.ended \cup {t})
       /\ call'.got = [call.got EXCEPT ![t] = r]
       /\ call'.extra = [call.extra EXCEPT ![t] = extra + early]
  BY <1>1, <1>7, <1>8, <1>10 DEF Call, extra
<1>12. call'.got[t] = r /\ call'.extra[t] = extra + early /\ r # None
  BY <1>1, <1>7, <1>11, ForecastAssumption DEF Call
<1>13. PagesOK(t)'
  <2>1. t \in call'.paging => next /\ ~full
    BY <1>11
  <2>2. t \notin call'.paging /\ t \notin call'.ended => full
    BY <1>1, <1>11
  <2>3. ~full => Len(r) < most
    BY <1>2, <1>6, <1>7
  <2>4. full => Len(r) = most
    BY <1>7
  <2>5. InSteps(call'.got[t], FirstOf(t, call'.start), call'.extra[t])
    BY <1>9, <1>11, <1>12 DEF first
  <2> HIDE DEF full
  <2> QED
    BY <1>7, <1>11, <1>12, <2>1, <2>2, <2>3, <2>4, <2>5 DEF PagesOK, most
<1> HIDE DEF full
<1>14. \A u \in Timelines \ {t} :
              /\ call'.got[u] = call.got[u] /\ call'.extra[u] = call.extra[u]
              /\ u \in call'.paging <=> u \in call.paging
              /\ u \in call'.ended <=> u \in call.ended
  BY <1>1, <1>11 DEF Call
<1> QED
  BY <1>1, <1>11, <1>13, <1>14, TimelineStep

(* Midnight, once for a call, leaves its records alone; so does the        *)
(* weather, and a step of somebody else.                                   *)
LEMMA WorldStep ==
    ASSUME ForecastInv,
           \/ Midnight \/ ChangeWeather
           \/ UNCHANGED forecast
    PROVE  ForecastInv'
<1>1. /\ call' = call /\ today' \in Days /\ outside' \in Readings
      /\ today' = today \/ today' = today + 1
      /\ call.at \in {"timelines", "answered"} => today' = today \/ today = call.start
  BY ForecastAssumption DEF ForecastInv, Midnight, ChangeWeather, forecast, Days
<1>2. /\ StartsToday' /\ TodayHasHours'
  BY <1>1 DEF ForecastInv, StartsToday, TodayHasHours, InCall
<1>3. DatesOK'
  <2>1. today \in Nat /\ call.start \in Nat /\ call.built \in Nat
    BY DEF ForecastInv, Days, Call
  <2> QED
    BY <1>1, <2>1 DEF ForecastInv, DatesOK
<1>4. \A t \in Timelines : PagesOK(t) => PagesOK(t)'
  BY <1>1 DEF PagesOK
<1> QED
  BY <1>1, <1>2, <1>3, <1>4 DEF ForecastInv

(* The days shown: they grow from today on, and when the timeline was      *)
(* fetched to the end and at most one record is of no use, they are        *)
(* ForecastDays days in a row.                                             *)
DaysToShow == IF call.got["daily"] = None THEN <<>> ELSE Cut(Listed(call.got["daily"]))

GoodDays(m) ==
    /\ m <= ForecastDays /\ DaysToShow \in [1..m -> Nat] /\ DOMAIN DaysToShow = 1..m
    /\ \A j, k \in 1..m : j < k => DaysToShow[j] < DaysToShow[k]
    /\ \A k \in 1..m : DaysToShow[k] >= today + k - 1
    /\ (call.got["daily"] # None /\ "daily" \notin call.ended
          /\ call.extra["daily"] + (today - call.start) <= 1) =>
       m = ForecastDays /\ \A k \in 1..m : DaysToShow[k] = today + k - 1

(* The days _build_response lists, cut, are such days. *)
LEMMA DaysShown ==
    ASSUME ForecastInv, Fetched
    PROVE  \E m \in Nat : GoodDays(m)
<1>1. CASE call.got["daily"] = None
  <2>1. DaysToShow = <<>>
    BY <1>1 DEF DaysToShow
  <2>2. <<>> \in [1..0 -> Nat] /\ DOMAIN <<>> = 1..0 /\ 1..0 = {}
    OBVIOUS
  <2>3. GoodDays(0)
    BY <1>1, <2>1, <2>2, ForecastAssumption DEF GoodDays
  <2> QED
    BY <2>3
<1>2. CASE call.got["daily"] # None
  <2> DEFINE records == call.got["daily"]
             extra == call.extra["daily"]
             n == ForecastDays
  <2>1. /\ n \in Nat \ {0, 1} /\ today \in Nat /\ call.start \in Nat /\ extra \in Nat
        /\ records \in Seq(Int) /\ InSteps(records, call.start, extra)
        /\ call.start <= today /\ today <= call.start + 1
        /\ "daily" \notin call.ended => Len(records) = n + 1
    <3>1. "daily" \in Timelines /\ FirstOf("daily", call.start) = call.start
          /\ MaxRecords("daily") = n + 1
      BY DEF Timelines, FirstOf, MaxRecords
    <3>2. call \in Call /\ PagesOK("daily") /\ DatesOK /\ call.at = "timelines" /\ call.paging = {}
      BY <3>1 DEF ForecastInv, Fetched, InCall
    <3> QED
      BY <1>2, <3>1, <3>2, ForecastAssumption DEF PagesOK, DatesOK, Call, ForecastInv, Days
  <2>2. /\ Len(records) \in Nat /\ records = <<>> <=> Len(records) = 0
        /\ \A j, k \in 1..Len(records) : j <= k => records[j] <= records[k]
    BY <2>1 DEF InSteps
  <2> HIDE DEF records, extra
  <2> DEFINE days == Listed(records)
  <2>3. PICK l \in Nat :
           /\ days \in [1..l -> Nat] /\ days \in [1..l -> Int]
           /\ \A i, j \in 1..l : i < j => days[i] < days[j]
           /\ \A i \in 1..l : days[i] >= today
           /\ \A k \in 1..Len(records) : records[k] >= today => \E i \in 1..l : days[i] = records[k]
    BY <2>1, <2>2, DaysListed
  <2> HIDE DEF days
  <2>4. Len(days) = l /\ days \in Seq(Nat)
    BY <2>3, SequenceOf
  <2> DEFINE m == IF l < n THEN l ELSE n
  <2>5. m \in Nat /\ m <= n /\ m <= l
    BY <2>1, <2>3
  <2>6. DaysToShow = SubSeq(days, 1, m)
    BY <1>2, <2>4 DEF DaysToShow, Cut, records, days
  <2> HIDE DEF m
  <2>7. DaysToShow \in Seq(Nat) /\ Len(DaysToShow) = m /\ \A k \in 1..m : DaysToShow[k] = days[k]
    <3>1. \A k \in 1..m : days[k] \in Nat
      BY <2>3, <2>5
    <3>2. m <= 0 => m = 0
      BY <2>5
    <3> QED
      BY <2>5, <2>6, <3>1, <3>2, SubSeqProperties
  <2>8. DaysToShow \in [1..m -> Nat] /\ DOMAIN DaysToShow = 1..m
    BY <2>7, LenProperties
  <2>g. Grows(days, l, today) /\ today \in Int
    BY <2>1, <2>3 DEF Grows
  <2>9. \A k \in 1..l : days[k] >= today + k - 1
    BY <2>g, Growing
  <2>10. ASSUME "daily" \notin call.ended, extra + (today - call.start) <= 1
         PROVE  n <= l /\ \A k \in 1..n : days[k] = today + k - 1
    <3>1. Len(records) = n + 1 /\ records # <<>>
      BY <2>1, <2>2, <2>10
    <3>2. records[Len(records)] >= today + n - 1 /\ records[Len(records)] \in Int
      <4>1. records[Len(records)] = call.start + Len(records) - 1 - extra
        BY <2>1, <3>1 DEF InSteps
      <4> QED
        BY <2>1, <2>10, <3>1, <4>1
    <3>3. ASSUME NEW d \in today..(today + n - 1) PROVE \E i \in 1..l : days[i] = d
      <4>1. d \in Int /\ call.start <= d /\ d <= records[Len(records)]
        BY <2>1, <3>2
      <4>2. /\ records \in Seq(Int) /\ call.start \in Int /\ extra \in Nat
            /\ InSteps(records, call.start, extra)
        BY <2>1
      <4>3. PICK k \in 1..Len(records) : records[k] = d
        BY <3>1, <4>1, <4>2, NoneLeftOut
      <4> QED
        BY <2>1, <2>3, <4>1, <4>3
    <3>4. Covers(days, l, today, n)
      BY <2>g, <3>3 DEF Covers
    <3> QED
      BY <2>1, <2>g, <3>4, Consecutive
  <2>11. GoodDays(m)
    <3>1. \A j, k \in 1..m : j < k => DaysToShow[j] < DaysToShow[k]
      BY <2>3, <2>5, <2>7
    <3>2. \A k \in 1..m : DaysToShow[k] >= today + k - 1
      BY <2>3, <2>5, <2>7, <2>9
    <3>3. "daily" \notin call.ended /\ extra + (today - call.start) <= 1 =>
             m = n /\ \A k \in 1..m : DaysToShow[k] = today + k - 1
      BY <2>1, <2>3, <2>5, <2>7, <2>10 DEF m
    <3> QED
      BY <2>5, <2>8, <3>1, <3>2, <3>3 DEF GoodDays, extra, records
  <2> QED
    BY <2>5, <2>11
<1> QED
  BY <1>1, <1>2

(* The answer is made of them, with the hours of each. *)
LEMMA BuildResponseStep ==
    ASSUME ForecastInv, BuildResponse
    PROVE  ForecastInv'
<1> DEFINE days == DaysToShow
           Day == [day : Nat, hours : Seq(Int)]
           shown == [k \in DOMAIN days |-> [day |-> days[k], hours |-> HoursOf(days[k])]]
<1>1. /\ Fetched /\ call \in Call /\ call.at = "timelines" /\ call.paging = {}
      /\ UNCHANGED <<today, outside>> /\ today \in Days /\ DatesOK
      /\ \A t \in Timelines : PagesOK(t)
      /\ call' = [call EXCEPT !.at = "answered", !.built = today, !.shown = shown]
  BY DEF ForecastInv, BuildResponse, Fetched, InCall, DaysToShow
<1>2. PICK m \in Nat : GoodDays(m)
  BY <1>1, DaysShown
<1> HIDE DEF days
<1>3. shown \in Seq(Day) /\ Len(shown) = m /\ DOMAIN shown = 1..m
  <2>1. \A d \in Nat : [day |-> d, hours |-> HoursOf(d)] \in Day
    BY <1>1, HoursPicked
  <2>2. days \in [1..m -> Nat] /\ DOMAIN days = 1..m
    BY <1>2 DEF GoodDays, days
  <2>3. \A k \in 1..m : [day |-> days[k], hours |-> HoursOf(days[k])] \in Day
    BY <2>1, <2>2
  <2>4. shown \in [1..m -> Day]
    BY <2>2, <2>3
  <2> HIDE DEF shown
  <2> QED
    BY <2>4, SequenceOf
<1>4. \A k \in 1..m : shown[k].day = days[k] /\ shown[k].hours = HoursOf(days[k]) /\ days[k] \in Nat
  BY <1>2 DEF GoodDays, days
<1> HIDE DEF shown
<1>5. /\ call' \in Call /\ call'.at = "answered" /\ call'.built = today /\ call'.shown = shown
      /\ call'.reading = call.reading /\ call'.start = call.start /\ call'.paging = {}
      /\ call'.got = call.got /\ call'.ended = call.ended /\ call'.extra = call.extra
  BY <1>1, <1>3 DEF Call
<1>6. StartsToday'
  <2>1. /\ \A k \in 1..m : shown[k].day >= today + k - 1
        /\ \A j, k \in 1..m : j < k => shown[j].day < shown[k].day
    BY <1>2, <1>4 DEF GoodDays, days
  <2>2. ASSUME call.got["daily"] # None, "daily" \notin call.ended,
               call.extra["daily"] + (today - call.start) <= 1
        PROVE  [k \in DOMAIN shown |-> shown[k].day] = [k \in 1..ForecastDays |-> today + k - 1]
    <3>1. m = ForecastDays /\ \A k \in 1..m : days[k] = today + k - 1
      BY <1>2, <2>2 DEF GoodDays, days
    <3> QED
      BY <1>3, <1>4, <3>1
  <2> QED
    BY <1>3, <1>5, <2>1, <2>2 DEF StartsToday, InCall
<1>7. TodayHasHours'
  <2> SUFFICES ASSUME shown # <<>>, shown[1].day = today, call.got["hourly"] # None,
                      "hourly" \notin call.ended, call.extra["hourly"] = 0
               PROVE  shown[1].hours = [k \in 1..HoursPerDay |-> FirstOf("hourly", today) + k - 1]
    BY <1>5 DEF TodayHasHours, InCall, FirstOf
  <2>1. 1 \in 1..m /\ shown[1].hours = HoursOf(today)
    <3>1. m # 0
      BY <1>3
    <3> QED
      BY <1>2, <1>4, <3>1
  <2> DEFINE s == call.got["hourly"]
             first == FirstOf("hourly", call.start)
  <2>2. /\ s \in Seq(Int) /\ Len(s) = 2 * HoursPerDay /\ InSteps(s, first, 0)
    <3>1. "hourly" \in Timelines /\ MaxRecords("hourly") = 2 * HoursPerDay
      BY DEF Timelines, MaxRecords
    <3> QED
      BY <1>1, <3>1 DEF PagesOK, Call
  <2>3. /\ first = call.start * HoursPerDay /\ call.start \in Nat /\ today \in Nat
        /\ today = call.start \/ today = call.start + 1
        /\ HoursPerDay \in Nat \ {0}
    <3>1. call.start \in Nat /\ today \in Nat /\ HoursPerDay \in Nat \ {0}
      BY <1>1, ForecastAssumption DEF Call, Days
    <3>2. call.start <= today /\ today <= call.start + 1
      BY <1>1 DEF DatesOK
    <3> QED
      BY <3>1, <3>2 DEF FirstOf
  <2>4. /\ first \in Nat
        /\ today * HoursPerDay = first \/ today * HoursPerDay = first + HoursPerDay
    BY <2>3, HoursOfDay
  <2> HIDE DEF s, first
  <2>5. ASSUME NEW k \in 1..Len(s) PROVE s[k] = first + k - 1
    <3>1. /\ Len(s) \in 1..Len(s) /\ 1 \in 1..Len(s) /\ s # <<>> /\ Len(s) \in Nat /\ k \in Nat
          /\ 1 <= k /\ k <= Len(s)
      BY <2>2, <2>3, <2>5
    <3>2. /\ s[1] \in Int /\ s[k] \in Int /\ s[Len(s)] \in Int
      BY <2>2, <2>5, <3>1
    <3>3. s[1] <= first /\ s[Len(s)] = first + Len(s) - 1
      <4>1. s[1] \in {first - 1, first} /\ s[Len(s)] = first + Len(s) - 1 - 0
        BY <2>2, <3>1 DEF InSteps
      <4> QED
        BY <2>4, <3>1, <4>1
    <3>4. s[k] <= s[1] + (k - 1) /\ s[Len(s)] <= s[k] + (Len(s) - k)
      BY <2>2, <2>5, <3>1 DEF InSteps
    <3> DEFINE n == Len(s)
    <3>5. n \in Nat /\ first \in Nat /\ s[n] = first + n - 1 /\ s[n] <= s[k] + (n - k)
      BY <2>4, <3>1, <3>3, <3>4
    <3>6. s[k] <= first + (k - 1)
      BY <2>4, <3>1, <3>2, <3>3, <3>4
    <3> HIDE DEF n
    <3>7. first + n - 1 <= s[k] + (n - k)
      BY <3>5
    <3> QED
      <4>1. s[k] \in Int /\ first \in Int /\ n \in Int /\ k \in Int
        BY <3>1, <3>2, <3>5
      <4>2. \A x, a, b, c \in Int : x <= a + (c - 1) /\ a + b - 1 <= x + (b - c) => x = a + c - 1
        OBVIOUS
      <4> QED
        BY <3>6, <3>7, <4>1, <4>2
  <2>6. first <= today * HoursPerDay /\ today * HoursPerDay + HoursPerDay <= first + Len(s)
    BY <2>2, <2>3, <2>4
  <2> QED
    <3>1. HoursOf(today) = [k \in 1..HoursPerDay |-> FirstOf("hourly", today) + k - 1]
      <4>1. first \in Int /\ s # None /\ today \in Nat
        BY <2>3, <2>4 DEF s
      <4> QED
        BY <1>1, <2>5, <2>6, <4>1, HoursPicked DEF s
    <3> QED
      BY <2>1, <3>1
<1>8. DatesOK'
  BY <1>1, <1>5 DEF DatesOK, Days
<1>9. ASSUME NEW t \in Timelines PROVE PagesOK(t)'
  BY <1>1, <1>5 DEF PagesOK
<1>10. Len(call'.shown) <= ForecastDays
  BY <1>2, <1>3, <1>5 DEF GoodDays
<1> QED
  BY <1>1, <1>5, <1>6, <1>7, <1>8, <1>9, <1>10 DEF ForecastInv

(* Whatever get_weather and the world do. *)
LEMMA WeatherSteps ==
    ASSUME ForecastInv,
           \/ WeatherStep \/ Midnight \/ ChangeWeather
           \/ UNCHANGED forecast
           \/ (GetWeather \/ call' = NoCall) /\ UNCHANGED world
    PROVE  ForecastInv'
<1>1. CASE WeatherStep
  <2>1. RaiseWeather => UNCHANGED <<today, outside>>
    BY DEF RaiseWeather
  <2> QED
    BY <1>1, <2>1, ReceiveCurrentStep, BuildResponseStep, ShortStep, ReceivePageStep, LosePageStep
    DEF WeatherStep
<1>2. CASE (GetWeather \/ call' = NoCall) /\ UNCHANGED world
  BY <1>2, ShortStep DEF world
<1> QED
  BY <1>1, <1>2, WorldStep

-------------------------------------------------------------------------------
(* The steps of evaluate. *)

(* The condition that is next. *)
LEMMA PendingCondition ==
    ASSUME EvaluationInv, ~Doing("idle")
    PROVE  /\ eval.config \in Configs /\ eval.config.conditions \in Seq(Condition)
           /\ eval.results \in Seq(BOOLEAN) /\ Len(eval.results) < Len(eval.config.conditions)
           /\ Len(eval.results) + 1 \in 1..Len(eval.config.conditions)
           /\ Pending \in Condition
           /\ Pending.test = "never" => Pending.of = "events"
<1>1. /\ eval \in Evaluation /\ eval.config \in Configs
      /\ Len(eval.results) < Len(eval.config.conditions)
  BY DEF EvaluationInv
<1>2. eval.config.conditions \in Seq(Condition) /\ eval.results \in Seq(BOOLEAN)
  BY <1>1, ConfigAssumption DEF Evaluation, Config
<1>3. Len(eval.results) + 1 \in 1..Len(eval.config.conditions)
  BY <1>1, <1>2
<1> QED
  BY <1>1, <1>2, <1>3, ConfigAssumption DEF Pending

(* When nothing was lost, the day of the clock is among those shown, even  *)
(* when midnight has passed.                                               *)
LEMMA DayIsShown ==
    ASSUME ForecastInv, InCall("answered"), ~Blind
    PROVE  HasAmount
<1>1. /\ call \in Call /\ today \in Nat /\ call.start \in Nat /\ call.built \in Nat
      /\ call.start <= call.built /\ call.built <= today /\ today <= call.start + 1
  BY DEF ForecastInv, DatesOK, InCall, Call, Days
<1>2. /\ call.got["daily"] # None /\ "daily" \notin call.ended /\ call.extra["daily"] = 0
  <2>1. call.extra["daily"] \in Nat
    BY <1>1, ForecastAssumption DEF Call, Timelines
  <2> QED
    BY <2>1 DEF Blind
<1>3. [k \in DOMAIN call.shown |-> call.shown[k].day]
         = [k \in 1..ForecastDays |-> call.built + k - 1]
  BY <1>1, <1>2 DEF ForecastInv, StartsToday
<1> DEFINE k == today - call.built + 1
<1>4. k \in 1..ForecastDays /\ call.built + k - 1 = today
  BY <1>1, ForecastAssumption
<1> HIDE DEF k
<1>5. k \in DOMAIN call.shown /\ call.shown[k].day = call.built + k - 1
  BY <1>3, <1>4
<1> QED
  BY <1>4, <1>5 DEF HasAmount

(* What a step that uses an answer comes to: a result that is about the    *)
(* world, or an exception.                                                 *)
Result(r) ==
    /\ r \in BOOLEAN /\ Conclude(r)
    /\ r => WasOnce(Pending, TRUE)
    /\ ~r /\ ~since'.blind => WasOnce(Pending, FALSE)

(* A comparison with what was there gives such a result. *)
LEMMA Compared ==
    ASSUME EvaluationInv, ~Doing("idle"), NEW holds \in BOOLEAN, Compare(holds),
           Pending.test = "sound" => WasOnce(Pending, holds),
           Pending.test = "never" => WasOnce(Pending, FALSE)
    PROVE  (\E r : Result(r)) \/ (verdict' = "raised" /\ eval' = Resting)
<1>1. CASE Pending.test = "sound" /\ Conclude(holds)
  <2>1. holds = TRUE \/ holds = FALSE
    OBVIOUS
  <2>2. Result(holds)
    BY <1>1, <2>1 DEF Result
  <2> QED
    BY <2>2
<1>2. CASE Pending.test = "never" /\ Conclude(FALSE)
  <2>1. Result(FALSE)
    BY <1>2 DEF Result
  <2> QED
    BY <2>1
<1> QED
  BY <1>1, <1>2 DEF Compare

(* So does the use of an answer, and it touches nothing else. *)
LEMMA Used ==
    ASSUME EvaluationInv, UseWeather \/ UseCalendar
    PROVE  /\ ~Doing("idle") /\ UNCHANGED world
           /\ call' = NoCall \/ (call' = call /\ InCall("idle"))
           /\ since'.begun = since.begun /\ since'.readings = since.readings
           /\ since' \in [begun : Days, readings : SUBSET Readings, blind : BOOLEAN]
           /\ since.blind => since'.blind
           /\ (\E r : Result(r)) \/ (verdict' = "raised" /\ eval' = Resting)
<1>1. /\ since \in [begun : Days, readings : SUBSET Readings, blind : BOOLEAN]
      /\ today \in Nat /\ since.begun \in Nat /\ since.begun <= today
      /\ ForecastInv /\ LooksOK
  BY DEF EvaluationInv, ForecastInv, Days
<1>2. CASE UseWeather
  <2>1. ~Doing("idle") /\ UNCHANGED world /\ call' = NoCall /\ Doing("weather")
    BY <1>2 DEF UseWeather, Doing
  <2>2. /\ since' = [since EXCEPT !.blind = since.blind \/ Blind] /\ Pending.of # "events"
    BY <1>1, <1>2, <2>1 DEF UseWeather, LooksOK
  <2>3. (since.blind \/ Blind) \in BOOLEAN /\ since.blind \in BOOLEAN
    BY <1>1
  <2>4. /\ since'.begun = since.begun /\ since'.readings = since.readings
        /\ since'.blind = (since.blind \/ Blind)
        /\ since' \in [begun : Days, readings : SUBSET Readings, blind : BOOLEAN]
    BY <1>1, <2>2, <2>3
  <2>b. (since.blind => since'.blind) /\ (Blind => since'.blind)
    BY <2>4, Zenon
  <2>s. /\ since'.begun = since.begun /\ since'.readings = since.readings
        /\ since' \in [begun : Days, readings : SUBSET Readings, blind : BOOLEAN]
        /\ since.blind => since'.blind
    BY <2>4, <2>b, Zenon
  <2>5. Pending \in Condition /\ Pending.test # "never"
    BY <2>1, <2>2, PendingCondition
  <2>6. CASE InCall("raised") /\ WithoutData
    <3>1. Result(FALSE)
      BY <2>b, <2>6 DEF Result, WithoutData, Blind
    <3>2. \E r : Result(r)
      BY <3>1, Zenon
    <3> QED
      BY <2>1, <2>s, <3>2
  <2>7. CASE InCall("answered") /\ Pending.of = "current" /\ Compare(call.reading \in Low)
    <3>1. call.reading \in since.readings
      BY <1>1, <2>1, <2>7 DEF LooksOK, InCall
    <3>2. WasOnce(Pending, call.reading \in Low)
      BY <2>7, <3>1 DEF WasOnce
    <3> DEFINE holds == call.reading \in Low
    <3>3. holds \in BOOLEAN /\ Compare(holds) /\ WasOnce(Pending, holds)
      BY <2>7, <3>2
    <3> HIDE DEF holds
    <3>4. (\E r : Result(r)) \/ (verdict' = "raised" /\ eval' = Resting)
      BY <2>1, <2>5, <3>3, Compared
    <3> QED
      BY <2>1, <2>s, <3>4
  <2>8. CASE InCall("answered") /\ Pending.of = "amount" /\ HasAmount /\ Compare(today \in Snowy)
    <3>1. today \in since.begun..today
      BY <1>1
    <3>2. WasOnce(Pending, today \in Snowy)
      BY <2>8, <3>1 DEF WasOnce
    <3> DEFINE holds == today \in Snowy
    <3>3. holds \in BOOLEAN /\ Compare(holds) /\ WasOnce(Pending, holds)
      BY <2>8, <3>2
    <3> HIDE DEF holds
    <3>4. (\E r : Result(r)) \/ (verdict' = "raised" /\ eval' = Resting)
      BY <2>1, <2>5, <3>3, Compared
    <3> QED
      BY <2>1, <2>s, <3>4
  <2>9. CASE InCall("answered") /\ Pending.of = "amount" /\ ~HasAmount /\ WithoutData
    <3>1. Blind
      BY <1>1, <2>9, DayIsShown
    <3>2. Result(FALSE)
      BY <2>b, <2>9, <3>1 DEF Result, WithoutData
    <3>3. \E r : Result(r)
      BY <3>2, Zenon
    <3> QED
      BY <2>1, <2>s, <3>3
  <2> QED
    BY <1>2, <2>6, <2>7, <2>8, <2>9 DEF UseWeather
<1>3. CASE UseCalendar
  <2>1. ~Doing("idle") /\ UNCHANGED world /\ call' = call /\ Doing("calendar") /\ InCall("idle")
    BY <1>1, <1>3 DEF UseCalendar, Doing, LooksOK, forecast, world
  <2>2. /\ Pending.of = "events" /\ eval.asked \in since.begun..today
    BY <1>1, <2>1 DEF LooksOK, EvaluationInv, Evaluation, Days
  <2>3. CASE Compare(eval.asked \in Busy) /\ UNCHANGED since
    <3>1. Pending.test = "sound" => WasOnce(Pending, eval.asked \in Busy)
      BY <2>2 DEF WasOnce
    <3>2. Pending.test = "never" => WasOnce(Pending, FALSE)
      BY <2>2 DEF WasOnce
    <3> DEFINE holds == eval.asked \in Busy
    <3>3. /\ holds \in BOOLEAN /\ Compare(holds)
          /\ Pending.test = "sound" => WasOnce(Pending, holds)
      BY <2>3, <3>1
    <3> HIDE DEF holds
    <3>4. (\E r : Result(r)) \/ (verdict' = "raised" /\ eval' = Resting)
      BY <2>1, <3>2, <3>3, Compared
    <3> QED
      BY <1>1, <2>1, <2>3, <3>4
  <2>4. CASE WithoutData /\ since' = [since EXCEPT !.blind = TRUE]
    <3>1. /\ since'.begun = since.begun /\ since'.readings = since.readings /\ since'.blind = TRUE
          /\ since' \in [begun : Days, readings : SUBSET Readings, blind : BOOLEAN]
      BY <1>1, <2>4
    <3>2. Result(FALSE)
      BY <2>4, <3>1 DEF Result, WithoutData
    <3>3. \E r : Result(r)
      BY <3>2, Zenon
    <3> QED
      BY <2>1, <3>1, <3>3
  <2> QED
    BY <1>3, <2>3, <2>4 DEF UseCalendar
<1> QED
  BY <1>2, <1>3

(* What was once so stays so while the evaluation goes on. *)
LEMMA Remembered ==
    ASSUME since.begun \in Nat, today \in Nat, today' \in Nat, today <= today',
           since'.begun = since.begun, since.readings \subseteq since'.readings
    PROVE  \A c, x : WasOnce(c, x) => WasOnce(c, x)'
<1>1. since.begun..today \subseteq since'.begun..today'
  OBVIOUS
<1> QED
  BY <1>1 DEF WasOnce

(* A step that leaves the evaluation where it is. *)
LEMMA Waiting ==
    ASSUME EvaluationInv, ForecastInv', UNCHANGED <<eval, verdict>>, today <= today',
           since'.begun = since.begun, since.readings \subseteq since'.readings,
           since'.blind = since.blind,
           since' \in [begun : Days, readings : SUBSET Readings, blind : BOOLEAN],
           outside' \in since'.readings, LooksOK'
    PROVE  EvaluationInv'
<1>1. /\ today \in Nat /\ today' \in Nat /\ since.begun \in Nat /\ since.begun <= today
      /\ eval \in Evaluation
  BY DEF EvaluationInv, ForecastInv, Days
<1>2. \A c, x : WasOnce(c, x) => WasOnce(c, x)'
  BY <1>1, Remembered
<1>3. ~Doing("idle") => ResultsTrue'
  BY <1>2 DEF EvaluationInv, ResultsTrue
<1>4. since'.begun <= today'
  BY <1>1
<1> QED
  BY <1>1, <1>3, <1>4 DEF EvaluationInv, Doing

(* The pending condition has a result: the next one is pending, or there   *)
(* is a verdict.                                                           *)
LEMMA ResultGoesIn ==
    ASSUME EvaluationInv, ForecastInv', ~Doing("idle"), UNCHANGED world, InCall("idle")',
           since'.begun = since.begun, since'.readings = since.readings,
           since.blind => since'.blind,
           since' \in [begun : Days, readings : SUBSET Readings, blind : BOOLEAN],
           NEW r, Result(r)
    PROVE  EvaluationInv'
<1>1. /\ today \in Nat /\ today' = today /\ since.begun \in Nat /\ since.begun <= today
      /\ eval \in Evaluation /\ eval.config \in Configs /\ verdict = "none" /\ ResultsTrue
      /\ outside' = outside /\ outside \in since.readings /\ r \in BOOLEAN
  BY DEF EvaluationInv, ForecastInv, Days, world, Result
<1>2. \A c, x : WasOnce(c, x) => WasOnce(c, x)'
  BY <1>1, Remembered
<1>3. /\ eval.results \in Seq(BOOLEAN) /\ Results(r) \in Seq(BOOLEAN)
      /\ Len(Results(r)) = Len(eval.results) + 1
      /\ Results(r)[Len(eval.results) + 1] = r
      /\ \A k \in 1..Len(eval.results) : Results(r)[k] = eval.results[k]
  BY <1>1, AppendProperties DEF Results, Evaluation
<1>4. Len(eval.results) < Len(eval.config.conditions) /\ eval.config.conditions \in Seq(Condition)
  BY PendingCondition
<1>5. CASE Len(Results(r)) = Len(eval.config.conditions)
  <2>1. eval' = Resting /\ verdict' \in {"met", "unmet"}
    BY <1>5 DEF Result, Conclude
  <2>2. eval' \in Evaluation /\ eval'.at = "idle"
    BY <2>1, ForecastAssumption DEF Resting, Evaluation, Days
  <2> QED
    BY <1>1, <2>1, <2>2 DEF EvaluationInv, LooksOK, Doing, InCall
<1>6. CASE Len(Results(r)) # Len(eval.config.conditions)
  <2>1. eval' = [eval EXCEPT !.at = "next", !.results = Results(r)] /\ verdict' = verdict
    BY <1>6 DEF Result, Conclude
  <2>2. /\ eval' \in Evaluation /\ eval'.at = "next" /\ eval'.config = eval.config
        /\ eval'.results = Results(r)
    BY <1>1, <1>3, <2>1 DEF Evaluation
  <2>3. Len(eval'.results) < Len(eval'.config.conditions)
    BY <1>3, <1>4, <1>6, <2>2
  <2>4. ASSUME NEW k \in 1..Len(eval.results) + 1, NEW c, c = eval.config.conditions[k]
        PROVE  /\ Results(r)[k] => WasOnce(c, TRUE)'
               /\ ~Results(r)[k] /\ ~since'.blind => WasOnce(c, FALSE)'
    <3>1. CASE k = Len(eval.results) + 1
      <4>1. c = Pending /\ Results(r)[k] = r
        BY <1>3, <2>4, <3>1 DEF Pending
      <4> QED
        BY <1>2, <4>1 DEF Result
    <3>2. CASE k \in 1..Len(eval.results)
      <4>1. /\ Results(r)[k] = eval.results[k]
            /\ eval.results[k] => WasOnce(c, TRUE)
            /\ ~eval.results[k] /\ ~since.blind => WasOnce(c, FALSE)
        BY <1>1, <1>3, <2>4, <3>2 DEF ResultsTrue
      <4> QED
        BY <1>2, <4>1
    <3>3. k = Len(eval.results) + 1 \/ k \in 1..Len(eval.results)
      <4>1. Len(eval.results) \in Nat
        BY <1>3
      <4> QED
        BY <4>1
    <3> QED
      BY <3>1, <3>2, <3>3, Zenon
  <2>5. ResultsTrue'
    BY <1>3, <2>2, <2>4 DEF ResultsTrue
  <2> QED
    BY <1>1, <2>1, <2>2, <2>3, <2>5 DEF EvaluationInv, LooksOK, Doing, InCall
<1> QED
  BY <1>5, <1>6

(* An evaluation begins. *)
LEMMA EvaluateStep ==
    ASSUME EvaluationInv, NEW config \in Configs, Evaluate(config)
    PROVE  EvaluationInv'
<1>1. /\ today \in Nat /\ UNCHANGED forecast /\ ForecastInv /\ Doing("idle") /\ InCall("idle")
      /\ outside \in Readings /\ today \in Days
  BY DEF EvaluationInv, Evaluate, ForecastInv, LooksOK, Days, InCall, Doing
<1>2. ForecastInv' /\ today' = today /\ outside' = outside /\ call' = call
  BY <1>1, WeatherSteps DEF forecast
<1>3. since' \in [begun : Days, readings : SUBSET Readings, blind : BOOLEAN]
      /\ since'.begun = today /\ since'.readings = {outside}
  BY <1>1 DEF Evaluate, Seen
<1>4. eval \in Evaluation /\ verdict \in {"none", "met", "unmet", "raised"}
  BY DEF EvaluationInv
<1>5. CASE config.conditions = <<>>
  BY <1>1, <1>2, <1>3, <1>4, <1>5 DEF Evaluate, EvaluationInv, LooksOK, Doing, InCall
<1>6. CASE config.conditions # <<>>
  <2>1. /\ eval' = [Resting EXCEPT !.at = "next", !.config = config] /\ verdict' = "none"
    BY <1>6 DEF Evaluate
  <2>2. eval' \in Evaluation /\ eval'.at = "next" /\ eval'.config = config /\ Len(eval'.results) = 0
    <3>1. Resting \in Evaluation /\ Resting.results = <<>>
      BY ForecastAssumption DEF Resting, Evaluation, Days
    <3> QED
      BY <2>1, <3>1 DEF Evaluation
  <2>3. Len(config.conditions) > 0
    <3>1. config.conditions \in Seq(Condition)
      BY ConfigAssumption DEF Config
    <3> QED
      BY <1>6, <3>1
  <2>4. ResultsTrue'
    BY <2>2 DEF ResultsTrue
  <2> QED
    BY <1>1, <1>2, <1>3, <2>1, <2>2, <2>3, <2>4 DEF EvaluationInv, LooksOK, Doing, InCall
<1> QED
  BY <1>5, <1>6

(* A provider is called. *)
LEMMA AskStep ==
    ASSUME EvaluationInv, AskWeather \/ AskCalendar
    PROVE  EvaluationInv'
<1>1. /\ ForecastInv /\ eval \in Evaluation /\ since.begun <= today /\ today \in Days
      /\ since \in [begun : Days, readings : SUBSET Readings, blind : BOOLEAN]
      /\ verdict' = verdict /\ since' = since /\ today' = today /\ outside' = outside
      /\ Doing("next") /\ InCall("idle")
  BY DEF EvaluationInv, ForecastInv, AskWeather, AskCalendar, LooksOK, Doing, InCall, world, forecast
<1>2. ForecastInv'
  BY <1>1, WeatherSteps DEF AskWeather, AskCalendar, forecast, world
<1>3. /\ eval' \in Evaluation /\ eval'.config = eval.config /\ eval'.results = eval.results
      /\ eval'.at \in {"weather", "calendar"}
  BY <1>1 DEF AskWeather, AskCalendar, Evaluation, Days
<1>4. ResultsTrue'
  BY <1>1, <1>3 DEF EvaluationInv, ResultsTrue, WasOnce, Doing
<1>5. Pending' = Pending
  BY <1>3 DEF Pending
<1>6. LooksOK'
  <2>1. CASE AskWeather
    <3>1. call'.at = "current" /\ eval'.at = "weather" /\ Pending.of # "events"
      BY <1>1, <2>1 DEF AskWeather, GetWeather, NoCall, Evaluation
    <3> QED
      BY <1>5, <3>1 DEF LooksOK, Doing, InCall
  <2>2. CASE AskCalendar
    <3>1. call' = call /\ eval'.at = "calendar" /\ Pending.of = "events" /\ eval'.asked = today
      BY <1>1, <2>2 DEF AskCalendar, Evaluation, forecast
    <3> QED
      BY <1>1, <1>5, <3>1 DEF LooksOK, Doing, InCall, Days
  <2> QED
    BY <2>1, <2>2
<1> QED
  BY <1>1, <1>2, <1>3, <1>4, <1>6 DEF EvaluationInv, Doing

(* A provider has answered, or failed. *)
LEMMA UseStep ==
    ASSUME EvaluationInv, UseWeather \/ UseCalendar
    PROVE  EvaluationInv'
<1>1. ForecastInv'
  BY Used, WeatherSteps DEF EvaluationInv, world, forecast
<1>2. InCall("idle")'
  BY Used DEF InCall, NoCall
<1>3. CASE \E r : Result(r)
  BY <1>1, <1>2, <1>3, Used, ResultGoesIn
<1>4. CASE verdict' = "raised" /\ eval' = Resting
  <2>1. /\ since' \in [begun : Days, readings : SUBSET Readings, blind : BOOLEAN]
        /\ since'.begun <= today' /\ outside' \in since'.readings
    BY Used DEF EvaluationInv, world
  <2>2. eval' \in Evaluation /\ eval'.at = "idle"
    BY <1>4, ForecastAssumption DEF Resting, Evaluation, Days
  <2> QED
    BY <1>1, <1>2, <1>4, <2>1, <2>2 DEF EvaluationInv, LooksOK, Doing, InCall
<1> QED
  BY <1>3, <1>4, Used

(* get_weather goes on. *)
LEMMA FetchStep ==
    ASSUME EvaluationInv, WeatherStep, UNCHANGED <<eval, verdict, since>>
    PROVE  EvaluationInv'
<1>1. /\ ForecastInv /\ eval \in Evaluation /\ since.begun <= today /\ today \in Nat
      /\ since \in [begun : Days, readings : SUBSET Readings, blind : BOOLEAN]
      /\ call \in Call /\ LooksOK /\ outside \in since.readings
  BY DEF EvaluationInv, ForecastInv, Days
<1>2. ForecastInv' /\ today' = today /\ outside' = outside
  BY <1>1, WeatherSteps
  DEF WeatherStep, ReceiveCurrent, ReceivePage, LosePage, BuildResponse, RaiseWeather
<1>3. LooksOK'
  <2>1. CASE ReceiveCurrent
    <3>1. /\ call.at = "current" /\ call'.at = "timelines" /\ call'.reading = outside
          /\ call'.start = today
      BY <1>1, <2>1 DEF ReceiveCurrent, InCall, Call
    <3> QED
      BY <1>1, <1>2, <3>1 DEF LooksOK, Doing, InCall, Pending
  <2>2. CASE RaiseWeather
    <3>1. call.at # "idle" /\ call'.at = "raised"
      BY <2>2 DEF RaiseWeather, NoCall
    <3> QED
      BY <1>1, <1>2, <3>1 DEF LooksOK, Doing, InCall, Pending
  <2>3. CASE BuildResponse \/ \E t \in Timelines : ReceivePage(t) \/ LosePage(t)
    <3>1. call.at = "timelines"
      BY <1>1, <2>3 DEF ForecastInv, BuildResponse, ReceivePage, LosePage, Fetched, InCall
    <3>2. call'.at \in {"timelines", "answered"} /\ call'.reading = call.reading /\ call'.start = call.start
      <4>1. CASE BuildResponse
        BY <1>1, <4>1 DEF BuildResponse, Call
      <4>2. ASSUME NEW t \in Timelines, ReceivePage(t) \/ LosePage(t)
            PROVE  call'.at = call.at /\ call'.reading = call.reading /\ call'.start = call.start
        <5>1. \A g, p, e, x :
                LET c == [call EXCEPT !.got[t] = g, !.paging = p, !.ended = e, !.extra[t] = x]
                IN  c.at = call.at /\ c.reading = call.reading /\ c.start = call.start
          BY <1>1 DEF Call
        <5>2. CASE ReceivePage(t)
          <6>1. PICK n \in 0..PageSize, early \in {0, 1}, next \in BOOLEAN :
               /\ n = 0 => early = 0 /\ ~next
               /\ call.extra[t] + early <= MaxExtra
               /\ LET all == call.got[t] \o PageFrom(t, n, early)
                      full == Len(all) >= MaxRecords(t)
                  IN  call' = [call EXCEPT
                         !.got[t] = IF full THEN SubSeq(all, 1, MaxRecords(t)) ELSE all,
                         !.paging = IF next /\ ~full THEN @ ELSE @ \ {t},
                         !.ended = IF next \/ full THEN @ ELSE @ \cup {t},
                         !.extra[t] = @ + early]
            BY <5>2 DEF ReceivePage
          <6> DEFINE all == call.got[t] \o PageFrom(t, n, early)
                     full == Len(all) >= MaxRecords(t)
                     g == IF full THEN SubSeq(all, 1, MaxRecords(t)) ELSE all
                     p == IF next /\ ~full THEN call.paging ELSE call.paging \ {t}
                     e == IF next \/ full THEN call.ended ELSE call.ended \cup {t}
          <6>2. call' = [call EXCEPT !.got[t] = g, !.paging = p, !.ended = e,
                                     !.extra[t] = call.extra[t] + early]
            BY <6>1
          <6> HIDE DEF g, p, e
          <6> QED
            BY <5>1, <6>2
        <5>3. CASE LosePage(t)
          BY <1>1, <5>3 DEF LosePage, Call
        <5> QED
          BY <4>2, <5>2, <5>3
      <4> QED
        BY <2>3, <3>1, <4>1, <4>2
    <3> QED
      BY <1>1, <1>2, <3>1, <3>2 DEF LooksOK, Doing, InCall, Pending
  <2> QED
    BY <2>1, <2>2, <2>3 DEF WeatherStep
<1> QED
  BY <1>1, <1>2, <1>3, Waiting

(* Midnight passes, or the weather changes. *)
LEMMA OutsideStep ==
    ASSUME EvaluationInv, UNCHANGED <<eval, verdict>>,
           \/ Midnight /\ since' = since
           \/ ChangeWeather /\ since' = [since EXCEPT !.readings = @ \cup {outside'}]
    PROVE  EvaluationInv'
<1>1. /\ ForecastInv /\ eval \in Evaluation /\ since.begun <= today /\ today \in Nat
      /\ since \in [begun : Days, readings : SUBSET Readings, blind : BOOLEAN]
      /\ LooksOK /\ outside \in since.readings
  BY DEF EvaluationInv, ForecastInv, Days
<1>2. ForecastInv' /\ call' = call /\ today <= today' /\ today' \in Nat /\ outside' \in Readings
  BY <1>1, WeatherSteps DEF Midnight, ChangeWeather
<1>3. /\ since'.begun = since.begun /\ since.readings \subseteq since'.readings
      /\ since'.blind = since.blind /\ outside' \in since'.readings
      /\ since' \in [begun : Days, readings : SUBSET Readings, blind : BOOLEAN]
  <2>1. CASE Midnight /\ since' = since
    BY <1>1, <2>1 DEF Midnight
  <2>2. CASE since' = [since EXCEPT !.readings = @ \cup {outside'}]
    BY <1>1, <1>2, <2>2
  <2> QED
    BY <2>1, <2>2
<1>4. LooksOK'
  <2>1. Doing("calendar") => eval.asked \in Nat /\ eval.asked <= today'
    BY <1>1, <1>2 DEF LooksOK, Evaluation, Days
  <2> QED
    BY <1>1, <1>2, <1>3, <2>1 DEF LooksOK, Doing, InCall, Pending
<1> QED
  BY <1>2, <1>3, <1>4, Waiting

(* The invariant: whatever has been noted of the conditions, and whatever  *)
(* the call under way has fetched, is about the time of the evaluation.    *)
LEMMA EvaluationInvariant == Spec => []EvaluationInv
<1>1. Init => EvaluationInv
  <2> SUFFICES ASSUME Init PROVE EvaluationInv
    OBVIOUS
  <2>1. /\ today = 0 /\ today \in Days /\ outside \in Readings /\ call = NoCall
        /\ eval = Resting /\ verdict = "none" /\ since = Seen
    BY ForecastAssumption DEF Init, ForecastInit, Days
  <2>2. NoCall = [NoCall EXCEPT !.at = "idle"] /\ NoCall.at = "idle"
    <3>1. <<>> \in Seq(Int) /\ <<>> \in Seq([day : Nat, hours : Seq(Int)])
      OBVIOUS
    <3>2. NoCall \in Call /\ NoCall.at = "idle"
      BY <3>1, ForecastAssumption DEF NoCall, Call, Days
    <3>3. \A x \in Call : [x EXCEPT !.at = x.at] = x
      BY DEF Call
    <3> QED
      BY <3>2, <3>3
  <2>3. ForecastInv
    BY <2>1, <2>2, Begun
  <2>4. Resting \in Evaluation /\ Resting.at = "idle"
    BY ForecastAssumption DEF Resting, Evaluation, Days
  <2>5. since \in [begun : Days, readings : SUBSET Readings, blind : BOOLEAN]
        /\ since.begun = today /\ outside \in since.readings
    BY <2>1 DEF Seen
  <2> QED
    BY <2>1, <2>2, <2>3, <2>4, <2>5 DEF EvaluationInv, LooksOK, Doing, InCall
<1>2. EvaluationInv /\ [Next]_vars => EvaluationInv'
  <2> SUFFICES ASSUME EvaluationInv, [Next]_vars PROVE EvaluationInv'
    OBVIOUS
  <2>1. CASE \E config \in Configs : Evaluate(config)
    BY <2>1, EvaluateStep
  <2>2. CASE AskWeather \/ AskCalendar
    BY <2>2, AskStep
  <2>3. CASE UseWeather \/ UseCalendar
    BY <2>3, UseStep
  <2>4. CASE WeatherStep /\ UNCHANGED <<eval, verdict, since>>
    BY <2>4, FetchStep
  <2>5. CASE Midnight /\ UNCHANGED <<eval, verdict, since>>
    BY <2>5, OutsideStep
  <2>6. CASE /\ ChangeWeather /\ since' = [since EXCEPT !.readings = @ \cup {outside'}]
             /\ UNCHANGED <<eval, verdict>>
    BY <2>6, OutsideStep
  <2>7. CASE UNCHANGED vars
    <3>1. ForecastInv'
      BY <2>7, WorldStep DEF EvaluationInv, vars, forecast
    <3>2. /\ today' = today /\ outside' = outside /\ call' = call /\ eval' = eval
          /\ verdict' = verdict /\ since' = since
      BY <2>7 DEF vars, forecast
    <3>3. today \in Nat /\ LooksOK'
      BY <3>2 DEF EvaluationInv, ForecastInv, LooksOK, Doing, InCall, Pending, Days
    <3>4. since' \in [begun : Days, readings : SUBSET Readings, blind : BOOLEAN]
          /\ outside' \in since'.readings
      BY <3>2 DEF EvaluationInv
    <3> QED
      BY <3>1, <3>2, <3>3, <3>4, Waiting
  <2> QED
    BY <2>1, <2>2, <2>3, <2>4, <2>5, <2>6, <2>7 DEF Next, Continue
<1> QED
  BY <1>1, <1>2, PTL DEF Spec

-------------------------------------------------------------------------------
(* What the invariant gives. *)

(* The local variables of evaluate and get_weather have their types: the   *)
(* results never run past the conditions, no timeline is longer than       *)
(* _MAX_DAILY_RECORDS or _MAX_HOURLY_RECORDS, no answer than ForecastDays. *)
THEOREM EvaluatorTyping == Spec => []EvaluatorTypeOK
<1>1. EvaluationInv => EvaluatorTypeOK
  <2> SUFFICES ASSUME EvaluationInv PROVE EvaluatorTypeOK
    OBVIOUS
  <2>1. /\ ForecastInv /\ call \in Call /\ eval \in Evaluation
    BY DEF EvaluationInv, ForecastInv
  <2>2. ASSUME NEW t \in Timelines, call.got[t] # None
        PROVE  call.got[t] \in Seq(Int) /\ Len(call.got[t]) <= MaxRecords(t)
    <3>1. call.got[t] \in Seq(Int)
      BY <2>1, <2>2 DEF Call
    <3>2. CASE call.at \in {"timelines", "answered"}
      BY <2>1, <2>2, <3>1, <3>2 DEF ForecastInv, PagesOK
    <3>3. CASE call.at \notin {"timelines", "answered"}
      <4>1. call.at \in {"idle", "current", "raised"} /\ call = [NoCall EXCEPT !.at = call.at]
        BY <2>1, <3>3 DEF ForecastInv, Call
      <4>2. \A a \in {"idle", "current", "raised"} : [NoCall EXCEPT !.at = a].got[t] = <<>>
        BY CallBegins
      <4>3. MaxRecords(t) \in Nat
        BY ForecastAssumption DEF MaxRecords
      <4>4. call.got[t] = <<>>
        BY <4>1, <4>2
      <4> QED
        BY <3>1, <4>3, <4>4
    <3> QED
      BY <3>2, <3>3
  <2>3. ForecastTypeOK
    BY <2>1, <2>2 DEF ForecastInv, ForecastTypeOK, Call
  <2> QED
    BY <2>1, <2>3 DEF EvaluationInv, EvaluatorTypeOK, Evaluation
<1> QED
  BY <1>1, EvaluationInvariant, PTL

(* The days of the answer follow each other from its date, and none is     *)
(* missing as long as at most one record was of no use.                    *)
THEOREM DaysInOrder == Spec => []StartsToday
<1>1. EvaluationInv => StartsToday
  BY DEF EvaluationInv, ForecastInv
<1> QED
  BY <1>1, EvaluationInvariant, PTL

(* The day an answer was made has all its hours, on either side of         *)
(* midnight.                                                               *)
THEOREM HoursComplete == Spec => []TodayHasHours
<1>1. EvaluationInv => TodayHasHours
  BY DEF EvaluationInv, ForecastInv
<1> QED
  BY <1>1, EvaluationInvariant, PTL

(* The results put together when an evaluation ends: each is about the     *)
(* time of the evaluation.                                                 *)
LEMMA Concluded ==
    ASSUME EvaluationInv, Next, ~Doing("idle"), verdict' \in {"met", "unmet"}
    PROVE  LET cs == eval.config.conditions
           IN  \E results \in [DOMAIN cs -> BOOLEAN] :
                 /\ verdict' = IF Combined(eval.config, results) THEN "met" ELSE "unmet"
                 /\ DOMAIN results = DOMAIN cs
                 /\ \A k \in DOMAIN cs :
                       /\ results[k] => WasOnce(cs[k], TRUE)
                       /\ ~results[k] /\ ~since'.blind => WasOnce(cs[k], FALSE)
<1>1. verdict = "none" /\ eval \in Evaluation /\ ResultsTrue
  BY DEF EvaluationInv
<1>2. UseWeather \/ UseCalendar
  BY <1>1 DEF Next, Continue, Evaluate, AskWeather, AskCalendar, Doing
<1>3. /\ since.blind => since'.blind
      /\ (\E r : Result(r)) \/ (verdict' = "raised" /\ eval' = Resting)
  BY <1>2, Used
<1>4. PICK r : Result(r)
  BY <1>3
<1>5. /\ r \in BOOLEAN /\ eval.results \in Seq(BOOLEAN) /\ Results(r) \in Seq(BOOLEAN)
      /\ Len(Results(r)) = Len(eval.results) + 1
      /\ Results(r)[Len(eval.results) + 1] = r
      /\ \A k \in 1..Len(eval.results) : Results(r)[k] = eval.results[k]
  BY <1>1, <1>4, AppendProperties DEF Result, Results, Evaluation
<1>6. eval.config.conditions \in Seq(Condition)
  BY PendingCondition
<1>7. /\ Len(Results(r)) = Len(eval.config.conditions)
      /\ verdict' = IF Combined(eval.config, Results(r)) THEN "met" ELSE "unmet"
  BY <1>1, <1>4 DEF Result, Conclude
<1>8. ASSUME NEW k \in DOMAIN eval.config.conditions
      PROVE  /\ Results(r)[k] => WasOnce(eval.config.conditions[k], TRUE)
             /\ ~Results(r)[k] /\ ~since'.blind => WasOnce(eval.config.conditions[k], FALSE)
  <2>1. Len(eval.results) \in Nat /\ k \in 1..Len(eval.results) + 1
    BY <1>5, <1>6, <1>7, <1>8
  <2>2. CASE k = Len(eval.results) + 1
    <3>1. eval.config.conditions[k] = Pending /\ Results(r)[k] = r
      BY <1>5, <2>2 DEF Pending
    <3> QED
      BY <1>4, <3>1 DEF Result
  <2>3. CASE k \in 1..Len(eval.results)
    <3>1. /\ Results(r)[k] = eval.results[k]
          /\ eval.results[k] => WasOnce(eval.config.conditions[k], TRUE)
          /\ ~eval.results[k] /\ ~since.blind => WasOnce(eval.config.conditions[k], FALSE)
      BY <1>1, <1>5, <2>3 DEF ResultsTrue
    <3> QED
      BY <1>3, <3>1
  <2>4. k = Len(eval.results) + 1 \/ k \in 1..Len(eval.results)
    BY <2>1
  <2> QED
    BY <2>2, <2>3, <2>4, Zenon
<1>9. /\ Results(r) \in [DOMAIN eval.config.conditions -> BOOLEAN]
      /\ DOMAIN Results(r) = DOMAIN eval.config.conditions
  BY <1>5, <1>6, <1>7
<1> QED
  BY <1>7, <1>8, <1>9

(* A verdict of met is about the world, whatever failed and wherever       *)
(* midnight passed: no chore is generated because something could not be   *)
(* fetched.                                                                *)
THEOREM MetIsEarned == Spec => MetIsTrue
<1> DEFINE Earned ==
        eval.at # "idle" /\ verdict' = "met" =>
        LET cs == eval.config.conditions
        IN  IF eval.config.logic = "and" THEN \A k \in DOMAIN cs : WasOnce(cs[k], TRUE)
            ELSE \E k \in DOMAIN cs : WasOnce(cs[k], TRUE)
<1>1. EvaluationInv /\ [Next]_vars => [Earned]_vars
  <2> SUFFICES ASSUME EvaluationInv, Next, eval.at # "idle", verdict' = "met" PROVE Earned
    BY DEF vars
  <2>1. PICK results \in [DOMAIN eval.config.conditions -> BOOLEAN] :
            /\ Combined(eval.config, results) /\ DOMAIN results = DOMAIN eval.config.conditions
            /\ \A k \in DOMAIN eval.config.conditions :
                  results[k] => WasOnce(eval.config.conditions[k], TRUE)
    BY Concluded DEF Doing
  <2> QED
    BY <2>1 DEF Combined
<1> QED
  BY <1>1, EvaluationInvariant, PTL DEF Spec, MetIsTrue

(* So is a verdict of unmet, as long as every provider sent what it was    *)
(* asked for.                                                              *)
THEOREM UnmetIsEarned == Spec => UnmetIsTrue
<1> DEFINE Earned ==
        eval.at # "idle" /\ verdict' = "unmet" /\ ~since'.blind =>
        LET cs == eval.config.conditions
        IN  IF eval.config.logic = "and" THEN \E k \in DOMAIN cs : WasOnce(cs[k], FALSE)
            ELSE \A k \in DOMAIN cs : WasOnce(cs[k], FALSE)
<1>1. EvaluationInv /\ [Next]_vars => [Earned]_vars
  <2> SUFFICES ASSUME EvaluationInv, Next, eval.at # "idle", verdict' = "unmet", ~since'.blind
               PROVE  Earned
    BY DEF vars
  <2>1. PICK results \in [DOMAIN eval.config.conditions -> BOOLEAN] :
            /\ ~Combined(eval.config, results) /\ DOMAIN results = DOMAIN eval.config.conditions
            /\ \A k \in DOMAIN eval.config.conditions :
                  ~results[k] => WasOnce(eval.config.conditions[k], FALSE)
    BY Concluded DEF Doing
  <2> QED
    BY <2>1 DEF Combined
<1> QED
  BY <1>1, EvaluationInvariant, PTL DEF Spec, UnmetIsTrue

===============================================================================
