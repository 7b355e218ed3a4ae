------------------------- MODULE BitonicSort_proofs -------------------------
(***************************************************************************)
(* For any integer keys and any number of rows, both networks keep every   *)
(* row whole and sort, and bitonic_merge sorts powers of two of rows.      *)
(*                                                                         *)
(* TypeOK, which bounds every pending call, is inductive, and RowsWhole is *)
(* inductive relative to it. That the keys end up sorted is the promise of *)
(* the calls still pending (Promises): every sequence of keys in which     *)
(* each pending call does what it is for (Keeps) ends sorted. It is        *)
(* inductive because the calls a call is replaced by do together what that *)
(* call is for (SortKeeps, MergeKeeps), and cmp_swap orders its two keys   *)
(* (CmpSwapKeeps). A merge is argued at one threshold at a time, where the *)
(* keys are zeros and ones (ValleyPulled, HillPulled).                     *)
(***************************************************************************)
EXTENDS BitonicSort, TLAPS, NaturalsInduction, WellFoundedInduction,
        FiniteSetTheorems

(* 1 is a power of two. *)
LEMMA PowerOne == PowerOfTwo(1)
<1>1. 1 = 2 ^ 0
  OBVIOUS
<1> QED
  BY <1>1 DEF PowerOfTwo

(* greatestPowerOfTwoLessThan gives the greatest power of two below n; it  *)
(* cuts two or more rows into two parts that both have a row.              *)
LEMMA GreatestPower ==
  ASSUME NEW n \in Nat, n > 1
  PROVE  /\ GreatestPowerOfTwoLessThan(n) \in 1 .. n - 1
         /\ PowerOfTwo(GreatestPowerOfTwoLessThan(n))
         /\ \A k \in 1 .. n - 1 : PowerOfTwo(k) => k <= GreatestPowerOfTwoLessThan(n)
<1> DEFINE Rest == {d \in Nat : \E m \in 1 .. n - 1 : PowerOfTwo(m) /\ d = n - m}
<1>1. n - 1 \in Rest
  BY PowerOne
<1>2. PICK d \in Rest : \A y \in Rest : ~ (<<y, d>> \in OpToRel(<, Nat))
  <2>1. Rest \subseteq Nat
    OBVIOUS
  <2>2. Rest # {}
    BY <1>1
  <2> QED
    BY <2>1, <2>2, WFMin, NatLessThanWellFounded, Zenon
<1>3. \A y \in Rest : ~ (y < d)
  BY <1>2, Zenon DEF OpToRel
<1>4. PICK m \in 1 .. n - 1 : PowerOfTwo(m) /\ d = n - m
  OBVIOUS
<1>5. ASSUME NEW k \in 1 .. n - 1, PowerOfTwo(k)
      PROVE  k <= m
  <2>1. n - k \in Rest
    BY <1>5
  <2>2. ~ (n - k < d)
    BY <2>1, <1>3
  <2> QED
    BY <2>2, <1>4
<1>6. \E x \in 1 .. n - 1 :
        PowerOfTwo(x) /\ \A k \in 1 .. n - 1 : PowerOfTwo(k) => k <= x
  BY <1>4, <1>5, Zenon
<1> HIDE DEF Rest
<1> QED
  BY <1>6, Zenon DEF GreatestPowerOfTwoLessThan

(* A set of n + 1 elements has twice as many subsets as a set of n.        *)
LEMMA PowerDoubles ==
  ASSUME NEW n \in Nat
  PROVE  2 ^ n \in Nat /\ 2 ^ (n + 1) = 2 * 2 ^ n
<1> DEFINE A == SUBSET (1 .. n)
           B == {s \cup {n + 1} : s \in A}
           f == [s \in A |-> s \cup {n + 1}]
<1>1. /\ IsFiniteSet(1 .. n) /\ Cardinality(1 .. n) = n
      /\ IsFiniteSet(1 .. n + 1) /\ Cardinality(1 .. n + 1) = n + 1
  BY FS_Interval
<1>2. /\ IsFiniteSet(A) /\ Cardinality(A) = 2 ^ n
      /\ Cardinality(SUBSET (1 .. n + 1)) = 2 ^ (n + 1)
  BY <1>1, FS_SUBSET
<1>3. SUBSET (1 .. n + 1) = A \cup B
  <2>1. ASSUME NEW s \in SUBSET (1 .. n + 1) PROVE s \in A \cup B
    <3>1. CASE n + 1 \in s
      <4>1. s \ {n + 1} \in A
        OBVIOUS
      <4>2. s = (s \ {n + 1}) \cup {n + 1}
        BY <3>1
      <4> QED
        BY <4>1, <4>2
    <3>2. CASE n + 1 \notin s
      BY <3>2
    <3> QED
      BY <3>1, <3>2
  <2>2. ASSUME NEW s \in A PROVE s \in SUBSET (1 .. n + 1) /\ s \cup {n + 1} \in SUBSET (1 .. n + 1)
    OBVIOUS
  <2>3. ASSUME NEW s \in B PROVE s \in SUBSET (1 .. n + 1)
    <3>1. PICK r \in A : s = r \cup {n + 1}
      OBVIOUS
    <3> QED
      BY <2>2, <3>1
  <2> HIDE DEF A, B
  <2> QED
    BY <2>1, <2>2, <2>3, Zenon
<1>4. A \cap B = {}
  OBVIOUS
<1>5. f \in Bijection(A, B)
  <2>1. \A s \in A : n + 1 \notin s
    OBVIOUS
  <2>2. ASSUME NEW s \in A, NEW r \in A, f[s] = f[r] PROVE s = r
    <3> HIDE DEF A
    <3>1. s \cup {n + 1} = r \cup {n + 1} /\ n + 1 \notin s /\ n + 1 \notin r
      BY <2>1, <2>2
    <3>2. \A x : x \in s <=> x \in r
      BY <3>1
    <3> QED
      <4>1. s \subseteq r /\ r \subseteq s
        BY <3>2
      <4> QED
        BY <4>1
  <2>3. f \in [A -> B] /\ \A b \in B : \E s \in A : f[s] = b
    <3> HIDE DEF A
    <3> QED OBVIOUS
  <2> HIDE DEF f, A, B
  <2> QED
    BY <2>2, <2>3, Zenon DEF Bijection, Injection, Surjection, IsInjective
<1> HIDE DEF A, B, f
<1>6. IsFiniteSet(B) /\ Cardinality(B) = Cardinality(A)
  BY <1>2, <1>5, FS_Bijection, Zenon DEF ExistsBijection
<1>7. Cardinality(A \cup B) = Cardinality(A) + Cardinality(B) - Cardinality({})
  BY <1>2, <1>4, <1>6, FS_Union
<1>8. Cardinality({}) = 0 /\ Cardinality(A) \in Nat
  BY <1>2, FS_EmptySet, FS_CardinalityType
<1>9. Cardinality(A \cup B) = 2 ^ (n + 1)
  BY <1>2, <1>3, Zenon
<1>10. PICK x \in Nat : x = 2 ^ n
  BY <1>2, <1>8, Zenon
<1>11. Cardinality(A) = x /\ Cardinality(B) = x
  BY <1>2, <1>6, <1>10, Zenon
<1>12. 2 ^ (n + 1) = x + x
  BY <1>7, <1>8, <1>9, <1>11
<1> QED
  BY <1>10, <1>12

(* Powers of two grow with the exponent. *)
LEMMA PowerGrows ==
  ASSUME NEW e \in Nat, NEW d \in Nat
  PROVE  2 ^ e <= 2 ^ (e + d)
<1> DEFINE Odd == {x \in Nat : ~ (2 ^ e <= 2 ^ (e + x))}
<1>1. Odd = {}
  <2> SUFFICES ASSUME Odd # {} PROVE FALSE
    OBVIOUS
  <2>1. PICK x \in Odd : \A y \in Odd : ~ (<<y, x>> \in OpToRel(<, Nat))
    BY WFMin, NatLessThanWellFounded, Zenon
  <2>2. \A y \in Odd : ~ (y < x)
    BY <2>1, Zenon DEF OpToRel
  <2>3. x # 0
    BY PowerDoubles
  <2>4. x \in Nat /\ x - 1 \in Nat /\ x - 1 < x
    BY <2>3
  <2>5. 2 ^ e <= 2 ^ (e + (x - 1))
    BY <2>2, <2>4
  <2>6. e + x = (e + (x - 1)) + 1 /\ e + (x - 1) \in Nat
    BY <2>4
  <2>7. 2 ^ (e + x) = 2 * 2 ^ (e + (x - 1)) /\ 2 ^ (e + (x - 1)) \in Nat
    BY <2>6, PowerDoubles
  <2>8. PICK p \in Nat, q \in Nat : p = 2 ^ e /\ q = 2 ^ (e + (x - 1))
    BY <2>7, PowerDoubles
  <2>9. p <= 2 * q
    BY <2>5, <2>8
  <2>10. 2 ^ e <= 2 ^ (e + x)
    BY <2>7, <2>8, <2>9
  <2> QED
    BY <2>10
<1> QED
  BY <1>1

(* The exponent is less than the power. *)
LEMMA PowerAhead ==
  ASSUME NEW e \in Nat
  PROVE  e < 2 ^ e
<1> DEFINE Odd == {x \in Nat : ~ (x < 2 ^ x)}
<1>1. Odd = {}
  <2> SUFFICES ASSUME Odd # {} PROVE FALSE
    OBVIOUS
  <2>1. PICK x \in Odd : \A y \in Odd : ~ (<<y, x>> \in OpToRel(<, Nat))
    BY WFMin, NatLessThanWellFounded, Zenon
  <2>2. \A y \in Odd : ~ (y < x)
    BY <2>1, Zenon DEF OpToRel
  <2>3. x # 0
    <3>1. 0 < 2 ^ 0
      OBVIOUS
    <3>2. 0 \notin Odd
      BY <3>1
    <3> QED
      BY <3>2, Zenon
  <2>4. PICK y \in Nat : x = y + 1
    BY <2>3
  <2>5. y < 2 ^ y
    BY <2>2, <2>4
  <2>6. 2 ^ (y + 1) = 2 * 2 ^ y /\ 2 ^ y \in Nat
    BY PowerDoubles
  <2>7. PICK q \in Nat : q = 2 ^ y
    BY <2>6
  <2>8. y + 1 < 2 * q
    BY <2>5, <2>7
  <2>9. x < 2 ^ x
    BY <2>4, <2>6, <2>7, <2>8
  <2> QED
    BY <2>9
<1> QED
  BY <1>1

(* Twice a power of two is one. *)
LEMMA PowerTwice ==
  ASSUME NEW k \in Nat, PowerOfTwo(k)
  PROVE  PowerOfTwo(2 * k)
<1>1. PICK e \in 0 .. k : k = 2 ^ e
  BY DEF PowerOfTwo
<1>2. 2 ^ (e + 1) = 2 * k
  BY <1>1, PowerDoubles
<1>3. e < k
  BY <1>1, PowerAhead
<1>4. e + 1 \in 0 .. 2 * k
  BY <1>3
<1> QED
  BY <1>2, <1>4 DEF PowerOfTwo

(* The distance across which a merge compares is at least half its rows.   *)
LEMMA HalfOrMore ==
  ASSUME NEW n \in Nat, n > 1
  PROVE  n <= 2 * GreatestPowerOfTwoLessThan(n)
<1>1. PICK m \in 1 .. n - 1 :
        /\ m = GreatestPowerOfTwoLessThan(n)
        /\ PowerOfTwo(m)
        /\ \A k \in 1 .. n - 1 : PowerOfTwo(k) => k <= m
  BY GreatestPower
<1>2. PowerOfTwo(2 * m)
  BY <1>1, PowerTwice
<1>3. ~ (2 * m \in 1 .. n - 1)
  BY <1>1, <1>2
<1> QED
  BY <1>1, <1>3

(* It is half the rows when these are a power of two. *)
LEMMA ExactHalf ==
  ASSUME NEW n \in Nat, n > 1, PowerOfTwo(n)
  PROVE  n = 2 * GreatestPowerOfTwoLessThan(n)
<1>1. PICK m \in 1 .. n - 1 :
        /\ m = GreatestPowerOfTwoLessThan(n)
        /\ PowerOfTwo(m)
  BY GreatestPower
<1>2. PICK e \in Nat : n = 2 ^ e
  BY DEF PowerOfTwo
<1>3. PICK f \in Nat : m = 2 ^ f
  BY <1>1 DEF PowerOfTwo
<1>4. f < e
  <2> SUFFICES ASSUME ~ (f < e) PROVE FALSE
    OBVIOUS
  <2>1. f - e \in Nat /\ e + (f - e) = f
    OBVIOUS
  <2>2. 2 ^ e <= 2 ^ f
    BY <2>1, PowerGrows
  <2> QED
    BY <1>1, <1>2, <1>3, <2>2
<1>5. 2 ^ (f + 1) <= 2 ^ e
  <2>1. e - (f + 1) \in Nat /\ f + 1 \in Nat /\ (f + 1) + (e - (f + 1)) = e
    BY <1>4
  <2>2. 2 ^ (f + 1) <= 2 ^ ((f + 1) + (e - (f + 1)))
    BY <2>1, PowerGrows
  <2> QED
    BY <2>1, <2>2
<1>6. 2 ^ (f + 1) = 2 * m
  BY <1>3, PowerDoubles
<1>7. 2 * m <= n
  BY <1>2, <1>5, <1>6
<1>8. n <= 2 * m
  BY <1>1, HalfOrMore
<1> QED
  BY <1>1, <1>7, <1>8
-----------------------------------------------------------------------------
(* Ones at both ends, or in the middle. *)
Valley(S, lo, n) == \E a \in lo .. lo + n : \E b \in a .. lo + n :
                      \A i \in lo .. lo + n - 1 : i \in S <=> (i < a \/ b <= i)
Hill(S, lo, n) == \E a \in lo .. lo + n : \E b \in a .. lo + n :
                      \A i \in lo .. lo + n - 1 : i \in S <=> (a <= i /\ i < b)

(* A one of a pair at the distance m moves to the far row of the pair.     *)
Pulled(S, T, lo, r, m) ==
  /\ \A i \in lo .. lo + r - 1 : /\ i \in T <=> (i \in S /\ i + m \in S)
                                 /\ i + m \in T <=> (i \in S \/ i + m \in S)
  /\ \A i \in lo + r .. lo + m - 1 : i \in T <=> i \in S

(* From a valley the comparisons make a valley or a hill of the near rows  *)
(* and a valley of the far rows, and a one among the near rows leaves only *)
(* ones among the far rows.                                                *)
LEMMA ValleyPulled ==
  ASSUME NEW S, NEW T, NEW lo \in Nat, NEW r \in Nat, NEW m \in Nat,
         0 < r, r <= m, Pulled(S, T, lo, r, m), Valley(S, lo, m + r)
  PROVE  /\ Valley(T, lo, m) \/ Hill(T, lo, m)
         /\ Valley(T, lo + m, r)
         /\ \A i \in lo .. lo + m - 1, j \in lo + m .. lo + m + r - 1 : i \in T => j \in T
<1>0. PICK a \in lo .. lo + (m + r) :
        \E b \in a .. lo + (m + r) :
          \A i \in lo .. lo + (m + r) - 1 : i \in S <=> (i < a \/ b <= i)
  BY DEF Valley
<1>1. PICK b \in a .. lo + (m + r) :
        \A i \in lo .. lo + (m + r) - 1 : i \in S <=> (i < a \/ b <= i)
  BY <1>0
<1>2. \A i \in lo .. lo + r - 1 :
         /\ i \in T <=> (i < a \/ b <= i) /\ (i + m < a \/ b <= i + m)
         /\ i + m \in T <=> (i < a \/ b <= i + m)
  BY <1>1 DEF Pulled
<1>3. \A i \in lo + r .. lo + m - 1 : i \in T <=> (i < a \/ b <= i)
  BY <1>1 DEF Pulled
<1>4. \A j \in lo + m .. lo + m + r - 1 : j \in T <=> (j < a + m \/ b <= j)
  <2> SUFFICES ASSUME NEW j \in lo + m .. lo + m + r - 1
               PROVE  j \in T <=> (j < a + m \/ b <= j)
    OBVIOUS
  <2>1. PICK i \in lo .. lo + r - 1 : j = i + m
    <3>1. j - m \in lo .. lo + r - 1 /\ j = (j - m) + m
      OBVIOUS
    <3> QED
      BY <3>1
  <2> QED
    BY <1>2, <2>1
<1>5. \A i \in lo .. lo + m - 1, j \in lo + m .. lo + m + r - 1 : i \in T => j \in T
  BY <1>2, <1>3, <1>4
<1>6. Valley(T, lo + m, r)
  <2>1. CASE a + m <= b
    <3>1. a + m \in lo + m .. (lo + m) + r /\ b \in a + m .. (lo + m) + r
      BY <2>1
    <3>2. \A i \in lo + m .. (lo + m) + r - 1 : i \in T <=> (i < a + m \/ b <= i)
      BY <1>4
    <3> QED
      BY <3>1, <3>2 DEF Valley
  <2>2. CASE b < a + m
    <3>1. lo + m \in lo + m .. (lo + m) + r
      OBVIOUS
    <3>2. \A i \in lo + m .. (lo + m) + r - 1 : i \in T <=> (i < lo + m \/ lo + m <= i)
      BY <1>4, <2>2
    <3> QED
      BY <3>1, <3>2 DEF Valley
  <2> QED
    BY <2>1, <2>2
<1>7. Valley(T, lo, m) \/ Hill(T, lo, m)
  <2>1. CASE lo + m < a
    <3>1. a - m \in lo .. lo + m /\ b - m \in a - m .. lo + m
      BY <2>1
    <3>2. \A i \in lo .. lo + m - 1 : i \in T <=> (i < a - m \/ b - m <= i)
      BY <1>2, <1>3, <2>1
    <3> QED
      BY <3>1, <3>2 DEF Valley
  <2>2. CASE a <= lo + m /\ lo + m <= b
    <3>1. CASE b - m <= a
      <4>1. b - m \in lo .. lo + m /\ a \in b - m .. lo + m
        BY <2>2, <3>1
      <4>2. \A i \in lo .. lo + m - 1 : i \in T <=> (b - m <= i /\ i < a)
        BY <1>2, <1>3, <2>2
      <4> QED
        BY <4>1, <4>2 DEF Hill
    <3>2. CASE a < b - m
      <4>1. lo \in lo .. lo + m /\ lo \in lo .. lo + m
        OBVIOUS
      <4>2. \A i \in lo .. lo + m - 1 : i \in T <=> (lo <= i /\ i < lo)
        BY <1>2, <1>3, <2>2, <3>2
      <4> QED
        BY <4>1, <4>2 DEF Hill
    <3> QED
      BY <3>1, <3>2
  <2>3. CASE b < lo + m
    <3>1. a \in lo .. lo + m /\ b \in a .. lo + m
      BY <2>3
    <3>2. \A i \in lo .. lo + m - 1 : i \in T <=> (i < a \/ b <= i)
      BY <1>2, <1>3, <2>3
    <3> QED
      BY <3>1, <3>2 DEF Valley
  <2> QED
    BY <2>1, <2>2, <2>3
<1> QED
  BY <1>5, <1>6, <1>7

(* The same from a hill, when the distance is half the rows.              *)
LEMMA HillPulled ==
  ASSUME NEW S, NEW T, NEW lo \in Nat, NEW m \in Nat,
         0 < m, Pulled(S, T, lo, m, m), Hill(S, lo, m + m)
  PROVE  /\ Hill(T, lo, m)
         /\ Valley(T, lo + m, m) \/ Hill(T, lo + m, m)
         /\ \A i \in lo .. lo + m - 1, j \in lo + m .. lo + m + m - 1 : i \in T => j \in T
<1>0. PICK a \in lo .. lo + (m + m) :
        \E b \in a .. lo + (m + m) :
          \A i \in lo .. lo + (m + m) - 1 : i \in S <=> (a <= i /\ i < b)
  BY DEF Hill
<1>1. PICK b \in a .. lo + (m + m) :
        \A i \in lo .. lo + (m + m) - 1 : i \in S <=> (a <= i /\ i < b)
  BY <1>0
<1>2. \A i \in lo .. lo + m - 1 :
         /\ i \in T <=> (a <= i /\ i < b) /\ (a <= i + m /\ i + m < b)
         /\ i + m \in T <=> (a <= i /\ i < b) \/ (a <= i + m /\ i + m < b)
  BY <1>1 DEF Pulled
<1>3. \A i \in lo .. lo + m - 1 : i \in T <=> (a <= i /\ i < b - m)
  BY <1>2
<1>4. \A j \in lo + m .. lo + m + m - 1 :
         j \in T <=> (a + m <= j /\ j < b + m) \/ (a <= j /\ j < b)
  <2> SUFFICES ASSUME NEW j \in lo + m .. lo + m + m - 1
               PROVE  j \in T <=> (a + m <= j /\ j < b + m) \/ (a <= j /\ j < b)
    OBVIOUS
  <2>1. PICK i \in lo .. lo + m - 1 : j = i + m
    <3>1. j - m \in lo .. lo + m - 1 /\ j = (j - m) + m
      OBVIOUS
    <3> QED
      BY <3>1
  <2> QED
    BY <1>2, <2>1
<1>5. \A i \in lo .. lo + m - 1, j \in lo + m .. lo + m + m - 1 : i \in T => j \in T
  BY <1>3, <1>4
<1>6. Hill(T, lo, m)
  <2>1. CASE a <= b - m
    <3>1. a \in lo .. lo + m /\ b - m \in a .. lo + m
      BY <2>1
    <3> QED
      BY <3>1, <1>3 DEF Hill
  <2>2. CASE b - m < a
    <3>1. lo \in lo .. lo + m
      OBVIOUS
    <3>2. \A i \in lo .. lo + m - 1 : i \in T <=> (lo <= i /\ i < lo)
      BY <1>3, <2>2
    <3> QED
      BY <3>1, <3>2 DEF Hill
  <2> QED
    BY <2>1, <2>2
<1>7. Valley(T, lo + m, m) \/ Hill(T, lo + m, m)
  <2>1. CASE lo + m <= a
    <3>1. a \in lo + m .. (lo + m) + m /\ b \in a .. (lo + m) + m
      BY <2>1
    <3>2. \A j \in lo + m .. (lo + m) + m - 1 : j \in T <=> (a <= j /\ j < b)
      BY <1>4, <2>1
    <3> QED
      BY <3>1, <3>2 DEF Hill
  <2>2. CASE b <= lo + m
    <3>1. a + m \in lo + m .. (lo + m) + m /\ b + m \in a + m .. (lo + m) + m
      BY <2>2
    <3>2. \A j \in lo + m .. (lo + m) + m - 1 : j \in T <=> (a + m <= j /\ j < b + m)
      BY <1>4, <2>2
    <3> QED
      BY <3>1, <3>2 DEF Hill
  <2>3. CASE a < lo + m /\ lo + m < b /\ b <= a + m
    <3>1. b \in lo + m .. (lo + m) + m /\ a + m \in b .. (lo + m) + m
      BY <2>3
    <3>2. \A j \in lo + m .. (lo + m) + m - 1 : j \in T <=> (j < b \/ a + m <= j)
      BY <1>4, <2>3
    <3> QED
      BY <3>1, <3>2 DEF Valley
  <2>4. CASE a < lo + m /\ lo + m < b /\ a + m < b
    <3>1. lo + m \in lo + m .. (lo + m) + m
      OBVIOUS
    <3>2. \A j \in lo + m .. (lo + m) + m - 1 : j \in T <=> (j < lo + m \/ lo + m <= j)
      BY <1>4, <2>4
    <3> QED
      BY <3>1, <3>2 DEF Valley
  <2> QED
    BY <2>1, <2>2, <2>3, <2>4
<1> QED
  BY <1>5, <1>6, <1>7
-----------------------------------------------------------------------------
(* A job of the model has a number of rows, a direction and as many keys.  *)
LEMMA JobType ==
  ASSUME job \in Jobs
  PROVE  /\ job.n \in Nat
         /\ job.up \in BOOLEAN
         /\ job.call \in {"sort", "merge"}
         /\ job.input \in Inputs(job.n)
<1>1. CASE \E n \in SortSizes :
             job \in [call : {"sort"}, cmp : {"number"}, up : BOOLEAN, n : {n},
                      input : Inputs(n)]
  BY <1>1, SortAssumption
<1>2. CASE \E n \in SortSizes :
             job \in [call : {"sort"}, cmp : {"valid"}, up : BOOLEAN, n : {n},
                      input : {k \in Inputs(n) : \A i \in 0 .. n - 1 : k[i] \in 0 .. 1}]
  <2>1. PICK n \in SortSizes :
          job \in [call : {"sort"}, cmp : {"valid"}, up : BOOLEAN, n : {n},
                   input : {k \in Inputs(n) : \A i \in 0 .. n - 1 : k[i] \in 0 .. 1}]
    BY <1>2
  <2>2. /\ job.n = n /\ job.up \in BOOLEAN /\ job.call = "sort"
        /\ job.input \in {k \in Inputs(n) : \A i \in 0 .. n - 1 : k[i] \in 0 .. 1}
    BY <2>1
  <2>3. job.input \in Inputs(n)
    BY <2>2, Zenon
  <2> QED
    BY <2>2, <2>3, SortAssumption
<1>3. CASE \E n \in MergeSizes :
             job \in [call : {"merge"}, cmp : {"number"}, up : {TRUE}, n : {n},
                      input : UpDown(n)]
  <2>1. PICK n \in MergeSizes :
          job \in [call : {"merge"}, cmp : {"number"}, up : {TRUE}, n : {n},
                   input : UpDown(n)]
    BY <1>3
  <2>2. /\ job.n = n /\ job.up \in BOOLEAN /\ job.call = "merge"
        /\ job.input \in UpDown(n)
    BY <2>1
  <2>3. job.input \in Inputs(n)
    BY <2>2, Zenon DEF UpDown
  <2> QED
    BY <2>2, <2>3, SortAssumption
<1> QED
  BY <1>1, <1>2, <1>3 DEF Jobs

(* The calls a call is replaced by stay inside the rows of that call.      *)
LEMMA SortCalls ==
  ASSUME NEW c \in Calls, c.f = "sort", job.n \in Nat
  PROVE  SortBody(c) \in Seq(Calls)
<1> DEFINE m == c.n \div 2
<1>1. /\ c.lo \in Nat /\ c.n \in Nat /\ c.up \in BOOLEAN
      /\ c.lo + c.n <= job.n
  BY DEF Calls, Frame
<1>2. m \in Nat /\ m <= c.n
  BY <1>1
<1>3. Sort(c.lo, m, ~c.up) \in Calls
  BY <1>1, <1>2 DEF Sort, Calls, Frame
<1>4. Sort(c.lo + m, c.n - m, c.up) \in Calls
  BY <1>1, <1>2 DEF Sort, Calls, Frame
<1>5. Merge(c.lo, c.n, c.up) \in Calls
  BY <1>1 DEF Merge, Calls, Frame
<1> HIDE DEF m
<1>6. << Sort(c.lo, m, ~c.up), Sort(c.lo + m, c.n - m, c.up), Merge(c.lo, c.n, c.up) >>
        \in Seq(Calls)
  BY <1>3, <1>4, <1>5
<1>7. <<>> \in Seq(Calls)
  OBVIOUS
<1> QED
  BY <1>6, <1>7 DEF SortBody, m

(* The comparisons reach no further than n - m rows past the distance m.   *)
LEMMA MergeCalls ==
  ASSUME NEW c \in Calls, c.f = "merge", job.n \in Nat
  PROVE  MergeBody(c) \in Seq(Calls)
<1> DEFINE m == GreatestPowerOfTwoLessThan(c.n)
           swaps == [i \in 1 .. c.n - m |-> Swap(c.lo + i - 1, m, c.up)]
           merges == << Merge(c.lo, m, c.up), Merge(c.lo + m, c.n - m, c.up) >>
<1>1. /\ c.lo \in Nat /\ c.n \in Nat /\ c.up \in BOOLEAN
      /\ c.lo + c.n <= job.n
  BY DEF Calls, Frame
<1>2. CASE c.n <= 1
  BY <1>2 DEF MergeBody
<1>3. CASE c.n > 1
  <2>1. m \in 1 .. c.n - 1
    BY <1>1, <1>3, GreatestPower
  <2> HIDE DEF m
  <2>2. swaps \in Seq(Calls)
    <3>1. ASSUME NEW i \in 1 .. c.n - m
          PROVE  Swap(c.lo + i - 1, m, c.up) \in Calls
      BY <1>1, <2>1 DEF Swap, Calls, Frame
    <3>2. c.n - m \in Nat
      BY <1>1, <2>1
    <3>3. swaps \in [1 .. c.n - m -> Calls]
      BY <3>1
    <3> HIDE DEF swaps
    <3> QED
      BY <3>2, <3>3
  <2>3. Merge(c.lo, m, c.up) \in Calls /\ Merge(c.lo + m, c.n - m, c.up) \in Calls
    BY <1>1, <2>1 DEF Merge, Calls, Frame
  <2>4. merges \in Seq(Calls)
    BY <2>3
  <2>5. swaps \o merges \in Seq(Calls)
    <3> HIDE DEF swaps, merges
    <3> QED
      BY <2>2, <2>4
  <2>6. MergeBody(c) = swaps \o merges
    <3>1. ~ (c.n <= 1)
      BY <1>1, <1>3
    <3> QED
      BY <3>1, Zenon DEF MergeBody, m
  <2> QED
    BY <2>5, <2>6
<1> QED
  BY <1>1, <1>2, <1>3
-----------------------------------------------------------------------------
(* A call is the first of the pending ones and the others stay.            *)
LEMMA Pending ==
  ASSUME todo \in Seq(Calls), todo # <<>>
  PROVE  Head(todo) \in Calls /\ Tail(todo) \in Seq(Calls)
  OBVIOUS

(* Calls put before the pending ones. *)
LEMMA Replaced ==
  ASSUME NEW S, NEW s \in Seq(S), NEW t \in Seq(S)
  PROVE  s \o t \in Seq(S)
  OBVIOUS

(* The rows of a comparison are rows of the array.                         *)
LEMMA SwapRows ==
  ASSUME NEW c \in Calls, c.f = "swap", job.n \in Nat
  PROVE  c.lo \in 0 .. job.n - 1 /\ c.lo + c.n \in 0 .. job.n - 1
<1>1. c.lo \in Nat /\ c.n \in Nat /\ c.lo + c.n <= job.n - 1
  BY DEF Calls, Frame
<1> QED
  BY <1>1

(* Exchanging two elements neither loses nor doubles one. *)
LEMMA ExchangeType ==
  ASSUME NEW S, NEW T, NEW f \in [S -> T], NEW i \in S, NEW j \in S
  PROVE  /\ Exchange(f, i, j) \in [S -> T]
         /\ Exchange(f, i, j)[i] = f[j]
         /\ Exchange(f, i, j)[j] = f[i]
         /\ \A k \in S \ {i, j} : Exchange(f, i, j)[k] = f[k]
  BY DEF Exchange

(* The call of a job is the only pending one and covers all its rows.     *)
LEMMA InitType == Init => TypeOK
<1> SUFFICES ASSUME Init PROVE TypeOK
  OBVIOUS
<1>1. /\ job.n \in Nat
      /\ job.up \in BOOLEAN
      /\ job.call \in {"sort", "merge"}
      /\ job.input \in Inputs(job.n)
  BY JobType DEF Init
<1>2. job \in Jobs /\ key \in Inputs(job.n)
  BY <1>1 DEF Init
<1>3. data \in [0 .. job.n - 1 -> 0 .. job.n - 1]
  BY DEF Init
<1>4. todo \in Seq(Calls)
  <2>1. [f |-> job.call, lo |-> 0, n |-> job.n, up |-> job.up] \in Calls
    BY <1>1 DEF Calls, Frame
  <2> QED
    BY <2>1 DEF Init
<1> QED
  BY <1>2, <1>3, <1>4 DEF TypeOK

(* Every step keeps the rows and the pending calls inside the array.       *)
LEMMA NextType == TypeOK /\ [Next]_vars => TypeOK'
<1> SUFFICES ASSUME TypeOK, [Next]_vars PROVE TypeOK'
  OBVIOUS
<1>0. /\ job.n \in Nat
      /\ key \in Inputs(job.n)
      /\ data \in [0 .. job.n - 1 -> 0 .. job.n - 1]
      /\ todo \in Seq(Calls)
      /\ job \in Jobs
  BY JobType DEF TypeOK
<1>1. ASSUME job' = job PROVE Calls' = Calls
  BY <1>1 DEF Calls
<1>2. CASE Descend
  <2>1. Head(todo) \in Calls /\ Tail(todo) \in Seq(Calls)
    BY <1>0, <1>2, Pending DEF Descend
  <2>2. \/ Head(todo).f = "sort" /\ todo' = SortBody(Head(todo)) \o Tail(todo)
        \/ Head(todo).f = "merge" /\ todo' = MergeBody(Head(todo)) \o Tail(todo)
    BY <1>2 DEF Descend
  <2>3. todo' \in Seq(Calls)
    <3>1. CASE Head(todo).f = "sort"
      <4>1. SortBody(Head(todo)) \in Seq(Calls)
        BY <2>1, <3>1, <1>0, SortCalls
      <4>2. todo' = SortBody(Head(todo)) \o Tail(todo)
        BY <2>2, <3>1
      <4> QED
        BY <2>1, <4>1, <4>2, Replaced, Zenon
    <3>2. CASE Head(todo).f = "merge"
      <4>1. MergeBody(Head(todo)) \in Seq(Calls)
        BY <2>1, <3>2, <1>0, MergeCalls
      <4>2. todo' = MergeBody(Head(todo)) \o Tail(todo)
        BY <2>2, <3>2
      <4> QED
        BY <2>1, <4>1, <4>2, Replaced, Zenon
    <3> QED
      BY <2>2, <3>1, <3>2
  <2>4. job' = job /\ key' = key /\ data' = data
    BY <1>2 DEF Descend
  <2>5. Calls' = Calls
    BY <2>4, <1>1
  <2> QED
    BY <1>0, <2>3, <2>4, <2>5 DEF TypeOK
<1>3. CASE CmpSwap
  <2> DEFINE i == Head(todo).lo
             j == i + Head(todo).n
  <2>1. Head(todo) \in Calls /\ Tail(todo) \in Seq(Calls)
    BY <1>0, <1>3, Pending DEF CmpSwap
  <2>2. i \in 0 .. job.n - 1 /\ j \in 0 .. job.n - 1
    BY <2>1, <1>0, <1>3, SwapRows DEF CmpSwap
  <2>3. /\ key' = key \/ key' = Exchange(key, i, j)
        /\ data' = data \/ data' = Exchange(data, i, j)
        /\ todo' = Tail(todo)
        /\ job' = job
    BY <1>3 DEF CmpSwap
  <2> HIDE DEF i, j
  <2>4. Exchange(key, i, j) \in Inputs(job.n)
    BY <1>0, <2>2, ExchangeType DEF Inputs
  <2>5. Exchange(data, i, j) \in [0 .. job.n - 1 -> 0 .. job.n - 1]
    BY <1>0, <2>2, ExchangeType
  <2>6. Calls' = Calls
    BY <2>3, <1>1
  <2> QED
    BY <1>0, <2>1, <2>3, <2>4, <2>5, <2>6 DEF TypeOK
<1>4. CASE UNCHANGED vars
  <2>1. job' = job /\ key' = key /\ data' = data /\ todo' = todo
    BY <1>4 DEF vars
  <2>2. Calls' = Calls
    BY <2>1, <1>1
  <2> QED
    BY <1>0, <2>1, <2>2 DEF TypeOK
<1> QED
  BY <1>2, <1>3, <1>4 DEF Next, Terminated

(* For any keys and any numbers of rows every call the networks make stays *)
(* inside the rows it was given (number.h 21-40, emp_utils.cpp 420-443).   *)
THEOREM TypeCorrect == Spec => []TypeOK
<1> QED
  BY InitType, NextType, PTL DEF Spec
-----------------------------------------------------------------------------
(* At first every row is where the input had it. *)
LEMMA InitRows == Init => RowsWhole
<1> SUFFICES ASSUME Init PROVE RowsWhole
  OBVIOUS
<1> QED
  BY DEF Init, RowsWhole

(* Only a comparison moves rows, and it moves a key with its data.         *)
LEMMA NextRows == TypeOK /\ RowsWhole /\ [Next]_vars => RowsWhole'
<1> SUFFICES ASSUME TypeOK, RowsWhole, [Next]_vars PROVE RowsWhole'
  OBVIOUS
<1>0. /\ job.n \in Nat
      /\ key \in [0 .. job.n - 1 -> Keys]
      /\ data \in [0 .. job.n - 1 -> 0 .. job.n - 1]
      /\ todo \in Seq(Calls)
  BY JobType DEF TypeOK, Inputs
<1>1. ASSUME job' = job, key' = key, data' = data PROVE RowsWhole'
  BY <1>1 DEF RowsWhole
<1>2. CASE CmpSwap
  <2> DEFINE i == Head(todo).lo
             j == i + Head(todo).n
  <2>1. i \in 0 .. job.n - 1 /\ j \in 0 .. job.n - 1
    <3>1. Head(todo) \in Calls /\ Head(todo).f = "swap"
      BY <1>0, <1>2, Pending DEF CmpSwap
    <3> QED
      BY <3>1, <1>0, SwapRows
  <2>2. \/ key' = key /\ data' = data
        \/ key' = Exchange(key, i, j) /\ data' = Exchange(data, i, j)
    BY <1>2 DEF CmpSwap
  <2>3. job' = job
    BY <1>2 DEF CmpSwap
  <2> HIDE DEF i, j
  <2>4. CASE key' = Exchange(key, i, j) /\ data' = Exchange(data, i, j)
    <3> DEFINE R == 0 .. job.n - 1
    <3>0. /\ key \in [R -> Keys] /\ data \in [R -> R]
          /\ i \in R /\ j \in R
      BY <1>0, <2>1
    <3>1. /\ key'[i] = key[j] /\ key'[j] = key[i]
          /\ \A k \in R \ {i, j} : key'[k] = key[k]
      <4> HIDE DEF R
      <4>1. /\ Exchange(key, i, j)[i] = key[j]
            /\ Exchange(key, i, j)[j] = key[i]
            /\ \A k \in R \ {i, j} : Exchange(key, i, j)[k] = key[k]
        BY <3>0 DEF Exchange
      <4> QED
        BY <2>4, <4>1
    <3>2. /\ data'[i] = data[j] /\ data'[j] = data[i]
          /\ \A k \in R \ {i, j} : data'[k] = data[k]
      <4> HIDE DEF R
      <4>1. /\ Exchange(data, i, j)[i] = data[j]
            /\ Exchange(data, i, j)[j] = data[i]
            /\ \A k \in R \ {i, j} : Exchange(data, i, j)[k] = data[k]
        BY <3>0 DEF Exchange
      <4> QED
        BY <2>4, <4>1
    <3>3. /\ \A k \in R : key[k] = job.input[data[k]]
          /\ \A k, l \in R : data[k] = data[l] => k = l
      BY DEF RowsWhole
    <3>4. i \in R /\ j \in R
      BY <2>1
    <3> HIDE DEF R
    <3>5. ASSUME NEW k \in R PROVE key'[k] = job.input[data'[k]]
      <4>1. CASE k \in R \ {i, j}
        BY <4>1, <3>1, <3>2, <3>3
      <4>2. CASE k = i
        BY <4>2, <3>1, <3>2, <3>3, <3>4
      <4>3. CASE k = j
        BY <4>3, <3>1, <3>2, <3>3, <3>4
      <4> QED
        BY <4>1, <4>2, <4>3
    <3>6. ASSUME NEW k \in R, NEW l \in R, data'[k] = data'[l] PROVE k = l
      BY <3>2, <3>3, <3>4, <3>6
    <3> QED
      BY <2>3, <3>5, <3>6 DEF RowsWhole, R
  <2> QED
    BY <2>2, <2>3, <2>4, <1>1
<1>3. CASE Descend
  BY <1>3, <1>1 DEF Descend
<1>4. CASE UNCHANGED vars
  BY <1>4, <1>1 DEF vars
<1> QED
  BY <1>2, <1>3, <1>4 DEF Next, Terminated

(* cmp_swap moves a row's data by the control that moves its key (number.h *)
(* 6-12, emp_utils.cpp 405-418), so for any keys and any numbers of rows no*)
(* row is ever torn apart, lost or doubled.                                *)
THEOREM RowsStayWhole == Spec => []RowsWhole
<1> QED
  BY TypeCorrect, InitRows, NextRows, PTL DEF Spec
-----------------------------------------------------------------------------
(* A set of rows that has with every row the one before it is cut off at a *)
(* point.                                                                  *)
LEMMA CutPoint ==
  ASSUME NEW S, NEW lo \in Nat, NEW n \in Nat,
         \A i \in lo + 1 .. lo + n - 1 : i \in S => i - 1 \in S
  PROVE  \E a \in lo .. lo + n : \A i \in lo .. lo + n - 1 : i \in S <=> i < a
<1> DEFINE Ends == {a \in Nat : /\ lo <= a /\ a <= lo + n
                                /\ \A i \in lo .. lo + n - 1 : a <= i => i \notin S}
<1>1. PICK a \in Ends : \A y \in Ends : ~ (<<y, a>> \in OpToRel(<, Nat))
  <2>1. lo + n \in Ends
    OBVIOUS
  <2> QED
    BY <2>1, WFMin, NatLessThanWellFounded, Zenon
<1>2. \A y \in Ends : ~ (y < a)
  BY <1>1, Zenon DEF OpToRel
<1>3. /\ a \in Nat /\ lo <= a /\ a <= lo + n
      /\ \A i \in lo .. lo + n - 1 : a <= i => i \notin S
  OBVIOUS
<1>4. lo < a => a - 1 \in S
  <2> SUFFICES ASSUME lo < a, a - 1 \notin S PROVE FALSE
    OBVIOUS
  <2>1. a - 1 \in Nat /\ lo <= a - 1 /\ a - 1 <= lo + n /\ a - 1 < a
    BY <1>3
  <2>2. \A i \in lo .. lo + n - 1 : a - 1 <= i => i \notin S
    BY <1>3
  <2>3. a - 1 \in Ends
    BY <2>1, <2>2
  <2> QED
    BY <1>2, <2>1, <2>3
<1> HIDE DEF Ends
<1> DEFINE Gaps == {d \in Nat : lo <= a - 1 - d /\ a - 1 - d \notin S}
<1>5. Gaps = {}
  <2> SUFFICES ASSUME Gaps # {} PROVE FALSE
    OBVIOUS
  <2>1. PICK d \in Gaps : \A y \in Gaps : ~ (<<y, d>> \in OpToRel(<, Nat))
    BY WFMin, NatLessThanWellFounded, Zenon
  <2>2. \A y \in Gaps : ~ (y < d)
    BY <2>1, Zenon DEF OpToRel
  <2>3. d \in Nat /\ lo <= a - 1 - d /\ a - 1 - d \notin S
    OBVIOUS
  <2>4. d # 0
    BY <1>3, <1>4, <2>3
  <2>5. a - 1 - (d - 1) \in S
    <3>1. d - 1 \in Nat /\ d - 1 < d /\ lo <= a - 1 - (d - 1)
      BY <1>3, <2>3, <2>4
    <3>2. d - 1 \notin Gaps
      BY <2>2, <3>1
    <3> QED
      BY <3>1, <3>2
  <2>6. a - 1 - (d - 1) \in lo + 1 .. lo + n - 1
    BY <1>3, <2>3, <2>4
  <2>7. (a - 1 - (d - 1)) - 1 \in S
    BY <2>5, <2>6
  <2> QED
    BY <1>3, <2>3, <2>7
<1>6. ASSUME NEW i \in lo .. lo + n - 1, i < a PROVE i \in S
  <2>1. a - 1 - i \in Nat /\ a - 1 - (a - 1 - i) = i
    BY <1>3, <1>6
  <2>2. a - 1 - i \notin Gaps
    BY <1>5
  <2> QED
    BY <2>1, <2>2
<1>7. a \in lo .. lo + n
  BY <1>3
<1>8. ASSUME NEW i \in lo .. lo + n - 1 PROVE i \in S <=> i < a
  BY <1>3, <1>6
<1> QED
  BY <1>7, <1>8
-----------------------------------------------------------------------------
(* What a pending call promises, whatever the keys are when it is made.    *)

Rows == 0 .. job.n - 1
Span(c) == c.lo .. c.lo + c.n - 1

(* Rows outside the span stay; rows inside it get keys from inside it.     *)
Rearranged(c, k, l) == /\ \A i \in Rows : i \notin Span(c) => l[i] = k[i]
                       /\ \A i \in Span(c) : \E j \in Span(c) : l[i] = k[j]

InOrder(c, l) == \A i, j \in Span(c) : i <= j => Before(l[i], l[j], c.up)

(* The rows whose key belongs behind t. *)
Behind(k, t, up) == {i \in Rows : IF up THEN k[i] > t ELSE k[i] < t}

(* What bitonic_merge asks of the rows it is given: at every threshold, a  *)
(* valley, or for a power of two a hill.                                   *)
Mergeable(c, k) ==
  \/ \A t \in Int : Valley(Behind(k, t, c.up), c.lo, c.n)
  \/ /\ PowerOfTwo(c.n)
     /\ \A t \in Int : \/ Valley(Behind(k, t, c.up), c.lo, c.n)
                       \/ Hill(Behind(k, t, c.up), c.lo, c.n)

(* The keys of rows i and j are put in order and nothing else is touched.  *)
PairOrdered(k, l, i, j, up) ==
  /\ Before(l[i], l[j], up)
  /\ \/ l[i] = k[i] /\ l[j] = k[j]
     \/ l[i] = k[j] /\ l[j] = k[i]
Compared(k, l, i, j, up) == /\ PairOrdered(k, l, i, j, up)
                            /\ \A x \in Rows : x # i /\ x # j => l[x] = k[x]

(* The call c may turn the keys k into l. *)
Keeps(c, k, l) ==
  /\ c.f = "sort"  => Rearranged(c, k, l) /\ InOrder(c, l)
  /\ c.f = "merge" => Rearranged(c, k, l) /\ (Mergeable(c, k) => InOrder(c, l))
  /\ c.f = "swap"  => Compared(k, l, c.lo, c.lo + c.n, c.up)

(* The keys before each of the calls s, and after the last one.            *)
IsRun(run, s, k) == /\ run \in [1 .. Len(s) + 1 -> Inputs(job.n)]
                    /\ run[1] = k
                    /\ \A q \in 1 .. Len(s) : Keeps(s[q], run[q], run[q + 1])

Sorted(k) == \A i \in 0 .. job.n - 2 : Before(k[i], k[i + 1], job.up)

(* Whatever the calls s make of the keys k, the keys end up sorted.        *)
Promises(s, k) == \A run : IsRun(run, s, k) => Sorted(run[Len(s) + 1])

(* bitonic_merge is given a power of two of rows. *)
Covered == job.call = "merge" => PowerOfTwo(job.n)

(* The pending calls will sort the keys as they are now.                   *)
PromiseKept == Covered => Promises(todo, key)
-----------------------------------------------------------------------------
(* Keys are integers. *)
LEMMA KeyInt ==
  ASSUME NEW k \in Inputs(job.n), NEW i \in Rows
  PROVE  k[i] \in Int
<1>1. k[i] \in Keys
  BY DEF Inputs, Rows
<1> QED
  BY <1>1, SortAssumption

(* Two rows are in order when at every threshold the second is behind it   *)
(* whenever the first is.                                                  *)
LEMMA OrderedAtThresholds ==
  ASSUME NEW k \in Inputs(job.n), NEW i \in Rows, NEW j \in Rows, NEW up \in BOOLEAN,
         \A t \in Int : i \in Behind(k, t, up) => j \in Behind(k, t, up)
  PROVE  Before(k[i], k[j], up)
<1>1. k[i] \in Int /\ k[j] \in Int
  BY KeyInt
<1>2. \A t \in Int : (IF up THEN k[i] > t ELSE k[i] < t) => (IF up THEN k[j] > t ELSE k[j] < t)
  BY DEF Behind
<1>3. (IF up THEN k[i] > k[j] ELSE k[i] < k[j]) => (IF up THEN k[j] > k[j] ELSE k[j] < k[j])
  BY <1>1, <1>2
<1> QED
  BY <1>1, <1>3 DEF Before

(* The comparisons of one merge, each row of lo .. lo + r - 1 with the row *)
(* m further on.                                                           *)
Crossed(k, l, lo, r, m, up) ==
  /\ \A i \in lo .. lo + r - 1 : PairOrdered(k, l, i, i + m, up)
  /\ \A x \in Rows : ~ (lo <= x /\ x < lo + r) /\ ~ (lo + m <= x /\ x < lo + m + r)
                       => l[x] = k[x]

(* At every threshold the comparisons pull the rows behind it to the far   *)
(* rows of their pairs.                                                    *)
LEMMA CrossedPulls ==
  ASSUME NEW k \in Inputs(job.n), NEW l \in Inputs(job.n), NEW up \in BOOLEAN, NEW t \in Int,
         NEW lo \in Nat, NEW r \in Nat, NEW m \in Nat, r <= m, lo + m + r <= job.n,
         job.n \in Nat, Crossed(k, l, lo, r, m, up)
  PROVE  Pulled(Behind(k, t, up), Behind(l, t, up), lo, r, m)
<1>1. ASSUME NEW i \in lo .. lo + r - 1
      PROVE  /\ i \in Behind(l, t, up) <=> (i \in Behind(k, t, up) /\ i + m \in Behind(k, t, up))
             /\ i + m \in Behind(l, t, up) <=> (i \in Behind(k, t, up) \/ i + m \in Behind(k, t, up))
  <2>1. i \in Rows /\ i + m \in Rows
    BY DEF Rows
  <2>2. k[i] \in Int /\ k[i + m] \in Int /\ l[i] \in Int /\ l[i + m] \in Int
    BY <2>1, KeyInt
  <2>3. /\ Before(l[i], l[i + m], up)
        /\ \/ l[i] = k[i] /\ l[i + m] = k[i + m]
           \/ l[i] = k[i + m] /\ l[i + m] = k[i]
    BY DEF Crossed, PairOrdered
  <2>4. PICK x \in Int, y \in Int, u \in Int, v \in Int :
          x = k[i] /\ y = k[i + m] /\ u = l[i] /\ v = l[i + m]
    BY <2>2
  <2>5. Before(u, v, up) /\ ((u = x /\ v = y) \/ (u = y /\ v = x))
    BY <2>3, <2>4
  <2>6. /\ i \in Behind(l, t, up) <=> IF up THEN u > t ELSE u < t
        /\ i + m \in Behind(l, t, up) <=> IF up THEN v > t ELSE v < t
        /\ i \in Behind(k, t, up) <=> IF up THEN x > t ELSE x < t
        /\ i + m \in Behind(k, t, up) <=> IF up THEN y > t ELSE y < t
    BY <2>1, <2>4 DEF Behind
  <2>7. CASE up
    <3>1. u <= v /\ ((u = x /\ v = y) \/ (u = y /\ v = x))
      BY <2>5, <2>7 DEF Before
    <3>2. /\ i \in Behind(l, t, up) <=> u > t
          /\ i + m \in Behind(l, t, up) <=> v > t
          /\ i \in Behind(k, t, up) <=> x > t
          /\ i + m \in Behind(k, t, up) <=> y > t
      BY <2>6, <2>7
    <3> QED
      BY <3>1, <3>2
  <2>8. CASE ~ up
    <3>1. v <= u /\ ((u = x /\ v = y) \/ (u = y /\ v = x))
      BY <2>5, <2>8 DEF Before
    <3>2. /\ i \in Behind(l, t, up) <=> u < t
          /\ i + m \in Behind(l, t, up) <=> v < t
          /\ i \in Behind(k, t, up) <=> x < t
          /\ i + m \in Behind(k, t, up) <=> y < t
      BY <2>6, <2>8
    <3> QED
      BY <3>1, <3>2
  <2> QED
    BY <2>7, <2>8
<1>2. ASSUME NEW i \in lo + r .. lo + m - 1
      PROVE  i \in Behind(l, t, up) <=> i \in Behind(k, t, up)
  <2>1. i \in Rows /\ ~ (lo <= i /\ i < lo + r) /\ ~ (lo + m <= i /\ i < lo + m + r)
    BY DEF Rows
  <2>2. l[i] = k[i]
    BY <2>1 DEF Crossed
  <2> QED
    BY <2>2 DEF Behind
<1> QED
  BY <1>1, <1>2 DEF Pulled

(* One more comparison of a merge. *)
LEMMA OneMoreCrossed ==
  ASSUME NEW k, NEW l, NEW o, NEW up \in BOOLEAN, job.n \in Nat,
         NEW lo \in Nat, NEW r \in Nat, NEW m \in Nat, r < m, lo + r + m < job.n,
         Crossed(k, l, lo, r, m, up), Compared(l, o, lo + r, lo + r + m, up)
  PROVE  Crossed(k, o, lo, r + 1, m, up)
<1>1. \A x \in Rows : x # lo + r /\ x # lo + r + m => o[x] = l[x]
  BY DEF Compared
<1>2. lo + r \in Rows /\ lo + r + m \in Rows
  BY DEF Rows
<1>3. l[lo + r] = k[lo + r] /\ l[lo + r + m] = k[lo + r + m]
  BY <1>2 DEF Crossed
<1>4. ASSUME NEW i \in lo .. lo + (r + 1) - 1
      PROVE  PairOrdered(k, o, i, i + m, up)
  <2>1. CASE i = lo + r
    <3>1. PairOrdered(l, o, i, i + m, up)
      BY <2>1 DEF Compared
    <3>2. l[i] = k[i] /\ l[i + m] = k[i + m]
      BY <2>1, <1>3
    <3> QED
      BY <3>1, <3>2 DEF PairOrdered
  <2>2. CASE i # lo + r
    <3>1. i \in lo .. lo + r - 1 /\ i \in Rows /\ i + m \in Rows
      BY <2>2 DEF Rows
    <3>2. i + m # lo + r /\ i + m # lo + r + m /\ i # lo + r + m
      BY <3>1
    <3>3. o[i] = l[i] /\ o[i + m] = l[i + m]
      BY <1>1, <2>2, <3>1, <3>2
    <3>4. PairOrdered(k, l, i, i + m, up)
      BY <3>1 DEF Crossed
    <3> QED
      BY <3>3, <3>4 DEF PairOrdered
  <2> QED
    BY <2>1, <2>2
<1>5. ASSUME NEW x \in Rows, ~ (lo <= x /\ x < lo + (r + 1)),
             ~ (lo + m <= x /\ x < lo + m + (r + 1))
      PROVE  o[x] = k[x]
  <2>1. x # lo + r /\ x # lo + r + m
    BY <1>5
  <2>2. ~ (lo <= x /\ x < lo + r) /\ ~ (lo + m <= x /\ x < lo + m + r)
    BY <1>5 DEF Rows
  <2>3. l[x] = k[x]
    BY <2>2 DEF Crossed
  <2> QED
    BY <1>1, <2>1, <2>3
<1> QED
  BY <1>4, <1>5 DEF Crossed

(* The comparisons of a merge, one after the other.                        *)
LEMMA SwapsCross ==
  ASSUME NEW run, NEW up \in BOOLEAN, job.n \in Nat,
         NEW lo \in Nat, NEW r \in Nat, NEW m \in Nat, r <= m, lo + m + r <= job.n,
         \A q \in 1 .. r : Compared(run[q], run[q + 1], lo + q - 1, (lo + q - 1) + m, up)
  PROVE  Crossed(run[1], run[r + 1], lo, r, m, up)
<1> DEFINE Odd == {q \in Nat : q <= r /\ ~ Crossed(run[1], run[q + 1], lo, q, m, up)}
<1>1. Odd = {}
  <2> SUFFICES ASSUME Odd # {} PROVE FALSE
    OBVIOUS
  <2>1. PICK q \in Odd : \A y \in Odd : ~ (<<y, q>> \in OpToRel(<, Nat))
    BY WFMin, NatLessThanWellFounded, Zenon
  <2>2. \A y \in Odd : ~ (y < q)
    BY <2>1, Zenon DEF OpToRel
  <2>3. Crossed(run[1], run[0 + 1], lo, 0, m, up)
    BY DEF Crossed
  <2>4. q # 0
    BY <2>3
  <2>5. PICK p \in Nat : q = p + 1
    BY <2>4
  <2>6. Crossed(run[1], run[p + 1], lo, p, m, up)
    BY <2>2, <2>5
  <2>7. q \in 1 .. r /\ lo + q - 1 = lo + p
    BY <2>5
  <2>8. Compared(run[p + 1], run[q + 1], lo + p, lo + p + m, up)
    BY <2>5, <2>7
  <2>9. p < m /\ lo + p + m < job.n
    BY <2>5, <2>7
  <2>10. Crossed(run[1], run[q + 1], lo, p + 1, m, up)
    BY <2>6, <2>8, <2>9, OneMoreCrossed
  <2> QED
    BY <2>5, <2>10
<1>2. r \notin Odd
  BY <1>1, Zenon
<1> QED
  BY <1>2
-----------------------------------------------------------------------------
(* A call inside the span of another rearranges the rows of that one too. *)
LEMMA Widened ==
  ASSUME NEW c, NEW d, NEW k, NEW l,
         Span(d) \subseteq Span(c), Span(c) \subseteq Rows, Rearranged(d, k, l)
  PROVE  Rearranged(c, k, l)
<1> HIDE DEF Rows
<1>1. ASSUME NEW i \in Rows, i \notin Span(c) PROVE l[i] = k[i]
  BY <1>1 DEF Rearranged
<1>2. ASSUME NEW i \in Span(c) PROVE \E j \in Span(c) : l[i] = k[j]
  <2>1. CASE i \in Span(d)
    BY <2>1 DEF Rearranged
  <2>2. CASE i \notin Span(d)
    BY <2>2 DEF Rearranged
  <2> QED
    BY <2>1, <2>2
<1> QED
  BY <1>1, <1>2 DEF Rearranged

(* Rows rearranged twice are rearranged. *)
LEMMA RearrangedTwice ==
  ASSUME NEW c, NEW k, NEW l, NEW o, Rearranged(c, k, l), Rearranged(c, l, o)
  PROVE  Rearranged(c, k, o)
<1>1. ASSUME NEW i \in Rows, i \notin Span(c) PROVE o[i] = k[i]
  BY <1>1 DEF Rearranged
<1>2. ASSUME NEW i \in Span(c) PROVE \E j \in Span(c) : o[i] = k[j]
  <2>1. PICK j \in Span(c) : o[i] = l[j]
    BY DEF Rearranged
  <2>2. PICK x \in Span(c) : l[j] = k[x]
    BY DEF Rearranged
  <2> QED
    BY <2>1, <2>2
<1> QED
  BY <1>1, <1>2 DEF Rearranged

(* The comparisons of a merge rearrange its rows. *)
LEMMA CrossedRearranges ==
  ASSUME NEW c, NEW k, NEW l, NEW m \in Nat, job.n \in Nat,
         c.lo \in Nat, c.n \in Nat, c.lo + c.n <= job.n, m <= c.n, c.n <= 2 * m,
         Crossed(k, l, c.lo, c.n - m, m, c.up)
  PROVE  Rearranged(c, k, l)
<1>1. PICK lo \in Nat, r \in Nat : lo = c.lo /\ r = c.n - m /\ c.n = m + r
  OBVIOUS
<1>2. r <= m /\ lo + m + r <= job.n /\ Span(c) = lo .. lo + m + r - 1
  <2>1. c.lo + c.n - 1 = lo + m + r - 1 /\ r <= m /\ lo + m + r <= job.n
    BY <1>1
  <2> QED
    BY <1>1, <2>1 DEF Span
<1>3. Crossed(k, l, lo, r, m, c.up)
  BY <1>1
<1>4. ASSUME NEW i \in Rows, i \notin lo .. lo + m + r - 1 PROVE l[i] = k[i]
  <2>1. ~ (lo <= i /\ i < lo + r) /\ ~ (lo + m <= i /\ i < lo + m + r)
    BY <1>2, <1>4 DEF Rows
  <2> QED
    BY <2>1, <1>3 DEF Crossed
<1>5. ASSUME NEW i \in lo .. lo + m + r - 1 PROVE \E j \in lo .. lo + m + r - 1 : l[i] = k[j]
  <2>1. CASE i \in lo .. lo + r - 1
    <3>1. PairOrdered(k, l, i, i + m, c.up)
      BY <2>1, <1>3 DEF Crossed
    <3>2. i + m \in lo .. lo + m + r - 1
      BY <2>1
    <3>3. l[i] = k[i] \/ l[i] = k[i + m]
      BY <3>1 DEF PairOrdered
    <3> QED
      BY <3>2, <3>3
  <2>2. CASE i \in lo + m .. lo + m + r - 1
    <3>1. PICK x \in lo .. lo + r - 1 : i = x + m
      <4>1. i - m \in lo .. lo + r - 1 /\ i = (i - m) + m
        BY <2>2
      <4> QED
        BY <4>1
    <3>2. PairOrdered(k, l, x, i, c.up)
      BY <3>1, <1>3 DEF Crossed
    <3>3. x \in lo .. lo + m + r - 1
      BY <3>1
    <3>4. l[i] = k[i] \/ l[i] = k[x]
      BY <3>2 DEF PairOrdered
    <3> QED
      BY <3>3, <3>4
  <2>3. CASE i \in lo + r .. lo + m - 1
    <3>1. i \in Rows /\ ~ (lo <= i /\ i < lo + r) /\ ~ (lo + m <= i /\ i < lo + m + r)
      BY <1>2, <2>3 DEF Rows
    <3>2. l[i] = k[i]
      BY <3>1, <1>3 DEF Crossed
    <3> QED
      BY <3>2
  <2> QED
    BY <1>2, <2>1, <2>2, <2>3
<1> QED
  BY <1>2, <1>4, <1>5 DEF Rearranged

(* Whether rows can be merged is decided by their own keys.                *)
LEMMA SameMergeable ==
  ASSUME NEW c, NEW k, NEW l, Span(c) \subseteq Rows,
         \A i \in Span(c) : l[i] = k[i], Mergeable(c, k)
  PROVE  Mergeable(c, l)
<1>1. ASSUME NEW t \in Int
      PROVE  /\ Valley(Behind(k, t, c.up), c.lo, c.n) => Valley(Behind(l, t, c.up), c.lo, c.n)
             /\ Hill(Behind(k, t, c.up), c.lo, c.n) => Hill(Behind(l, t, c.up), c.lo, c.n)
  <2> DEFINE S == Behind(k, t, c.up)
             T == Behind(l, t, c.up)
  <2>1. \A i \in c.lo .. c.lo + c.n - 1 : i \in S <=> i \in T
    BY DEF Span, Behind
  <2> HIDE DEF S, T
  <2>2. Valley(S, c.lo, c.n) => Valley(T, c.lo, c.n)
    BY <2>1, Zenon DEF Valley
  <2>3. Hill(S, c.lo, c.n) => Hill(T, c.lo, c.n)
    BY <2>1, Zenon DEF Hill
  <2> QED
    BY <2>2, <2>3 DEF S, T
<1> QED
  BY <1>1 DEF Mergeable

(* After the comparisons both parts of a merge can be merged, and every    *)
(* row of the first is in order with every row of the second.              *)
LEMMA CrossedParts ==
  ASSUME NEW c, NEW k \in Inputs(job.n), NEW l \in Inputs(job.n), NEW m \in Nat,
         NEW r \in Nat, job.n \in Nat,
         c.lo \in Nat, c.n \in Nat, c.up \in BOOLEAN, c.lo + c.n <= job.n,
         m = GreatestPowerOfTwoLessThan(c.n), r = c.n - m, c.n > 1,
         Crossed(k, l, c.lo, r, m, c.up), Mergeable(c, k)
  PROVE  /\ Mergeable(Merge(c.lo, m, c.up), l)
         /\ Mergeable(Merge(c.lo + m, r, c.up), l)
         /\ \A i \in c.lo .. c.lo + m - 1, j \in c.lo + m .. c.lo + m + r - 1 :
               Before(l[i], l[j], c.up)
<1>1. m \in 1 .. c.n - 1 /\ PowerOfTwo(m)
  BY GreatestPower
<1>2. c.n <= 2 * m
  BY HalfOrMore
<1>3. PowerOfTwo(c.n) => r = m
  BY ExactHalf
<1>4. PICK lo \in Nat : lo = c.lo
  OBVIOUS
<1>5. 0 < r /\ r <= m /\ c.n = m + r /\ lo + m + r <= job.n
  BY <1>1, <1>2, <1>4
<1>6. Crossed(k, l, lo, r, m, c.up)
  BY <1>4
<1>7. ASSUME NEW t \in Int
      PROVE  Pulled(Behind(k, t, c.up), Behind(l, t, c.up), lo, r, m)
  BY <1>5, <1>6, CrossedPulls
<1> DEFINE S(t) == Behind(k, t, c.up)
           T(t) == Behind(l, t, c.up)
           Far(t) == \A i \in lo .. lo + m - 1, j \in lo + m .. lo + m + r - 1 :
                       i \in T(t) => j \in T(t)
<1>8. ASSUME NEW t \in Int, Valley(S(t), lo, m + r)
      PROVE  (Valley(T(t), lo, m) \/ Hill(T(t), lo, m)) /\ Valley(T(t), lo + m, r) /\ Far(t)
  <2>1. Pulled(S(t), T(t), lo, r, m)
    BY <1>7
  <2> HIDE DEF S, T
  <2> QED
    BY <1>5, <1>8, <2>1, ValleyPulled
<1>9. ASSUME NEW t \in Int, PowerOfTwo(c.n), Hill(S(t), lo, m + r)
      PROVE  Hill(T(t), lo, m) /\ (Valley(T(t), lo + m, r) \/ Hill(T(t), lo + m, r)) /\ Far(t)
  <2>1. Pulled(S(t), T(t), lo, m, m) /\ r = m
    BY <1>3, <1>7, <1>9
  <2>2. Hill(S(t), lo, m + m)
    BY <1>9, <2>1
  <2> HIDE DEF S, T, Far
  <2>3. /\ Hill(T(t), lo, m)
        /\ Valley(T(t), lo + m, m) \/ Hill(T(t), lo + m, m)
        /\ \A i \in lo .. lo + m - 1, j \in lo + m .. lo + m + m - 1 :
             i \in T(t) => j \in T(t)
    <3>1. 0 < m
      BY <1>5
    <3> QED
      BY <2>1, <2>2, <3>1, HillPulled
  <2> QED
    BY <2>1, <2>3 DEF Far
<1>10. \/ \A t \in Int : Valley(S(t), lo, m + r)
       \/ /\ PowerOfTwo(c.n)
          /\ \A t \in Int : Valley(S(t), lo, m + r) \/ Hill(S(t), lo, m + r)
  BY <1>4, <1>5 DEF Mergeable
<1> HIDE DEF S, T, Far
<1>11. \A t \in Int : Valley(T(t), lo, m) \/ Hill(T(t), lo, m)
  BY <1>8, <1>9, <1>10
<1>12. \/ \A t \in Int : Valley(T(t), lo + m, r)
       \/ PowerOfTwo(r) /\ \A t \in Int : Valley(T(t), lo + m, r) \/ Hill(T(t), lo + m, r)
  <2>1. CASE \A t \in Int : Valley(S(t), lo, m + r)
    BY <2>1, <1>8
  <2>2. CASE /\ PowerOfTwo(c.n)
             /\ \A t \in Int : Valley(S(t), lo, m + r) \/ Hill(S(t), lo, m + r)
    <3>1. PowerOfTwo(r)
      BY <1>1, <1>3, <2>2
    <3> QED
      BY <1>8, <1>9, <2>2, <3>1
  <2> QED
    BY <1>10, <2>1, <2>2
<1>13. \A t \in Int : Far(t)
  BY <1>8, <1>9, <1>10
<1>14. Mergeable(Merge(c.lo, m, c.up), l)
  <2>1. PICK d : d = Merge(c.lo, m, c.up)
    OBVIOUS
  <2>2. d.lo = lo /\ d.n = m /\ d.up = c.up
    BY <1>4, <2>1 DEF Merge
  <2>3. Mergeable(d, l)
    BY <1>1, <1>11, <2>2 DEF Mergeable, T
  <2> QED
    BY <2>1, <2>3
<1>15. Mergeable(Merge(c.lo + m, r, c.up), l)
  <2>1. PICK d : d = Merge(c.lo + m, r, c.up)
    OBVIOUS
  <2>2. d.lo = lo + m /\ d.n = r /\ d.up = c.up
    BY <1>4, <2>1 DEF Merge
  <2>3. Mergeable(d, l)
    BY <1>12, <2>2 DEF Mergeable, T
  <2> QED
    BY <2>1, <2>3
<1>16. ASSUME NEW i \in lo .. lo + m - 1, NEW j \in lo + m .. lo + m + r - 1
       PROVE  Before(l[i], l[j], c.up)
  <2>1. i \in Rows /\ j \in Rows
    BY <1>5 DEF Rows
  <2>2. \A t \in Int : i \in Behind(l, t, c.up) => j \in Behind(l, t, c.up)
    BY <1>13 DEF Far, T
  <2> QED
    BY <2>1, <2>2, OrderedAtThresholds
<1> QED
  BY <1>4, <1>14, <1>15, <1>16
(* A segment of m + r rows and its two parts. *)
LEMMA TwoParts ==
  ASSUME NEW lo \in Nat, NEW m \in Nat, NEW r \in Nat
  PROVE  /\ lo .. lo + m - 1 \subseteq lo .. lo + m + r - 1
         /\ lo + m .. lo + m + r - 1 \subseteq lo .. lo + m + r - 1
         /\ \A i \in lo .. lo + m - 1 : i \notin lo + m .. lo + m + r - 1
         /\ \A i \in lo + m .. lo + m + r - 1 : i \notin lo .. lo + m - 1
         /\ \A i \in lo .. lo + m + r - 1 :
               i \in lo .. lo + m - 1 \/ i \in lo + m .. lo + m + r - 1
         /\ \A i \in lo .. lo + m - 1, j \in lo + m .. lo + m + r - 1 : i < j
  OBVIOUS

(* A merge of n > 1 rows does what it promises when its comparisons and    *)
(* its two merges do.                                                      *)
LEMMA MergeParts ==
  ASSUME NEW c, NEW m \in Nat, NEW r \in Nat, job.n \in Nat,
         c.lo \in Nat, c.n \in Nat, c.up \in BOOLEAN, c.lo + c.n <= job.n,
         m = GreatestPowerOfTwoLessThan(c.n), r = c.n - m, c.n > 1,
         NEW k \in Inputs(job.n), NEW k1 \in Inputs(job.n),
         NEW k2 \in Inputs(job.n), NEW k3 \in Inputs(job.n),
         Crossed(k, k1, c.lo, r, m, c.up),
         Keeps(Merge(c.lo, m, c.up), k1, k2), Keeps(Merge(c.lo + m, r, c.up), k2, k3)
  PROVE  Rearranged(c, k, k3) /\ (Mergeable(c, k) => InOrder(c, k3))
<1> DEFINE d == Merge(c.lo, m, c.up)
           e == Merge(c.lo + m, r, c.up)
<1>1. m \in 1 .. c.n - 1 /\ c.n <= 2 * m
  BY GreatestPower, HalfOrMore
<1>2. PICK lo \in Nat : lo = c.lo
  OBVIOUS
<1>3. 0 < r /\ r <= m /\ c.n = m + r /\ lo + m + r <= job.n
  BY <1>1, <1>2
<1>4. /\ d.f = "merge" /\ d.lo = lo /\ d.n = m /\ d.up = c.up
      /\ e.f = "merge" /\ e.lo = lo + m /\ e.n = r /\ e.up = c.up
  BY <1>2 DEF Merge
<1> HIDE DEF d, e
<1>5. /\ Span(d) = lo .. lo + m - 1
      /\ Span(e) = lo + m .. lo + m + r - 1
      /\ Span(c) = lo .. lo + m + r - 1
  <2>1. c.lo + c.n - 1 = lo + m + r - 1
    BY <1>2, <1>3
  <2> QED
    BY <1>2, <1>4, <2>1 DEF Span
<1>6. /\ Span(d) \subseteq Span(c) /\ Span(e) \subseteq Span(c) /\ Span(c) \subseteq Rows
      /\ \A i \in Span(d) : i \notin Span(e)
      /\ \A i \in Span(e) : i \notin Span(d)
      /\ \A i \in Span(c) : i \in Span(d) \/ i \in Span(e)
      /\ \A i \in Span(d), j \in Span(e) : i < j
  <2>1. lo .. lo + m + r - 1 \subseteq Rows
    BY <1>3 DEF Rows
  <2>2. /\ lo .. lo + m - 1 \subseteq lo .. lo + m + r - 1
        /\ lo + m .. lo + m + r - 1 \subseteq lo .. lo + m + r - 1
        /\ \A i \in lo .. lo + m - 1 : i \notin lo + m .. lo + m + r - 1
        /\ \A i \in lo + m .. lo + m + r - 1 : i \notin lo .. lo + m - 1
        /\ \A i \in lo .. lo + m + r - 1 :
              i \in lo .. lo + m - 1 \/ i \in lo + m .. lo + m + r - 1
        /\ \A i \in lo .. lo + m - 1, j \in lo + m .. lo + m + r - 1 : i < j
    BY TwoParts
  <2> QED
    BY <1>5, <2>1, <2>2, Zenon
<1>7. /\ Rearranged(d, k1, k2) /\ (Mergeable(d, k1) => InOrder(d, k2))
      /\ Rearranged(e, k2, k3) /\ (Mergeable(e, k2) => InOrder(e, k3))
  <2>1. Keeps(d, k1, k2) /\ Keeps(e, k2, k3)
    BY DEF d, e
  <2> QED
    BY <1>4, <2>1 DEF Keeps
<1>8. Rearranged(c, k, k3)
  <2>1. Rearranged(c, k, k1)
    <3>1. Crossed(k, k1, c.lo, c.n - m, m, c.up) /\ m <= c.n
      BY <1>1
    <3> QED
      BY <1>1, <3>1, CrossedRearranges
  <2>2. Rearranged(c, k1, k2) /\ Rearranged(c, k2, k3)
    BY <1>6, <1>7, Widened
  <2> QED
    BY <2>1, <2>2, RearrangedTwice, Zenon
<1>9. ASSUME Mergeable(c, k) PROVE InOrder(c, k3)
  <2>1. /\ Mergeable(d, k1) /\ Mergeable(e, k1)
        /\ \A i \in c.lo .. c.lo + m - 1, j \in c.lo + m .. c.lo + m + r - 1 :
             Before(k1[i], k1[j], c.up)
    BY <1>9, CrossedParts DEF d, e
  <2>2. \A i \in Span(d), j \in Span(e) : Before(k1[i], k1[j], c.up)
    BY <1>2, <1>5, <2>1, Zenon
  <2>3. \A i \in Span(e) : k2[i] = k1[i]
    BY <1>6, <1>7 DEF Rearranged
  <2>4. \A i \in Span(d) : k3[i] = k2[i]
    BY <1>6, <1>7 DEF Rearranged
  <2>5. Mergeable(e, k2)
    <3>1. Span(e) \subseteq Rows
      BY <1>6
    <3> QED
      BY <2>1, <2>3, <3>1, SameMergeable
  <2>6. InOrder(d, k2) /\ InOrder(e, k3)
    BY <1>7, <2>1, <2>5
  <2>7. ASSUME NEW i \in Span(d), NEW j \in Span(e) PROVE Before(k3[i], k3[j], c.up)
    <3>1. PICK x \in Span(d) : k2[i] = k1[x]
      BY <1>7 DEF Rearranged
    <3>2. PICK y \in Span(e) : k3[j] = k2[y]
      BY <1>7 DEF Rearranged
    <3>3. k3[i] = k1[x] /\ k3[j] = k1[y]
      BY <2>3, <2>4, <3>1, <3>2
    <3> QED
      BY <2>2, <3>3
  <2>8. ASSUME NEW i \in Span(c), NEW j \in Span(c), i <= j
        PROVE  Before(k3[i], k3[j], c.up)
    <3>1. CASE i \in Span(d) /\ j \in Span(d)
      <4>1. Before(k2[i], k2[j], d.up)
        BY <2>6, <2>8, <3>1 DEF InOrder
      <4> QED
        BY <1>4, <2>4, <3>1, <4>1
    <3>2. CASE i \in Span(e) /\ j \in Span(e)
      <4>1. Before(k3[i], k3[j], e.up)
        BY <2>6, <2>8, <3>2 DEF InOrder
      <4> QED
        BY <1>4, <4>1
    <3>3. CASE i \in Span(d) /\ j \in Span(e)
      BY <2>7, <3>3
    <3>4. CASE i \in Span(e) /\ j \in Span(d)
      <4>1. j < i /\ i \in Int /\ j \in Int
        BY <1>5, <1>6, <3>4
      <4> QED
        BY <2>8, <4>1
    <3> QED
      BY <1>6, <3>1, <3>2, <3>3, <3>4
  <2> QED
    BY <2>8 DEF InOrder
<1> QED
  BY <1>8, <1>9

(* Two halves sorted in opposite directions make a valley at every         *)
(* threshold.                                                              *)
LEMMA HalvesValley ==
  ASSUME NEW k \in Inputs(job.n), NEW lo \in Nat, NEW m \in Nat, NEW r \in Nat,
         NEW up \in BOOLEAN, NEW t \in Int, job.n \in Nat, lo + m + r <= job.n,
         \A i, j \in lo .. lo + m - 1 : i <= j => Before(k[i], k[j], ~ up),
         \A i, j \in lo + m .. lo + m + r - 1 : i <= j => Before(k[i], k[j], up)
  PROVE  Valley(Behind(k, t, up), lo, m + r)
<1> DEFINE S == Behind(k, t, up)
           F == {i \in Rows : i \notin S}
<1>1. ASSUME NEW i \in lo + 1 .. lo + m - 1, i \in S PROVE i - 1 \in S
  <2>1. i - 1 \in lo .. lo + m - 1 /\ i \in lo .. lo + m - 1 /\ i - 1 <= i
    OBVIOUS
  <2>2. i \in Rows /\ i - 1 \in Rows
    BY DEF Rows
  <2>3. PICK x \in Int, y \in Int : x = k[i - 1] /\ y = k[i]
    BY <2>2, KeyInt
  <2>4. Before(x, y, ~ up)
    BY <2>1, <2>3
  <2>5. IF up THEN y > t ELSE y < t
    BY <1>1, <2>3 DEF Behind
  <2>6. IF up THEN x > t ELSE x < t
    <3>1. CASE up
      BY <2>4, <2>5, <3>1 DEF Before
    <3>2. CASE ~ up
      BY <2>4, <2>5, <3>2 DEF Before
    <3> QED
      BY <3>1, <3>2
  <2> QED
    BY <2>2, <2>3, <2>6 DEF Behind
<1>2. ASSUME NEW i \in lo + m + 1 .. lo + m + r - 1, i \in F PROVE i - 1 \in F
  <2>1. /\ i - 1 \in lo + m .. lo + m + r - 1 /\ i \in lo + m .. lo + m + r - 1
        /\ i - 1 <= i
    OBVIOUS
  <2>2. i \in Rows /\ i - 1 \in Rows
    BY DEF Rows
  <2>3. PICK x \in Int, y \in Int : x = k[i - 1] /\ y = k[i]
    BY <2>2, KeyInt
  <2>4. Before(x, y, up)
    BY <2>1, <2>3
  <2>5. ~ (IF up THEN y > t ELSE y < t)
    BY <1>2, <2>2, <2>3 DEF Behind
  <2>6. ~ (IF up THEN x > t ELSE x < t)
    <3>1. CASE up
      BY <2>4, <2>5, <3>1 DEF Before
    <3>2. CASE ~ up
      BY <2>4, <2>5, <3>2 DEF Before
    <3> QED
      BY <3>1, <3>2
  <2> QED
    BY <2>2, <2>3, <2>6 DEF Behind
<1> HIDE DEF S
<1>3. PICK a \in lo .. lo + m : \A i \in lo .. lo + m - 1 : i \in S <=> i < a
  BY <1>1, CutPoint
<1> HIDE DEF F
<1>4. PICK b \in lo + m .. lo + m + r : \A i \in lo + m .. lo + m + r - 1 : i \in F <=> i < b
  <2>1. lo + m \in Nat
    OBVIOUS
  <2> QED
    BY <1>2, <2>1, CutPoint
<1>5. \A i \in lo .. lo + (m + r) - 1 : i \in S <=> (i < a \/ b <= i)
  <2> SUFFICES ASSUME NEW i \in lo .. lo + (m + r) - 1
               PROVE  i \in S <=> (i < a \/ b <= i)
    OBVIOUS
  <2>1. CASE i < lo + m
    BY <1>3, <2>1
  <2>2. CASE lo + m <= i
    <3>1. i \in Rows /\ i \in lo + m .. lo + m + r - 1
      BY <2>2 DEF Rows
    <3>2. i \in F <=> i \notin S
      BY <3>1 DEF F
    <3> QED
      BY <1>3, <1>4, <2>2, <3>1, <3>2
  <2> QED
    BY <2>1, <2>2
<1>6. a \in lo .. lo + (m + r) /\ b \in a .. lo + (m + r)
  OBVIOUS
<1> QED
  BY <1>5, <1>6 DEF Valley, S

(* A sort of n > 1 rows does what it promises when its two sorts and its   *)
(* merge do.                                                               *)
LEMMA SortParts ==
  ASSUME NEW c, NEW m \in Nat, NEW r \in Nat, job.n \in Nat,
         c.lo \in Nat, c.n \in Nat, c.up \in BOOLEAN, c.lo + c.n <= job.n,
         c.n = m + r,
         NEW k \in Inputs(job.n), NEW k1 \in Inputs(job.n),
         NEW k2 \in Inputs(job.n), NEW k3 \in Inputs(job.n),
         Keeps(Sort(c.lo, m, ~ c.up), k, k1), Keeps(Sort(c.lo + m, r, c.up), k1, k2),
         Keeps(Merge(c.lo, c.n, c.up), k2, k3)
  PROVE  Rearranged(c, k, k3) /\ InOrder(c, k3)
<1> DEFINE d == Sort(c.lo, m, ~ c.up)
           e == Sort(c.lo + m, r, c.up)
           g == Merge(c.lo, c.n, c.up)
<1>1. PICK lo \in Nat : lo = c.lo
  OBVIOUS
<1>2. lo + m + r <= job.n
  BY <1>1
<1>3. /\ d.f = "sort" /\ d.lo = lo /\ d.n = m /\ d.up = ~ c.up
      /\ e.f = "sort" /\ e.lo = lo + m /\ e.n = r /\ e.up = c.up
      /\ g.f = "merge" /\ g.lo = lo /\ g.n = c.n /\ g.up = c.up
  BY <1>1 DEF Sort, Merge
<1> HIDE DEF d, e, g
<1>4. /\ Span(d) = lo .. lo + m - 1
      /\ Span(e) = lo + m .. lo + m + r - 1
      /\ Span(c) = lo .. lo + m + r - 1
      /\ Span(g) = Span(c)
  <2>1. c.lo + c.n - 1 = lo + m + r - 1
    BY <1>1
  <2> QED
    BY <1>1, <1>3, <2>1 DEF Span
<1>5. /\ Span(d) \subseteq Span(c) /\ Span(e) \subseteq Span(c) /\ Span(c) \subseteq Rows
      /\ Span(g) \subseteq Span(c)
      /\ \A i \in Span(d) : i \notin Span(e)
  BY <1>2, <1>4 DEF Rows
<1>6. /\ Rearranged(d, k, k1) /\ InOrder(d, k1)
      /\ Rearranged(e, k1, k2) /\ InOrder(e, k2)
      /\ Rearranged(g, k2, k3) /\ (Mergeable(g, k2) => InOrder(g, k3))
  <2>1. Keeps(d, k, k1) /\ Keeps(e, k1, k2) /\ Keeps(g, k2, k3)
    BY DEF d, e, g
  <2> QED
    BY <1>3, <2>1 DEF Keeps
<1>7. Rearranged(c, k, k3)
  <2>1. Rearranged(c, k, k1) /\ Rearranged(c, k1, k2) /\ Rearranged(c, k2, k3)
    BY <1>5, <1>6, Widened
  <2> QED
    BY <2>1, RearrangedTwice, Zenon
<1>8. Mergeable(g, k2)
  <2>1. \A i \in Span(d) : k2[i] = k1[i]
    BY <1>5, <1>6 DEF Rearranged
  <2>2. \A i, j \in lo .. lo + m - 1 : i <= j => Before(k2[i], k2[j], ~ c.up)
    <3>1. \A i, j \in Span(d) : i <= j => Before(k1[i], k1[j], d.up)
      BY <1>6 DEF InOrder
    <3>2. \A i, j \in Span(d) : i <= j => Before(k2[i], k2[j], d.up)
      BY <2>1, <3>1
    <3> QED
      BY <1>3, <1>4, <3>2
  <2>3. \A i, j \in lo + m .. lo + m + r - 1 : i <= j => Before(k2[i], k2[j], c.up)
    BY <1>3, <1>4, <1>6 DEF InOrder
  <2>4. ASSUME NEW t \in Int PROVE Valley(Behind(k2, t, c.up), lo, m + r)
    BY <1>2, <2>2, <2>3, HalvesValley
  <2> QED
    BY <1>3, <2>4 DEF Mergeable
<1>9. InOrder(g, k3)
  BY <1>6, <1>8
<1> QED
  BY <1>3, <1>4, <1>7, <1>9 DEF InOrder
-----------------------------------------------------------------------------
(* A function on 1 .. r is a sequence of r elements. *)
LEMMA SeqOfRange ==
  ASSUME NEW Z, NEW r \in Nat, NEW s \in [1 .. r -> Z]
  PROVE  s \in Seq(Z) /\ Len(s) = r
  OBVIOUS

(* The elements of two sequences put together. *)
LEMMA Joined ==
  ASSUME NEW Z, NEW s \in Seq(Z), NEW t \in Seq(Z)
  PROVE  /\ s \o t \in Seq(Z)
         /\ Len(s \o t) = Len(s) + Len(t)
         /\ \A i \in 1 .. Len(s) : (s \o t)[i] = s[i]
         /\ \A i \in 1 .. Len(t) : (s \o t)[Len(s) + i] = t[i]
  OBVIOUS

(* The calls of a merge of two or more rows. *)
LEMMA MergeShape ==
  ASSUME NEW c \in Calls, c.f = "merge", job.n \in Nat, c.n > 1,
         NEW m, NEW r, m = GreatestPowerOfTwoLessThan(c.n), r = c.n - m
  PROVE  /\ m \in Nat /\ r \in Nat
         /\ Len(MergeBody(c)) = r + 2
         /\ \A q \in 1 .. r : MergeBody(c)[q] = Swap(c.lo + q - 1, m, c.up)
         /\ MergeBody(c)[r + 1] = Merge(c.lo, m, c.up)
         /\ MergeBody(c)[r + 2] = Merge(c.lo + m, r, c.up)
<1> DEFINE swaps == [i \in 1 .. r |-> Swap(c.lo + i - 1, m, c.up)]
           merges == << Merge(c.lo, m, c.up), Merge(c.lo + m, r, c.up) >>
<1>1. c.n \in Nat
  BY DEF Calls, Frame
<1>2. m \in 1 .. c.n - 1 /\ r \in Nat
  BY <1>1, GreatestPower
<1> DEFINE Z == {Swap(c.lo + i - 1, m, c.up) : i \in 1 .. r}
                  \cup {Merge(c.lo, m, c.up), Merge(c.lo + m, r, c.up)}
<1>3. swaps \in [1 .. r -> Z]
  OBVIOUS
<1>4. swaps \in Seq(Z) /\ Len(swaps) = r
  <2> HIDE DEF swaps, Z
  <2> QED
    BY <1>2, <1>3, SeqOfRange
<1>5. MergeBody(c) = swaps \o merges
  <2>1. ~ (c.n <= 1)
    BY <1>1
  <2> QED
    BY <2>1, Zenon DEF MergeBody
<1>6. \A q \in 1 .. r : swaps[q] = Swap(c.lo + q - 1, m, c.up)
  OBVIOUS
<1>7. Len(merges) = 2 /\ merges[1] = Merge(c.lo, m, c.up) /\ merges[2] = Merge(c.lo + m, r, c.up)
  OBVIOUS
<1>8. merges \in Seq(Z)
  <2>1. Merge(c.lo, m, c.up) \in Z /\ Merge(c.lo + m, r, c.up) \in Z
    OBVIOUS
  <2> HIDE DEF Z
  <2> QED
    BY <2>1
<1> HIDE DEF swaps, merges, Z
<1>9. /\ Len(swaps \o merges) = r + 2
      /\ \A q \in 1 .. r : (swaps \o merges)[q] = swaps[q]
      /\ (swaps \o merges)[r + 1] = merges[1]
      /\ (swaps \o merges)[r + 2] = merges[2]
  <2>1. /\ Len(swaps \o merges) = Len(swaps) + Len(merges)
        /\ \A i \in 1 .. Len(swaps) : (swaps \o merges)[i] = swaps[i]
        /\ \A i \in 1 .. Len(merges) : (swaps \o merges)[Len(swaps) + i] = merges[i]
    <3>1. PICK s, t, A : s = swaps /\ t = merges /\ A = Z
      OBVIOUS
    <3>2. s \in Seq(A) /\ t \in Seq(A)
      BY <1>4, <1>8, <3>1, Zenon
    <3>3. /\ Len(s \o t) = Len(s) + Len(t)
          /\ \A i \in 1 .. Len(s) : (s \o t)[i] = s[i]
          /\ \A i \in 1 .. Len(t) : (s \o t)[Len(s) + i] = t[i]
      BY ONLY <3>2, Joined
    <3> QED
      BY <3>1, <3>3, Zenon
  <2>2. 1 \in 1 .. 2 /\ 2 \in 1 .. 2
    OBVIOUS
  <2> QED
    BY <1>4, <1>7, <2>1, <2>2, Zenon
<1> QED
  BY <1>2, <1>5, <1>6, <1>7, <1>9

(* What a merge is replaced by does what the merge promises.               *)
LEMMA MergeKeeps ==
  ASSUME NEW c \in Calls, c.f = "merge", job.n \in Nat,
         NEW run, NEW k, IsRun(run, MergeBody(c), k)
  PROVE  Keeps(c, k, run[Len(MergeBody(c)) + 1])
<1>1. /\ c.lo \in Nat /\ c.n \in Nat /\ c.up \in BOOLEAN
      /\ c.lo + c.n <= job.n
  BY DEF Calls, Frame
<1>2. CASE c.n <= 1
  <2>1. MergeBody(c) = <<>>
    BY <1>2 DEF MergeBody
  <2>2. Len(MergeBody(c)) + 1 = 1 /\ run[1] = k
    BY <2>1 DEF IsRun
  <2>3. Rearranged(c, k, k) /\ InOrder(c, k)
    <3>1. k \in Inputs(job.n)
      BY <2>1 DEF IsRun
    <3>2. ASSUME NEW i \in Span(c), NEW j \in Span(c) PROVE Before(k[i], k[j], c.up)
      <4>1. i = j /\ i \in Rows
        BY <1>1, <1>2 DEF Span, Rows
      <4>2. k[i] \in Int
        BY <3>1, <4>1, KeyInt
      <4> QED
        BY <4>1, <4>2 DEF Before
    <3> QED
      BY <3>2 DEF Rearranged, InOrder
  <2> QED
    BY <2>2, <2>3 DEF Keeps
<1>3. CASE c.n > 1
  <2>1. PICK m, r : m = GreatestPowerOfTwoLessThan(c.n) /\ r = c.n - m
    OBVIOUS
  <2>2. /\ m \in Nat /\ r \in Nat
        /\ Len(MergeBody(c)) = r + 2
        /\ \A q \in 1 .. r : MergeBody(c)[q] = Swap(c.lo + q - 1, m, c.up)
        /\ MergeBody(c)[r + 1] = Merge(c.lo, m, c.up)
        /\ MergeBody(c)[r + 2] = Merge(c.lo + m, r, c.up)
    BY <1>3, <2>1, MergeShape
  <2>3. /\ run \in [1 .. r + 3 -> Inputs(job.n)]
        /\ run[1] = k
        /\ \A q \in 1 .. r + 2 : Keeps(MergeBody(c)[q], run[q], run[q + 1])
    <3>1. (r + 2) + 1 = r + 3
      BY <2>2
    <3> QED
      BY <2>2, <3>1, Zenon DEF IsRun
  <2>4. r <= m /\ c.lo + m + r <= job.n
    <3>1. m \in 1 .. c.n - 1 /\ c.n <= 2 * m
      BY <1>1, <1>3, <2>1, GreatestPower, HalfOrMore
    <3> QED
      BY <1>1, <2>1, <3>1
  <2>5. ASSUME NEW q \in 1 .. r
        PROVE  Compared(run[q], run[q + 1], c.lo + q - 1, (c.lo + q - 1) + m, c.up)
    <3>1. Keeps(Swap(c.lo + q - 1, m, c.up), run[q], run[q + 1])
      <4>1. q \in 1 .. r + 2
        BY <2>2
      <4> QED
        BY <2>2, <2>3, <4>1
    <3>2. PICK d : d = Swap(c.lo + q - 1, m, c.up)
      OBVIOUS
    <3>3. d.f = "swap" /\ d.lo = c.lo + q - 1 /\ d.n = m /\ d.up = c.up
      BY <3>2 DEF Swap
    <3> QED
      BY <3>1, <3>2, <3>3 DEF Keeps
  <2>6. Crossed(run[1], run[r + 1], c.lo, r, m, c.up)
    BY <1>1, <2>2, <2>4, <2>5, SwapsCross
  <2>7. Keeps(Merge(c.lo, m, c.up), run[r + 1], run[r + 2])
    <3>1. r + 1 \in 1 .. r + 2 /\ (r + 1) + 1 = r + 2
      BY <2>2
    <3> QED
      BY <2>2, <2>3, <3>1
  <2>8. Keeps(Merge(c.lo + m, r, c.up), run[r + 2], run[r + 3])
    <3>1. r + 2 \in 1 .. r + 2 /\ (r + 2) + 1 = r + 3
      BY <2>2
    <3> QED
      BY <2>2, <2>3, <3>1
  <2>9. /\ run[1] \in Inputs(job.n) /\ run[r + 1] \in Inputs(job.n)
        /\ run[r + 2] \in Inputs(job.n) /\ run[r + 3] \in Inputs(job.n)
    <3>1. 1 \in 1 .. r + 3 /\ r + 1 \in 1 .. r + 3 /\ r + 2 \in 1 .. r + 3 /\ r + 3 \in 1 .. r + 3
      BY <2>2
    <3> QED
      BY <2>3, <3>1
  <2>10. Rearranged(c, run[1], run[r + 3]) /\ (Mergeable(c, run[1]) => InOrder(c, run[r + 3]))
    BY <1>1, <1>3, <2>1, <2>2, <2>6, <2>7, <2>8, <2>9, MergeParts
  <2>11. Len(MergeBody(c)) + 1 = r + 3 /\ run[1] = k
    BY <2>2, <2>3
  <2> QED
    BY <2>10, <2>11 DEF Keeps
<1> QED
  BY <1>1, <1>2, <1>3

(* What a sort is replaced by does what the sort promises.                 *)
LEMMA SortKeeps ==
  ASSUME NEW c \in Calls, c.f = "sort", job.n \in Nat,
         NEW run, NEW k, IsRun(run, SortBody(c), k)
  PROVE  Keeps(c, k, run[Len(SortBody(c)) + 1])
<1>1. /\ c.lo \in Nat /\ c.n \in Nat /\ c.up \in BOOLEAN
      /\ c.lo + c.n <= job.n
  BY DEF Calls, Frame
<1>2. CASE c.n <= 1
  <2>1. SortBody(c) = <<>>
    BY <1>2 DEF SortBody
  <2>2. Len(SortBody(c)) + 1 = 1 /\ run[1] = k
    BY <2>1 DEF IsRun
  <2>3. Rearranged(c, k, k) /\ InOrder(c, k)
    <3>1. k \in Inputs(job.n)
      BY <2>1 DEF IsRun
    <3>2. ASSUME NEW i \in Span(c), NEW j \in Span(c) PROVE Before(k[i], k[j], c.up)
      <4>1. i = j /\ i \in Rows
        BY <1>1, <1>2 DEF Span, Rows
      <4>2. k[i] \in Int
        BY <3>1, <4>1, KeyInt
      <4> QED
        BY <4>1, <4>2 DEF Before
    <3> QED
      BY <3>2 DEF Rearranged, InOrder
  <2> QED
    BY <2>2, <2>3 DEF Keeps
<1>3. CASE c.n > 1
  <2>1. PICK m \in Nat, r \in Nat : m = c.n \div 2 /\ r = c.n - m /\ c.n = m + r
    <3>1. c.n \div 2 \in Nat /\ c.n - c.n \div 2 \in Nat /\ c.n = c.n \div 2 + (c.n - c.n \div 2)
      BY <1>1
    <3> QED
      BY <3>1
  <2>2. SortBody(c) = << Sort(c.lo, m, ~ c.up), Sort(c.lo + m, r, c.up), Merge(c.lo, c.n, c.up) >>
    <3>1. ~ (c.n <= 1)
      BY <1>1, <1>3
    <3> QED
      BY <2>1, <3>1, Zenon DEF SortBody
  <2>3. /\ Len(SortBody(c)) = 3
        /\ SortBody(c)[1] = Sort(c.lo, m, ~ c.up)
        /\ SortBody(c)[2] = Sort(c.lo + m, r, c.up)
        /\ SortBody(c)[3] = Merge(c.lo, c.n, c.up)
    BY <2>2
  <2>4. /\ run \in [1 .. 4 -> Inputs(job.n)]
        /\ run[1] = k
        /\ \A q \in 1 .. 3 : Keeps(SortBody(c)[q], run[q], run[q + 1])
    <3>1. 3 + 1 = 4
      OBVIOUS
    <3> QED
      BY <2>3, <3>1, Zenon DEF IsRun
  <2>5. /\ Keeps(Sort(c.lo, m, ~ c.up), run[1], run[2])
        /\ Keeps(Sort(c.lo + m, r, c.up), run[2], run[3])
        /\ Keeps(Merge(c.lo, c.n, c.up), run[3], run[4])
    <3>1. 1 \in 1 .. 3 /\ 2 \in 1 .. 3 /\ 3 \in 1 .. 3 /\ 1 + 1 = 2 /\ 2 + 1 = 3 /\ 3 + 1 = 4
      OBVIOUS
    <3> QED
      BY <2>3, <2>4, <3>1
  <2>6. /\ run[1] \in Inputs(job.n) /\ run[2] \in Inputs(job.n)
        /\ run[3] \in Inputs(job.n) /\ run[4] \in Inputs(job.n)
    BY <2>4
  <2>7. Rearranged(c, run[1], run[4]) /\ InOrder(c, run[4])
    BY <1>1, <2>1, <2>5, <2>6, SortParts
  <2>8. Len(SortBody(c)) + 1 = 4 /\ run[1] = k
    BY <2>3, <2>4
  <2> QED
    BY <2>7, <2>8 DEF Keeps
<1> QED
  BY <1>1, <1>2, <1>3
-----------------------------------------------------------------------------
(* A run of the calls s and then t is a run of each. *)
LEMMA RunSplit ==
  ASSUME NEW Z, NEW s \in Seq(Z), NEW t \in Seq(Z), NEW run, NEW k, IsRun(run, s \o t, k)
  PROVE  /\ IsRun([q \in 1 .. Len(s) + 1 |-> run[q]], s, k)
         /\ IsRun([q \in 1 .. Len(t) + 1 |-> run[Len(s) + q]], t, run[Len(s) + 1])
<1>1. PICK a \in Nat, b \in Nat : a = Len(s) /\ b = Len(t)
  OBVIOUS
<1>2. /\ Len(s \o t) = a + b
      /\ \A i \in 1 .. a : (s \o t)[i] = s[i]
      /\ \A i \in 1 .. b : (s \o t)[a + i] = t[i]
  BY <1>1, Joined
<1>3. /\ run \in [1 .. (a + b) + 1 -> Inputs(job.n)]
      /\ run[1] = k
      /\ \A q \in 1 .. a + b : Keeps((s \o t)[q], run[q], run[q + 1])
  BY <1>2, Zenon DEF IsRun
<1> DEFINE u == [q \in 1 .. a + 1 |-> run[q]]
           v == [q \in 1 .. b + 1 |-> run[a + q]]
<1>4. /\ u \in [1 .. a + 1 -> Inputs(job.n)]
      /\ u[1] = k
      /\ \A q \in 1 .. a : Keeps(s[q], u[q], u[q + 1])
  <2>1. u \in [1 .. a + 1 -> Inputs(job.n)]
    BY <1>3
  <2>2. u[1] = k
    BY <1>3
  <2>3. ASSUME NEW q \in 1 .. a PROVE Keeps(s[q], u[q], u[q + 1])
    <3>1. q \in 1 .. a + b /\ q \in 1 .. a + 1 /\ q + 1 \in 1 .. a + 1
      OBVIOUS
    <3>2. u[q] = run[q] /\ u[q + 1] = run[q + 1]
      BY <3>1
    <3> QED
      BY <1>2, <1>3, <3>1, <3>2
  <2> QED
    BY <2>1, <2>2, <2>3
<1>5. /\ v \in [1 .. b + 1 -> Inputs(job.n)]
      /\ v[1] = run[a + 1]
      /\ \A q \in 1 .. b : Keeps(t[q], v[q], v[q + 1])
  <2>1. v \in [1 .. b + 1 -> Inputs(job.n)]
    BY <1>3
  <2>2. v[1] = run[a + 1]
    OBVIOUS
  <2>3. ASSUME NEW q \in 1 .. b PROVE Keeps(t[q], v[q], v[q + 1])
    <3>1. a + q \in 1 .. a + b /\ q \in 1 .. b + 1 /\ q + 1 \in 1 .. b + 1
      OBVIOUS
    <3>2. v[q] = run[a + q] /\ v[q + 1] = run[(a + q) + 1]
      BY <3>1
    <3> QED
      BY <1>2, <1>3, <3>1, <3>2
  <2> QED
    BY <2>1, <2>2, <2>3
<1> HIDE DEF u, v
<1>6. IsRun(u, s, k) /\ IsRun(v, t, run[a + 1])
  BY <1>1, <1>4, <1>5 DEF IsRun
<1> QED
  BY <1>1, <1>6 DEF u, v

(* A call made before a run makes a longer run with the same end.          *)
LEMMA RunJoin ==
  ASSUME NEW Z, NEW s \in Seq(Z), s # <<>>, NEW k \in Inputs(job.n), NEW l,
         NEW run, IsRun(run, Tail(s), l), Keeps(Head(s), k, l)
  PROVE  \E w : IsRun(w, s, k) /\ w[Len(s) + 1] = run[Len(Tail(s)) + 1]
<1>1. PICK a \in Nat : Len(s) = a + 1 /\ Len(Tail(s)) = a
  OBVIOUS
<1>2. Head(s) = s[1] /\ \A q \in 1 .. a : Tail(s)[q] = s[q + 1]
  BY <1>1
<1>3. /\ run \in [1 .. a + 1 -> Inputs(job.n)]
      /\ run[1] = l
      /\ \A q \in 1 .. a : Keeps(Tail(s)[q], run[q], run[q + 1])
  BY <1>1, Zenon DEF IsRun
<1> DEFINE w == [q \in 1 .. (a + 1) + 1 |-> IF q = 1 THEN k ELSE run[q - 1]]
<1>4. w \in [1 .. (a + 1) + 1 -> Inputs(job.n)]
  BY <1>3
<1>5. w[1] = k /\ w[2] = l /\ w[(a + 1) + 1] = run[a + 1]
  <2>1. /\ 1 \in 1 .. (a + 1) + 1 /\ 2 \in 1 .. (a + 1) + 1
        /\ (a + 1) + 1 \in 1 .. (a + 1) + 1 /\ 2 # 1 /\ (a + 1) + 1 # 1
        /\ 2 - 1 = 1 /\ ((a + 1) + 1) - 1 = a + 1
    OBVIOUS
  <2> QED
    BY <1>3, <2>1
<1>6. ASSUME NEW q \in 1 .. a + 1 PROVE Keeps(s[q], w[q], w[q + 1])
  <2>1. CASE q = 1
    <3>1. w[q] = k /\ w[q + 1] = l
      BY <1>5, <2>1
    <3> QED
      BY <1>2, <2>1, <3>1
  <2>2. CASE q # 1
    <3>1. PICK p \in 1 .. a : q = p + 1
      BY <2>2
    <3>2. /\ q \in 1 .. (a + 1) + 1 /\ q + 1 \in 1 .. (a + 1) + 1
          /\ q # 1 /\ q + 1 # 1 /\ q - 1 = p /\ (q + 1) - 1 = p + 1
      BY <3>1
    <3>3. w[q] = run[p] /\ w[q + 1] = run[p + 1]
      BY <3>2
    <3> QED
      BY <1>2, <1>3, <3>1, <3>3
  <2> QED
    BY <2>1, <2>2
<1> HIDE DEF w
<1>7. IsRun(w, s, k)
  BY <1>1, <1>4, <1>5, <1>6 DEF IsRun
<1> QED
  BY <1>1, <1>5, <1>7

(* A call whose body does what it promises may be replaced by its body.    *)
LEMMA BodyPromises ==
  ASSUME NEW Z, NEW s \in Seq(Z), s # <<>>, NEW b \in Seq(Z), NEW k, Promises(s, k),
         \A run : IsRun(run, b, k) => Keeps(Head(s), k, run[Len(b) + 1])
  PROVE  Promises(b \o Tail(s), k)
<1> SUFFICES ASSUME NEW run, IsRun(run, b \o Tail(s), k)
             PROVE  Sorted(run[Len(b \o Tail(s)) + 1])
  BY DEF Promises
<1>1. Tail(s) \in Seq(Z)
  OBVIOUS
<1>2. PICK x \in Nat, y \in Nat : x = Len(b) /\ y = Len(Tail(s))
  BY <1>1
<1> DEFINE u == [q \in 1 .. x + 1 |-> run[q]]
           v == [q \in 1 .. y + 1 |-> run[x + q]]
<1>3. IsRun(u, b, k) /\ IsRun(v, Tail(s), run[x + 1])
  BY <1>1, <1>2, RunSplit
<1>4. u[x + 1] = run[x + 1] /\ v[y + 1] = run[x + (y + 1)]
  OBVIOUS
<1> HIDE DEF u, v
<1>5. Keeps(Head(s), k, run[x + 1])
  BY <1>2, <1>3, <1>4
<1>6. k \in Inputs(job.n)
  <2>1. 1 \in 1 .. Len(b) + 1
    BY <1>2
  <2> QED
    BY <1>3, <2>1 DEF IsRun
<1>7. PICK w : IsRun(w, s, k) /\ w[Len(s) + 1] = v[Len(Tail(s)) + 1]
  BY <1>3, <1>5, <1>6, RunJoin
<1>8. Sorted(v[y + 1])
  BY <1>2, <1>7 DEF Promises
<1>9. Len(b \o Tail(s)) + 1 = x + (y + 1)
  <2>1. Len(b \o Tail(s)) = Len(b) + Len(Tail(s))
    BY <1>1, Joined
  <2> QED
    BY <1>2, <2>1
<1> QED
  BY <1>4, <1>8, <1>9

(* A call that does what it promises leaves the others' promise.           *)
LEMMA StepPromises ==
  ASSUME NEW Z, NEW s \in Seq(Z), s # <<>>, NEW k \in Inputs(job.n), NEW l,
         Promises(s, k), Keeps(Head(s), k, l)
  PROVE  Promises(Tail(s), l)
<1> SUFFICES ASSUME NEW run, IsRun(run, Tail(s), l)
             PROVE  Sorted(run[Len(Tail(s)) + 1])
  BY DEF Promises
<1>1. PICK w : IsRun(w, s, k) /\ w[Len(s) + 1] = run[Len(Tail(s)) + 1]
  BY RunJoin
<1> QED
  BY <1>1 DEF Promises
-----------------------------------------------------------------------------
(* A job's calls, comparison and input. *)
LEMMA JobInput ==
  ASSUME job \in Jobs
  PROVE  /\ job.cmp \in {"number", "valid"}
         /\ job.cmp = "valid" => \A i \in Rows : job.input[i] \in 0 .. 1
         /\ job.call = "merge" =>
              job.up = TRUE /\ job.n \in MergeSizes /\ job.input \in UpDown(job.n)
<1>1. CASE \E n \in SortSizes :
             job \in [call : {"sort"}, cmp : {"number"}, up : BOOLEAN, n : {n},
                      input : Inputs(n)]
  BY <1>1
<1>2. CASE \E n \in SortSizes :
             job \in [call : {"sort"}, cmp : {"valid"}, up : BOOLEAN, n : {n},
                      input : {k \in Inputs(n) : \A i \in 0 .. n - 1 : k[i] \in 0 .. 1}]
  <2>1. PICK n \in SortSizes :
          job \in [call : {"sort"}, cmp : {"valid"}, up : BOOLEAN, n : {n},
                   input : {k \in Inputs(n) : \A i \in 0 .. n - 1 : k[i] \in 0 .. 1}]
    BY <1>2
  <2>2. /\ job.n = n /\ job.cmp = "valid" /\ job.call = "sort"
        /\ job.input \in {k \in Inputs(n) : \A i \in 0 .. n - 1 : k[i] \in 0 .. 1}
    BY <2>1
  <2>3. \A i \in Rows : job.input[i] \in 0 .. 1
    BY <2>2, Zenon DEF Rows
  <2> QED
    BY <2>2, <2>3
<1>3. CASE \E n \in MergeSizes :
             job \in [call : {"merge"}, cmp : {"number"}, up : {TRUE}, n : {n},
                      input : UpDown(n)]
  BY <1>3
<1> QED
  BY <1>1, <1>2, <1>3 DEF Jobs

(* Keys that ascend and then descend make a hill at every threshold.       *)
LEMMA UpDownHill ==
  ASSUME job.n \in Nat, NEW k \in Inputs(job.n), k \in UpDown(job.n), NEW t \in Int
  PROVE  Hill(Behind(k, t, TRUE), 0, job.n)
<1> DEFINE S == Behind(k, t, TRUE)
           F == {i \in Rows : i \notin S}
<1>1. PICK n \in Nat : n = job.n
  OBVIOUS
<1>2. PICK a \in n \div 2 .. n : /\ \A i \in 0 .. a - 2 : k[i] <= k[i + 1]
                                 /\ \A i \in a .. n - 2 : k[i] >= k[i + 1]
  BY <1>1, Zenon DEF UpDown
<1>3. a \in Nat /\ a <= n
  <2>1. n \div 2 \in Nat
    OBVIOUS
  <2> QED
    BY <2>1
<1>4. Rows = 0 .. n - 1
  BY <1>1 DEF Rows
<1>5. \A i \in Rows : k[i] \in Int /\ (i \in S <=> k[i] > t)
  BY KeyInt DEF Behind
<1> HIDE DEF S
<1>6. ASSUME NEW i \in 0 + 1 .. 0 + a - 1, i \in F PROVE i - 1 \in F
  <2>1. i \in Rows /\ i - 1 \in Rows /\ i - 1 \in 0 .. a - 2 /\ (i - 1) + 1 = i
    BY <1>3, <1>4
  <2>2. k[i - 1] <= k[i]
    BY <1>2, <2>1
  <2>3. k[i] \in Int /\ k[i - 1] \in Int /\ ~ (k[i] > t)
    BY <1>5, <1>6, <2>1
  <2>4. ~ (k[i - 1] > t)
    BY <2>2, <2>3
  <2> QED
    BY <1>5, <2>1, <2>4
<1>7. ASSUME NEW i \in a + 1 .. a + (n - a) - 1, i \in S PROVE i - 1 \in S
  <2>1. i \in Rows /\ i - 1 \in Rows /\ i - 1 \in a .. n - 2 /\ (i - 1) + 1 = i
    BY <1>3, <1>4
  <2>2. k[i - 1] >= k[i]
    BY <1>2, <2>1
  <2>3. k[i] \in Int /\ k[i - 1] \in Int /\ k[i] > t
    BY <1>5, <1>7, <2>1
  <2>4. k[i - 1] > t
    BY <2>2, <2>3
  <2> QED
    BY <1>5, <2>1, <2>4
<1> HIDE DEF F
<1>8. PICK p \in 0 .. 0 + a : \A i \in 0 .. 0 + a - 1 : i \in F <=> i < p
  <2>1. 0 \in Nat
    OBVIOUS
  <2> QED
    BY <1>3, <1>6, <2>1, CutPoint
<1>9. PICK q \in a .. a + (n - a) : \A i \in a .. a + (n - a) - 1 : i \in S <=> i < q
  <2>1. n - a \in Nat
    BY <1>3
  <2> QED
    BY <1>3, <1>7, <2>1, CutPoint
<1>10. ASSUME NEW i \in 0 .. 0 + n - 1 PROVE i \in S <=> (p <= i /\ i < q)
  <2>1. CASE i < a
    <3>1. i \in F <=> i \notin S
      BY <1>4 DEF F
    <3> QED
      BY <1>3, <1>8, <1>9, <2>1, <3>1
  <2>2. CASE a <= i
    BY <1>3, <1>8, <1>9, <2>2
  <2> QED
    BY <1>3, <2>1, <2>2
<1>11. p \in 0 .. 0 + n /\ q \in p .. 0 + n
  BY <1>3
<1>12. Hill(S, 0, n)
  BY <1>10, <1>11 DEF Hill
<1> QED
  BY <1>1, <1>12 DEF S

(* The call of a job promises what the job is for. *)
LEMMA InitPromise == Init => PromiseKept
<1> SUFFICES ASSUME Init, Covered PROVE Promises(todo, key)
  BY DEF PromiseKept
<1>0. /\ job \in Jobs /\ key = job.input
      /\ todo = << [f |-> job.call, lo |-> 0, n |-> job.n, up |-> job.up] >>
  BY DEF Init
<1>1. /\ job.n \in Nat
      /\ job.up \in BOOLEAN
      /\ job.call \in {"sort", "merge"}
      /\ key \in Inputs(job.n)
  BY <1>0, JobType
<1>2. PICK c : /\ c = [f |-> job.call, lo |-> 0, n |-> job.n, up |-> job.up]
               /\ c.f = job.call /\ c.lo = 0 /\ c.n = job.n /\ c.up = job.up
               /\ todo = << c >>
  BY <1>0
<1>3. Len(todo) = 1 /\ todo[1] = c
  BY <1>2
<1> SUFFICES ASSUME NEW run, IsRun(run, todo, key) PROVE Sorted(run[Len(todo) + 1])
  BY DEF Promises
<1>4. Keeps(c, key, run[2]) /\ run[2] \in Inputs(job.n)
  <2>1. /\ run \in [1 .. 1 + 1 -> Inputs(job.n)]
        /\ run[1] = key
        /\ \A q \in 1 .. 1 : Keeps(todo[q], run[q], run[q + 1])
    BY <1>3, Zenon DEF IsRun
  <2>2. 1 \in 1 .. 1 /\ 2 \in 1 .. 1 + 1 /\ 1 + 1 = 2
    OBVIOUS
  <2> QED
    BY <1>3, <2>1, <2>2
<1>5. InOrder(c, run[2])
  <2>1. CASE job.call = "sort"
    BY <1>2, <1>4, <2>1 DEF Keeps
  <2>2. CASE job.call = "merge"
    <3>1. job.up = TRUE /\ key \in UpDown(job.n) /\ PowerOfTwo(job.n)
      BY <1>0, <2>2, JobInput DEF Covered
    <3>2. \A t \in Int : Hill(Behind(key, t, TRUE), 0, job.n)
      BY <1>1, <3>1, UpDownHill
    <3>3. Mergeable(c, key)
      BY <1>2, <3>1, <3>2, Zenon DEF Mergeable
    <3> QED
      BY <1>2, <1>4, <2>2, <3>3 DEF Keeps
  <2> QED
    BY <1>1, <2>1, <2>2
<1>6. ASSUME NEW i \in 0 .. job.n - 2 PROVE Before(run[2][i], run[2][i + 1], job.up)
  <2>1. i \in Span(c) /\ i + 1 \in Span(c) /\ i <= i + 1
    BY <1>1, <1>2 DEF Span
  <2> QED
    BY <1>2, <1>5, <2>1 DEF InOrder
<1> QED
  BY <1>3, <1>6 DEF Sorted

(* cmp_swap orders the two keys it is given, the one-bit network as well:  *)
(* its keys are 0 and 1.                                                   *)
LEMMA CmpSwapKeeps ==
  TypeOK /\ RowsWhole /\ CmpSwap => Keeps(Head(todo), key, key')
<1> SUFFICES ASSUME TypeOK, RowsWhole, CmpSwap PROVE Keeps(Head(todo), key, key')
  OBVIOUS
<1>0. /\ job \in Jobs /\ job.n \in Nat /\ key \in Inputs(job.n)
      /\ data \in [0 .. job.n - 1 -> 0 .. job.n - 1] /\ todo \in Seq(Calls)
  BY JobType DEF TypeOK
<1>1. todo # <<>> /\ Head(todo).f = "swap"
  BY DEF CmpSwap
<1>2. Head(todo) \in Calls
  BY <1>0, <1>1, Pending
<1>3. PICK i, j, up : i = Head(todo).lo /\ j = Head(todo).lo + Head(todo).n /\ up = Head(todo).up
  OBVIOUS
<1>4. i \in Rows /\ j \in Rows /\ up \in BOOLEAN
  <2>1. Head(todo).up \in BOOLEAN
    BY <1>2 DEF Calls, Frame
  <2> QED
    BY <1>0, <1>1, <1>2, <1>3, <2>1, SwapRows DEF Rows
<1>5. key' = IF ToSwap(i, j, up) THEN Exchange(key, i, j) ELSE key
  BY <1>3, Zenon DEF CmpSwap
<1>6. PICK x \in Int, y \in Int : x = key[i] /\ y = key[j]
  BY <1>0, <1>4, KeyInt
<1>7. /\ ToSwap(i, j, up) => key'[i] = y /\ key'[j] = x
      /\ ~ ToSwap(i, j, up) => key'[i] = x /\ key'[j] = y
      /\ \A z \in Rows : z # i /\ z # j => key'[z] = key[z]
  <2>1. key \in [Rows -> Keys]
    BY <1>0, Zenon DEF Inputs, Rows
  <2>2. /\ Exchange(key, i, j)[i] = y
        /\ Exchange(key, i, j)[j] = x
        /\ \A z \in Rows \ {i, j} : Exchange(key, i, j)[z] = key[z]
    BY <1>4, <1>6, <2>1, ExchangeType
  <2> QED
    BY <1>5, <1>6, <2>2
<1>8. /\ job.cmp = "number" => (ToSwap(i, j, up) <=> ((x > y) = up))
      /\ job.cmp = "valid" => (ToSwap(i, j, up) <=> (IF up THEN x ELSE y) = 1)
  BY <1>6 DEF ToSwap
<1>9. job.cmp = "valid" => x \in 0 .. 1 /\ y \in 0 .. 1
  <2>1. x = job.input[data[i]] /\ y = job.input[data[j]]
    BY <1>4, <1>6 DEF RowsWhole, Rows
  <2>2. data[i] \in Rows /\ data[j] \in Rows
    BY <1>0, <1>4 DEF Rows
  <2> QED
    BY <1>0, <2>1, <2>2, JobInput
<1>10. \/ key'[i] = x /\ key'[j] = y
       \/ key'[i] = y /\ key'[j] = x
  BY <1>7
<1>11. Before(key'[i], key'[j], up)
  <2>1. CASE job.cmp = "number"
    <3>1. CASE up
      <4>1. ToSwap(i, j, up) <=> x > y
        BY <1>4, <1>8, <2>1, <3>1
      <4>2. key'[i] <= key'[j]
        BY <1>7, <4>1
      <4> QED
        BY <3>1, <4>2 DEF Before
    <3>2. CASE ~ up
      <4>1. ToSwap(i, j, up) <=> ~ (x > y)
        BY <1>4, <1>8, <2>1, <3>2
      <4>2. key'[j] <= key'[i]
        BY <1>7, <4>1
      <4> QED
        BY <3>2, <4>2 DEF Before
    <3> QED
      BY <3>1, <3>2
  <2>2. CASE job.cmp = "valid"
    <3>1. CASE up
      <4>1. ToSwap(i, j, up) <=> x = 1
        BY <1>8, <2>2, <3>1
      <4>2. key'[i] <= key'[j]
        BY <1>7, <1>9, <2>2, <4>1
      <4> QED
        BY <3>1, <4>2 DEF Before
    <3>2. CASE ~ up
      <4>1. ToSwap(i, j, up) <=> y = 1
        BY <1>8, <2>2, <3>2
      <4>2. key'[j] <= key'[i]
        BY <1>7, <1>9, <2>2, <4>1
      <4> QED
        BY <3>2, <4>2 DEF Before
    <3> QED
      BY <3>1, <3>2
  <2> QED
    BY <1>0, <2>1, <2>2, JobInput
<1>12. Compared(key, key', i, j, up)
  BY <1>6, <1>7, <1>10, <1>11 DEF Compared, PairOrdered
<1> QED
  BY <1>1, <1>3, <1>12 DEF Keeps

(* A promise about the keys and calls of the next state, while the job is  *)
(* the same, is the promise kept there.                                    *)
LEMMA PromiseNext ==
  ASSUME NEW s, NEW k, job' = job, todo' = s, key' = k, Covered => Promises(s, k)
  PROVE  PromiseKept'
<1>1. Rows' = Rows /\ Inputs(job.n)' = Inputs(job.n)
  BY DEF Rows, Inputs
<1>2. ASSUME NEW c, NEW u, NEW v PROVE Keeps(c, u, v)' <=> Keeps(c, u, v)
  <2>1. Rearranged(c, u, v)' <=> Rearranged(c, u, v)
    BY <1>1 DEF Rearranged
  <2>2. Compared(u, v, c.lo, c.lo + c.n, c.up)' <=> Compared(u, v, c.lo, c.lo + c.n, c.up)
    BY <1>1 DEF Compared
  <2>3. Mergeable(c, u)' <=> Mergeable(c, u)
    <3>1. ASSUME NEW t PROVE Behind(u, t, c.up)' = Behind(u, t, c.up)
      BY <1>1, Zenon DEF Behind
    <3> QED
      BY <3>1 DEF Mergeable
  <2> QED
    BY <2>1, <2>2, <2>3 DEF Keeps
<1>3. ASSUME NEW run PROVE IsRun(run, s, k)' <=> IsRun(run, s, k)
  BY <1>1, <1>2 DEF IsRun
<1>4. ASSUME NEW u PROVE Sorted(u)' <=> Sorted(u)
  BY DEF Sorted
<1> QED
  BY <1>3, <1>4 DEF PromiseKept, Covered, Promises
(* Every step keeps the promise: a call is replaced by calls that do what  *)
(* it promises, and cmp_swap does what it promises at once.                *)
LEMMA NextPromise == TypeOK /\ RowsWhole /\ PromiseKept /\ [Next]_vars => PromiseKept'
<1> SUFFICES ASSUME TypeOK, RowsWhole, PromiseKept, [Next]_vars PROVE PromiseKept'
  OBVIOUS
<1>0. /\ job.n \in Nat /\ key \in Inputs(job.n) /\ todo \in Seq(Calls)
      /\ Covered => Promises(todo, key)
  BY JobType DEF TypeOK, PromiseKept
<1>1. CASE Descend
  <2>1. /\ todo # <<>> /\ job' = job /\ key' = key
        /\ \/ Head(todo).f = "sort" /\ todo' = SortBody(Head(todo)) \o Tail(todo)
           \/ Head(todo).f = "merge" /\ todo' = MergeBody(Head(todo)) \o Tail(todo)
    BY <1>1 DEF Descend
  <2>2. Head(todo) \in Calls
    BY <1>0, <2>1, Pending
  <2>3. CASE Head(todo).f = "sort"
    <3>1. todo' = SortBody(Head(todo)) \o Tail(todo)
      BY <2>1, <2>3
    <3>2. SortBody(Head(todo)) \in Seq(Calls)
      BY <1>0, <2>2, <2>3, SortCalls
    <3>3. \A run : IsRun(run, SortBody(Head(todo)), key)
                     => Keeps(Head(todo), key, run[Len(SortBody(Head(todo))) + 1])
      BY <1>0, <2>2, <2>3, SortKeeps
    <3>4. Covered => Promises(SortBody(Head(todo)) \o Tail(todo), key)
      BY <1>0, <2>1, <3>2, <3>3, BodyPromises
    <3> QED
      BY <2>1, <3>1, <3>4, PromiseNext
  <2>4. CASE Head(todo).f = "merge"
    <3>1. todo' = MergeBody(Head(todo)) \o Tail(todo)
      BY <2>1, <2>4
    <3>2. MergeBody(Head(todo)) \in Seq(Calls)
      BY <1>0, <2>2, <2>4, MergeCalls
    <3>3. \A run : IsRun(run, MergeBody(Head(todo)), key)
                     => Keeps(Head(todo), key, run[Len(MergeBody(Head(todo))) + 1])
      BY <1>0, <2>2, <2>4, MergeKeeps
    <3>4. Covered => Promises(MergeBody(Head(todo)) \o Tail(todo), key)
      BY <1>0, <2>1, <3>2, <3>3, BodyPromises
    <3> QED
      BY <2>1, <3>1, <3>4, PromiseNext
  <2> QED
    BY <2>1, <2>3, <2>4
<1>2. CASE CmpSwap
  <2>1. todo # <<>> /\ job' = job /\ todo' = Tail(todo)
    BY <1>2 DEF CmpSwap
  <2>2. Keeps(Head(todo), key, key')
    BY <1>2, CmpSwapKeeps
  <2>3. Covered => Promises(Tail(todo), key')
    BY <1>0, <2>1, <2>2, StepPromises
  <2> QED
    BY <2>1, <2>3, PromiseNext
<1>3. CASE UNCHANGED vars
  BY <1>0, <1>3, PromiseNext DEF vars
<1> QED
  BY <1>1, <1>2, <1>3 DEF Next, Terminated

(* When no call is left the promise is that the keys are sorted.           *)
LEMMA PromiseSorts ==
  TypeOK /\ PromiseKept /\ Covered /\ todo = <<>> => Ordered
<1> SUFFICES ASSUME TypeOK, Promises(todo, key), todo = <<>> PROVE Ordered
  BY DEF PromiseKept
<1>1. key \in Inputs(job.n)
  BY DEF TypeOK
<1> DEFINE run == << key >>
<1>2. Len(todo) = 0 /\ run \in [1 .. 0 + 1 -> Inputs(job.n)] /\ run[1] = key
  BY <1>1
<1>3. \A q \in 1 .. 0 : FALSE
  OBVIOUS
<1> HIDE DEF run
<1>4. IsRun(run, todo, key)
  BY <1>2, <1>3, Zenon DEF IsRun
<1>5. Sorted(run[0 + 1])
  BY <1>2, <1>4, Zenon DEF Promises
<1>6. 0 + 1 = 1
  OBVIOUS
<1> QED
  BY <1>2, <1>5, <1>6 DEF Sorted, Ordered

(* For any keys, any numbers of rows and either direction, what           *)
(* bitonic_sort leaves is sorted (number.h 32-40), and so is what its      *)
(* one-bit copy leaves (emp_utils.cpp 435-443).                            *)
THEOREM SortsAnyInput == Spec => []Sorts
<1>1. TypeOK /\ PromiseKept => Sorts
  BY PromiseSorts DEF Sorts, Covered
<1> QED
  BY <1>1, TypeCorrect, RowsStayWhole, InitPromise, NextPromise, PTL DEF Spec

(* For any keys that ascend and then descend, the second part no longer    *)
(* than the first, and any powers of two of rows, what bitonic_merge       *)
(* leaves is sorted (number.h 21-30, merge_sorted and the programs that    *)
(* call it). Other numbers of rows it does not sort: the run bitonic_merge.*)
THEOREM MergesPowersOfTwo ==
  ASSUME \A n \in MergeSizes : PowerOfTwo(n)
  PROVE  Spec => []MergeSorts
<1>1. TypeOK /\ PromiseKept => MergeSorts
  <2> SUFFICES ASSUME TypeOK, PromiseKept, todo = <<>>, job.call = "merge" PROVE Ordered
    BY DEF MergeSorts
  <2>1. job \in Jobs
    BY DEF TypeOK
  <2>2. job.n \in MergeSizes
    BY <2>1, JobInput
  <2> QED
    BY <2>2, PromiseSorts DEF Covered
<1> QED
  BY <1>1, TypeCorrect, RowsStayWhole, InitPromise, NextPromise, PTL DEF Spec
=============================================================================
