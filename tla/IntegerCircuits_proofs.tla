---------------------- MODULE IntegerCircuits_proofs ----------------------
(***************************************************************************)
(* The circuits of Integer<n> compute what they are to compute at every    *)
(* width: the proofs of RingOfResidues and SignedAsC.                      *)
(*                                                                         *)
(* Every circuit goes from place to place, so each has an invariant over   *)
(* the places, which relates the values of the places passed and the carry,*)
(* the borrow or the rest that goes on to the next.  What is recursive     *)
(* over the places is proved by a least counterexample.                    *)
(***************************************************************************)
EXTENDS IntegerCircuits, SequenceTheorems, FiniteSetTheorems, FunctionTheorems, WellFoundedInduction, TLAPS

-----------------------------------------------------------------------------
(* Numbers *)

(* A set of naturals that is not empty has a least element. *)
LEMMA LeastIn == ASSUME NEW Bad, Bad \subseteq Nat, Bad # {}
  PROVE  \E m \in Bad : \A k \in Bad : ~(k < m)
<1>1. PICK m \in Bad : \A Y \in Bad : ~ (<<Y, m>> \in OpToRel(<, Nat))
  BY WFMin, NatLessThanWellFounded, Zenon
<1>2. \A Y \in Bad : ~ (Y < m)
  BY <1>1, Zenon DEF OpToRel
<1> QED
  BY <1>2

(* A set of naturals that has zero and with each its successor has all. *)
LEMMA AllNats == ASSUME NEW Good, 0 \in Good, \A n \in Nat : n \in Good => n + 1 \in Good
  PROVE  Nat \subseteq Good
<1> DEFINE Bad == Nat \ Good
<1> SUFFICES ASSUME Bad # {} PROVE FALSE
  OBVIOUS
<1>1. PICK m \in Bad : \A k \in Bad : ~(k < m)
  BY LeastIn
<1>2. m \in Nat /\ m # 0 /\ m - 1 \in Nat /\ m - 1 < m /\ (m - 1) + 1 = m
  OBVIOUS
<1>3. m - 1 \in Good
  BY <1>1, <1>2
<1> QED
  BY <1>2, <1>3

(* A multiple of w that lies strictly between -w and w is zero. *)
LEMMA SmallMultiple ==
  ASSUME NEW w \in Nat \ {0}, NEW d \in Int, d * w < w, -w < d * w
  PROVE  d = 0
<1>1. CASE d >= 1
  <2>1. d * w >= w
    BY <1>1
  <2> QED
    BY <2>1
<1>2. CASE d <= -1
  <2>1. d * w <= -w
    BY <1>2
  <2> QED
    BY <2>1
<1> QED
  BY <1>1, <1>2

(* A quotient and a remainder are the only ones. *)
LEMMA Division ==
  ASSUME NEW w \in Nat \ {0}, NEW i \in Int, NEW j \in 0 .. w - 1, NEW X, X = i * w + j
  PROVE  X \div w = i /\ X % w = j
<1>0. X \in Int
  OBVIOUS
<1>1. PICK q \in Int : q = X \div w
  BY <1>0
<1>2. PICK r \in Int : r = X % w
  BY <1>0
<1>3. X = w * q + r /\ 0 <= r /\ r < w
  BY <1>0, <1>1, <1>2
<1>4. PICK d \in Int : d = i - q
  OBVIOUS
<1>5. d * w = r - j
  <2>1. i * w + j = w * q + r
    BY <1>3
  <2> QED
    BY <2>1, <1>4
<1>6. d = 0
  BY <1>3, <1>5, SmallMultiple
<1> QED
  BY <1>1, <1>2, <1>4, <1>5, <1>6

(* A set of n + 1 elements has twice as many subsets as a set of n.        *)
LEMMA PowerDoubles ==
  ASSUME NEW n \in Nat
  PROVE  2 ^ n \in Nat /\ 2 ^ (n + 1) = 2 * 2 ^ n
<1> DEFINE A == SUBSET (1 .. n)
           B == {s \cup {n + 1} : s \in A}
           f == [s \in A |-> s \cup {n + 1}]
<1>1. /\ IsFiniteSet(1 .. n) /\ Cardinality(1 .. n) = n
      /\ IsFiniteSet(1 .. n + 1) /\ Cardinality(1 .. n + 1) = n + 1
  BY FS_Interval
<1>2. /\ IsFiniteSet(A) /\ Cardinality(A) = 2 ^ n
      /\ Cardinality(SUBSET (1 .. n + 1)) = 2 ^ (n + 1)
  BY <1>1, FS_SUBSET
<1>3. SUBSET (1 .. n + 1) = A \cup B
  <2>1. ASSUME NEW s \in SUBSET (1 .. n + 1) PROVE s \in A \cup B
    <3>1. CASE n + 1 \in s
      <4>1. s \ {n + 1} \in A
        OBVIOUS
      <4>2. s = (s \ {n + 1}) \cup {n + 1}
        BY <3>1
      <4> QED
        BY <4>1, <4>2
    <3>2. CASE n + 1 \notin s
      BY <3>2
    <3> QED
      BY <3>1, <3>2
  <2>2. ASSUME NEW s \in A PROVE s \in SUBSET (1 .. n + 1) /\ s \cup {n + 1} \in SUBSET (1 .. n + 1)
    OBVIOUS
  <2>3. ASSUME NEW s \in B PROVE s \in SUBSET (1 .. n + 1)
    <3>1. PICK r \in A : s = r \cup {n + 1}
      OBVIOUS
    <3> QED
      BY <2>2, <3>1
  <2> HIDE DEF A, B
  <2> QED
    BY <2>1, <2>2, <2>3, Zenon
<1>4. A \cap B = {}
  OBVIOUS
<1>5. f \in Bijection(A, B)
  <2>1. \A s \in A : n + 1 \notin s
    OBVIOUS
  <2>2. ASSUME NEW s \in A, NEW r \in A, f[s] = f[r] PROVE s = r
    <3> HIDE DEF A
    <3>1. s \cup {n + 1} = r \cup {n + 1} /\ n + 1 \notin s /\ n + 1 \notin r
      BY <2>1, <2>2
    <3>2. \A X : X \in s <=> X \in r
      BY <3>1
    <3> QED
      <4>1. s \subseteq r /\ r \subseteq s
        BY <3>2
      <4> QED
        BY <4>1
  <2>3. f \in [A -> B] /\ \A b \in B : \E s \in A : f[s] = b
    <3> HIDE DEF A
    <3> QED OBVIOUS
  <2> HIDE DEF f, A, B
  <2> QED
    BY <2>2, <2>3, Zenon DEF Bijection, Injection, Surjection, IsInjective
<1> HIDE DEF A, B, f
<1>6. IsFiniteSet(B) /\ Cardinality(B) = Cardinality(A)
  BY <1>2, <1>5, FS_Bijection, Zenon DEF ExistsBijection
<1>7. Cardinality(A \cup B) = Cardinality(A) + Cardinality(B) - Cardinality({})
  BY <1>2, <1>4, <1>6, FS_Union
<1>8. Cardinality({}) = 0 /\ Cardinality(A) \in Nat
  BY <1>2, FS_EmptySet, FS_CardinalityType
<1>9. Cardinality(A \cup B) = 2 ^ (n + 1)
  BY <1>2, <1>3, Zenon
<1>10. PICK X \in Nat : X = 2 ^ n
  BY <1>2, <1>8, Zenon
<1>11. Cardinality(A) = X /\ Cardinality(B) = X
  BY <1>2, <1>6, <1>10, Zenon
<1>12. 2 ^ (n + 1) = X + X
  BY <1>7, <1>8, <1>9, <1>11
<1> QED
  BY <1>10, <1>12

(* Powers of two are positive. *)
LEMMA PowerFacts ==
  ASSUME NEW n \in Nat
  PROVE  /\ 2 ^ n \in Nat /\ 2 ^ n >= 1 /\ 2 ^ 0 = 1 /\ n < 2 ^ n
         /\ 2 ^ (n + 1) = 2 * 2 ^ n
<1> DEFINE Good == {k \in Nat : 2 ^ k \in Nat /\ k < 2 ^ k}
<1>1. 2 ^ 0 = 1
  OBVIOUS
<1>2. 0 \in Good
  BY <1>1
<1>3. ASSUME NEW k \in Nat, k \in Good PROVE k + 1 \in Good
  <2>1. PICK X : X = 2 ^ k
    OBVIOUS
  <2>2. X \in Nat /\ k < X /\ 2 ^ (k + 1) = 2 * X
    BY <1>3, <2>1, PowerDoubles
  <2>3. 2 * X \in Nat /\ k + 1 < 2 * X /\ k + 1 \in Nat
    BY <2>2
  <2> QED
    BY <2>2, <2>3
<1> HIDE DEF Good
<1>4. n \in Good
  BY <1>2, <1>3, AllNats
<1>5. 2 ^ n \in Nat /\ n < 2 ^ n
  BY <1>4 DEF Good
<1>6. PICK X : X = 2 ^ n
  OBVIOUS
<1>7. X >= 1
  BY <1>5, <1>6
<1> QED
  BY <1>1, <1>5, <1>6, <1>7, PowerDoubles

(* The product of two powers of two. *)
LEMMA PowerSum ==
  ASSUME NEW m \in Nat, NEW n \in Nat
  PROVE  2 ^ (m + n) = 2 ^ m * 2 ^ n
<1> DEFINE Good == {k \in Nat : 2 ^ (m + k) = 2 ^ m * 2 ^ k}
<1>1. 0 \in Good
  <2>1. 2 ^ 0 = 1 /\ 2 ^ m \in Nat
    BY PowerFacts
  <2>2. m + 0 = m
    OBVIOUS
  <2>3. PICK X \in Nat : X = 2 ^ m
    BY <2>1
  <2>4. X * 1 = X
    OBVIOUS
  <2> QED
    BY <2>1, <2>2, <2>3, <2>4, Zenon
<1>2. ASSUME NEW k \in Nat, k \in Good PROVE k + 1 \in Good
  <2>1. PICK X, Y, Z : X = 2 ^ m /\ Y = 2 ^ k /\ Z = 2 ^ (m + k)
    OBVIOUS
  <2>2. X \in Nat /\ Y \in Nat /\ Z \in Nat /\ Z = X * Y /\ m + k \in Nat
    BY <1>2, <2>1, PowerFacts
  <2>3. 2 ^ (k + 1) = 2 * Y /\ 2 ^ ((m + k) + 1) = 2 * Z
    BY <2>1, <2>2, PowerFacts
  <2>4. 2 * Z = X * (2 * Y)
    BY ONLY <2>2
  <2>5. (m + k) + 1 = m + (k + 1) /\ k + 1 \in Nat
    OBVIOUS
  <2> QED
    BY <2>1, <2>3, <2>4, <2>5, Zenon
<1> HIDE DEF Good
<1>3. n \in Good
  BY <1>1, <1>2, AllNats
<1> QED
  BY <1>3 DEF Good

(* Powers of two grow with the exponent. *)
LEMMA PowerGrows ==
  ASSUME NEW m \in Nat, NEW n \in Nat, m <= n
  PROVE  2 ^ m <= 2 ^ n
<1>1. PICK d \in Nat : m + d = n
  <2>1. n - m \in Nat /\ m + (n - m) = n
    OBVIOUS
  <2> QED
    BY <2>1
<1>2. PICK X \in Nat, Y \in Nat : X = 2 ^ m /\ Y = 2 ^ d /\ Y >= 1
  BY PowerFacts
<1>3. 2 ^ n = X * Y
  BY <1>1, <1>2, PowerSum, Zenon
<1>4. X <= X * Y
  BY <1>2
<1> QED
  BY <1>2, <1>3, <1>4

(* A function that gives its values from place to place exists, whatever   *)
(* is done at a place.                                                     *)
Steps(f, e, G, n) == f[0] = e /\ \A i \in 1 .. n : f[i] = G[<<i, f[i - 1]>>]
(* There is one whose values are of the type that the places work on. *)
LEMMA Recursion ==
  ASSUME NEW S, NEW e, e \in S, NEW G, G \in [Nat \X S -> S], NEW n \in Nat
  PROVE  \E f \in [0 .. n -> S] : Steps(f, e, G, n)
<1> DEFINE Good == {k \in Nat : \E f \in [0 .. k -> S] : Steps(f, e, G, k)}
<1>1. 0 \in Good
  <2>1. [i \in 0 .. 0 |-> e] \in [0 .. 0 -> S] /\ Steps([i \in 0 .. 0 |-> e], e, G, 0)
    BY DEF Steps
  <2> QED
    BY <2>1
<1>2. ASSUME NEW k \in Nat, k \in Good PROVE k + 1 \in Good
  <2>1. PICK f \in [0 .. k -> S] : Steps(f, e, G, k)
    BY <1>2
  <2>2. PICK v \in S : v = G[<<k + 1, f[k]>>]
    <3>1. <<k + 1, f[k]>> \in Nat \X S
      OBVIOUS
    <3> QED
      BY <3>1
  <2>3. PICK g : g = [i \in 0 .. k + 1 |-> IF i = k + 1 THEN v ELSE f[i]]
    OBVIOUS
  <2>4. /\ g \in [0 .. k + 1 -> S] /\ g[k + 1] = v
        /\ \A i \in 0 .. k : g[i] = f[i]
    BY <2>3
  <2>5. ASSUME NEW i \in 1 .. k + 1 PROVE g[i] = G[<<i, g[i - 1]>>]
    <3>1. CASE i = k + 1
      <4>1. g[i - 1] = f[k]
        BY <2>4, <3>1
      <4> QED
        BY <2>2, <2>4, <3>1, <4>1
    <3>2. CASE i # k + 1
      <4>1. i \in 1 .. k /\ i \in 0 .. k /\ i - 1 \in 0 .. k
        BY <3>2
      <4>2. g[i] = f[i] /\ g[i - 1] = f[i - 1] /\ f[i] = G[<<i, f[i - 1]>>]
        BY <2>1, <2>4, <4>1 DEF Steps
      <4> QED
        BY <4>2
    <3> QED
      BY <3>1, <3>2
  <2>6. g[0] = e
    BY <2>1, <2>4 DEF Steps
  <2>7. Steps(g, e, G, k + 1)
    BY <2>5, <2>6 DEF Steps
  <2> QED
    BY <2>4, <2>7
<1> HIDE DEF Good
<1>3. n \in Good
  BY <1>1, <1>2, AllNats
<1> QED
  BY <1>3 DEF Good

-----------------------------------------------------------------------------
(* Sequences *)

(* A function on 1 .. n is a sequence of length n. *)
LEMMA FunSeq == ASSUME NEW S, NEW n \in Nat, NEW f \in [1 .. n -> S]
  PROVE  /\ f \in Seq(S)
         /\ Len(f) = n
<1>1. f \in Seq(S)
  BY SeqDef
<1> QED
  BY <1>1, LenProperties

(* What a concatenation gives: its type, its length, its elements. *)
LEMMA ConcatFacts == ASSUME NEW S, NEW s \in Seq(S), NEW t \in Seq(S)
  PROVE  /\ s \o t \in Seq(S)
         /\ Len(s \o t) = Len(s) + Len(t)
         /\ \A i \in 1 .. Len(s) : (s \o t)[i] = s[i]
         /\ \A i \in 1 .. Len(t) : (s \o t)[Len(s) + i] = t[i]
<1>1. /\ Len(s) \in Nat /\ Len(t) \in Nat
      /\ s \o t \in Seq(S)
      /\ Len(s \o t) = Len(s) + Len(t)
      /\ \A i \in 1 .. Len(s) + Len(t) :
           (s \o t)[i] = IF i <= Len(s) THEN s[i] ELSE t[i - Len(s)]
  BY ConcatProperties, LenProperties
<1>2. ASSUME NEW i \in 1 .. Len(t)
      PROVE  (s \o t)[Len(s) + i] = t[i]
  <2> DEFINE m == Len(s)
             n == Len(t)
             u == s \o t
  <2>1. m \in Nat /\ n \in Nat /\ i \in 1 .. n
    BY <1>1
  <2>2. \A j \in 1 .. m + n : u[j] = IF j <= m THEN s[j] ELSE t[j - m]
    BY <1>1
  <2> HIDE DEF m, n, u
  <2>3. m + i \in 1 .. m + n /\ ~(m + i <= m) /\ m + i - m = i
    BY <2>1
  <2>4. u[m + i] = t[m + i - m]
    BY <2>1, <2>2, <2>3
  <2>5. u[m + i] = t[i]
    BY <2>3, <2>4, Zenon
  <2> QED
    BY <2>5 DEF m, u
<1> QED
  BY <1>1, <1>2


(* n elements from the one after the a-th: a slice of the labels or of the *)
(* pool.                                                                   *)
LEMMA SubSeqFacts ==
  ASSUME NEW S, NEW s, NEW a \in Nat, NEW n \in Nat, \A i \in a + 1 .. a + n : s[i] \in S
  PROVE  /\ SubSeq(s, a + 1, a + n) \in Seq(S)
         /\ Len(SubSeq(s, a + 1, a + n)) = n
         /\ \A i \in 1 .. n : SubSeq(s, a + 1, a + n)[i] = s[a + i]
<1>1. a + 1 \in Int /\ a + n \in Int /\ a + n - (a + 1) + 1 = n
  OBVIOUS
<1>2. /\ SubSeq(s, a + 1, a + n) \in Seq(S)
      /\ Len(SubSeq(s, a + 1, a + n)) = IF a + 1 <= a + n THEN a + n - (a + 1) + 1 ELSE 0
      /\ \A i \in 1 .. a + n - (a + 1) + 1 : SubSeq(s, a + 1, a + n)[i] = s[a + 1 + i - 1]
  BY <1>1, SubSeqProperties
<1>3. \A i \in 1 .. n : a + 1 + i - 1 = a + i
  OBVIOUS
<1> QED
  BY <1>1, <1>2, <1>3

-----------------------------------------------------------------------------
(* Bits and their values *)

(* What holds at the start and is handed from place to place holds at all. *)
LEMMA AllPlaces ==
  ASSUME NEW n \in Nat, NEW Good, 0 \in Good, \A i \in 1 .. n : i - 1 \in Good => i \in Good
  PROVE  \A i \in 0 .. n : i \in Good
<1> DEFINE All == {k \in Nat : k <= n => k \in Good}
<1>1. 0 \in All
  OBVIOUS
<1>2. ASSUME NEW k \in Nat, k \in All PROVE k + 1 \in All
  <2>1. k + 1 <= n => (k + 1 \in 1 .. n /\ k <= n /\ (k + 1) - 1 = k)
    OBVIOUS
  <2> QED
    BY <1>2, <2>1
<1> HIDE DEF All
<1>3. Nat \subseteq All
  BY <1>1, <1>2, AllNats
<1> QED
  BY <1>3 DEF All

(* n bits are a sequence of length n. *)
LEMMA BitsFacts ==
  ASSUME NEW n \in Nat, NEW a \in Bits(n)
  PROVE  a \in Seq(BOOLEAN) /\ Len(a) = n /\ DOMAIN a = 1 .. n
<1>1. a \in [1 .. n -> BOOLEAN]
  BY DEF Bits
<1> QED
  BY <1>1, FunSeq

(* The bits from a place on. *)
LEMMA HighFacts ==
  ASSUME NEW n \in Nat, NEW a \in Bits(n), NEW i \in 1 .. n + 1
  PROVE  /\ High(a, i) \in Bits(n - i + 1)
         /\ \A k \in 1 .. n - i + 1 : High(a, i)[k] = a[(i - 1) + k]
<1> DEFINE h == SubSeq(a, (i - 1) + 1, (i - 1) + (n - i + 1))
<1>1. i - 1 \in Nat /\ n - i + 1 \in Nat
  OBVIOUS
<1>2. \A j \in (i - 1) + 1 .. (i - 1) + (n - i + 1) : a[j] \in BOOLEAN
  BY DEF Bits
<1>3. /\ h \in Seq(BOOLEAN) /\ Len(h) = n - i + 1
      /\ \A k \in 1 .. n - i + 1 : h[k] = a[(i - 1) + k]
  BY <1>1, <1>2, SubSeqFacts
<1>4. High(a, i) = h
  <2>1. (i - 1) + 1 = i /\ (i - 1) + (n - i + 1) = n /\ Len(a) = n
    BY BitsFacts
  <2> QED
    BY <2>1, Zenon DEF High
<1> HIDE DEF h
<1>5. h \in [1 .. n - i + 1 -> BOOLEAN]
  BY <1>3, LenProperties
<1> QED
  BY <1>3, <1>4, <1>5 DEF Bits

(* The bits below a place, or the first m of them. *)
LEMMA LowFacts ==
  ASSUME NEW n \in Nat, NEW a \in Bits(n), NEW m \in 0 .. n
  PROVE  /\ SubSeq(a, 1, m) \in Bits(m)
         /\ \A k \in 1 .. m : SubSeq(a, 1, m)[k] = a[k]
<1> DEFINE h == SubSeq(a, 0 + 1, 0 + m)
<1>1. \A j \in 0 + 1 .. 0 + m : a[j] \in BOOLEAN
  BY DEF Bits
<1>2. /\ h \in Seq(BOOLEAN) /\ Len(h) = m
      /\ \A k \in 1 .. m : h[k] = a[0 + k]
  BY <1>1, SubSeqFacts
<1>3. SubSeq(a, 1, m) = h
  <2>1. 0 + 1 = 1 /\ 0 + m = m
    OBVIOUS
  <2> QED
    BY <2>1, Zenon
<1> HIDE DEF h
<1>4. h \in [1 .. m -> BOOLEAN] /\ \A k \in 1 .. m : 0 + k = k
  BY <1>2, LenProperties
<1> QED
  BY <1>2, <1>3, <1>4 DEF Bits

(* The bits below a place and others from there on. *)
LEMMA JoinFacts ==
  ASSUME NEW n \in Nat, NEW a \in Bits(n), NEW i \in 1 .. n + 1, NEW t \in Bits(n - i + 1)
  PROVE  /\ Below(a, i) \o t \in Bits(n)
         /\ \A k \in 1 .. n : (Below(a, i) \o t)[k] = IF k < i THEN a[k] ELSE t[k - (i - 1)]
<1> PICK s : s = Below(a, i)
  OBVIOUS
<1>1. s \in Bits(i - 1) /\ \A k \in 1 .. i - 1 : s[k] = a[k]
  <2>1. i - 1 \in 0 .. n
    OBVIOUS
  <2> QED
    BY <2>1, LowFacts DEF Below
<1>2. s \in Seq(BOOLEAN) /\ Len(s) = i - 1 /\ t \in Seq(BOOLEAN) /\ Len(t) = n - i + 1
  BY <1>1, BitsFacts
<1> PICK u : u = s \o t
  OBVIOUS
<1>3. /\ u \in Seq(BOOLEAN) /\ Len(u) = (i - 1) + (n - i + 1)
      /\ \A k \in 1 .. i - 1 : u[k] = s[k]
      /\ \A k \in 1 .. n - i + 1 : u[(i - 1) + k] = t[k]
  <2>1. /\ s \o t \in Seq(BOOLEAN) /\ Len(s \o t) = Len(s) + Len(t)
        /\ \A k \in 1 .. Len(s) : (s \o t)[k] = s[k]
        /\ \A k \in 1 .. Len(t) : (s \o t)[Len(s) + k] = t[k]
    <3>1. PICK B : B = BOOLEAN
      OBVIOUS
    <3>2. s \in Seq(B) /\ t \in Seq(B)
      BY <1>2, <3>1, Zenon
    <3>3. /\ s \o t \in Seq(B) /\ Len(s \o t) = Len(s) + Len(t)
          /\ \A k \in 1 .. Len(s) : (s \o t)[k] = s[k]
          /\ \A k \in 1 .. Len(t) : (s \o t)[Len(s) + k] = t[k]
      BY ONLY <3>2, ConcatFacts
    <3> QED
      BY <3>1, <3>3, Zenon
  <2> QED
    BY <1>2, <2>1, Zenon
<1>4. u \in [1 .. n -> BOOLEAN]
  <2>1. (i - 1) + (n - i + 1) = n
    OBVIOUS
  <2> QED
    BY <1>3, <2>1, LenProperties
<1>5. ASSUME NEW k \in 1 .. n PROVE u[k] = IF k < i THEN a[k] ELSE t[k - (i - 1)]
  <2>1. CASE k < i
    <3>1. k \in 1 .. i - 1
      BY <2>1
    <3> QED
      BY <1>1, <1>3, <2>1, <3>1
  <2>2. CASE ~(k < i)
    <3>1. k - (i - 1) \in 1 .. n - i + 1 /\ (i - 1) + (k - (i - 1)) = k
      BY <2>2
    <3> QED
      BY <1>3, <2>2, <3>1
  <2> QED
    BY <2>1, <2>2
<1> QED
  BY <1>4, <1>5 DEF Bits

(* What such a function gives is of the type that the places work on. *)
StepOn(G, S) == G \in [Nat \X S -> S]
Walks(f, e, G, S, n) ==
  e \in S /\ f[0] = e /\ \A i \in 1 .. n : f[i - 1] \in S => f[i] = G[<<i, f[i - 1]>>]
Within(f, S, n) == \A i \in 0 .. n : f[i] \in S
(* It is enough that each place keeps the type. *)
LEMMA StepsTyped ==
  ASSUME NEW S, NEW e, NEW G, NEW f, NEW n \in Nat, StepOn(G, S), Walks(f, e, G, S, n)
  PROVE  Within(f, S, n)
<1>0. e \in S /\ f[0] = e /\ \A i \in 1 .. n : f[i - 1] \in S => f[i] = G[<<i, f[i - 1]>>]
  BY DEF Walks
<1> DEFINE Good == {i \in 0 .. n : f[i] \in S}
<1>1. 0 \in Good
  BY <1>0
<1>2. ASSUME NEW i \in 1 .. n, i - 1 \in Good PROVE i \in Good
  <2>1. f[i - 1] \in S /\ <<i, f[i - 1]>> \in Nat \X S /\ i \in 0 .. n
    BY <1>2
  <2>2. f[i] = G[<<i, f[i - 1]>>]
    BY <1>0, <2>1
  <2>3. f[i] \in S
    BY <2>1, <2>2 DEF StepOn
  <2> QED
    BY <2>1, <2>3
<1> HIDE DEF Good
<1>3. \A i \in 0 .. n : i \in Good
  BY <1>1, <1>2, AllPlaces
<1> QED
  BY <1>3 DEF Good, Within

(* The weight of a bit is a power of two or nothing. *)
LEMMA WeightNat ==
  ASSUME NEW bit, NEW i \in Nat \ {0}
  PROVE  Weight(bit, i) \in Nat /\ Weight(bit, i) <= 2 ^ (i - 1)
<1>1. 2 ^ (i - 1) \in Nat
  BY PowerFacts
<1> QED
  BY <1>1 DEF Weight

(* The values of the first places, as the definition means them. *)
LEMMA ValuesRec ==
  ASSUME NEW n \in Nat, NEW a \in Bits(n)
  PROVE  /\ Values(a) \in [0 .. n -> Nat]
         /\ Values(a)[0] = 0
         /\ \A i \in 1 .. n : Values(a)[i] = Values(a)[i - 1] + Weight(a[i], i)
<1> DEFINE W(i) == Weight(a[i], i)
           G == [w \in Nat \X Nat |-> IF w[1] = 0 THEN 0 ELSE w[2] + W(w[1])]
<1>1. \A i \in Nat \ {0} : W(i) \in Nat
  BY WeightNat
<1> HIDE DEF W
<1>2. G \in [Nat \X Nat -> Nat]
  BY <1>1
<1>3. \A i \in 1 .. n, k \in Nat : G[<<i, k>>] = k + W(i)
  OBVIOUS
<1> HIDE DEF G
<1>4. PICK h \in [0 .. n -> Nat] : Steps(h, 0, G, n)
  BY <1>2, Recursion
<1>5. h = [i \in 0 .. n |-> IF i = 0 THEN 0 ELSE h[i - 1] + W(i)]
  <2>1. ASSUME NEW i \in 0 .. n PROVE h[i] = IF i = 0 THEN 0 ELSE h[i - 1] + W(i)
    <3>1. i # 0 => i \in 1 .. n /\ h[i - 1] \in Nat
      OBVIOUS
    <3> QED
      BY <1>3, <1>4, <3>1 DEF Steps
  <2> QED
    BY <1>4, <2>1
<1>6. Values(a) = CHOOSE v : v = [i \in 0 .. n |-> IF i = 0 THEN 0 ELSE v[i - 1] + W(i)]
  <2>1. Len(a) = n
    BY BitsFacts
  <2> QED
    BY <2>1, Zenon DEF Values, W
<1>7. PICK f : f = Values(a)
  OBVIOUS
<1>8. f = [i \in 0 .. n |-> IF i = 0 THEN 0 ELSE f[i - 1] + W(i)]
  BY <1>5, <1>6, <1>7, Zenon
<1>9. f[0] = 0 /\ \A i \in 1 .. n : f[i] = f[i - 1] + W(i)
  <2>1. \A i \in 0 .. n : f[i] = IF i = 0 THEN 0 ELSE f[i - 1] + W(i)
    BY ONLY <1>8, Zenon
  <2> QED
    BY ONLY <2>1, n \in Nat
<1>10. \A i \in 0 .. n : f[i] \in Nat
  <2>1. Walks(f, 0, G, Nat, n)
    BY <1>3, <1>9 DEF Walks
  <2>2. StepOn(G, Nat)
    BY <1>2 DEF StepOn
  <2>3. Within(f, Nat, n)
    BY ONLY <2>1, <2>2, StepsTyped, n \in Nat
  <2> QED
    BY <2>3 DEF Within
<1>11. f \in [0 .. n -> Nat]
  BY ONLY <1>8, <1>10
<1> QED
  BY <1>7, <1>9, <1>11 DEF W

(* The value of the first i places has no more than i bits. *)
LEMMA ValuesBound ==
  ASSUME NEW n \in Nat, NEW a \in Bits(n)
  PROVE  \A i \in 0 .. n : Values(a)[i] \in Nat /\ Values(a)[i] < 2 ^ i
<1> PICK v : v = Values(a)
  OBVIOUS
<1>1. v \in [0 .. n -> Nat] /\ v[0] = 0 /\ \A i \in 1 .. n : v[i] = v[i - 1] + Weight(a[i], i)
  BY ValuesRec
<1> DEFINE Good == {i \in 0 .. n : v[i] < 2 ^ i}
<1>2. 0 \in Good
  BY <1>1, PowerFacts
<1>3. ASSUME NEW i \in 1 .. n, i - 1 \in Good PROVE i \in Good
  <2>1. PICK P \in Nat : P = 2 ^ (i - 1) /\ 2 ^ i = 2 * P
    <3>1. i - 1 \in Nat /\ (i - 1) + 1 = i
      OBVIOUS
    <3> QED
      BY <3>1, PowerFacts
  <2>2. PICK w \in Nat : w = Weight(a[i], i) /\ w <= P
    BY <2>1, WeightNat
  <2>3. PICK p \in Nat : p = v[i - 1]
    BY <1>1
  <2>4. p < P
    BY <1>3, <2>1, <2>3
  <2>5. v[i] = p + w
    BY <1>1, <2>2, <2>3
  <2>6. p + w < 2 * P
    BY ONLY <2>2, <2>4, P \in Nat, p \in Nat
  <2> QED
    BY <2>1, <2>5, <2>6
<1> HIDE DEF Good
<1>4. \A i \in 0 .. n : i \in Good
  BY <1>2, <1>3, AllPlaces
<1> QED
  BY <1>1, <1>4 DEF Good

(* Bits that agree up to a place have the same value up to there. *)
LEMMA ValuesAgree ==
  ASSUME NEW n \in Nat, NEW a \in Bits(n), NEW m \in Nat, NEW b \in Bits(m),
         NEW j \in Nat, j <= n, j <= m, \A k \in 1 .. j : a[k] = b[k]
  PROVE  Values(a)[j] = Values(b)[j]
<1> PICK v, w : v = Values(a) /\ w = Values(b)
  OBVIOUS
<1>1. /\ v[0] = 0 /\ \A i \in 1 .. n : v[i] = v[i - 1] + Weight(a[i], i)
      /\ w[0] = 0 /\ \A i \in 1 .. m : w[i] = w[i - 1] + Weight(b[i], i)
  BY ValuesRec
<1> DEFINE Good == {i \in 0 .. j : v[i] = w[i]}
<1>2. 0 \in Good
  BY <1>1
<1>3. ASSUME NEW i \in 1 .. j, i - 1 \in Good PROVE i \in Good
  <2>1. i \in 1 .. n /\ i \in 1 .. m /\ i \in 0 .. j
    OBVIOUS
  <2>2. v[i] = v[i - 1] + Weight(a[i], i) /\ w[i] = w[i - 1] + Weight(b[i], i)
    BY <1>1, <2>1
  <2>3. v[i - 1] = w[i - 1] /\ a[i] = b[i]
    BY <1>3
  <2>4. v[i] = w[i]
    BY <2>2, <2>3, Zenon
  <2> QED
    BY <2>1, <2>4
<1> HIDE DEF Good
<1>4. \A i \in 0 .. j : i \in Good
  BY <1>2, <1>3, AllPlaces
<1>5. j \in 0 .. j
  OBVIOUS
<1> QED
  BY <1>4, <1>5 DEF Good

(* The places up to one and those beyond it make the value up to a third. *)
LEMMA ValuesShift ==
  ASSUME NEW n \in Nat, NEW a \in Bits(n), NEW s \in 0 .. n, NEW t \in Bits(n - s),
         \A k \in 1 .. n - s : t[k] = a[s + k]
  PROVE  \A j \in 0 .. n - s : Values(a)[s + j] = Values(a)[s] + 2 ^ s * Values(t)[j]
<1> PICK m : m = n - s
  OBVIOUS
<1>0. m \in Nat /\ s \in Nat
  OBVIOUS
<1> PICK v, w : v = Values(a) /\ w = Values(t)
  OBVIOUS
<1>1. /\ v \in [0 .. n -> Nat] /\ \A i \in 1 .. n : v[i] = v[i - 1] + Weight(a[i], i)
      /\ w \in [0 .. m -> Nat] /\ w[0] = 0 /\ \A i \in 1 .. m : w[i] = w[i - 1] + Weight(t[i], i)
  BY <1>0, ValuesRec
<1> PICK P \in Nat : P = 2 ^ s
  BY PowerFacts
<1> DEFINE Good == {j \in 0 .. m : v[s + j] = v[s] + P * w[j]}
<1>2. 0 \in Good
  BY <1>0, <1>1
<1>3. ASSUME NEW j \in 1 .. m, j - 1 \in Good PROVE j \in Good
  <2>1. PICK Q \in Nat, R \in Nat : Q = 2 ^ (j - 1) /\ R = 2 ^ ((s + j) - 1)
    BY <1>0, PowerFacts
  <2>2. R = P * Q
    <3>1. s + (j - 1) = (s + j) - 1 /\ j - 1 \in Nat
      BY <1>0
    <3> QED
      BY <1>0, <2>1, <3>1, PowerSum, Zenon
  <2>3. PICK e : e = a[s + j] /\ e = t[j]
    OBVIOUS
  <2>4. /\ v[s + j] = v[(s + j) - 1] + Weight(e, s + j)
        /\ w[j] = w[j - 1] + Weight(e, j)
    BY <1>0, <1>1, <2>3
  <2>5. Weight(e, s + j) = IF e THEN R ELSE 0
    BY <2>1, Zenon DEF Weight
  <2>6. Weight(e, j) = IF e THEN Q ELSE 0
    BY <2>1, Zenon DEF Weight
  <2>7. PICK p \in Nat, q \in Nat, Z \in Nat : p = v[s + (j - 1)] /\ q = w[j - 1] /\ Z = v[s] /\ p = Z + P * q
    BY <1>0, <1>1, <1>3
  <2>8. v[(s + j) - 1] = p
    <3>1. (s + j) - 1 = s + (j - 1)
      BY <1>0
    <3> QED
      BY <2>7, <3>1, Zenon
  <2>9. CASE e
    <3>1. v[s + j] = p + R /\ w[j] = q + Q
      BY <2>4, <2>5, <2>6, <2>7, <2>8, <2>9
    <3>2. p + R = Z + P * (q + Q)
      BY ONLY <2>2, <2>7, P \in Nat, Q \in Nat, R \in Nat
    <3>3. v[s + j] = v[s] + P * w[j]
      BY <2>7, <3>1, <3>2, Zenon
    <3> QED
      BY <3>3
  <2>10. CASE ~e
    <3>1. v[s + j] = p /\ w[j] = q
      BY <2>4, <2>5, <2>6, <2>7, <2>8, <2>10
    <3> QED
      BY <2>7, <3>1
  <2> QED
    BY <2>9, <2>10
<1> HIDE DEF Good
<1>4. \A j \in 0 .. m : j \in Good
  BY <1>0, <1>2, <1>3, AllPlaces
<1> QED
  BY <1>4 DEF Good

(* The value of the places below one and of those from there on. *)
LEMMA ValueSplit ==
  ASSUME NEW n \in Nat, NEW a \in Bits(n), NEW i \in 1 .. n + 1
  PROVE  /\ Value(a) \in Nat /\ Value(High(a, i)) \in Nat /\ Values(a)[i - 1] \in Nat
         /\ Value(a) = Values(a)[i - 1] + 2 ^ (i - 1) * Value(High(a, i))
<1>1. i - 1 \in 0 .. n /\ n - (i - 1) = n - i + 1 /\ n - i + 1 \in Nat /\ (i - 1) + (n - i + 1) = n
  OBVIOUS
<1>2. /\ High(a, i) \in Bits(n - (i - 1))
      /\ \A k \in 1 .. n - (i - 1) : High(a, i)[k] = a[(i - 1) + k]
  BY <1>1, HighFacts
<1>3. Values(a)[n] = Values(a)[i - 1] + 2 ^ (i - 1) * Values(High(a, i))[n - i + 1]
  <2>1. \A j \in 0 .. n - (i - 1) :
          Values(a)[(i - 1) + j] = Values(a)[i - 1] + 2 ^ (i - 1) * Values(High(a, i))[j]
    BY <1>1, <1>2, ValuesShift
  <2>2. n - i + 1 \in 0 .. n - (i - 1)
    BY <1>1
  <2> QED
    BY <1>1, <2>1, <2>2, Zenon
<1>4. Value(a) = Values(a)[n] /\ Value(High(a, i)) = Values(High(a, i))[n - i + 1]
  <2>1. Len(a) = n /\ Len(High(a, i)) = n - i + 1
    BY <1>1, <1>2, BitsFacts
  <2> QED
    BY <2>1, Zenon DEF Value
<1>5. Values(a)[n] \in Nat /\ Values(a)[i - 1] \in Nat /\ Values(High(a, i))[n - i + 1] \in Nat
  BY <1>1, <1>2, ValuesBound
<1> QED
  BY <1>3, <1>4, <1>5, Zenon

(* The value of n bits. *)
LEMMA ValueFacts ==
  ASSUME NEW n \in Nat, NEW a \in Bits(n)
  PROVE  /\ Value(a) = Values(a)[n]
         /\ Value(a) \in Nat /\ Value(a) < 2 ^ n
<1>1. Value(a) = Values(a)[n]
  BY BitsFacts, Zenon DEF Value
<1>2. n \in 0 .. n
  OBVIOUS
<1> QED
  BY <1>1, <1>2, ValuesBound

(* The most significant bit says on which side of half the range it is. *)
LEMMA MsbFacts ==
  ASSUME NEW n \in Nat \ {0}, NEW a \in Bits(n), NEW P, P = 2 ^ (n - 1)
  PROVE  /\ Msb(a) = a[n] /\ Msb(a) \in BOOLEAN
         /\ P \in Nat /\ P >= 1 /\ 2 ^ n = 2 * P
         /\ Value(a) \in Nat /\ Values(a)[n - 1] \in Nat /\ Values(a)[n - 1] < P
         /\ Value(a) = Values(a)[n - 1] + IF Msb(a) THEN P ELSE 0
         /\ Msb(a) <=> Value(a) >= P
<1>1. n - 1 \in Nat /\ n - 1 \in 0 .. n /\ n \in 1 .. n /\ (n - 1) + 1 = n
  OBVIOUS
<1>2. P \in Nat /\ P >= 1 /\ 2 ^ n = 2 * P
  BY <1>1, PowerFacts
<1>3. Msb(a) = a[n] /\ Msb(a) \in BOOLEAN
  <2>1. Len(a) = n
    BY BitsFacts
  <2>2. a[n] \in BOOLEAN
    BY <1>1 DEF Bits
  <2> QED
    BY <2>1, <2>2, Zenon DEF Msb
<1>4. Values(a)[n - 1] \in Nat /\ Values(a)[n - 1] < P
  BY <1>1, ValuesBound
<1>5. Value(a) \in Nat /\ Value(a) = Values(a)[n - 1] + Weight(a[n], n)
  BY <1>1, ValueFacts, ValuesRec
<1>6. Weight(a[n], n) = IF Msb(a) THEN P ELSE 0
  BY <1>3, Zenon DEF Weight
<1>7. Value(a) = Values(a)[n - 1] + IF Msb(a) THEN P ELSE 0
  BY <1>5, <1>6, Zenon
<1>8. Msb(a) <=> Value(a) >= P
  <2>1. CASE Msb(a)
    BY <1>2, <1>4, <1>7, <2>1
  <2>2. CASE ~Msb(a)
    BY <1>2, <1>4, <1>7, <2>2
  <2> QED
    BY <2>1, <2>2
<1> QED
  BY <1>2, <1>3, <1>4, <1>5, <1>7, <1>8, Zenon

(* Bits that are those of another up to a place, and beyond it false. *)
LEMMA ValuePadded ==
  ASSUME NEW n \in Nat, NEW a \in Bits(n), NEW m \in 0 .. n,
         \A k \in 1 .. n : k > m => ~a[k]
  PROVE  Value(a) = Values(a)[m]
<1> PICK v : v = Values(a)
  OBVIOUS
<1>1. v \in [0 .. n -> Nat] /\ \A i \in 1 .. n : v[i] = v[i - 1] + Weight(a[i], i)
  BY ValuesRec
<1> DEFINE Good == {i \in 0 .. n : i > m => v[i] = v[m]}
<1>2. 0 \in Good
  OBVIOUS
<1>3. ASSUME NEW i \in 1 .. n, i - 1 \in Good PROVE i \in Good
  <2>1. CASE i <= m
    BY <2>1
  <2>2. CASE i > m
    <3>1. v[i - 1] = v[m]
      <4>1. i - 1 = m \/ i - 1 > m
        BY <2>2
      <4> QED
        BY <1>3, <4>1
    <3>2. ~a[i]
      BY <2>2
    <3>3. Weight(a[i], i) = 0
      BY <3>2, Zenon DEF Weight
    <3>4. v[i] = v[m] + 0 /\ v[m] \in Nat
      BY <1>1, <3>1, <3>3
    <3> QED
      BY <3>4
  <2> QED
    BY <2>1, <2>2
<1> HIDE DEF Good
<1>4. \A i \in 0 .. n : i \in Good
  BY <1>2, <1>3, AllPlaces
<1>5. v[n] = v[m]
  <2>1. n \in 0 .. n /\ (n > m \/ n = m)
    OBVIOUS
  <2> QED
    BY <1>4, <2>1 DEF Good
<1> QED
  BY <1>5, ValueFacts

-----------------------------------------------------------------------------
(* Addition *)

Heavy(bit, P) == IF bit THEN P ELSE 0

(* One place of the adder: the sum and the carry are worth what comes in.  *)
LEMMA AddPlace ==
  ASSUME NEW p \in BOOLEAN, NEW q \in BOOLEAN, NEW k \in BOOLEAN, NEW P \in Nat,
         NEW s, s = (p # (q # k)), NEW c, c = (k # ((p # k) /\ (q # k)))
  PROVE  Heavy(s, P) + Heavy(c, 2 * P) = Heavy(p, P) + Heavy(q, P) + Heavy(k, P)
<1>0. \A Z : Heavy(TRUE, Z) = Z /\ Heavy(FALSE, Z) = 0
  BY DEF Heavy
<1>1. CASE p = TRUE /\ q = TRUE /\ k = TRUE
  <2>1. s = TRUE /\ c = TRUE
    BY <1>1, Zenon
  <2>2. Heavy(s, P) = P /\ Heavy(c, 2 * P) = 2 * P /\ Heavy(p, P) = P /\ Heavy(q, P) = P /\ Heavy(k, P) = P
    BY <1>0, <1>1, <2>1, Zenon
  <2> QED
    BY ONLY <2>2, P \in Nat
<1>2. CASE p = TRUE /\ q = TRUE /\ k = FALSE
  <2>1. s = FALSE /\ c = TRUE
    BY <1>2, Zenon
  <2>2. Heavy(s, P) = 0 /\ Heavy(c, 2 * P) = 2 * P /\ Heavy(p, P) = P /\ Heavy(q, P) = P /\ Heavy(k, P) = 0
    BY <1>0, <1>2, <2>1, Zenon
  <2> QED
    BY ONLY <2>2, P \in Nat
<1>3. CASE p = TRUE /\ q = FALSE /\ k = TRUE
  <2>1. s = FALSE /\ c = TRUE
    BY <1>3, Zenon
  <2>2. Heavy(s, P) = 0 /\ Heavy(c, 2 * P) = 2 * P /\ Heavy(p, P) = P /\ Heavy(q, P) = 0 /\ Heavy(k, P) = P
    BY <1>0, <1>3, <2>1, Zenon
  <2> QED
    BY ONLY <2>2, P \in Nat
<1>4. CASE p = TRUE /\ q = FALSE /\ k = FALSE
  <2>1. s = TRUE /\ c = FALSE
    BY <1>4, Zenon
  <2>2. Heavy(s, P) = P /\ Heavy(c, 2 * P) = 0 /\ Heavy(p, P) = P /\ Heavy(q, P) = 0 /\ Heavy(k, P) = 0
    BY <1>0, <1>4, <2>1, Zenon
  <2> QED
    BY ONLY <2>2, P \in Nat
<1>5. CASE p = FALSE /\ q = TRUE /\ k = TRUE
  <2>1. s = FALSE /\ c = TRUE
    BY <1>5, Zenon
  <2>2. Heavy(s, P) = 0 /\ Heavy(c, 2 * P) = 2 * P /\ Heavy(p, P) = 0 /\ Heavy(q, P) = P /\ Heavy(k, P) = P
    BY <1>0, <1>5, <2>1, Zenon
  <2> QED
    BY ONLY <2>2, P \in Nat
<1>6. CASE p = FALSE /\ q = TRUE /\ k = FALSE
  <2>1. s = TRUE /\ c = FALSE
    BY <1>6, Zenon
  <2>2. Heavy(s, P) = P /\ Heavy(c, 2 * P) = 0 /\ Heavy(p, P) = 0 /\ Heavy(q, P) = P /\ Heavy(k, P) = 0
    BY <1>0, <1>6, <2>1, Zenon
  <2> QED
    BY ONLY <2>2, P \in Nat
<1>7. CASE p = FALSE /\ q = FALSE /\ k = TRUE
  <2>1. s = TRUE /\ c = FALSE
    BY <1>7, Zenon
  <2>2. Heavy(s, P) = P /\ Heavy(c, 2 * P) = 0 /\ Heavy(p, P) = 0 /\ Heavy(q, P) = 0 /\ Heavy(k, P) = P
    BY <1>0, <1>7, <2>1, Zenon
  <2> QED
    BY ONLY <2>2, P \in Nat
<1>8. CASE p = FALSE /\ q = FALSE /\ k = FALSE
  <2>1. s = FALSE /\ c = FALSE
    BY <1>8, Zenon
  <2>2. Heavy(s, P) = 0 /\ Heavy(c, 2 * P) = 0 /\ Heavy(p, P) = 0 /\ Heavy(q, P) = 0 /\ Heavy(k, P) = 0
    BY <1>0, <1>8, <2>1, Zenon
  <2> QED
    BY ONLY <2>2, P \in Nat
<1> QED
  BY <1>1, <1>2, <1>3, <1>4, <1>5, <1>6, <1>7, <1>8, Zenon

(* The carry into each place, as the definition means it. *)
LEMMA CarryRec ==
  ASSUME NEW n \in Nat \ {0}, NEW a \in Bits(n), NEW b \in Bits(n)
  PROVE  /\ Carry(a, b)[1] = FALSE
         /\ \A i \in 1 .. n : Carry(a, b)[i] \in BOOLEAN
         /\ \A i \in 1 .. n : i # 1 =>
              Carry(a, b)[i] = LET k == Carry(a, b)[i - 1]
                               IN k # ((a[i - 1] # k) /\ (b[i - 1] # k))
<1> DEFINE Out(i, k) == k # ((a[i] # k) /\ (b[i] # k))
           G == [w \in Nat \X BOOLEAN |-> Out(w[1], w[2])]
<1>1. ASSUME NEW i, NEW k PROVE Out(i, k) \in BOOLEAN
  BY Zenon
<1> HIDE DEF Out
<1>2. G \in [Nat \X BOOLEAN -> BOOLEAN]
  BY <1>1, Zenon
<1>3. \A i \in Nat, k \in BOOLEAN : G[<<i, k>>] = Out(i, k)
  OBVIOUS
<1> HIDE DEF G
<1>4. PICK h \in [0 .. n -> BOOLEAN] : Steps(h, FALSE, G, n)
  BY <1>2, Recursion
<1>5. PICK g : g = [i \in 1 .. n |-> h[i - 1]]
  OBVIOUS
<1>6. g = [i \in 1 .. n |-> IF i = 1 THEN FALSE ELSE Out(i - 1, g[i - 1])]
  <2>1. ASSUME NEW i \in 1 .. n PROVE h[i - 1] = IF i = 1 THEN FALSE ELSE Out(i - 1, g[i - 1])
    <3>1. CASE i = 1
      <4>1. i - 1 = 0
        BY <3>1
      <4> QED
        BY <1>4, <3>1, <4>1, Zenon DEF Steps
    <3>2. CASE i # 1
      <4>1. i - 1 \in 1 .. n /\ i - 1 \in Nat /\ (i - 1) - 1 \in 0 .. n
        BY <3>2
      <4>2. h[i - 1] = G[<<i - 1, h[(i - 1) - 1]>>] /\ h[(i - 1) - 1] \in BOOLEAN
        BY <1>4, <4>1, Zenon DEF Steps
      <4>3. g[i - 1] = h[(i - 1) - 1]
        BY <1>5, <4>1, Zenon
      <4> QED
        BY <1>3, <3>2, <4>1, <4>2, <4>3, Zenon
    <3> QED
      BY <3>1, <3>2
  <2> QED
    BY <1>5, <2>1, Zenon
<1>7. Carry(a, b) = CHOOSE c : c = [i \in 1 .. n |-> IF i = 1 THEN FALSE ELSE Out(i - 1, c[i - 1])]
  <2>1. Len(a) = n
    BY BitsFacts
  <2> QED
    BY <2>1, Zenon DEF Carry, Out
<1>8. PICK f : f = Carry(a, b)
  OBVIOUS
<1>9. f = [i \in 1 .. n |-> IF i = 1 THEN FALSE ELSE Out(i - 1, f[i - 1])]
  BY <1>6, <1>7, <1>8, Zenon
<1>10. \A i \in 1 .. n : f[i] = IF i = 1 THEN FALSE ELSE Out(i - 1, f[i - 1])
  BY ONLY <1>9, Zenon
<1>11. f[1] = FALSE
  <2>1. 1 \in 1 .. n
    OBVIOUS
  <2> QED
    BY <1>10, <2>1, Zenon
<1>12. ASSUME NEW i \in 1 .. n, i # 1 PROVE f[i] = Out(i - 1, f[i - 1])
  BY <1>10, <1>12, Zenon
<1>13. \A i \in 1 .. n : f[i] \in BOOLEAN
  BY <1>1, <1>11, <1>12, Zenon
<1> QED
  BY <1>8, <1>11, <1>12, <1>13, Zenon DEF Out

(* The weight of a bit is what it is worth at its place. *)
LEMMA WeightIs ==
  ASSUME NEW bit, NEW i, NEW P, P = 2 ^ (i - 1)
  PROVE  Weight(bit, i) = Heavy(bit, P)
BY Zenon DEF Weight, Heavy

(* What a bit is worth is a number. *)
LEMMA HeavyNat == ASSUME NEW bit, NEW P \in Nat
  PROVE  Heavy(bit, P) \in Nat /\ Heavy(bit, P) <= P
BY DEF Heavy

(* What a place adds to the value of those below it. *)
LEMMA ValuesStep ==
  ASSUME NEW n \in Nat, NEW a \in Bits(n), NEW i \in 1 .. n, NEW P, P = 2 ^ (i - 1)
  PROVE  /\ Values(a)[i - 1] \in Nat /\ Values(a)[i] \in Nat
         /\ Values(a)[i] = Values(a)[i - 1] + Heavy(a[i], P)
<1>1. /\ Values(a) \in [0 .. n -> Nat] /\ i - 1 \in 0 .. n /\ i \in 0 .. n
      /\ Values(a)[i] = Values(a)[i - 1] + Weight(a[i], i)
  BY ValuesRec
<1>2. Weight(a[i], i) = Heavy(a[i], P)
  BY WeightIs
<1> QED
  BY <1>1, <1>2

(* The sum has as many bits as its operands; it is the sum of their values,*)
(* or short of it by the power of two that does not fit.                   *)
LEMMA AddFacts ==
  ASSUME NEW n \in Nat \ {0}, NEW a \in Bits(n), NEW b \in Bits(n)
  PROVE  /\ add_full(a, b) \in Bits(n)
         /\ \/ Value(add_full(a, b)) = Value(a) + Value(b)
            \/ Value(add_full(a, b)) + 2 ^ n = Value(a) + Value(b)
<1> PICK s, c : s = add_full(a, b) /\ c = Carry(a, b)
  OBVIOUS
<1>1. s = [i \in 1 .. n |-> a[i] # (b[i] # c[i])]
  <2>1. DOMAIN a = 1 .. n
    BY BitsFacts
  <2> QED
    BY <2>1, Zenon DEF add_full
<1>2. s \in Bits(n) /\ \A i \in 1 .. n : s[i] = (a[i] # (b[i] # c[i]))
  <2>1. \A i \in 1 .. n : (a[i] # (b[i] # c[i])) \in BOOLEAN
    BY Zenon
  <2>2. s \in [1 .. n -> BOOLEAN]
    BY <1>1, <2>1, Zenon
  <2> QED
    BY <1>1, <2>2, Zenon DEF Bits
<1> PICK u, v, w : u = Values(a) /\ v = Values(b) /\ w = Values(s)
  OBVIOUS
<1>3. u[0] = 0 /\ v[0] = 0 /\ w[0] = 0
  BY <1>2, ValuesRec
<1>4. /\ c[1] = FALSE /\ \A i \in 1 .. n : c[i] \in BOOLEAN
      /\ \A i \in 1 .. n : i # 1 => c[i] = (c[i - 1] # ((a[i - 1] # c[i - 1]) /\ (b[i - 1] # c[i - 1])))
  BY CarryRec, Zenon
<1> DEFINE Out(i) == c[i] # ((a[i] # c[i]) /\ (b[i] # c[i]))
           In(i) == IF i = 0 THEN FALSE ELSE Out(i)
           Good == {i \in 0 .. n : w[i] + Heavy(In(i), 2 ^ i) = u[i] + v[i]}
<1>5. 0 \in Good
  BY <1>3 DEF Heavy
<1>6. ASSUME NEW i \in 1 .. n, i - 1 \in Good PROVE i \in Good
  <2>1. PICK P \in Nat : P = 2 ^ (i - 1) /\ 2 ^ i = 2 * P
    <3>1. i - 1 \in Nat /\ (i - 1) + 1 = i
      OBVIOUS
    <3> QED
      BY <3>1, PowerFacts
  <2>2. PICK p \in BOOLEAN, q \in BOOLEAN, k \in BOOLEAN : p = a[i] /\ q = b[i] /\ k = c[i]
    BY <1>4 DEF Bits
  <2>3. In(i - 1) = k
    <3>1. CASE i = 1
      <4>1. i - 1 = 0
        BY <3>1
      <4> QED
        BY <1>4, <2>2, <3>1, <4>1, Zenon
    <3>2. CASE i # 1
      <4>1. i - 1 # 0
        BY <3>2
      <4> QED
        BY <1>4, <2>2, <3>2, <4>1, Zenon
    <3> QED
      BY <3>1, <3>2
  <2>4. In(i) = (k # ((p # k) /\ (q # k))) /\ s[i] = (p # (q # k))
    <3>1. i # 0
      OBVIOUS
    <3> QED
      BY <1>2, <2>2, <3>1, Zenon
  <2> HIDE DEF In
  <2> PICK X, Y, Z : X = u[i - 1] /\ Y = v[i - 1] /\ Z = w[i - 1]
    OBVIOUS
  <2>5. /\ X \in Nat /\ Y \in Nat /\ Z \in Nat
        /\ u[i] = X + Heavy(a[i], P) /\ v[i] = Y + Heavy(b[i], P)
        /\ w[i] = Z + Heavy(s[i], P)
    <3>1. Values(a)[i - 1] \in Nat /\ Values(a)[i] = Values(a)[i - 1] + Heavy(a[i], P)
      BY <2>1, ValuesStep
    <3>2. Values(b)[i - 1] \in Nat /\ Values(b)[i] = Values(b)[i - 1] + Heavy(b[i], P)
      BY <2>1, ValuesStep
    <3>3. Values(s)[i - 1] \in Nat /\ Values(s)[i] = Values(s)[i - 1] + Heavy(s[i], P)
      BY <1>2, <2>1, ValuesStep
    <3> QED
      BY <3>1, <3>2, <3>3, Zenon
  <2>6. Z + Heavy(k, P) = X + Y
    BY <1>6, <2>1, <2>3, Zenon
  <2> PICK e, f, g, l, m : /\ e = Heavy(p, P) /\ f = Heavy(q, P) /\ g = Heavy(k, P)
                           /\ l = Heavy(p # (q # k), P)
                           /\ m = Heavy(k # ((p # k) /\ (q # k)), 2 * P)
    OBVIOUS
  <2>7. l + m = e + f + g
    <3>1. PICK r, t : r = (p # (q # k)) /\ t = (k # ((p # k) /\ (q # k)))
      OBVIOUS
    <3>2. Heavy(r, P) + Heavy(t, 2 * P) = Heavy(p, P) + Heavy(q, P) + Heavy(k, P)
      BY <3>1, AddPlace
    <3> QED
      BY <3>1, <3>2, Zenon
  <2>8. e \in Nat /\ f \in Nat /\ g \in Nat /\ l \in Nat /\ m \in Nat
    BY HeavyNat
  <2>9. (Z + l) + m = (X + e) + (Y + f)
    BY ONLY <2>5, <2>6, <2>7, <2>8, g = Heavy(k, P)
  <2>10. w[i] + Heavy(In(i), 2 ^ i) = u[i] + v[i]
    BY <2>1, <2>2, <2>4, <2>5, <2>9, Zenon
  <2> QED
    BY <2>10
<1> HIDE DEF Good, In
<1>7. \A i \in 0 .. n : i \in Good
  BY <1>5, <1>6, AllPlaces
<1>8. w[n] + Heavy(In(n), 2 ^ n) = u[n] + v[n]
  <2>1. n \in 0 .. n
    OBVIOUS
  <2> QED
    BY <1>7, <2>1 DEF Good
<1>9. Value(s) = w[n] /\ Value(a) = u[n] /\ Value(b) = v[n] /\ w[n] \in Nat
  BY <1>2, ValueFacts
<1>10. Heavy(In(n), 2 ^ n) = 0 \/ Heavy(In(n), 2 ^ n) = 2 ^ n
  BY Zenon DEF Heavy
<1>11. w[n] + 0 = w[n]
  BY <1>9
<1> QED
  BY <1>2, <1>8, <1>9, <1>10, <1>11, Zenon

-----------------------------------------------------------------------------
(* Subtraction *)

(* One place of the subtraction: the difference and what it borrows.       *)
LEMMA SubPlace ==
  ASSUME NEW p \in BOOLEAN, NEW q \in BOOLEAN, NEW k \in BOOLEAN, NEW P \in Nat,
         NEW d, d = ((p # q) # k), NEW e, e = (k # ((p # q) /\ (k # q)))
  PROVE  Heavy(d, P) + Heavy(q, P) + Heavy(k, P) = Heavy(p, P) + Heavy(e, 2 * P)
<1>0. \A Z : Heavy(TRUE, Z) = Z /\ Heavy(FALSE, Z) = 0
  BY DEF Heavy
<1>1. CASE p = TRUE /\ q = TRUE /\ k = TRUE
  <2>1. d = TRUE /\ e = TRUE
    BY <1>1, Zenon
  <2>2. Heavy(d, P) = P /\ Heavy(e, 2 * P) = 2 * P /\ Heavy(p, P) = P /\ Heavy(q, P) = P /\ Heavy(k, P) = P
    BY <1>0, <1>1, <2>1, Zenon
  <2> QED
    BY ONLY <2>2, P \in Nat
<1>2. CASE p = TRUE /\ q = TRUE /\ k = FALSE
  <2>1. d = FALSE /\ e = FALSE
    BY <1>2, Zenon
  <2>2. Heavy(d, P) = 0 /\ Heavy(e, 2 * P) = 0 /\ Heavy(p, P) = P /\ Heavy(q, P) = P /\ Heavy(k, P) = 0
    BY <1>0, <1>2, <2>1, Zenon
  <2> QED
    BY ONLY <2>2, P \in Nat
<1>3. CASE p = TRUE /\ q = FALSE /\ k = TRUE
  <2>1. d = FALSE /\ e = FALSE
    BY <1>3, Zenon
  <2>2. Heavy(d, P) = 0 /\ Heavy(e, 2 * P) = 0 /\ Heavy(p, P) = P /\ Heavy(q, P) = 0 /\ Heavy(k, P) = P
    BY <1>0, <1>3, <2>1, Zenon
  <2> QED
    BY ONLY <2>2, P \in Nat
<1>4. CASE p = TRUE /\ q = FALSE /\ k = FALSE
  <2>1. d = TRUE /\ e = FALSE
    BY <1>4, Zenon
  <2>2. Heavy(d, P) = P /\ Heavy(e, 2 * P) = 0 /\ Heavy(p, P) = P /\ Heavy(q, P) = 0 /\ Heavy(k, P) = 0
    BY <1>0, <1>4, <2>1, Zenon
  <2> QED
    BY ONLY <2>2, P \in Nat
<1>5. CASE p = FALSE /\ q = TRUE /\ k = TRUE
  <2>1. d = FALSE /\ e = TRUE
    BY <1>5, Zenon
  <2>2. Heavy(d, P) = 0 /\ Heavy(e, 2 * P) = 2 * P /\ Heavy(p, P) = 0 /\ Heavy(q, P) = P /\ Heavy(k, P) = P
    BY <1>0, <1>5, <2>1, Zenon
  <2> QED
    BY ONLY <2>2, P \in Nat
<1>6. CASE p = FALSE /\ q = TRUE /\ k = FALSE
  <2>1. d = TRUE /\ e = TRUE
    BY <1>6, Zenon
  <2>2. Heavy(d, P) = P /\ Heavy(e, 2 * P) = 2 * P /\ Heavy(p, P) = 0 /\ Heavy(q, P) = P /\ Heavy(k, P) = 0
    BY <1>0, <1>6, <2>1, Zenon
  <2> QED
    BY ONLY <2>2, P \in Nat
<1>7. CASE p = FALSE /\ q = FALSE /\ k = TRUE
  <2>1. d = TRUE /\ e = TRUE
    BY <1>7, Zenon
  <2>2. Heavy(d, P) = P /\ Heavy(e, 2 * P) = 2 * P /\ Heavy(p, P) = 0 /\ Heavy(q, P) = 0 /\ Heavy(k, P) = P
    BY <1>0, <1>7, <2>1, Zenon
  <2> QED
    BY ONLY <2>2, P \in Nat
<1>8. CASE p = FALSE /\ q = FALSE /\ k = FALSE
  <2>1. d = FALSE /\ e = FALSE
    BY <1>8, Zenon
  <2>2. Heavy(d, P) = 0 /\ Heavy(e, 2 * P) = 0 /\ Heavy(p, P) = 0 /\ Heavy(q, P) = 0 /\ Heavy(k, P) = 0
    BY <1>0, <1>8, <2>1, Zenon
  <2> QED
    BY ONLY <2>2, P \in Nat
<1> QED
  BY <1>1, <1>2, <1>3, <1>4, <1>5, <1>6, <1>7, <1>8, Zenon

(* The borrow from each place, as the definition means it. *)
LEMMA BorrowRec ==
  ASSUME NEW n \in Nat, NEW a \in Bits(n), NEW b \in Bits(n)
  PROVE  /\ Borrow(a, b)[0] = FALSE
         /\ \A i \in 0 .. n : Borrow(a, b)[i] \in BOOLEAN
         /\ \A i \in 1 .. n : Borrow(a, b)[i] = LET k == Borrow(a, b)[i - 1]
                                                IN k # ((a[i] # b[i]) /\ (k # b[i]))
<1> DEFINE Out(i, k) == k # ((a[i] # b[i]) /\ (k # b[i]))
           G == [w \in Nat \X BOOLEAN |-> Out(w[1], w[2])]
<1>1. ASSUME NEW i, NEW k PROVE Out(i, k) \in BOOLEAN
  BY Zenon
<1> HIDE DEF Out
<1>2. G \in [Nat \X BOOLEAN -> BOOLEAN]
  BY <1>1, Zenon
<1>3. \A i \in Nat, k \in BOOLEAN : G[<<i, k>>] = Out(i, k)
  OBVIOUS
<1> HIDE DEF G
<1>4. PICK h \in [0 .. n -> BOOLEAN] : Steps(h, FALSE, G, n)
  BY <1>2, Recursion
<1>5. h = [i \in 0 .. n |-> IF i = 0 THEN FALSE ELSE Out(i, h[i - 1])]
  <2>1. ASSUME NEW i \in 0 .. n PROVE h[i] = IF i = 0 THEN FALSE ELSE Out(i, h[i - 1])
    <3>1. CASE i = 0
      BY <1>4, <3>1, Zenon DEF Steps
    <3>2. CASE i # 0
      <4>1. i \in 1 .. n /\ i \in Nat /\ i - 1 \in 0 .. n
        BY <3>2
      <4>2. h[i] = G[<<i, h[i - 1]>>] /\ h[i - 1] \in BOOLEAN
        BY <1>4, <4>1, Zenon DEF Steps
      <4> QED
        BY <1>3, <3>2, <4>1, <4>2, Zenon
    <3> QED
      BY <3>1, <3>2
  <2> QED
    BY <1>4, <2>1, Zenon
<1>6. Borrow(a, b) = CHOOSE c : c = [i \in 0 .. n |-> IF i = 0 THEN FALSE ELSE Out(i, c[i - 1])]
  <2>1. Len(a) = n
    BY BitsFacts
  <2> QED
    BY <2>1, Zenon DEF Borrow, Out
<1>7. PICK f : f = Borrow(a, b)
  OBVIOUS
<1>8. f = [i \in 0 .. n |-> IF i = 0 THEN FALSE ELSE Out(i, f[i - 1])]
  BY <1>5, <1>6, <1>7, Zenon
<1>9. \A i \in 0 .. n : f[i] = IF i = 0 THEN FALSE ELSE Out(i, f[i - 1])
  BY ONLY <1>8, Zenon
<1>10. f[0] = FALSE
  <2>1. 0 \in 0 .. n
    OBVIOUS
  <2> QED
    BY <1>9, <2>1, Zenon
<1>11. ASSUME NEW i \in 1 .. n PROVE f[i] = Out(i, f[i - 1])
  <2>1. i \in 0 .. n /\ i # 0
    OBVIOUS
  <2> QED
    BY <1>9, <2>1, Zenon
<1>12. \A i \in 0 .. n : f[i] \in BOOLEAN
  <2>1. \A i \in 0 .. n : i = 0 \/ i \in 1 .. n
    OBVIOUS
  <2> QED
    BY <1>1, <1>10, <1>11, <2>1, Zenon
<1> QED
  BY <1>7, <1>10, <1>11, <1>12, Zenon DEF Out

(* The difference has as many bits as the operands; it is theirs, with the *)
(* power of two that was borrowed, which is borrowed just if the second is *)
(* the greater.                                                            *)
LEMMA SubFacts ==
  ASSUME NEW n \in Nat, NEW a \in Bits(n), NEW b \in Bits(n), NEW d, d = sub_full(a, b)
  PROVE  /\ d.diff \in Bits(n) /\ d.borrow \in BOOLEAN
         /\ Value(d.diff) + Value(b) = Value(a) + Heavy(d.borrow, 2 ^ n)
         /\ d.borrow <=> Value(a) < Value(b)
<1> PICK s, c : s = d.diff /\ c = Borrow(a, b)
  OBVIOUS
<1>1. s = [i \in 1 .. n |-> (a[i] # b[i]) # c[i - 1]] /\ d.borrow = c[n]
  <2>1. DOMAIN a = 1 .. n /\ Len(a) = n
    BY BitsFacts
  <2>2. d = [diff |-> [i \in DOMAIN a |-> (a[i] # b[i]) # c[i - 1]], borrow |-> c[Len(a)]]
    BY Zenon DEF sub_full
  <2>3. d.diff = [i \in DOMAIN a |-> (a[i] # b[i]) # c[i - 1]] /\ d.borrow = c[Len(a)]
    BY ONLY <2>2
  <2> QED
    BY <2>1, <2>3, Zenon
<1>2. s \in Bits(n) /\ \A i \in 1 .. n : s[i] = ((a[i] # b[i]) # c[i - 1])
  <2>1. \A i \in 1 .. n : ((a[i] # b[i]) # c[i - 1]) \in BOOLEAN
    BY Zenon
  <2>2. s \in [1 .. n -> BOOLEAN]
    BY <1>1, <2>1, Zenon
  <2> QED
    BY <1>1, <2>2, Zenon DEF Bits
<1> PICK u, v, w : u = Values(a) /\ v = Values(b) /\ w = Values(s)
  OBVIOUS
<1>3. u[0] = 0 /\ v[0] = 0 /\ w[0] = 0
  BY <1>2, ValuesRec
<1>4. /\ c[0] = FALSE /\ \A i \in 0 .. n : c[i] \in BOOLEAN
      /\ \A i \in 1 .. n : c[i] = (c[i - 1] # ((a[i] # b[i]) /\ (c[i - 1] # b[i])))
  BY BorrowRec, Zenon
<1> DEFINE Good == {i \in 0 .. n : w[i] + v[i] = u[i] + Heavy(c[i], 2 ^ i)}
<1>5. 0 \in Good
  <2>1. 0 \in 0 .. n
    OBVIOUS
  <2>2. Heavy(c[0], 2 ^ 0) = 0
    BY <1>4, Zenon DEF Heavy
  <2> QED
    BY <1>3, <2>1, <2>2
<1>6. ASSUME NEW i \in 1 .. n, i - 1 \in Good PROVE i \in Good
  <2>1. PICK P \in Nat : P = 2 ^ (i - 1) /\ 2 ^ i = 2 * P
    <3>1. i - 1 \in Nat /\ (i - 1) + 1 = i
      OBVIOUS
    <3> QED
      BY <3>1, PowerFacts
  <2>2. PICK p \in BOOLEAN, q \in BOOLEAN, k \in BOOLEAN : p = a[i] /\ q = b[i] /\ k = c[i - 1]
    <3>1. i - 1 \in 0 .. n
      OBVIOUS
    <3> QED
      BY <1>4, <3>1 DEF Bits
  <2> PICK r, t : r = ((p # q) # k) /\ t = (k # ((p # q) /\ (k # q)))
    OBVIOUS
  <2>3. r = s[i] /\ t = c[i]
    BY <1>2, <1>4, <2>2, Zenon
  <2> PICK X, Y, Z : X = u[i - 1] /\ Y = v[i - 1] /\ Z = w[i - 1]
    OBVIOUS
  <2>4. /\ X \in Nat /\ Y \in Nat /\ Z \in Nat
        /\ u[i] = X + Heavy(p, P) /\ v[i] = Y + Heavy(q, P) /\ w[i] = Z + Heavy(r, P)
    <3>1. Values(a)[i - 1] \in Nat /\ Values(a)[i] = Values(a)[i - 1] + Heavy(a[i], P)
      BY <2>1, ValuesStep
    <3>2. Values(b)[i - 1] \in Nat /\ Values(b)[i] = Values(b)[i - 1] + Heavy(b[i], P)
      BY <2>1, ValuesStep
    <3>3. Values(s)[i - 1] \in Nat /\ Values(s)[i] = Values(s)[i - 1] + Heavy(s[i], P)
      BY <1>2, <2>1, ValuesStep
    <3> QED
      BY <2>2, <2>3, <3>1, <3>2, <3>3, Zenon
  <2>5. Z + Y = X + Heavy(k, P)
    BY <1>6, <2>1, <2>2, Zenon
  <2>6. Heavy(r, P) + Heavy(q, P) + Heavy(k, P) = Heavy(p, P) + Heavy(t, 2 * P)
    BY SubPlace
  <2> PICK e, f, g, l, m : /\ e = Heavy(p, P) /\ f = Heavy(q, P) /\ g = Heavy(k, P)
                           /\ l = Heavy(r, P) /\ m = Heavy(t, 2 * P)
    OBVIOUS
  <2>7. e \in Nat /\ f \in Nat /\ g \in Nat /\ l \in Nat /\ m \in Nat /\ l + f + g = e + m
    BY <2>6, HeavyNat
  <2>8. (Z + l) + (Y + f) = (X + e) + m
    BY ONLY <2>4, <2>5, <2>7, g = Heavy(k, P)
  <2>9. w[i] + v[i] = u[i] + Heavy(c[i], 2 ^ i)
    BY <2>1, <2>3, <2>4, <2>8, Zenon
  <2>10. i \in 0 .. n
    OBVIOUS
  <2> QED
    BY <2>9, <2>10
<1> HIDE DEF Good
<1>7. \A i \in 0 .. n : i \in Good
  BY <1>5, <1>6, AllPlaces
<1>8. w[n] + v[n] = u[n] + Heavy(c[n], 2 ^ n) /\ n \in 0 .. n
  <2>1. n \in 0 .. n
    OBVIOUS
  <2> QED
    BY <1>7, <2>1 DEF Good
<1>9. /\ Value(s) = w[n] /\ Value(a) = u[n] /\ Value(b) = v[n]
      /\ Value(s) \in Nat /\ Value(a) \in Nat /\ Value(b) \in Nat
      /\ Value(s) < 2 ^ n /\ Value(a) < 2 ^ n /\ Value(b) < 2 ^ n
  BY <1>2, ValueFacts
<1>10. Value(s) + Value(b) = Value(a) + Heavy(c[n], 2 ^ n)
  BY <1>8, <1>9, Zenon
<1> PICK k, P, U, V, W : k = c[n] /\ P = 2 ^ n /\ U = Value(a) /\ V = Value(b) /\ W = Value(s)
  OBVIOUS
<1>11. k <=> U < V
  <2>1. CASE k
    <3>1. Heavy(k, P) = P
      BY <2>1, Zenon DEF Heavy
    <3>2. U < V
      BY <1>9, <1>10, <3>1, PowerFacts
    <3> QED
      BY <2>1, <3>2
  <2>2. CASE ~k
    <3>1. Heavy(k, P) = 0
      BY <2>2, Zenon DEF Heavy
    <3>2. ~(U < V)
      BY <1>9, <1>10, <3>1, PowerFacts
    <3> QED
      BY <2>2, <3>2
  <2> QED
    BY <2>1, <2>2
<1>12. c[n] \in BOOLEAN
  BY <1>4, <1>8
<1> QED
  BY <1>1, <1>2, <1>10, <1>11, <1>12, Zenon

-----------------------------------------------------------------------------
(* Negation *)

(* One place of the negation, of a bit p with a carry k.                   *)
NegBit(p, k) == (p # TRUE) # k
NegCarry(p, k) == k /\ (p # TRUE)
(* Bit and carry add up to the place, complemented, and the carry in. *)
LEMMA NegPlace ==
  ASSUME NEW p \in BOOLEAN, NEW k \in BOOLEAN, NEW P \in Nat
  PROVE  Heavy(NegBit(p, k), P) + Heavy(NegCarry(p, k), 2 * P) + Heavy(p, P) = P + Heavy(k, P)
<1> PICK s, c : s = NegBit(p, k) /\ c = NegCarry(p, k)
  OBVIOUS
<1> SUFFICES Heavy(s, P) + Heavy(c, 2 * P) + Heavy(p, P) = P + Heavy(k, P)
  BY Zenon
<1>0. \A Z : Heavy(TRUE, Z) = Z /\ Heavy(FALSE, Z) = 0
  BY DEF Heavy
<1>1. CASE p = TRUE /\ k = TRUE
  <2>1. s = TRUE /\ c = FALSE
    BY <1>1, Zenon DEF NegBit, NegCarry
  <2>2. Heavy(s, P) = P /\ Heavy(c, 2 * P) = 0 /\ Heavy(p, P) = P /\ Heavy(k, P) = P
    BY <1>0, <1>1, <2>1, Zenon
  <2> QED
    BY ONLY <2>2, P \in Nat
<1>2. CASE p = TRUE /\ k = FALSE
  <2>1. s = FALSE /\ c = FALSE
    BY <1>2, Zenon DEF NegBit, NegCarry
  <2>2. Heavy(s, P) = 0 /\ Heavy(c, 2 * P) = 0 /\ Heavy(p, P) = P /\ Heavy(k, P) = 0
    BY <1>0, <1>2, <2>1, Zenon
  <2> QED
    BY ONLY <2>2, P \in Nat
<1>3. CASE p = FALSE /\ k = TRUE
  <2>1. s = FALSE /\ c = TRUE
    BY <1>3, Zenon DEF NegBit, NegCarry
  <2>2. Heavy(s, P) = 0 /\ Heavy(c, 2 * P) = 2 * P /\ Heavy(p, P) = 0 /\ Heavy(k, P) = P
    BY <1>0, <1>3, <2>1, Zenon
  <2> QED
    BY ONLY <2>2, P \in Nat
<1>4. CASE p = FALSE /\ k = FALSE
  <2>1. s = TRUE /\ c = FALSE
    BY <1>4, Zenon DEF NegBit, NegCarry
  <2>2. Heavy(s, P) = P /\ Heavy(c, 2 * P) = 0 /\ Heavy(p, P) = 0 /\ Heavy(k, P) = 0
    BY <1>0, <1>4, <2>1, Zenon
  <2> QED
    BY ONLY <2>2, P \in Nat
<1> QED
  BY <1>1, <1>2, <1>3, <1>4, Zenon

(* The carry of the negation, as the definition means it. *)
Ripples(c, n, a, cond) ==
  /\ c[0] = cond /\ \A i \in 0 .. n : c[i] \in BOOLEAN
  /\ \A i \in 1 .. n : c[i] = (c[i - 1] /\ (a[i] # cond))
(* Ripple meets the definition. *)
LEMMA RippleRec ==
  ASSUME NEW n \in Nat, NEW a \in Bits(n), NEW cond \in BOOLEAN
  PROVE  Ripples(Ripple(cond, a), n, a, cond)
<1> DEFINE Out(i, k) == k /\ (a[i] # cond)
           G == [w \in Nat \X BOOLEAN |-> Out(w[1], w[2])]
<1>1. ASSUME NEW i, NEW k PROVE Out(i, k) \in BOOLEAN
  BY Zenon
<1> HIDE DEF Out
<1>2. G \in [Nat \X BOOLEAN -> BOOLEAN]
  BY <1>1, Zenon
<1>3. \A i \in Nat, k \in BOOLEAN : G[<<i, k>>] = Out(i, k)
  OBVIOUS
<1> HIDE DEF G
<1>4. PICK h \in [0 .. n -> BOOLEAN] : Steps(h, cond, G, n)
  <2>1. PICK e, B : e = cond /\ B = BOOLEAN
    OBVIOUS
  <2>2. e \in B /\ G \in [Nat \X B -> B]
    BY <1>2, <2>1, Zenon
  <2>3. \E h \in [0 .. n -> B] : Steps(h, e, G, n)
    BY ONLY <2>2, n \in Nat, Recursion
  <2> QED
    BY <2>1, <2>3, Zenon
<1>5. h = [i \in 0 .. n |-> IF i = 0 THEN cond ELSE Out(i, h[i - 1])]
  <2>1. ASSUME NEW i \in 0 .. n PROVE h[i] = IF i = 0 THEN cond ELSE Out(i, h[i - 1])
    <3>1. CASE i = 0
      BY <1>4, <3>1, Zenon DEF Steps
    <3>2. CASE i # 0
      <4>1. i \in 1 .. n /\ i \in Nat /\ i - 1 \in 0 .. n
        BY <3>2
      <4>2. h[i] = G[<<i, h[i - 1]>>] /\ h[i - 1] \in BOOLEAN
        BY <1>4, <4>1, Zenon DEF Steps
      <4> QED
        BY <1>3, <3>2, <4>1, <4>2, Zenon
    <3> QED
      BY <3>1, <3>2
  <2> QED
    BY <1>4, <2>1, Zenon
<1>6. Ripple(cond, a) = CHOOSE c : c = [i \in 0 .. n |-> IF i = 0 THEN cond ELSE Out(i, c[i - 1])]
  <2>1. Len(a) = n
    BY BitsFacts
  <2> QED
    BY <2>1, Zenon DEF Ripple, Out
<1>7. PICK f : f = Ripple(cond, a)
  OBVIOUS
<1>8. f = [i \in 0 .. n |-> IF i = 0 THEN cond ELSE Out(i, f[i - 1])]
  BY <1>5, <1>6, <1>7, Zenon
<1>9. \A i \in 0 .. n : f[i] = IF i = 0 THEN cond ELSE Out(i, f[i - 1])
  BY ONLY <1>8, Zenon
<1>10. f[0] = cond
  <2>1. 0 \in 0 .. n
    OBVIOUS
  <2> QED
    BY <1>9, <2>1, Zenon
<1>11. ASSUME NEW i \in 1 .. n PROVE f[i] = Out(i, f[i - 1])
  <2>1. i \in 0 .. n /\ i # 0
    OBVIOUS
  <2> QED
    BY <1>9, <2>1, Zenon
<1>12. \A i \in 0 .. n : f[i] \in BOOLEAN
  <2>1. \A i \in 0 .. n : i = 0 \/ i \in 1 .. n
    OBVIOUS
  <2> QED
    BY <1>1, <1>10, <1>11, <2>1, Zenon
<1> QED
  BY <1>7, <1>10, <1>11, <1>12, Zenon DEF Out, Ripples

(* Nothing is changed unless it is to be; else it is the number that makes *)
(* a power of two with the operand, or zero if that is.                    *)
LEMMA NegFacts ==
  ASSUME NEW n \in Nat, NEW a \in Bits(n), NEW cond \in BOOLEAN, NEW s, s = condNeg(cond, a)
  PROVE  /\ s \in Bits(n)
         /\ ~cond => s = a
         /\ cond => \/ Value(s) + Value(a) = 2 ^ n /\ Value(a) # 0
                    \/ Value(s) = 0 /\ Value(a) = 0
<1> PICK c : c = Ripple(cond, a)
  OBVIOUS
<1>1. s = [i \in 1 .. n |-> (a[i] # cond) # c[i - 1]]
  <2>1. DOMAIN a = 1 .. n
    BY BitsFacts
  <2> QED
    BY <2>1, Zenon DEF condNeg
<1>2. s \in Bits(n) /\ \A i \in 1 .. n : s[i] = ((a[i] # cond) # c[i - 1])
  <2>1. \A i \in 1 .. n : ((a[i] # cond) # c[i - 1]) \in BOOLEAN
    BY Zenon
  <2>2. s \in [1 .. n -> BOOLEAN]
    BY <1>1, <2>1, Zenon
  <2> QED
    BY <1>1, <2>2, Zenon DEF Bits
<1>3. /\ c[0] = cond /\ \A i \in 0 .. n : c[i] \in BOOLEAN
      /\ \A i \in 1 .. n : c[i] = (c[i - 1] /\ (a[i] # cond))
  <2>1. Ripples(Ripple(cond, a), n, a, cond)
    BY RippleRec, Zenon
  <2> QED
    BY <2>1, Zenon DEF Ripples
<1>4. ASSUME ~cond PROVE s = a
  <2> DEFINE Off == {i \in 0 .. n : c[i] = FALSE}
  <2>1. 0 \in Off
    <3>1. 0 \in 0 .. n
      OBVIOUS
    <3> QED
      BY <1>3, <1>4, <3>1, Zenon
  <2>2. ASSUME NEW i \in 1 .. n, i - 1 \in Off PROVE i \in Off
    <3>1. i \in 0 .. n
      OBVIOUS
    <3> QED
      BY <1>3, <2>2, <3>1, Zenon
  <2> HIDE DEF Off
  <2>3. \A i \in 0 .. n : i \in Off
    BY <2>1, <2>2, AllPlaces
  <2>4. ASSUME NEW i \in 1 .. n PROVE s[i] = a[i]
    <3>1. i - 1 \in 0 .. n
      OBVIOUS
    <3>2. c[i - 1] = FALSE
      BY <2>3, <3>1, Zenon DEF Off
    <3>3. cond = FALSE /\ a[i] \in BOOLEAN
      BY <1>4 DEF Bits
    <3> QED
      BY <1>2, <3>2, <3>3, Zenon
  <2>5. s \in [1 .. n -> BOOLEAN] /\ a \in [1 .. n -> BOOLEAN]
    BY <1>2, Zenon DEF Bits
  <2> QED
    BY ONLY <2>4, <2>5
<1>5. ASSUME cond
      PROVE  \/ Value(s) + Value(a) = 2 ^ n /\ Value(a) # 0
             \/ Value(s) = 0 /\ Value(a) = 0
  <2> PICK u, w : u = Values(a) /\ w = Values(s)
    OBVIOUS
  <2> DEFINE Good == {i \in 0 .. n : w[i] + Heavy(c[i], 2 ^ i) + u[i] = 2 ^ i}
  <2>1. 0 \in Good
    <3>1. 0 \in 0 .. n /\ 2 ^ 0 = 1
      BY PowerFacts
    <3>2. Heavy(c[0], 2 ^ 0) = 1
      BY <1>3, <1>5, <3>1, Zenon DEF Heavy
    <3>3. u[0] = 0 /\ w[0] = 0
      BY <1>2, ValuesRec
    <3> QED
      BY <3>1, <3>2, <3>3
  <2>2. ASSUME NEW i \in 1 .. n, i - 1 \in Good PROVE i \in Good
    <3>1. PICK P \in Nat : P = 2 ^ (i - 1) /\ 2 ^ i = 2 * P
      <4>1. i - 1 \in Nat /\ (i - 1) + 1 = i
        OBVIOUS
      <4> QED
        BY <4>1, PowerFacts
    <3>2. PICK p \in BOOLEAN, k \in BOOLEAN : p = a[i] /\ k = c[i - 1]
      <4>1. i - 1 \in 0 .. n
        OBVIOUS
      <4> QED
        BY <1>3, <4>1 DEF Bits
    <3> PICK r, t : r = NegBit(p, k) /\ t = NegCarry(p, k)
      OBVIOUS
    <3>3. r = s[i] /\ t = c[i]
      <4>1. cond = TRUE
        BY <1>5
      <4> QED
        BY <1>2, <1>3, <3>2, <4>1, Zenon DEF NegBit, NegCarry
    <3> PICK X, Z : X = u[i - 1] /\ Z = w[i - 1]
      OBVIOUS
    <3>4. /\ X \in Nat /\ Z \in Nat
          /\ u[i] = X + Heavy(p, P) /\ w[i] = Z + Heavy(r, P)
      <4>1. Values(a)[i - 1] \in Nat /\ Values(a)[i] = Values(a)[i - 1] + Heavy(a[i], P)
        BY <3>1, ValuesStep
      <4>2. Values(s)[i - 1] \in Nat /\ Values(s)[i] = Values(s)[i - 1] + Heavy(s[i], P)
        BY <1>2, <3>1, ValuesStep
      <4> QED
        BY <3>2, <3>3, <4>1, <4>2, Zenon
    <3>5. Z + Heavy(k, P) + X = P
      BY <2>2, <3>1, <3>2, Zenon
    <3>6. Heavy(r, P) + Heavy(t, 2 * P) + Heavy(p, P) = P + Heavy(k, P)
      BY NegPlace, Zenon
    <3> PICK e, g, l, m : e = Heavy(p, P) /\ g = Heavy(k, P) /\ l = Heavy(r, P) /\ m = Heavy(t, 2 * P)
      OBVIOUS
    <3>7. e \in Nat /\ g \in Nat /\ l \in Nat /\ m \in Nat /\ l + m + e = P + g
      <4>1. 2 * P \in Nat
        OBVIOUS
      <4>2. \A bit : \A W \in Nat : Heavy(bit, W) \in Nat
        BY HeavyNat, Zenon
      <4> QED
        BY <3>6, <4>1, <4>2, Zenon
    <3>8. (Z + l) + m + (X + e) = 2 * P
      BY ONLY <3>4, <3>5, <3>7, g = Heavy(k, P), P \in Nat
    <3>9. w[i] + Heavy(c[i], 2 ^ i) + u[i] = 2 ^ i
      BY <3>1, <3>3, <3>4, <3>8, Zenon
    <3>10. i \in 0 .. n
      OBVIOUS
    <3> QED
      BY <3>9, <3>10
  <2> HIDE DEF Good
  <2>3. \A i \in 0 .. n : i \in Good
    BY <2>1, <2>2, AllPlaces
  <2>4. w[n] + Heavy(c[n], 2 ^ n) + u[n] = 2 ^ n
    <3>1. n \in 0 .. n
      OBVIOUS
    <3> QED
      BY <2>3, <3>1 DEF Good
  <2>5. /\ Value(s) = w[n] /\ Value(a) = u[n] /\ Value(s) \in Nat /\ Value(a) \in Nat
        /\ Value(s) < 2 ^ n /\ Value(a) < 2 ^ n
    BY <1>2, ValueFacts
  <2> PICK k, P, U, W : k = c[n] /\ P = 2 ^ n /\ U = Value(a) /\ W = Value(s)
    OBVIOUS
  <2>6. P \in Nat
    BY PowerFacts
  <2>7. CASE k
    <3>1. Heavy(k, P) = P
      BY <2>7, Zenon DEF Heavy
    <3>2. U = 0 /\ W = 0
      BY <2>4, <2>5, <2>6, <3>1
    <3> QED
      BY <3>2
  <2>8. CASE ~k
    <3>1. Heavy(k, P) = 0
      BY <2>8, Zenon DEF Heavy
    <3>2. W + U = P /\ U # 0
      BY <2>4, <2>5, <2>6, <3>1
    <3> QED
      BY <3>2
  <2> QED
    BY <2>7, <2>8
<1> QED
  BY <1>2, <1>4, <1>5, Zenon

-----------------------------------------------------------------------------
(* The absolute value *)

(* Bits that are all false are zero. *)
LEMMA ZeroValue ==
  ASSUME NEW n \in Nat, NEW a \in Bits(n), \A k \in 1 .. n : ~a[k]
  PROVE  Value(a) = 0
<1>1. 0 \in 0 .. n /\ Values(a)[0] = 0
  BY ValuesRec
<1> QED
  BY <1>1, ValuePadded

(* A bit and its inverse are worth one bit. *)
LEMMA EitherBit ==
  ASSUME NEW p \in BOOLEAN, NEW q \in BOOLEAN, p # q, NEW P \in Nat
  PROVE  Heavy(p, P) + Heavy(q, P) = P
<1>1. \/ p = TRUE /\ q = FALSE
      \/ p = FALSE /\ q = TRUE
  BY Zenon
<1>2. Heavy(TRUE, P) = P /\ Heavy(FALSE, P) = 0
  BY DEF Heavy
<1>3. \/ Heavy(p, P) = P /\ Heavy(q, P) = 0
      \/ Heavy(p, P) = 0 /\ Heavy(q, P) = P
  BY <1>1, <1>2, Zenon
<1> QED
  BY ONLY <1>3, P \in Nat

(* The inverse of every bit is what is short of the greatest number. *)
LEMMA ValueNot ==
  ASSUME NEW n \in Nat, NEW a \in Bits(n), NEW t \in Bits(n), \A i \in 1 .. n : t[i] # a[i]
  PROVE  Value(t) + Value(a) + 1 = 2 ^ n
<1> PICK u, w : u = Values(a) /\ w = Values(t)
  OBVIOUS
<1> DEFINE Good == {i \in 0 .. n : w[i] + u[i] + 1 = 2 ^ i}
<1>1. 0 \in Good
  <2>1. 0 \in 0 .. n /\ 2 ^ 0 = 1
    BY PowerFacts
  <2>2. u[0] = 0 /\ w[0] = 0
    BY ValuesRec
  <2> QED
    BY <2>1, <2>2
<1>2. ASSUME NEW i \in 1 .. n, i - 1 \in Good PROVE i \in Good
  <2>1. PICK P \in Nat : P = 2 ^ (i - 1) /\ 2 ^ i = 2 * P
    <3>1. i - 1 \in Nat /\ (i - 1) + 1 = i
      OBVIOUS
    <3> QED
      BY <3>1, PowerFacts
  <2> PICK X, Z : X = u[i - 1] /\ Z = w[i - 1]
    OBVIOUS
  <2> PICK e, l : e = Heavy(a[i], P) /\ l = Heavy(t[i], P)
    OBVIOUS
  <2>2. X \in Nat /\ Z \in Nat /\ u[i] = X + e /\ w[i] = Z + l
    <3>1. Values(a)[i - 1] \in Nat /\ Values(a)[i] = Values(a)[i - 1] + Heavy(a[i], P)
      BY <2>1, ValuesStep
    <3>2. Values(t)[i - 1] \in Nat /\ Values(t)[i] = Values(t)[i - 1] + Heavy(t[i], P)
      BY <2>1, ValuesStep
    <3> QED
      BY <3>1, <3>2, Zenon
  <2>3. Z + X + 1 = P
    BY <1>2, <2>1, Zenon
  <2>4. e \in Nat /\ l \in Nat /\ l + e = P
    <3>1. a[i] \in BOOLEAN /\ t[i] \in BOOLEAN /\ t[i] # a[i]
      BY DEF Bits
    <3>2. Heavy(t[i], P) + Heavy(a[i], P) = P
      BY <3>1, EitherBit, Zenon
    <3> QED
      BY <3>2, HeavyNat
  <2>5. (Z + l) + (X + e) + 1 = 2 * P
    BY ONLY <2>2, <2>3, <2>4, P \in Nat
  <2>6. w[i] + u[i] + 1 = 2 ^ i
    BY <2>1, <2>2, <2>5, Zenon
  <2>7. i \in 0 .. n
    OBVIOUS
  <2> QED
    BY <2>6, <2>7
<1> HIDE DEF Good
<1>3. \A i \in 0 .. n : i \in Good
  BY <1>1, <1>2, AllPlaces
<1>4. w[n] + u[n] + 1 = 2 ^ n
  <2>1. n \in 0 .. n
    OBVIOUS
  <2> QED
    BY <1>3, <2>1 DEF Good
<1>5. Value(t) = w[n] /\ Value(a) = u[n]
  BY ValueFacts
<1> QED
  BY <1>4, <1>5, Zenon

(* Exclusive or, place by place. *)
LEMMA XorFacts ==
  ASSUME NEW n \in Nat, NEW a \in Bits(n), NEW b \in Bits(n)
  PROVE  Xor(a, b) \in Bits(n) /\ \A i \in 1 .. n : Xor(a, b)[i] = (a[i] # b[i])
<1>1. Xor(a, b) = [i \in 1 .. n |-> a[i] # b[i]]
  <2>1. DOMAIN a = 1 .. n
    BY BitsFacts
  <2> QED
    BY <2>1, Zenon DEF Xor
<1>2. \A i \in 1 .. n : (a[i] # b[i]) \in BOOLEAN
  BY Zenon
<1>3. Xor(a, b) \in [1 .. n -> BOOLEAN]
  BY <1>1, <1>2, Zenon
<1> QED
  BY <1>1, <1>3, Zenon DEF Bits

(* Bits that agree at every place are the same. *)
LEMMA SameBits ==
  ASSUME NEW n \in Nat, NEW a \in Bits(n), NEW b \in Bits(n), \A i \in 1 .. n : a[i] = b[i]
  PROVE  a = b
<1>1. a \in [1 .. n -> BOOLEAN] /\ b \in [1 .. n -> BOOLEAN]
  BY Zenon DEF Bits
<1> QED
  BY <1>1

(* The absolute value, read without a sign. *)
LEMMA AbsFacts ==
  ASSUME NEW n \in Nat \ {0}, NEW a \in Bits(n)
  PROVE  abs(a) \in Bits(n) /\ Value(abs(a)) = Magnitude(Signed(a))
<1> PICK P : P = 2 ^ (n - 1)
  OBVIOUS
<1> PICK m, V : m = Msb(a) /\ V = Value(a)
  OBVIOUS
<1>1. /\ m \in BOOLEAN /\ P \in Nat /\ P >= 1 /\ 2 ^ n = 2 * P
      /\ V \in Nat /\ V < 2 * P /\ (m <=> V >= P)
  <2>1. /\ Msb(a) \in BOOLEAN /\ P \in Nat /\ P >= 1 /\ 2 ^ n = 2 * P
        /\ (Msb(a) <=> Value(a) >= P)
    BY MsbFacts
  <2>2. Value(a) \in Nat /\ Value(a) < 2 ^ n
    BY ValueFacts
  <2> QED
    BY <2>1, <2>2, Zenon
<1> PICK g, s : g = [i \in 1 .. n |-> m] /\ s = add_full(a, g)
  OBVIOUS
<1>2. g \in Bits(n) /\ \A i \in 1 .. n : g[i] = m
  <2>1. g \in [1 .. n -> BOOLEAN]
    BY <1>1, Zenon
  <2> QED
    BY <2>1, Zenon DEF Bits
<1>3. abs(a) = Xor(s, g)
  <2>1. DOMAIN a = 1 .. n
    BY BitsFacts
  <2> QED
    BY <2>1, Zenon DEF abs
<1>4. s \in Bits(n) /\ (Value(s) = Value(a) + Value(g) \/ Value(s) + 2 ^ n = Value(a) + Value(g))
  BY <1>2, AddFacts, Zenon
<1>5. PICK t : t = Xor(s, g)
  OBVIOUS
<1>6. t \in Bits(n) /\ \A i \in 1 .. n : t[i] = (s[i] # m)
  <2>1. Xor(s, g) \in Bits(n) /\ \A i \in 1 .. n : Xor(s, g)[i] = (s[i] # g[i])
    BY <1>2, <1>4, XorFacts, Zenon
  <2> QED
    BY <1>2, <1>5, <2>1, Zenon
<1> PICK S, W, T : S = Value(s) /\ W = Value(g) /\ T = Value(t)
  OBVIOUS
<1>7. S \in Nat /\ S < 2 * P /\ W \in Nat /\ T \in Nat /\ (S = V + W \/ S + 2 * P = V + W)
  <2>1. Value(s) \in Nat /\ Value(s) < 2 ^ n /\ Value(g) \in Nat /\ Value(t) \in Nat
    BY <1>2, <1>4, <1>6, ValueFacts
  <2> QED
    BY <1>1, <1>4, <2>1, Zenon
<1>8. \A i \in 1 .. n : s[i] \in BOOLEAN
  BY <1>4 DEF Bits
<1>9. Magnitude(Signed(a)) = IF m THEN 2 * P - V ELSE V
  <2>1. CASE m
    <3>1. Signed(a) = V - 2 * P
      <4>1. Len(a) = n
        BY BitsFacts
      <4> QED
        BY <1>1, <2>1, <4>1, Zenon DEF Signed
    <3>2. V - 2 * P < 0 /\ -(V - 2 * P) = 2 * P - V
      BY ONLY <1>1
    <3> QED
      BY <2>1, <3>1, <3>2, Zenon DEF Magnitude
  <2>2. CASE ~m
    <3>1. Signed(a) = V
      BY <2>2, Zenon DEF Signed
    <3>2. ~(V < 0)
      BY ONLY <1>1
    <3> QED
      BY <2>2, <3>1, <3>2, Zenon DEF Magnitude
  <2> QED
    BY <2>1, <2>2
<1>10. T = IF m THEN 2 * P - V ELSE V
  <2>1. CASE m
    <3>1. m = TRUE
      BY <1>1, <2>1
    <3>2. \A i \in 1 .. n : t[i] # s[i]
      BY <1>6, <1>8, <3>1, Zenon
    <3>3. T + S + 1 = 2 * P
      BY <1>1, <1>4, <1>6, <3>2, ValueNot
    <3>4. W + 1 = 2 * P
      <4>1. PICK z : z = [i \in 1 .. n |-> FALSE]
        OBVIOUS
      <4>2. z \in Bits(n) /\ (\A i \in 1 .. n : ~z[i]) /\ \A i \in 1 .. n : g[i] # z[i]
        BY <1>2, <3>1, <4>1, Zenon DEF Bits
      <4>3. Value(z) = 0
        BY <4>2, ZeroValue
      <4>4. Value(g) + Value(z) + 1 = 2 ^ n
        BY <1>2, <4>2, ValueNot, Zenon
      <4> QED
        BY <1>1, <1>7, <4>3, <4>4
    <3>5. V >= P
      BY <1>1, <2>1
    <3>6. T = 2 * P - V
      BY ONLY <1>1, <1>7, <3>3, <3>4, <3>5
    <3> QED
      BY <2>1, <3>6
  <2>2. CASE ~m
    <3>1. m = FALSE
      BY <1>1, <2>2
    <3>2. \A i \in 1 .. n : t[i] = s[i]
      BY <1>6, <1>8, <3>1, Zenon
    <3>3. t = s
      BY <1>4, <1>6, <3>2, SameBits
    <3>4. W = 0
      <4>1. \A i \in 1 .. n : ~g[i]
        BY <1>2, <3>1, Zenon
      <4> QED
        BY <1>2, <4>1, ZeroValue
    <3>5. T = S
      BY <3>3
    <3>6. T = V
      BY ONLY <1>1, <1>7, <3>4, <3>5
    <3> QED
      BY <2>2, <3>6
  <2> QED
    BY <2>1, <2>2
<1> QED
  BY <1>3, <1>5, <1>6, <1>9, <1>10, Zenon

-----------------------------------------------------------------------------
(* Signs, and the comparisons *)

(* A bit is worth its weight or nothing. *)
LEMMA HeavyCases == ASSUME NEW bit \in BOOLEAN, NEW P
  PROVE  \/ bit = TRUE /\ Heavy(bit, P) = P
         \/ bit = FALSE /\ Heavy(bit, P) = 0
BY Zenon DEF Heavy

(* The signed number: below zero just if the most significant bit is set.  *)
LEMMA SignedFacts ==
  ASSUME NEW n \in Nat \ {0}, NEW a \in Bits(n), NEW P, P = 2 ^ (n - 1)
  PROVE  /\ P \in Nat /\ P >= 1 /\ 2 ^ n = 2 * P
         /\ Msb(a) = a[n] /\ Msb(a) \in BOOLEAN /\ Signed(a) \in Int /\ Value(a) \in Nat
         /\ Value(a) = Signed(a) + Heavy(Msb(a), 2 * P)
         /\ -P <= Signed(a) /\ Signed(a) < P
         /\ Msb(a) <=> Signed(a) < 0
<1> PICK m, V : m = Msb(a) /\ V = Value(a)
  OBVIOUS
<1>1. /\ m \in BOOLEAN /\ P \in Nat /\ P >= 1 /\ 2 ^ n = 2 * P /\ m = a[n]
      /\ V \in Nat /\ V < 2 * P /\ (m <=> V >= P)
  <2>1. /\ Msb(a) \in BOOLEAN /\ P \in Nat /\ P >= 1 /\ 2 ^ n = 2 * P /\ Msb(a) = a[n]
        /\ (Msb(a) <=> Value(a) >= P)
    BY MsbFacts
  <2>2. Value(a) \in Nat /\ Value(a) < 2 ^ n
    BY ValueFacts
  <2> QED
    BY <2>1, <2>2, Zenon
<1>2. Signed(a) = IF m THEN V - 2 * P ELSE V
  <2>1. Len(a) = n
    BY BitsFacts
  <2> QED
    BY <1>1, <2>1, Zenon DEF Signed
<1> PICK A : A = Signed(a)
  OBVIOUS
<1>3. /\ A \in Int /\ V = A + Heavy(m, 2 * P)
      /\ -P <= A /\ A < P /\ (m <=> A < 0)
  <2>1. CASE m = TRUE
    <3>1. A = V - 2 * P
      BY <1>2, <2>1, Zenon
    <3>2. Heavy(m, 2 * P) = 2 * P
      BY <2>1, Zenon DEF Heavy
    <3>3. V >= P
      BY <1>1, <2>1
    <3>4. A \in Int /\ V = A + 2 * P /\ -P <= A /\ A < P /\ A < 0
      BY ONLY <1>1, <3>1, <3>3
    <3> QED
      BY <2>1, <3>2, <3>4, Zenon
  <2>2. CASE m = FALSE
    <3>1. A = V
      BY <1>2, <2>2, Zenon
    <3>2. Heavy(m, 2 * P) = 0
      BY <2>2, Zenon DEF Heavy
    <3>3. ~(V >= P)
      BY <1>1, <2>2
    <3>4. A \in Int /\ V = A + 0 /\ -P <= A /\ A < P /\ ~(A < 0)
      BY ONLY <1>1, <3>1, <3>3
    <3> QED
      BY <2>2, <3>2, <3>4, Zenon
  <2> QED
    BY <1>1, <2>1, <2>2, Zenon
<1> QED
  BY <1>1, <1>3, Zenon

(* A wider Integer is the same number. *)
LEMMA ResizeFacts ==
  ASSUME NEW n \in Nat \ {0}, NEW a \in Bits(n), NEW j \in Nat, n <= j
  PROVE  resize(a, j) \in Bits(j) /\ Signed(resize(a, j)) = Signed(a)
<1>0. j \in Nat \ {0} /\ n \in Nat
  OBVIOUS
<1> PICK r, m : r = resize(a, j) /\ m = Msb(a)
  OBVIOUS
<1>1. m \in BOOLEAN /\ m = a[n] /\ \A i \in 1 .. n : a[i] \in BOOLEAN
  BY SignedFacts DEF Bits
<1>2. r = [i \in 1 .. j |-> IF i <= n THEN a[i] ELSE m]
  <2>1. Len(a) = n
    BY BitsFacts
  <2> QED
    BY <2>1, Zenon DEF resize
<1>3. r \in Bits(j)
  <2>1. \A i \in 1 .. j : i <= n => i \in 1 .. n
    OBVIOUS
  <2>2. r \in [1 .. j -> BOOLEAN]
    BY <1>1, <1>2, <2>1, Zenon
  <2> QED
    BY <2>2, Zenon DEF Bits
<1>4. (\A i \in 1 .. n : r[i] = a[i]) /\ \A i \in 1 .. j : i > n => r[i] = m
  <2>1. (\A i \in 1 .. n : i \in 1 .. j /\ i <= n) /\ \A i \in 1 .. j : i > n => ~(i <= n)
    OBVIOUS
  <2> QED
    BY <1>2, <2>1, Zenon
<1>5. Msb(r) = m
  <2>1. Msb(r) = r[j]
    BY <1>0, <1>3, SignedFacts
  <2>2. j \in 1 .. j /\ (j = n \/ j > n) /\ n \in 1 .. n
    OBVIOUS
  <2> QED
    BY <1>1, <1>4, <2>1, <2>2, Zenon
<1> PICK v, V : v = Values(r) /\ V = Value(a)
  OBVIOUS
<1>6. V \in Nat /\ v[n] = V
  <2>1. Values(a)[n] = Values(r)[n]
    BY <1>0, <1>3, <1>4, ValuesAgree
  <2>2. Value(a) = Values(a)[n] /\ Value(a) \in Nat
    BY ValueFacts
  <2> QED
    BY <2>1, <2>2, Zenon
<1> PICK Q \in Nat : Q = 2 ^ n
  BY PowerFacts
<1> DEFINE Good == {i \in 0 .. j : i >= n => v[i] + Heavy(m, Q) = V + Heavy(m, 2 ^ i)}
<1>7. 0 \in Good
  OBVIOUS
<1>8. ASSUME NEW i \in 1 .. j, i - 1 \in Good PROVE i \in Good
  <2>1. CASE i < n
    BY <2>1
  <2>2. CASE i = n
    <3>1. v[i] + Heavy(m, Q) = V + Heavy(m, 2 ^ i)
      BY <1>6, <2>2, Zenon
    <3> QED
      BY <3>1
  <2>3. CASE i > n
    <3>1. PICK P \in Nat : P = 2 ^ (i - 1) /\ 2 ^ i = 2 * P
      <4>1. i - 1 \in Nat /\ (i - 1) + 1 = i
        OBVIOUS
      <4> QED
        BY <4>1, PowerFacts
    <3> PICK Z : Z = v[i - 1]
      OBVIOUS
    <3>2. Z \in Nat /\ v[i] = Z + Heavy(m, P)
      <4>1. Values(r)[i - 1] \in Nat /\ Values(r)[i] = Values(r)[i - 1] + Heavy(r[i], P)
        BY <1>3, <3>1, ValuesStep
      <4> QED
        BY <1>4, <2>3, <4>1, Zenon
    <3>3. Z + Heavy(m, Q) = V + Heavy(m, P)
      <4>1. i - 1 >= n
        BY <2>3
      <4> QED
        BY <1>8, <3>1, <4>1, Zenon
    <3>4. v[i] + Heavy(m, Q) = V + Heavy(m, 2 * P)
      <4>1. CASE m = TRUE
        <5>1. Heavy(m, Q) = Q /\ Heavy(m, P) = P /\ Heavy(m, 2 * P) = 2 * P
          BY <4>1, Zenon DEF Heavy
        <5> QED
          BY ONLY <1>6, <3>2, <3>3, <5>1, Q \in Nat, P \in Nat
      <4>2. CASE m = FALSE
        <5>1. Heavy(m, Q) = 0 /\ Heavy(m, P) = 0 /\ Heavy(m, 2 * P) = 0
          BY <4>2, Zenon DEF Heavy
        <5> QED
          BY ONLY <1>6, <3>2, <3>3, <5>1, Q \in Nat, P \in Nat
      <4> QED
        BY <1>1, <4>1, <4>2, Zenon
    <3>5. v[i] + Heavy(m, Q) = V + Heavy(m, 2 ^ i)
      BY <3>1, <3>4, Zenon
    <3> QED
      BY <3>5
  <2> QED
    BY <2>1, <2>2, <2>3
<1> HIDE DEF Good
<1>9. \A i \in 0 .. j : i \in Good
  BY <1>7, <1>8, AllPlaces
<1>10. v[j] + Heavy(m, 2 ^ n) = V + Heavy(m, 2 ^ j)
  <2>1. j \in 0 .. j /\ j >= n
    OBVIOUS
  <2> QED
    BY <1>9, <2>1 DEF Good
<1>11. Signed(r) = Signed(a)
  <2> PICK A, R, H, J : A = Signed(a) /\ R = Signed(r) /\ H = Heavy(m, 2 ^ n) /\ J = Heavy(m, 2 ^ j)
    OBVIOUS
  <2>1. V = A + H /\ A \in Int
    <3>1. Value(a) = Signed(a) + Heavy(Msb(a), 2 ^ n) /\ Signed(a) \in Int
      BY SignedFacts
    <3> QED
      BY <3>1, Zenon
  <2>2. v[j] = R + J /\ R \in Int
    <3>1. Value(r) = Signed(r) + Heavy(Msb(r), 2 ^ j) /\ Signed(r) \in Int
      BY <1>0, <1>3, SignedFacts
    <3>2. Value(r) = v[j]
      BY <1>3, ValueFacts
    <3> QED
      BY <1>5, <3>1, <3>2, Zenon
  <2>3. H \in Nat /\ J \in Nat
    <3>1. 2 ^ n \in Nat /\ 2 ^ j \in Nat
      BY PowerFacts
    <3> QED
      BY <3>1, HeavyNat
  <2>4. R + J + H = A + H + J
    BY <1>10, <2>1, <2>2, Zenon
  <2> QED
    BY ONLY <2>1, <2>2, <2>3, <2>4, A = Signed(a), R = Signed(r)
<1> QED
  BY <1>3, <1>11

(* The order of the signed numbers: the extra bit holds the difference. *)
LEMMA GeqFacts ==
  ASSUME NEW n \in Nat \ {0}, NEW a \in Bits(n), NEW b \in Bits(n)
  PROVE  Geq(a, b) = (Signed(a) >= Signed(b))
<1> PICK r, t : r = resize(a, n + 1) /\ t = resize(b, n + 1)
  OBVIOUS
<1> PICK d, s : d = sub_full(r, t) /\ s = d.diff
  OBVIOUS
<1>0. n + 1 \in Nat \ {0} /\ n <= n + 1 /\ n + 1 \in Nat
  OBVIOUS
<1>1. /\ r \in Bits(n + 1) /\ Signed(r) = Signed(a)
      /\ t \in Bits(n + 1) /\ Signed(t) = Signed(b)
  BY <1>0, ResizeFacts, Zenon
<1>2. /\ s \in Bits(n + 1) /\ d.borrow \in BOOLEAN
      /\ Value(s) + Value(t) = Value(r) + Heavy(d.borrow, 2 ^ (n + 1))
  BY <1>0, <1>1, SubFacts
<1> PICK A, B, D, P : A = Signed(a) /\ B = Signed(b) /\ D = Value(s) /\ P = 2 ^ (n - 1)
  OBVIOUS
<1>3. /\ P \in Nat /\ P >= 1 /\ 2 ^ n = 2 * P /\ A \in Int /\ B \in Int
      /\ -P <= A /\ A < P /\ -P <= B /\ B < P
  BY SignedFacts
<1>4. 2 ^ (n + 1) = 4 * P
  <2>1. 2 ^ (n + 1) = 2 * 2 ^ n
    BY PowerFacts
  <2> QED
    BY <1>3, <2>1
<1> PICK e, f, g : /\ e = Heavy(Msb(r), 2 ^ (n + 1)) /\ f = Heavy(Msb(t), 2 ^ (n + 1))
                   /\ g = Heavy(d.borrow, 2 ^ (n + 1))
  OBVIOUS
<1>5. /\ e = 0 \/ e = 4 * P
      /\ f = 0 \/ f = 4 * P
      /\ g = 0 \/ g = 4 * P
  BY <1>4, Zenon DEF Heavy
<1>6. D + (B + f) = (A + e) + g
  <2>1. Value(r) = Signed(r) + Heavy(Msb(r), 2 ^ (n + 1)) /\ Value(t) = Signed(t) + Heavy(Msb(t), 2 ^ (n + 1))
    BY <1>0, <1>1, SignedFacts
  <2> QED
    BY <1>1, <1>2, <2>1, Zenon
<1>7. D \in Nat /\ D < 4 * P
  BY <1>0, <1>2, <1>4, ValueFacts
<1>8. Msb(s) \in BOOLEAN /\ (Msb(s) <=> D >= 2 * P)
  <2>1. (n + 1) - 1 = n
    OBVIOUS
  <2>2. 2 * P = 2 ^ ((n + 1) - 1)
    BY <1>3, <2>1, Zenon
  <2> QED
    BY <1>0, <1>2, <2>2, MsbFacts
<1>9. D >= 2 * P <=> ~(A >= B)
  BY ONLY <1>3, <1>5, <1>6, <1>7
<1>10. Geq(a, b) = ~Msb(s)
  <2>1. Len(a) = n
    BY BitsFacts
  <2> QED
    BY <2>1, Zenon DEF Geq
<1>11. ~Msb(s) <=> A >= B
  BY <1>8, <1>9, Zenon
<1>12. Geq(a, b) = (A >= B)
  <2>1. PICK h \in BOOLEAN : h = Msb(s)
    BY <1>8
  <2> QED
    BY <1>10, <1>11, <2>1, <1>3
<1> QED
  BY <1>12, Zenon

(* Equal just if every bit is. *)
LEMMA EqualFacts ==
  ASSUME NEW n \in Nat, NEW a \in Bits(n), NEW b \in Bits(n)
  PROVE  Equal(a, b) = (a = b)
<1>1. Equal(a, b) <=> \A i \in 1 .. n : a[i] = b[i]
  <2>1. DOMAIN a = 1 .. n
    BY BitsFacts
  <2> QED
    BY <2>1, Zenon DEF Equal
<1>2. (\A i \in 1 .. n : a[i] = b[i]) <=> a = b
  BY SameBits, Zenon
<1>3. Equal(a, b) \in BOOLEAN
  BY Zenon DEF Equal
<1> QED
  BY <1>1, <1>2, <1>3, Zenon

-----------------------------------------------------------------------------
(* Choice *)

(* Integer::select gives the other number if it is told to. *)
LEMMA SelectFacts ==
  ASSUME NEW n \in Nat, NEW a \in Bits(n), NEW b \in Bits(n)
  PROVE  select(a, TRUE, b) = b /\ select(a, FALSE, b) = a
<1>1. DOMAIN a = 1 .. n
  BY BitsFacts
<1>2. a \in [1 .. n -> BOOLEAN] /\ b \in [1 .. n -> BOOLEAN]
  BY Zenon DEF Bits
<1>3. \A i \in 1 .. n : a[i] \in BOOLEAN /\ b[i] \in BOOLEAN
  BY <1>2, Zenon
<1>4. a = [i \in 1 .. n |-> a[i]] /\ b = [i \in 1 .. n |-> b[i]]
  BY ONLY <1>2
<1>5. select(a, TRUE, b) = b
  <2>1. \A i \in 1 .. n : (a[i] # ((a[i] # b[i]) /\ TRUE)) = b[i]
    BY <1>3, Zenon
  <2>2. select(a, TRUE, b) = [i \in 1 .. n |-> a[i] # ((a[i] # b[i]) /\ TRUE)]
    BY <1>1, Zenon DEF select
  <2> QED
    BY <1>4, <2>1, <2>2, Zenon
<1>6. select(a, FALSE, b) = a
  <2>1. \A i \in 1 .. n : (a[i] # ((a[i] # b[i]) /\ FALSE)) = a[i]
    BY <1>3, Zenon
  <2>2. select(a, FALSE, b) = [i \in 1 .. n |-> a[i] # ((a[i] # b[i]) /\ FALSE)]
    BY <1>1, Zenon DEF select
  <2> QED
    BY <1>4, <2>1, <2>2, Zenon
<1> QED
  BY <1>5, <1>6, Zenon

(* ifThenElse gives the first number if the condition holds. *)
LEMMA IfThenElseFacts ==
  ASSUME NEW n \in Nat, NEW a \in Bits(n), NEW b \in Bits(n)
  PROVE  ifThenElse(a, b, TRUE) = a /\ ifThenElse(a, b, FALSE) = b
<1>1. DOMAIN a = 1 .. n
  BY BitsFacts
<1>2. a \in [1 .. n -> BOOLEAN] /\ b \in [1 .. n -> BOOLEAN]
  BY Zenon DEF Bits
<1>3. \A i \in 1 .. n : a[i] \in BOOLEAN /\ b[i] \in BOOLEAN
  BY <1>2, Zenon
<1>4. a = [i \in 1 .. n |-> a[i]] /\ b = [i \in 1 .. n |-> b[i]]
  BY ONLY <1>2
<1>5. ifThenElse(a, b, TRUE) = a
  <2>1. \A i \in 1 .. n : ((TRUE /\ (a[i] # b[i])) # b[i]) = a[i]
    BY <1>3, Zenon
  <2>2. ifThenElse(a, b, TRUE) = [i \in 1 .. n |-> (TRUE /\ (a[i] # b[i])) # b[i]]
    BY <1>1, Zenon DEF ifThenElse
  <2> QED
    BY <1>4, <2>1, <2>2, Zenon
<1>6. ifThenElse(a, b, FALSE) = b
  <2>1. \A i \in 1 .. n : ((FALSE /\ (a[i] # b[i])) # b[i]) = b[i]
    BY <1>3, Zenon
  <2>2. ifThenElse(a, b, FALSE) = [i \in 1 .. n |-> (FALSE /\ (a[i] # b[i])) # b[i]]
    BY <1>1, Zenon DEF ifThenElse
  <2> QED
    BY <1>4, <2>1, <2>2, Zenon
<1> QED
  BY <1>5, <1>6, Zenon

(* A swap exchanges its operands if it is told to and else leaves them. *)
LEMMA SwapFacts ==
  ASSUME NEW n \in Nat, NEW a \in Bits(n), NEW b \in Bits(n), NEW sel \in BOOLEAN
  PROVE  /\ sel = TRUE => Swapped(sel, a, b) = <<b, a>>
         /\ sel = FALSE => Swapped(sel, a, b) = <<a, b>>
<1> PICK u, o : u = select(b, sel, a) /\ o = Xor(u, b)
  OBVIOUS
<1>1. Swapped(sel, a, b) = <<Xor(a, o), Xor(b, o)>>
  BY Zenon DEF Swapped
<1>2. (sel = TRUE => u = a) /\ (sel = FALSE => u = b)
  <2>1. select(b, TRUE, a) = a /\ select(b, FALSE, a) = b
    BY SelectFacts, Zenon
  <2> QED
    BY <2>1, Zenon
<1>3. u \in Bits(n)
  BY <1>2, Zenon
<1>4. o \in Bits(n) /\ \A i \in 1 .. n : o[i] = (u[i] # b[i])
  BY <1>3, XorFacts, Zenon
<1> PICK s, t : s = Xor(a, o) /\ t = Xor(b, o)
  OBVIOUS
<1>5. /\ s \in Bits(n) /\ \A i \in 1 .. n : s[i] = (a[i] # o[i])
      /\ t \in Bits(n) /\ \A i \in 1 .. n : t[i] = (b[i] # o[i])
  <2>1. Xor(a, o) \in Bits(n) /\ \A i \in 1 .. n : Xor(a, o)[i] = (a[i] # o[i])
    BY <1>4, XorFacts, Zenon
  <2>2. Xor(b, o) \in Bits(n) /\ \A i \in 1 .. n : Xor(b, o)[i] = (b[i] # o[i])
    BY <1>4, XorFacts, Zenon
  <2> QED
    BY <2>1, <2>2, Zenon
<1>6. \A i \in 1 .. n : a[i] \in BOOLEAN /\ b[i] \in BOOLEAN
  BY Zenon DEF Bits
<1>7. ASSUME sel = TRUE PROVE s = b /\ t = a
  <2>1. u = a
    BY <1>2, <1>7, Zenon
  <2>2. \A i \in 1 .. n : s[i] = b[i]
    BY <1>4, <1>5, <1>6, <2>1, Zenon
  <2>3. \A i \in 1 .. n : t[i] = a[i]
    BY <1>4, <1>5, <1>6, <2>1, Zenon
  <2> QED
    BY <1>5, <2>2, <2>3, SameBits, Zenon
<1>8. ASSUME sel = FALSE PROVE s = a /\ t = b
  <2>1. u = b
    BY <1>2, <1>8, Zenon
  <2>2. \A i \in 1 .. n : s[i] = a[i]
    BY <1>4, <1>5, <1>6, <2>1, Zenon
  <2>3. \A i \in 1 .. n : t[i] = b[i]
    BY <1>4, <1>5, <1>6, <2>1, Zenon
  <2> QED
    BY <1>5, <2>2, <2>3, SameBits, Zenon
<1> QED
  BY <1>1, <1>7, <1>8, Zenon

-----------------------------------------------------------------------------
(* Shifts *)

(* A quotient of a quotient is that by the product. *)
LEMMA QuotientTwice ==
  ASSUME NEW U \in Nat, NEW P \in Nat \ {0}, NEW Q \in Nat \ {0}
  PROVE  (U \div P) \div Q = U \div (P * Q)
<1>1. PICK i \in Nat, j \in 0 .. P - 1 : U = P * i + j /\ i = U \div P
  <2>1. U \div P \in Nat /\ U % P \in 0 .. P - 1 /\ U = P * (U \div P) + (U % P)
    OBVIOUS
  <2> QED
    BY <2>1
<1>2. PICK k \in Nat, l \in 0 .. Q - 1 : i = Q * k + l /\ k = i \div Q
  <2>1. i \div Q \in Nat /\ i % Q \in 0 .. Q - 1 /\ i = Q * (i \div Q) + (i % Q)
    OBVIOUS
  <2> QED
    BY <2>1
<1> PICK W : W = P * Q
  OBVIOUS
<1> PICK e : e = P * l + j
  OBVIOUS
<1>3. W \in Nat \ {0}
  OBVIOUS
<1>4. U = k * W + e
  <2>1. P * (Q * k + l) = k * (P * Q) + P * l
    OBVIOUS
  <2>2. P * i = k * W + P * l
    BY <1>2, <2>1, Zenon
  <2> QED
    BY <1>1, <2>2, <1>3
<1>5. e \in 0 .. W - 1
  <2>1. P * l \in Nat /\ P * l + P <= W
    <3>1. PICK c \in Nat : l + 1 + c = Q
      <4>1. Q - l - 1 \in Nat /\ l + 1 + (Q - l - 1) = Q
        OBVIOUS
      <4> QED
        BY <4>1
    <3>2. P * (l + 1 + c) = P * l + P + P * c /\ P * c \in Nat /\ P * l \in Nat
      OBVIOUS
    <3>3. W = P * l + P + P * c
      BY <3>1, <3>2, Zenon
    <3> QED
      BY <3>2, <3>3
  <2> QED
    BY <2>1
<1>6. U \div W = k
  BY <1>3, <1>4, <1>5, Division
<1> QED
  BY <1>1, <1>2, <1>6, Zenon

(* A shift to the right divides. *)
LEMMA ShrFacts ==
  ASSUME NEW n \in Nat, NEW a \in Bits(n), NEW s \in Nat, s <= n
  PROVE  Shr(a, s) \in Bits(n) /\ Value(Shr(a, s)) = Value(a) \div 2 ^ s
<1> PICK r, h : r = Shr(a, s) /\ h = High(a, s + 1)
  OBVIOUS
<1>0. /\ s + 1 \in 1 .. n + 1 /\ n - (s + 1) + 1 = n - s /\ (s + 1) - 1 = s
      /\ n - s \in Nat /\ n - s \in 0 .. n /\ n - s <= n
  OBVIOUS
<1>1. r = [i \in 1 .. n |-> i + s <= n /\ a[i + s]]
  <2>1. Len(a) = n /\ DOMAIN a = 1 .. n
    BY BitsFacts
  <2> QED
    BY <2>1, Zenon DEF Shr
<1>2. r \in Bits(n)
  <2>1. r \in [1 .. n -> BOOLEAN]
    BY <1>1, Zenon
  <2> QED
    BY <2>1, Zenon DEF Bits
<1>3. h \in Bits(n - s) /\ \A k \in 1 .. n - s : h[k] = a[s + k]
  <2>1. /\ High(a, s + 1) \in Bits(n - (s + 1) + 1)
        /\ \A k \in 1 .. n - (s + 1) + 1 : High(a, s + 1)[k] = a[((s + 1) - 1) + k]
    BY <1>0, HighFacts
  <2> QED
    BY <1>0, <2>1, Zenon
<1>4. \A k \in 1 .. n - s : r[k] = h[k]
  <2>1. ASSUME NEW k \in 1 .. n - s PROVE r[k] = h[k]
    <3>1. k \in 1 .. n /\ k + s <= n /\ k + s = s + k /\ s + k \in 1 .. n
      OBVIOUS
    <3>2. a[s + k] \in BOOLEAN
      BY <3>1 DEF Bits
    <3> QED
      BY <1>1, <1>3, <3>1, <3>2, Zenon
  <2> QED
    BY <2>1
<1>5. \A k \in 1 .. n : k > n - s => ~r[k]
  <2>1. \A k \in 1 .. n : k > n - s => ~(k + s <= n)
    OBVIOUS
  <2> QED
    BY <1>1, <2>1, Zenon
<1>6. Value(r) = Values(r)[n - s]
  BY <1>0, <1>2, <1>5, ValuePadded
<1>7. Values(r)[n - s] = Values(h)[n - s]
  BY <1>0, <1>2, <1>3, <1>4, ValuesAgree
<1>8. Value(h) = Values(h)[n - s] /\ Value(h) \in Nat
  BY <1>0, <1>3, ValueFacts
<1> PICK U, V, J, P : U = Value(a) /\ V = Value(h) /\ J = Values(a)[s] /\ P = 2 ^ s
  OBVIOUS
<1>9. U = J + P * V
  <2>1. Value(a) = Values(a)[(s + 1) - 1] + 2 ^ ((s + 1) - 1) * Value(High(a, s + 1))
    BY <1>0, ValueSplit
  <2> QED
    BY <1>0, <2>1, Zenon
<1>10. J \in Nat /\ J < P
  <2>1. s \in 0 .. n
    OBVIOUS
  <2> QED
    BY <2>1, ValuesBound
<1>11. P \in Nat \ {0}
  BY PowerFacts
<1>12. U \div P = V
  <2>1. J \in 0 .. P - 1 /\ V \in Int /\ U = V * P + J
    BY <1>8, <1>9, <1>10, <1>11
  <2> QED
    BY ONLY <1>11, <2>1, Division
<1>13. Value(r) = V
  BY <1>6, <1>7, <1>8, Zenon
<1> QED
  BY <1>2, <1>12, <1>13, Zenon

(* As many bits as a shift within the width needs. *)
LEMMA UsesFacts ==
  ASSUME NEW n \in Nat \ {0}
  PROVE  /\ Uses(n) \in Nat /\ Uses(n) <= n
         /\ n <= 2 ^ Uses(n)
         /\ \A i \in 1 .. Uses(n) : 2 ^ (i - 1) \in Nat /\ 2 ^ (i - 1) <= n
<1> DEFINE Enough == {k \in Nat : n <= 2 ^ k}
<1>1. n \in Enough
  BY PowerFacts
<1>2. PICK m \in Enough : \A k \in Enough : ~(k < m)
  <2>1. Enough \subseteq Nat /\ Enough # {}
    BY <1>1
  <2> HIDE DEF Enough
  <2> QED
    BY <2>1, LeastIn
<1>3. m \in 0 .. n
  BY <1>1, <1>2
<1>4. 2 ^ m >= n /\ (m = 0 \/ 2 ^ (m - 1) < n)
  <2>1. 2 ^ m \in Nat /\ 2 ^ m >= n
    BY <1>2, PowerFacts
  <2>2. ASSUME m # 0 PROVE 2 ^ (m - 1) < n
    <3>1. m - 1 \in Nat /\ m - 1 < m
      BY <1>3, <2>2
    <3>2. 2 ^ (m - 1) \in Nat
      BY <3>1, PowerFacts
    <3>3. ~(n <= 2 ^ (m - 1))
      BY <1>2, <3>1
    <3> QED
      BY <3>2, <3>3
  <2> QED
    BY <2>1, <2>2
<1> HIDE DEF Enough
<1> PICK L : L = Log2Up(n)
  OBVIOUS
<1>5. L \in 0 .. n /\ 2 ^ L >= n /\ (L = 0 \/ 2 ^ (L - 1) < n)
  BY <1>3, <1>4, Zenon DEF Log2Up
<1> PICK U : U = Uses(n)
  OBVIOUS
<1>6. U = IF L < n - 1 THEN L ELSE n - 1
  BY Zenon DEF Uses
<1>7. U \in Nat /\ U <= L /\ U <= n
  BY <1>5, <1>6
<1>8. n <= 2 ^ U
  <2>1. CASE U = L
    <3>1. 2 ^ L \in Nat
      BY <1>5, PowerFacts
    <3> QED
      BY <1>5, <2>1, <3>1
  <2>2. CASE U = n - 1
    <3>1. 2 ^ U \in Nat /\ U < 2 ^ U
      BY <1>7, PowerFacts
    <3> QED
      BY <2>2, <3>1
  <2> QED
    BY <1>6, <2>1, <2>2
<1>9. ASSUME NEW i \in 1 .. U PROVE 2 ^ (i - 1) \in Nat /\ 2 ^ (i - 1) <= n
  <2>1. L # 0 /\ L - 1 \in Nat /\ i - 1 \in Nat /\ i - 1 <= L - 1
    BY <1>5, <1>7
  <2>2. 2 ^ (i - 1) \in Nat /\ 2 ^ (L - 1) \in Nat /\ 2 ^ (i - 1) <= 2 ^ (L - 1)
    BY <2>1, PowerFacts, PowerGrows
  <2>3. 2 ^ (L - 1) < n
    BY <1>5, <2>1
  <2> QED
    BY <2>2, <2>3
<1> QED
  BY <1>7, <1>8, <1>9

(* A choice has as many bits as its first number. *)
LEMMA SelectType ==
  ASSUME NEW n \in Nat, NEW a \in Bits(n), NEW sel, NEW b
  PROVE  select(a, sel, b) \in Bits(n)
<1>1. select(a, sel, b) = [i \in 1 .. n |-> a[i] # ((a[i] # b[i]) /\ sel)]
  <2>1. DOMAIN a = 1 .. n
    BY BitsFacts
  <2> QED
    BY <2>1, Zenon DEF select
<1>2. \A i \in 1 .. n : (a[i] # ((a[i] # b[i]) /\ sel)) \in BOOLEAN
  BY Zenon
<1>3. select(a, sel, b) \in [1 .. n -> BOOLEAN]
  BY <1>1, <1>2, Zenon
<1> QED
  BY <1>3, Zenon DEF Bits

(* The shifts by the bits of a number, as the definition means them. *)
ShiftedBy(v, b, i) == select(v, b[i], Shr(v, 2 ^ (i - 1)))
Shifts(out, n, a, b, u) ==
  /\ out[0] = a /\ \A i \in 0 .. u : out[i] \in Bits(n)
  /\ \A i \in 1 .. u : out[i] = ShiftedBy(out[i - 1], b, i)
(* Shifted meets the definition. *)
LEMMA ShiftedRec ==
  ASSUME NEW n \in Nat \ {0}, NEW a \in Bits(n), NEW b
  PROVE  Shifts(Shifted(a, b), n, a, b, Uses(n))
<1> PICK S, u : S = Bits(n) /\ u = Uses(n)
  OBVIOUS
<1>0. a \in S /\ u \in Nat
  BY UsesFacts
<1> DEFINE G == [w \in Nat \X S |-> ShiftedBy(w[2], b, w[1])]
<1>1. ASSUME NEW i, NEW v \in S PROVE ShiftedBy(v, b, i) \in S
  BY SelectType DEF ShiftedBy
<1>2. G \in [Nat \X S -> S]
  BY <1>1
<1>3. \A i \in Nat, v \in S : G[<<i, v>>] = ShiftedBy(v, b, i)
  OBVIOUS
<1> HIDE DEF G
<1>4. PICK h \in [0 .. u -> S] : Steps(h, a, G, u)
  BY ONLY <1>0, <1>2, Recursion
<1>5. h = [i \in 0 .. u |-> IF i = 0 THEN a ELSE ShiftedBy(h[i - 1], b, i)]
  <2>1. ASSUME NEW i \in 0 .. u PROVE h[i] = IF i = 0 THEN a ELSE ShiftedBy(h[i - 1], b, i)
    <3>1. CASE i = 0
      BY <1>4, <3>1, Zenon DEF Steps
    <3>2. CASE i # 0
      <4>1. i \in 1 .. u /\ i \in Nat /\ i - 1 \in 0 .. u
        BY <1>0, <3>2
      <4>2. h[i] = G[<<i, h[i - 1]>>] /\ h[i - 1] \in S
        BY <1>4, <4>1, Zenon DEF Steps
      <4> QED
        BY <1>3, <3>2, <4>1, <4>2, Zenon
    <3> QED
      BY <3>1, <3>2
  <2> QED
    BY <1>4, <2>1, Zenon
<1>6. Shifted(a, b) = CHOOSE c : c = [i \in 0 .. u |-> IF i = 0 THEN a ELSE ShiftedBy(c[i - 1], b, i)]
  <2>1. Len(a) = n
    BY BitsFacts
  <2> QED
    BY <2>1, Zenon DEF Shifted, ShiftedBy
<1>7. PICK f : f = Shifted(a, b)
  OBVIOUS
<1>8. f = [i \in 0 .. u |-> IF i = 0 THEN a ELSE ShiftedBy(f[i - 1], b, i)]
  BY <1>5, <1>6, <1>7, Zenon
<1>9. \A i \in 0 .. u : f[i] = IF i = 0 THEN a ELSE ShiftedBy(f[i - 1], b, i)
  BY ONLY <1>8, Zenon
<1>10. f[0] = a
  <2>1. 0 \in 0 .. u
    BY <1>0
  <2> QED
    BY <1>9, <2>1, Zenon
<1>11. ASSUME NEW i \in 1 .. u PROVE f[i] = ShiftedBy(f[i - 1], b, i)
  <2>1. i \in 0 .. u /\ i # 0
    BY <1>0
  <2> QED
    BY <1>9, <2>1, Zenon
<1>12. \A i \in 0 .. u : f[i] \in S
  <2> DEFINE Good == {i \in 0 .. u : f[i] \in S}
  <2>1. 0 \in Good
    BY <1>0, <1>10
  <2>2. ASSUME NEW i \in 1 .. u, i - 1 \in Good PROVE i \in Good
    <3>1. i \in 0 .. u
      BY <1>0
    <3>2. f[i - 1] \in S
      BY <2>2, Zenon
    <3>3. f[i] \in S
      BY <1>1, <1>11, <3>2, Zenon
    <3> QED
      BY <3>1, <3>3
  <2> HIDE DEF Good
  <2>3. \A i \in 0 .. u : i \in Good
    BY <1>0, <2>1, <2>2, AllPlaces
  <2> QED
    BY <2>3 DEF Good
<1> QED
  BY <1>7, <1>10, <1>11, <1>12, Zenon DEF Shifts

(* Bits whose value is within the first places have it there. *)
LEMMA ValueWithin ==
  ASSUME NEW n \in Nat, NEW a \in Bits(n), NEW i \in 0 .. n, Value(a) < 2 ^ i
  PROVE  Values(a)[i] = Value(a)
<1>0. i + 1 \in 1 .. n + 1 /\ (i + 1) - 1 = i /\ i \in Nat
  OBVIOUS
<1> PICK U, V, J, P : U = Value(a) /\ V = Value(High(a, i + 1)) /\ J = Values(a)[i] /\ P = 2 ^ i
  OBVIOUS
<1>1. U \in Nat /\ V \in Nat /\ J \in Nat /\ U = J + P * V
  <2>1. /\ Value(a) \in Nat /\ Value(High(a, i + 1)) \in Nat /\ Values(a)[(i + 1) - 1] \in Nat
        /\ Value(a) = Values(a)[(i + 1) - 1] + 2 ^ ((i + 1) - 1) * Value(High(a, i + 1))
    BY <1>0, ValueSplit
  <2> QED
    BY <1>0, <2>1, Zenon
<1>2. P \in Nat /\ U < P
  BY <1>0, PowerFacts
<1>3. V = 0
  <2>1. CASE V >= 1
    <3>1. PICK c \in Nat : V = 1 + c
      <4>1. V - 1 \in Nat /\ V = 1 + (V - 1)
        BY <1>1, <2>1
      <4> QED
        BY <4>1
    <3>2. P * (1 + c) = P + P * c /\ P * c \in Nat
      BY <1>2
    <3>3. P * V = P + P * c
      BY <3>1, <3>2, Zenon
    <3> QED
      BY <1>1, <1>2, <3>2, <3>3
  <2> QED
    BY <1>1, <2>1
<1>4. P * V = 0
  BY <1>2, <1>3
<1> QED
  BY <1>1, <1>4

(* A shift by a number within the width divides by its power of two. *)
LEMMA ShrByFacts ==
  ASSUME NEW n \in Nat \ {0}, NEW a \in Bits(n), NEW b \in Bits(n), Value(b) < n
  PROVE  ShrBy(a, b) \in Bits(n) /\ Value(ShrBy(a, b)) = Value(a) \div 2 ^ Value(b)
<1> PICK u, out, v : u = Uses(n) /\ out = Shifted(a, b) /\ v = Values(b)
  OBVIOUS
<1>0. n \in Nat /\ u \in Nat /\ u <= n /\ n <= 2 ^ u /\ u \in 0 .. u /\ u \in 0 .. n
  BY UsesFacts
<1>1. /\ out[0] = a /\ \A i \in 0 .. u : out[i] \in Bits(n)
      /\ \A i \in 1 .. u : out[i] = ShiftedBy(out[i - 1], b, i)
  <2>1. Shifts(Shifted(a, b), n, a, b, Uses(n))
    BY ShiftedRec, Zenon
  <2> QED
    BY <2>1, Zenon DEF Shifts
<1>2. \A i \in 0 .. u : v[i] \in Nat
  BY <1>0, ValuesBound
<1> DEFINE Good == {i \in 0 .. u : Value(out[i]) = Value(a) \div 2 ^ v[i]}
<1>3. 0 \in Good
  <2>1. 0 \in 0 .. u
    BY <1>0
  <2>2. v[0] = 0 /\ Value(a) \in Nat
    BY <1>0, ValuesRec, ValueFacts
  <2>3. 2 ^ v[0] = 1
    BY <2>2, PowerFacts
  <2>4. Value(a) \div 2 ^ v[0] = Value(a)
    BY <2>2, <2>3
  <2> QED
    BY <1>1, <2>1, <2>4
<1>4. ASSUME NEW i \in 1 .. u, i - 1 \in Good PROVE i \in Good
  <2> PICK s, P, U, W : s = v[i - 1] /\ P = 2 ^ (i - 1) /\ U = Value(a) /\ W = out[i - 1]
    OBVIOUS
  <2>0. i \in 0 .. u /\ i - 1 \in 0 .. u /\ i \in 1 .. n
    BY <1>0
  <2>1. s \in Nat /\ P \in Nat /\ P <= n /\ U \in Nat /\ W \in Bits(n)
    <3>1. s \in Nat /\ W \in Bits(n)
      BY <1>1, <1>2, <2>0, Zenon
    <3>2. P \in Nat /\ P <= n
      BY UsesFacts
    <3>3. U \in Nat
      BY <1>0, ValueFacts
    <3> QED
      BY <3>1, <3>2, <3>3
  <2>2. b[i] \in BOOLEAN
    BY <2>0 DEF Bits
  <2>3. v[i] = s + Heavy(b[i], P)
    BY <1>0, <2>0, ValuesStep
  <2>4. Shr(W, P) \in Bits(n) /\ Value(Shr(W, P)) = Value(W) \div 2 ^ P
    <3>1. n \in Nat /\ W \in Bits(n) /\ P \in Nat /\ P <= n
      BY <1>0, <2>1, Zenon
    <3> QED
      BY ONLY <3>1, ShrFacts, Zenon
  <2>5. Value(W) = U \div 2 ^ s
    BY <1>4, Zenon
  <2>6. out[i] = select(W, b[i], Shr(W, P))
    BY <1>1, Zenon DEF ShiftedBy
  <2>7. CASE b[i] = TRUE
    <3>1. v[i] = s + P
      BY <2>3, <2>7, Zenon DEF Heavy
    <3>2. out[i] = Shr(W, P)
      <4>1. select(W, TRUE, Shr(W, P)) = Shr(W, P)
        <5>1. n \in Nat /\ W \in Bits(n) /\ Shr(W, P) \in Bits(n)
          BY <1>0, <2>1, <2>4, Zenon
        <5> QED
          BY ONLY <5>1, SelectFacts, Zenon
      <4> QED
        BY <2>6, <2>7, <4>1, Zenon
    <3>3. 2 ^ s \in Nat \ {0} /\ 2 ^ P \in Nat \ {0} /\ 2 ^ (s + P) = 2 ^ s * 2 ^ P
      <4>1. s \in Nat /\ P \in Nat
        BY <2>1
      <4>2. 2 ^ s \in Nat /\ 2 ^ s >= 1
        BY ONLY <4>1, PowerFacts
      <4>3. 2 ^ P \in Nat /\ 2 ^ P >= 1
        BY ONLY <4>1, PowerFacts
      <4>4. 2 ^ (s + P) = 2 ^ s * 2 ^ P
        BY ONLY <4>1, PowerSum
      <4> QED
        BY ONLY <4>2, <4>3, <4>4
    <3>4. (U \div 2 ^ s) \div 2 ^ P = U \div (2 ^ s * 2 ^ P)
      <4>1. U \in Nat /\ 2 ^ s \in Nat \ {0} /\ 2 ^ P \in Nat \ {0}
        BY <2>1, <3>3, Zenon
      <4> QED
        BY ONLY <4>1, QuotientTwice, Zenon
    <3>5. Value(out[i]) = U \div 2 ^ v[i]
      BY <2>4, <2>5, <3>1, <3>2, <3>3, <3>4, Zenon
    <3> QED
      BY <2>0, <3>5
  <2>8. CASE b[i] = FALSE
    <3>1. v[i] = s
      <4>1. Heavy(b[i], P) = 0
        BY <2>8, Zenon DEF Heavy
      <4> QED
        BY <2>1, <2>3, <4>1
    <3>2. out[i] = W
      <4>1. select(W, FALSE, Shr(W, P)) = W
        <5>1. n \in Nat /\ W \in Bits(n) /\ Shr(W, P) \in Bits(n)
          BY <1>0, <2>1, <2>4, Zenon
        <5> QED
          BY ONLY <5>1, SelectFacts, Zenon
      <4> QED
        BY <2>6, <2>8, <4>1, Zenon
    <3>3. Value(out[i]) = U \div 2 ^ v[i]
      BY <2>5, <3>1, <3>2, Zenon
    <3> QED
      BY <2>0, <3>3
  <2> QED
    BY <2>2, <2>7, <2>8, Zenon
<1> HIDE DEF Good
<1>5. \A i \in 0 .. u : i \in Good
  BY <1>0, <1>3, <1>4, AllPlaces
<1>6. Value(out[u]) = Value(a) \div 2 ^ v[u]
  BY <1>0, <1>5 DEF Good
<1>7. v[u] = Value(b)
  <2>1. Value(b) \in Nat /\ 2 ^ u \in Nat
    BY <1>0, ValueFacts, PowerFacts
  <2>2. Value(b) < 2 ^ u
    BY <1>0, <2>1
  <2> QED
    BY <1>0, <2>2, ValueWithin
<1>8. ShrBy(a, b) = out[u]
  <2>1. Len(a) = n
    BY <1>0, BitsFacts
  <2> QED
    BY <2>1, Zenon DEF ShrBy
<1> QED
  BY <1>0, <1>1, <1>6, <1>7, <1>8, Zenon

-----------------------------------------------------------------------------
(* Multiplication *)

(* The value of the bits below a place and others from there on. *)
LEMMA JoinValue ==
  ASSUME NEW n \in Nat, NEW a \in Bits(n), NEW i \in 1 .. n + 1, NEW t \in Bits(n - i + 1)
  PROVE  /\ Below(a, i) \o t \in Bits(n)
         /\ Value(Below(a, i) \o t) = Values(a)[i - 1] + 2 ^ (i - 1) * Value(t)
<1> PICK s : s = Below(a, i) \o t
  OBVIOUS
<1>1. s \in Bits(n) /\ \A k \in 1 .. n : s[k] = IF k < i THEN a[k] ELSE t[k - (i - 1)]
  BY JoinFacts
<1>0. n - i + 1 \in Nat /\ i - 1 \in Nat /\ i - 1 <= n
  OBVIOUS
<1>2. Values(s)[i - 1] = Values(a)[i - 1]
  <2>1. \A k \in 1 .. i - 1 : k \in 1 .. n /\ k < i
    OBVIOUS
  <2>2. \A k \in 1 .. i - 1 : s[k] = a[k]
    BY <1>1, <2>1, Zenon
  <2> QED
    BY <1>0, <1>1, <2>2, ValuesAgree
<1>3. High(s, i) = t
  <2> PICK h : h = High(s, i)
    OBVIOUS
  <2>1. h \in Bits(n - i + 1) /\ \A k \in 1 .. n - i + 1 : h[k] = s[(i - 1) + k]
    BY <1>1, HighFacts
  <2>2. ASSUME NEW k \in 1 .. n - i + 1 PROVE h[k] = t[k]
    <3>1. (i - 1) + k \in 1 .. n /\ ~((i - 1) + k < i) /\ ((i - 1) + k) - (i - 1) = k
      OBVIOUS
    <3> QED
      BY <1>1, <2>1, <3>1, Zenon
  <2>3. h = t
    BY <1>0, <2>1, <2>2, SameBits
  <2> QED
    BY <2>3
<1>4. Value(s) = Values(s)[i - 1] + 2 ^ (i - 1) * Value(High(s, i))
  BY <1>1, ValueSplit
<1> QED
  BY <1>1, <1>2, <1>3, <1>4, Zenon

(* What a place of b adds: a, of which what is beyond the top is lost. *)
LEMMA AddendFacts ==
  ASSUME NEW n \in Nat, NEW a \in Bits(n), NEW b \in Bits(n), NEW i \in 1 .. n
  PROVE  /\ Addend(a, b, i) \in Bits(n - i + 1) /\ Value(Addend(a, b, i)) \in Nat
         /\ \E h \in Nat : 2 ^ (i - 1) * Value(Addend(a, b, i)) + h * 2 ^ n
                             = Heavy(b[i], 2 ^ (i - 1)) * Value(a)
<1> PICK t, j : t = Addend(a, b, i) /\ j = n - i + 1
  OBVIOUS
<1>0. j \in Nat /\ j <= n /\ j \in 0 .. n /\ (i - 1) \in Nat /\ (i - 1) + j = n
  OBVIOUS
<1>1. t = [k \in 1 .. j |-> a[k] /\ b[i]]
  <2>1. Len(a) = n
    BY BitsFacts
  <2> QED
    BY <2>1, Zenon DEF Addend
<1>2. t \in Bits(j)
  <2>1. \A k \in 1 .. j : (a[k] /\ b[i]) \in BOOLEAN
    BY Zenon
  <2>2. t \in [1 .. j -> BOOLEAN]
    BY <1>1, <2>1, Zenon
  <2> QED
    BY <2>2, Zenon DEF Bits
<1>3. Value(t) \in Nat /\ Value(t) = Values(t)[j]
  BY <1>0, <1>2, ValueFacts
<1> PICK P, N, V, T : P = 2 ^ (i - 1) /\ N = 2 ^ n /\ V = Value(a) /\ T = Value(t)
  OBVIOUS
<1>4. P \in Nat /\ N \in Nat /\ V \in Nat /\ T \in Nat
  BY <1>0, <1>3, PowerFacts, ValueFacts
<1>5. b[i] \in BOOLEAN
  BY DEF Bits
<1>6. \E h \in Nat : P * T + h * N = Heavy(b[i], P) * V
  <2>1. CASE b[i] = FALSE
    <3>1. \A k \in 1 .. j : ~t[k]
      BY <1>1, <2>1, Zenon
    <3>2. T = 0
      BY <1>0, <1>2, <3>1, ZeroValue
    <3>3. Heavy(b[i], P) = 0
      BY <2>1, Zenon DEF Heavy
    <3>4. P * T + 0 * N = 0 * V
      BY ONLY <1>4, <3>2
    <3>5. 0 \in Nat /\ P * T + 0 * N = Heavy(b[i], P) * V
      BY <3>3, <3>4, Zenon
    <3> QED
      BY <3>5, Zenon
  <2>2. CASE b[i] = TRUE
    <3>1. \A k \in 1 .. j : t[k] = a[k]
      <4>1. \A k \in 1 .. j : a[k] \in BOOLEAN
        BY <1>0 DEF Bits
      <4> QED
        BY <1>1, <2>2, <4>1, Zenon
    <3>2. T = Values(a)[j]
      <4>1. Values(t)[j] = Values(a)[j]
        BY <1>0, <1>2, <3>1, ValuesAgree
      <4> QED
        BY <1>3, <4>1, Zenon
    <3> PICK Q, h : Q = 2 ^ j /\ h = Value(High(a, j + 1))
      OBVIOUS
    <3>3. V = T + Q * h /\ h \in Nat /\ Q \in Nat
      <4>1. j + 1 \in 1 .. n + 1 /\ (j + 1) - 1 = j
        BY <1>0
      <4>2. Value(High(a, j + 1)) \in Nat /\ Value(a) = Values(a)[(j + 1) - 1] + 2 ^ ((j + 1) - 1) * Value(High(a, j + 1))
        BY <4>1, ValueSplit
      <4>3. 2 ^ j \in Nat
        BY <1>0, PowerFacts
      <4> QED
        BY <3>2, <4>1, <4>2, <4>3, Zenon
    <3>4. N = P * Q
      BY <1>0, PowerSum, Zenon
    <3>5. P * T + h * N = P * V
      <4>1. P * (T + Q * h) = P * T + h * (P * Q)
        BY ONLY <1>4, <3>3
      <4> QED
        BY <3>3, <3>4, <4>1, Zenon
    <3>6. Heavy(b[i], P) = P
      BY <2>2, Zenon DEF Heavy
    <3>7. P * T + h * N = Heavy(b[i], P) * V
      BY <3>5, <3>6, Zenon
    <3> QED
      BY <3>3, <3>7, Zenon
  <2> QED
    BY <1>5, <2>1, <2>2, Zenon
<1> QED
  BY <1>2, <1>3, <1>6, Zenon

(* A place of the multiplication adds what that place of b is worth of a,  *)
(* short of a multiple of the power of two that does not fit.              *)
AddedAt(v, a, b, i) == Below(v, i) \o add_full(High(v, i), Addend(a, b, i))
Congruent(r, s, n) == \E q \in Nat : r + q * 2 ^ n = s
(* What a place adds, whatever has been added before it *)
LEMMA AddedFacts ==
  ASSUME NEW n \in Nat \ {0}, NEW a \in Bits(n), NEW b \in Bits(n), NEW i \in 1 .. n, NEW v \in Bits(n)
  PROVE  /\ AddedAt(v, a, b, i) \in Bits(n)
         /\ Congruent(Value(AddedAt(v, a, b, i)), Value(v) + Heavy(b[i], 2 ^ (i - 1)) * Value(a), n)
<1> PICK g, h, t, j : /\ g = Addend(a, b, i) /\ h = High(v, i) /\ t = add_full(h, g)
                      /\ j = n - i + 1
  OBVIOUS
<1>0. j \in Nat \ {0} /\ j \in Nat /\ i \in 1 .. n + 1 /\ (i - 1) + j = n /\ i - 1 \in Nat
  OBVIOUS
<1> PICK P, Q, N, W : /\ P = 2 ^ (i - 1) /\ Q = 2 ^ j /\ N = 2 ^ n /\ W = Heavy(b[i], 2 ^ (i - 1)) * Value(a)
  OBVIOUS
<1>1. g \in Bits(j) /\ Value(g) \in Nat /\ \E l \in Nat : P * Value(g) + l * N = W
  BY AddendFacts
<1>2. h \in Bits(j) /\ Value(h) \in Nat
  <2>1. High(v, i) \in Bits(n - i + 1)
    BY <1>0, HighFacts
  <2> QED
    BY <1>0, <2>1, ValueFacts
<1>3. t \in Bits(j) /\ (Value(t) = Value(h) + Value(g) \/ Value(t) + Q = Value(h) + Value(g))
  BY <1>0, <1>1, <1>2, AddFacts, Zenon
<1> PICK r : r = AddedAt(v, a, b, i)
  OBVIOUS
<1>4. r = Below(v, i) \o t
  BY Zenon DEF AddedAt
<1>5. r \in Bits(n) /\ Value(r) = Values(v)[i - 1] + P * Value(t)
  BY <1>0, <1>3, <1>4, JoinValue
<1> PICK R, V, L, T, H, G : /\ R = Value(r) /\ V = Value(v) /\ L = Values(v)[i - 1]
                            /\ T = Value(t) /\ H = Value(h) /\ G = Value(g)
  OBVIOUS
<1>6. /\ P \in Nat /\ Q \in Nat /\ N \in Nat /\ L \in Nat /\ G \in Nat /\ H \in Nat /\ T \in Nat
      /\ R = L + P * T /\ V = L + P * H /\ N = P * Q
      /\ (T = H + G \/ T + Q = H + G)
  <2>1. L \in Nat /\ V = L + P * H
    <3>1. Values(v)[i - 1] \in Nat /\ Value(v) = Values(v)[i - 1] + 2 ^ (i - 1) * Value(High(v, i))
      BY <1>0, ValueSplit
    <3> QED
      BY <3>1, Zenon
  <2>2. P \in Nat /\ Q \in Nat /\ N \in Nat
    BY <1>0, PowerFacts
  <2>3. N = P * Q
    BY <1>0, PowerSum, Zenon
  <2>4. T \in Nat
    BY <1>0, <1>3, ValueFacts
  <2> QED
    BY <1>1, <1>2, <1>3, <1>5, <2>1, <2>2, <2>3, <2>4, Zenon
<1>7. PICK l \in Nat : P * G + l * N = W
  BY <1>1, Zenon
<1>8. \E q \in Nat : R + q * N = V + W
  <2> PICK X, Y, Z : X = P * T /\ Y = P * H /\ Z = P * G
    OBVIOUS
  <2>1. X \in Nat /\ Y \in Nat /\ Z \in Nat /\ l * N \in Nat
    BY ONLY <1>6, X = P * T, Y = P * H, Z = P * G, l \in Nat
  <2>2. CASE T = H + G
    <3>1. P * (H + G) = P * H + P * G
      BY ONLY <1>6
    <3>2. X = Y + Z
      BY <2>2, <3>1, Zenon
    <3>3. R = L + X /\ V = L + Y /\ Z + l * N = W
      BY <1>6, <1>7, Zenon
    <3>4. R + l * N = V + W
      BY ONLY <1>6, <2>1, <3>2, <3>3
    <3> QED
      BY <3>4
  <2>3. CASE T + Q = H + G
    <3>1. P * (T + Q) = P * T + P * Q /\ P * (H + G) = P * H + P * G
      BY ONLY <1>6
    <3>2. X + N = Y + Z
      BY <1>6, <2>3, <3>1, Zenon
    <3>3. R = L + X /\ V = L + Y /\ Z + l * N = W
      BY <1>6, <1>7, Zenon
    <3>4. (l + 1) * N = l * N + N /\ l + 1 \in Nat
      BY ONLY <1>6, l \in Nat
    <3> PICK M : M = l * N
      OBVIOUS
    <3>5. L \in Nat /\ N \in Nat /\ M \in Nat /\ Z + M = W
      BY <1>6, <2>1, <3>3, Zenon
    <3>7. R + (M + N) = V + W
      BY ONLY <2>1, <3>2, <3>3, <3>5
    <3>6. R + (l + 1) * N = V + W
      BY <3>4, <3>7, Zenon
    <3> QED
      BY <3>4, <3>6, Zenon
  <2> QED
    BY <1>6, <2>2, <2>3
<1> QED
  BY <1>5, <1>8, Zenon DEF Congruent

(* The sums of a multiplication, as the definition means them. *)
Adds(sum, n, a, b) ==
  /\ sum[0] = [k \in 1 .. n |-> FALSE] /\ \A i \in 0 .. n : sum[i] \in Bits(n)
  /\ \A i \in 1 .. n : sum[i] = AddedAt(sum[i - 1], a, b, i)
(* Sums meets the definition. *)
LEMMA SumsRec ==
  ASSUME NEW n \in Nat \ {0}, NEW a \in Bits(n), NEW b \in Bits(n)
  PROVE  Adds(Sums(a, b), n, a, b)
<1> PICK S, e : S = Bits(n) /\ e = [k \in 1 .. n |-> FALSE]
  OBVIOUS
<1>0. e \in S /\ n \in Nat
  BY DEF Bits
<1> DEFINE G == [w \in Nat \X S |-> IF w[1] \in 1 .. n THEN AddedAt(w[2], a, b, w[1]) ELSE w[2]]
<1>1. ASSUME NEW i \in 1 .. n, NEW v \in S PROVE AddedAt(v, a, b, i) \in S
  BY AddedFacts
<1>2. G \in [Nat \X S -> S]
  BY <1>1
<1>3. \A i \in 1 .. n, v \in S : G[<<i, v>>] = AddedAt(v, a, b, i)
  OBVIOUS
<1> HIDE DEF G
<1>4. PICK h \in [0 .. n -> S] : Steps(h, e, G, n)
  BY ONLY <1>0, <1>2, Recursion
<1>5. h = [i \in 0 .. n |-> IF i = 0 THEN e ELSE AddedAt(h[i - 1], a, b, i)]
  <2>1. ASSUME NEW i \in 0 .. n PROVE h[i] = IF i = 0 THEN e ELSE AddedAt(h[i - 1], a, b, i)
    <3>1. CASE i = 0
      BY <1>4, <3>1, Zenon DEF Steps
    <3>2. CASE i # 0
      <4>1. i \in 1 .. n /\ i \in Nat /\ i - 1 \in 0 .. n
        BY <1>0, <3>2
      <4>2. h[i] = G[<<i, h[i - 1]>>] /\ h[i - 1] \in S
        BY <1>4, <4>1, Zenon DEF Steps
      <4> QED
        BY <1>3, <3>2, <4>1, <4>2, Zenon
    <3> QED
      BY <3>1, <3>2
  <2> QED
    BY <1>4, <2>1, Zenon
<1>6. Sums(a, b) = CHOOSE c : c = [i \in 0 .. n |-> IF i = 0 THEN e ELSE AddedAt(c[i - 1], a, b, i)]
  <2>1. Len(a) = n /\ DOMAIN a = 1 .. n
    BY <1>0, BitsFacts
  <2> QED
    BY <2>1, Zenon DEF Sums, AddedAt
<1>7. PICK f : f = Sums(a, b)
  OBVIOUS
<1>8. f = [i \in 0 .. n |-> IF i = 0 THEN e ELSE AddedAt(f[i - 1], a, b, i)]
  BY <1>5, <1>6, <1>7, Zenon
<1>9. \A i \in 0 .. n : f[i] = IF i = 0 THEN e ELSE AddedAt(f[i - 1], a, b, i)
  BY ONLY <1>8, Zenon
<1>10. f[0] = e
  <2>1. 0 \in 0 .. n
    BY <1>0
  <2> QED
    BY <1>9, <2>1, Zenon
<1>11. ASSUME NEW i \in 1 .. n PROVE f[i] = AddedAt(f[i - 1], a, b, i)
  <2>1. i \in 0 .. n /\ i # 0
    BY <1>0
  <2> QED
    BY <1>9, <2>1, Zenon
<1>12. \A i \in 0 .. n : f[i] \in S
  <2> DEFINE Good == {i \in 0 .. n : f[i] \in S}
  <2>1. 0 \in Good
    BY <1>0, <1>10
  <2>2. ASSUME NEW i \in 1 .. n, i - 1 \in Good PROVE i \in Good
    <3>1. i \in 0 .. n
      BY <1>0
    <3>2. f[i - 1] \in S
      BY <2>2, Zenon
    <3>3. f[i] \in S
      BY <1>1, <1>11, <3>2, Zenon
    <3> QED
      BY <3>1, <3>3
  <2> HIDE DEF Good
  <2>3. \A i \in 0 .. n : i \in Good
    BY <1>0, <2>1, <2>2, AllPlaces
  <2> QED
    BY <2>3 DEF Good
<1> QED
  BY <1>7, <1>10, <1>11, <1>12, Zenon DEF Adds

(* The product, short of a multiple of the power of two that does not fit. *)
LEMMA MulFacts ==
  ASSUME NEW n \in Nat \ {0}, NEW a \in Bits(n), NEW b \in Bits(n)
  PROVE  /\ mul_full(a, b) \in Bits(n)
         /\ \E q \in Nat : Value(mul_full(a, b)) + q * 2 ^ n = Value(b) * Value(a)
<1> PICK sum, v, A, N : sum = Sums(a, b) /\ v = Values(b) /\ A = Value(a) /\ N = 2 ^ n
  OBVIOUS
<1>0. n \in Nat /\ n \in 0 .. n /\ A \in Nat /\ N \in Nat
  BY ValueFacts, PowerFacts
<1>1. /\ sum[0] = [k \in 1 .. n |-> FALSE] /\ \A i \in 0 .. n : sum[i] \in Bits(n)
      /\ \A i \in 1 .. n : sum[i] = AddedAt(sum[i - 1], a, b, i)
  <2>1. Adds(Sums(a, b), n, a, b)
    BY SumsRec, Zenon
  <2> QED
    BY <2>1, Zenon DEF Adds
<1> DEFINE Good == {i \in 0 .. n : \E q \in Nat : Value(sum[i]) + q * N = v[i] * A}
<1>2. 0 \in Good
  <2>1. 0 \in 0 .. n /\ v[0] = 0
    BY <1>0, ValuesRec
  <2>2. sum[0] \in Bits(n) /\ \A k \in 1 .. n : ~sum[0][k]
    BY <1>1, <2>1, Zenon
  <2>3. Value(sum[0]) = 0
    BY <1>0, <2>2, ZeroValue
  <2>4. 0 + 0 * N = 0 * A
    BY ONLY <1>0
  <2>5. 0 \in Nat /\ Value(sum[0]) + 0 * N = v[0] * A
    BY <2>1, <2>3, <2>4, Zenon
  <2> QED
    BY <2>1, <2>5, Zenon
<1>3. ASSUME NEW i \in 1 .. n, i - 1 \in Good PROVE i \in Good
  <2>1. i - 1 \in 0 .. n /\ i \in 0 .. n
    OBVIOUS
  <2> PICK w, P, W, U, X, Y : /\ w = sum[i - 1] /\ P = 2 ^ (i - 1) /\ W = Heavy(b[i], P)
                              /\ U = v[i - 1] /\ X = Value(w) /\ Y = Value(sum[i])
    OBVIOUS
  <2>2. PICK q \in Nat : X + q * N = U * A
    BY <1>3, Zenon
  <2>3. w \in Bits(n) /\ sum[i] = AddedAt(w, a, b, i)
    BY <1>1, <2>1, Zenon
  <2>4. PICK l \in Nat : Y + l * N = X + W * A
    <3>1. Congruent(Value(AddedAt(w, a, b, i)), Value(w) + Heavy(b[i], 2 ^ (i - 1)) * Value(a), n)
      BY <2>3, AddedFacts, Zenon
    <3> QED
      BY <2>3, <3>1, Zenon DEF Congruent
  <2>5. U \in Nat /\ v[i] = U + W
    BY <1>0, ValuesStep
  <2>6. W \in Nat
    <3>1. P \in Nat
      BY PowerFacts
    <3> QED
      BY <3>1, HeavyNat
  <2>7. X \in Nat /\ Y \in Nat
    BY <1>0, <1>1, <2>1, <2>3, ValueFacts
  <2>8. Y + (q + l) * N = (U + W) * A
    <3>1. (q + l) * N = q * N + l * N /\ (U + W) * A = U * A + W * A
      BY ONLY <1>0, <2>5, <2>6, q \in Nat, l \in Nat
    <3> PICK B, C, D, E : B = q * N /\ C = l * N /\ D = U * A /\ E = W * A
      OBVIOUS
    <3>2. B \in Nat /\ C \in Nat /\ D \in Nat /\ E \in Nat
      BY ONLY <1>0, <2>5, <2>6, q \in Nat, l \in Nat, B = q * N /\ C = l * N /\ D = U * A /\ E = W * A
    <3>3. X + B = D /\ Y + C = X + E
      BY <2>2, <2>4, Zenon
    <3>4. Y + (B + C) = D + E
      BY ONLY <2>7, <3>2, <3>3
    <3> QED
      BY <3>1, <3>4, Zenon
  <2>9. q + l \in Nat /\ Value(sum[i]) + (q + l) * N = v[i] * A
    <3>1. q + l \in Nat
      OBVIOUS
    <3> QED
      BY <2>5, <2>8, <3>1, Zenon
  <2> QED
    BY <2>1, <2>9, Zenon
<1> HIDE DEF Good
<1>4. \A i \in 0 .. n : i \in Good
  BY <1>0, <1>2, <1>3, AllPlaces
<1>5. \E q \in Nat : Value(sum[n]) + q * N = v[n] * A
  BY <1>0, <1>4 DEF Good
<1>6. Value(b) = v[n]
  BY <1>0, ValueFacts
<1>7. mul_full(a, b) = sum[n]
  <2>1. Len(a) = n
    BY <1>0, BitsFacts
  <2> QED
    BY <2>1, Zenon DEF mul_full
<1> QED
  BY <1>0, <1>1, <1>5, <1>6, <1>7, Zenon

-----------------------------------------------------------------------------
(* Division *)

(* A bit that is set is part of the value. *)
LEMMA HighBit ==
  ASSUME NEW n \in Nat, NEW a \in Bits(n), NEW j \in 1 .. n, a[j] = TRUE
  PROVE  2 ^ (j - 1) <= Value(a)
<1>0. j + 1 \in 1 .. n + 1 /\ (j + 1) - 1 = j /\ j \in Nat
  OBVIOUS
<1> PICK P, Q, V, W : /\ P = 2 ^ (j - 1) /\ Q = 2 ^ j /\ V = Value(High(a, j + 1))
                      /\ W = Values(a)[j - 1]
  OBVIOUS
<1>1. P \in Nat /\ Q \in Nat
  BY PowerFacts
<1>2. /\ Value(High(a, j + 1)) \in Nat
      /\ Value(a) = Values(a)[(j + 1) - 1] + 2 ^ ((j + 1) - 1) * Value(High(a, j + 1))
  BY <1>0, ValueSplit
<1>3. W \in Nat /\ Values(a)[j] = W + Heavy(a[j], P)
  BY ValuesStep
<1>4. Heavy(a[j], P) = P
  BY Zenon DEF Heavy
<1>5. Value(a) = (W + P) + Q * V /\ V \in Nat
  BY <1>0, <1>2, <1>3, <1>4, Zenon
<1>6. Q * V \in Nat
  BY ONLY <1>1, <1>5
<1> QED
  BY ONLY <1>1, <1>3, <1>5, <1>6, P = 2 ^ (j - 1)

(* The subtraction at a place is of the places from there on; the divisor  *)
(* fits just if it is at most what they are worth.                         *)
LEMMA FitsFacts ==
  ASSUME NEW n \in Nat \ {0}, NEW r \in Bits(n), NEW b \in Bits(n), NEW i \in 1 .. n
  PROVE  /\ Fits(r, b, i) \in BOOLEAN
         /\ Fits(r, b, i) <=> Value(b) <= Value(High(r, i))
         /\ Minus(r, b, i).diff \in Bits(n - i + 1)
         /\ Fits(r, b, i) => Value(Minus(r, b, i).diff) + Value(b) = Value(High(r, i))
<1> PICK j, h, c, d : /\ j = n - i + 1 /\ h = High(r, i) /\ c = SubSeq(b, 1, j)
                      /\ d = Minus(r, b, i)
  OBVIOUS
<1>0. j \in Nat /\ j \in 0 .. n /\ j <= n /\ i \in 1 .. n + 1 /\ n \in Nat
  OBVIOUS
<1>1. h \in Bits(j) /\ c \in Bits(j) /\ \A k \in 1 .. j : c[k] = b[k]
  BY <1>0, HighFacts, LowFacts
<1>2. Len(b) = n
  BY <1>0, BitsFacts
<1>3. d = sub_full(h, c)
  BY <1>2, Zenon DEF Minus
<1> PICK f, H, C, D, B, M : /\ f = d.borrow /\ H = Value(h) /\ C = Value(c) /\ D = Value(d.diff)
                            /\ B = Value(b) /\ M = 2 ^ j
  OBVIOUS
<1>4. d.diff \in Bits(j) /\ f \in BOOLEAN /\ D + C = H + Heavy(f, M) /\ (f <=> H < C)
  <2>1. /\ d.diff \in Bits(j) /\ d.borrow \in BOOLEAN
        /\ Value(d.diff) + Value(c) = Value(h) + Heavy(d.borrow, 2 ^ j)
        /\ d.borrow <=> Value(h) < Value(c)
    BY <1>0, <1>1, <1>3, SubFacts
  <2> QED
    BY <2>1, Zenon
<1>5. H \in Nat /\ H < M /\ C \in Nat /\ D \in Nat /\ B \in Nat /\ M \in Nat
  BY <1>0, <1>1, <1>4, ValueFacts, PowerFacts
<1>6. Fits(r, b, i) = ~(f \/ \E k \in n - i + 2 .. n : b[k])
  BY <1>2, Zenon DEF Fits
<1>7. CASE \E k \in n - i + 2 .. n : b[k]
  <2>1. PICK k \in n - i + 2 .. n : b[k]
    BY <1>7
  <2>2. k \in 1 .. n /\ k - 1 \in Nat /\ j <= k - 1
    BY <1>0
  <2>3. b[k] = TRUE
    BY <2>1, <2>2 DEF Bits
  <2>4. 2 ^ (k - 1) \in Nat /\ 2 ^ (k - 1) <= B
    BY <1>0, <2>2, <2>3, HighBit, PowerFacts
  <2>5. M <= 2 ^ (k - 1)
    BY <1>0, <2>2, PowerGrows
  <2>6. ~(B <= H)
    BY ONLY <1>5, <2>4, <2>5
  <2>7. Fits(r, b, i) = FALSE
    BY <1>6, <1>7, Zenon
  <2> QED
    BY <1>4, <2>6, <2>7, Zenon
<1>8. CASE ~ \E k \in n - i + 2 .. n : b[k]
  <2>1. \A k \in 1 .. n : k > j => ~b[k]
    <3>1. \A k \in 1 .. n : k > j => k \in n - i + 2 .. n
      BY <1>0
    <3> QED
      BY <1>8, <3>1, Zenon
  <2>2. B = C
    <3>1. Value(b) = Values(b)[j]
      BY <1>0, <2>1, ValuePadded
    <3>2. Values(c)[j] = Values(b)[j]
      <4>1. j \in Nat /\ n \in Nat /\ j <= j /\ j <= n /\ b \in Bits(n)
        BY <1>0
      <4> QED
        BY ONLY <1>1, <4>1, ValuesAgree
    <3>3. Value(c) = Values(c)[j]
      BY <1>0, <1>1, ValueFacts
    <3> QED
      BY <3>1, <3>2, <3>3, Zenon
  <2>3. Fits(r, b, i) = ~f
    BY <1>6, <1>8, Zenon
  <2>4. ~(H < C) <=> B <= H
    BY <1>5, <2>2
  <2>5. ASSUME f = FALSE PROVE D + B = H
    <3>1. Heavy(f, M) = 0
      BY <2>5, Zenon DEF Heavy
    <3> QED
      BY <1>4, <1>5, <2>2, <3>1
  <2>6. Fits(r, b, i) \in BOOLEAN
    BY <2>3, Zenon
  <2>7. Fits(r, b, i) <=> B <= H
    BY <1>4, <2>3, <2>4, Zenon
  <2>8. Fits(r, b, i) => D + B = H
    BY <1>4, <2>3, <2>5, Zenon
  <2> QED
    BY <1>4, <2>6, <2>7, <2>8, Zenon
<1> QED
  BY <1>7, <1>8

(* What is left after a place: less by the divisor at that place if it     *)
(* fits, and so less than the divisor at that place.                       *)
RestAt(r, b, i) == Below(r, i) \o ifThenElse(High(r, i), Minus(r, b, i).diff, ~Fits(r, b, i))
Rests(r, b, i, P, n) ==
  /\ RestAt(r, b, i) \in Bits(n)
  /\ Value(RestAt(r, b, i)) + Heavy(Fits(r, b, i), P) * Value(b) = Value(r)
  /\ Value(r) < (2 * P) * Value(b) => Value(RestAt(r, b, i)) < P * Value(b)
(* What a place leaves, whatever was left before it *)
LEMMA RestFacts ==
  ASSUME NEW n \in Nat \ {0}, NEW r \in Bits(n), NEW b \in Bits(n), NEW i \in 1 .. n,
         NEW P, P = 2 ^ (i - 1)
  PROVE  Rests(r, b, i, P, n)
<1> PICK j, h, e, f, t, s : /\ j = n - i + 1 /\ h = High(r, i) /\ e = Minus(r, b, i).diff
                            /\ f = Fits(r, b, i) /\ t = ifThenElse(h, e, ~f) /\ s = RestAt(r, b, i)
  OBVIOUS
<1>0. j \in Nat /\ i \in 1 .. n + 1 /\ n \in Nat /\ i - 1 \in Nat /\ i - 1 \in 0 .. n
  OBVIOUS
<1> PICK H, E, B, T, L, R, S : /\ H = Value(h) /\ E = Value(e) /\ B = Value(b) /\ T = Value(t)
                               /\ L = Values(r)[i - 1] /\ R = Value(r) /\ S = Value(s)
  OBVIOUS
<1>1. f \in BOOLEAN /\ (f <=> B <= H) /\ e \in Bits(j) /\ (f => E + B = H)
  BY FitsFacts
<1>2. h \in Bits(j)
  BY <1>0, HighFacts
<1>3. (f = TRUE => t = e) /\ (f = FALSE => t = h)
  <2>1. CASE f = TRUE
    <3>1. (~f) = FALSE
      BY <2>1, Zenon
    <3>2. ifThenElse(h, e, FALSE) = e
      <4>1. j \in Nat /\ h \in Bits(j) /\ e \in Bits(j)
        BY <1>0, <1>1, <1>2, Zenon
      <4> QED
        BY ONLY <4>1, IfThenElseFacts, Zenon
    <3> QED
      BY <2>1, <3>1, <3>2, Zenon
  <2>2. CASE f = FALSE
    <3>1. (~f) = TRUE
      BY <2>2, Zenon
    <3>2. ifThenElse(h, e, TRUE) = h
      <4>1. j \in Nat /\ h \in Bits(j) /\ e \in Bits(j)
        BY <1>0, <1>1, <1>2, Zenon
      <4> QED
        BY ONLY <4>1, IfThenElseFacts, Zenon
    <3> QED
      BY <2>2, <3>1, <3>2, Zenon
  <2> QED
    BY <1>1, <2>1, <2>2, Zenon
<1>4. t \in Bits(j)
  BY <1>1, <1>2, <1>3, Zenon
<1>5. s = Below(r, i) \o t
  BY Zenon DEF RestAt
<1>6. s \in Bits(n) /\ S = L + P * T
  BY <1>0, <1>4, <1>5, JoinValue
<1>7. L \in Nat /\ R = L + P * H /\ H \in Nat
  <2>1. /\ Values(r)[i - 1] \in Nat /\ Value(High(r, i)) \in Nat
        /\ Value(r) = Values(r)[i - 1] + 2 ^ (i - 1) * Value(High(r, i))
    BY <1>0, ValueSplit
  <2> QED
    BY <2>1, Zenon
<1>8. L < P
  BY <1>0, ValuesBound
<1>9. P \in Nat /\ B \in Nat /\ E \in Nat
  BY <1>0, <1>1, PowerFacts, ValueFacts
<1>10. CASE f = TRUE
  <2>1. T = E /\ E + B = H /\ Heavy(f, P) = P
    BY <1>1, <1>3, <1>10, Zenon DEF Heavy
  <2>2. P * H = P * E + P * B
    <3>1. P * (E + B) = P * E + P * B
      BY ONLY <1>9
    <3> QED
      BY <2>1, <3>1, Zenon
  <2> PICK X, Y, Z : X = P * H /\ Y = P * E /\ Z = P * B
    OBVIOUS
  <2>3. X \in Nat /\ Y \in Nat /\ Z \in Nat
    BY ONLY <1>7, <1>9, X = P * H, Y = P * E, Z = P * B
  <2>4. S = L + Y /\ R = L + X /\ X = Y + Z
    BY <1>6, <1>7, <2>1, <2>2, Zenon
  <2>5. L \in Nat
    BY <1>7
  <2>6. S + Z = R
    BY ONLY <2>3, <2>4, <2>5
  <2>7. (2 * P) * B = Z + Z
    BY ONLY <1>9, Z = P * B
  <2>8. R < Z + Z => S < Z
    BY ONLY <2>3, <2>4, <2>5
  <2> QED
    BY <1>6, <2>1, <2>6, <2>7, <2>8, Zenon DEF Rests
<1>11. CASE f = FALSE
  <2>1. T = H /\ Heavy(f, P) = 0
    BY <1>3, <1>11, Zenon DEF Heavy
  <2>2. S = R /\ S = L + P * H
    BY <1>6, <1>7, <2>1, Zenon
  <2>3. 0 * B = 0 /\ S + 0 = S
    BY ONLY <1>7, <1>9, <2>2
  <2>4. ~(B <= H)
    BY <1>1, <1>11, Zenon
  <2>5. S < P * B
    <3>1. PICK c \in Nat : B = H + 1 + c
      <4>1. B - H - 1 \in Nat /\ B = H + 1 + (B - H - 1)
        BY ONLY <1>7, <1>9, <2>4
      <4> QED
        BY <4>1
    <3>2. P * (H + 1 + c) = P * H + P + P * c /\ P * c \in Nat /\ P * H \in Nat
      BY ONLY <1>7, <1>9, c \in Nat
    <3>3. P * B = P * H + P + P * c
      BY <3>1, <3>2, Zenon
    <3> PICK X, Y, Z : X = P * H /\ Y = P * c /\ Z = P * B
      OBVIOUS
    <3>4. X \in Nat /\ Y \in Nat /\ Z = X + P + Y /\ S = L + X /\ L \in Nat /\ L < P /\ P \in Nat
      BY <1>7, <1>8, <1>9, <2>2, <3>2, <3>3, Zenon
    <3>5. S < Z
      BY ONLY <3>4
    <3> QED
      BY <3>5, Zenon
  <2>6. S + Heavy(f, P) * B = R
    BY <2>1, <2>2, <2>3, Zenon
  <2> QED
    BY <1>6, <2>5, <2>6, Zenon DEF Rests
<1> QED
  BY <1>1, <1>10, <1>11, Zenon

(* What the division leaves place by place, as the definition means it. *)
Divides(rem, n, a, b) ==
  /\ rem[n + 1] = a /\ \A i \in 1 .. n + 1 : rem[i] \in Bits(n)
  /\ \A i \in 1 .. n : rem[i] = RestAt(rem[i + 1], b, i)
(* Rem meets the definition. *)
LEMMA RemRec ==
  ASSUME NEW n \in Nat \ {0}, NEW a \in Bits(n), NEW b \in Bits(n)
  PROVE  Divides(Rem(a, b), n, a, b)
<1> PICK S : S = Bits(n)
  OBVIOUS
<1>0. a \in S /\ n \in Nat
  OBVIOUS
<1> DEFINE At(k) == n + 1 - k
           G == [w \in Nat \X S |-> IF w[1] \in 1 .. n THEN RestAt(w[2], b, At(w[1])) ELSE w[2]]
<1>1. ASSUME NEW i \in 1 .. n, NEW v \in S PROVE RestAt(v, b, i) \in S
  BY RestFacts DEF Rests
<1>2. \A k \in 1 .. n : At(k) \in 1 .. n
  BY <1>0
<1>3. \A k \in 0 .. n : At(k) \in 1 .. n + 1
  BY <1>0
<1>4. \A i \in 1 .. n + 1 : At(i) \in 0 .. n /\ At(At(i)) = i /\ (i # n + 1 => i \in 1 .. n /\ i + 1 \in 1 .. n + 1 /\ At(i) \in 1 .. n /\ At(i) \in Nat /\ At(i) - 1 = At(i + 1) /\ At(i) - 1 \in 0 .. n)
  BY <1>0
<1>5. At(n + 1) = 0 /\ n + 1 \in 1 .. n + 1
  BY <1>0
<1> HIDE DEF At
<1>6. G \in [Nat \X S -> S]
  BY <1>1, <1>2, Zenon
<1>7. \A k \in 1 .. n, v \in S : G[<<k, v>>] = RestAt(v, b, At(k))
  OBVIOUS
<1> HIDE DEF G
<1>8. PICK h \in [0 .. n -> S] : Steps(h, a, G, n)
  BY ONLY <1>0, <1>6, Recursion
<1>9. PICK g : g = [i \in 1 .. n + 1 |-> h[At(i)]]
  OBVIOUS
<1>10. g = [i \in 1 .. n + 1 |-> IF i = n + 1 THEN a ELSE RestAt(g[i + 1], b, i)]
  <2>1. ASSUME NEW i \in 1 .. n + 1 PROVE h[At(i)] = IF i = n + 1 THEN a ELSE RestAt(g[i + 1], b, i)
    <3>1. CASE i = n + 1
      BY <1>5, <1>8, <3>1, Zenon DEF Steps
    <3>2. CASE i # n + 1
      <4>1. h[At(i)] = G[<<At(i), h[At(i) - 1]>>] /\ h[At(i) - 1] \in S
        BY <1>4, <1>8, <3>2, Zenon DEF Steps
      <4>2. g[i + 1] = h[At(i) - 1]
        BY <1>4, <1>9, <3>2, Zenon
      <4>3. G[<<At(i), h[At(i) - 1]>>] = RestAt(h[At(i) - 1], b, i)
        BY <1>4, <1>7, <3>2, <4>1, Zenon
      <4> QED
        BY <3>2, <4>1, <4>2, <4>3, Zenon
    <3> QED
      BY <3>1, <3>2
  <2> QED
    BY <1>9, <2>1, Zenon
<1>11. Rem(a, b) = CHOOSE c : c = [i \in 1 .. n + 1 |-> IF i = n + 1 THEN a ELSE RestAt(c[i + 1], b, i)]
  <2>1. Len(a) = n
    BY <1>0, BitsFacts
  <2> QED
    BY <2>1, Zenon DEF Rem, RestAt
<1>12. PICK f : f = Rem(a, b)
  OBVIOUS
<1>13. f = [i \in 1 .. n + 1 |-> IF i = n + 1 THEN a ELSE RestAt(f[i + 1], b, i)]
  BY <1>10, <1>11, <1>12, Zenon
<1>14. \A i \in 1 .. n + 1 : f[i] = IF i = n + 1 THEN a ELSE RestAt(f[i + 1], b, i)
  BY ONLY <1>13, Zenon
<1>15. f[n + 1] = a
  BY <1>5, <1>14, Zenon
<1>16. ASSUME NEW i \in 1 .. n PROVE f[i] = RestAt(f[i + 1], b, i)
  <2>1. i \in 1 .. n + 1 /\ i # n + 1
    BY <1>0
  <2> QED
    BY <1>14, <2>1, Zenon
<1>17. \A i \in 1 .. n + 1 : f[i] \in S
  <2> DEFINE Good == {k \in 0 .. n : f[At(k)] \in S}
  <2>1. 0 \in Good
    <3>1. 0 \in 0 .. n /\ At(0) = n + 1
      BY <1>0 DEF At
    <3> QED
      BY <1>0, <1>15, <3>1, Zenon
  <2>2. ASSUME NEW k \in 1 .. n, k - 1 \in Good PROVE k \in Good
    <3>1. k \in 0 .. n /\ At(k - 1) = At(k) + 1
      BY <1>0 DEF At
    <3>2. f[At(k) + 1] \in S
      BY <2>2, <3>1, Zenon
    <3>3. f[At(k)] \in S
      BY <1>1, <1>2, <1>16, <3>2, Zenon
    <3> QED
      BY <3>1, <3>3
  <2> HIDE DEF Good
  <2>3. \A k \in 0 .. n : k \in Good
    BY <1>0, <2>1, <2>2, AllPlaces
  <2>4. \A k \in 0 .. n : f[At(k)] \in S
    BY <2>3, Zenon DEF Good
  <2> QED
    BY <1>4, <2>4, Zenon
<1> QED
  BY <1>12, <1>15, <1>16, <1>17, Zenon DEF Divides

(* The quotient and the remainder of the values, unless by zero. *)
LEMMA DivFacts ==
  ASSUME NEW n \in Nat \ {0}, NEW a \in Bits(n), NEW b \in Bits(n), Value(b) # 0,
         NEW d, d = div_full(a, b)
  PROVE  /\ d.quot \in Bits(n) /\ d.rem \in Bits(n)
         /\ Value(d.quot) = Value(a) \div Value(b)
         /\ Value(d.rem) = Value(a) % Value(b)
<1> PICK rem, q, A, B : /\ rem = Rem(a, b) /\ q = d.quot
                        /\ A = Value(a) /\ B = Value(b)
  OBVIOUS
<1>0. n \in Nat /\ A \in Nat /\ B \in Nat /\ B >= 1 /\ A < 2 ^ n
  BY ValueFacts
<1>1. /\ rem[n + 1] = a /\ \A i \in 1 .. n + 1 : rem[i] \in Bits(n)
      /\ \A i \in 1 .. n : rem[i] = RestAt(rem[i + 1], b, i)
  <2>1. Divides(Rem(a, b), n, a, b)
    BY RemRec, Zenon
  <2> QED
    BY <2>1, Zenon DEF Divides
<1>2. q = [i \in 1 .. n |-> Fits(rem[i + 1], b, i)] /\ d.rem = rem[1]
  <2>1. DOMAIN a = 1 .. n
    BY <1>0, BitsFacts
  <2>2. d = [quot |-> [i \in 1 .. n |-> Fits(rem[i + 1], b, i)], rem |-> rem[1]]
    BY <2>1, Zenon DEF div_full
  <2>3. d.quot = [i \in 1 .. n |-> Fits(rem[i + 1], b, i)] /\ d.rem = rem[1]
    BY ONLY <2>2
  <2> QED
    BY <2>3, Zenon
<1>3. q \in Bits(n) /\ \A i \in 1 .. n : q[i] = Fits(rem[i + 1], b, i)
  <2>1. ASSUME NEW i \in 1 .. n PROVE Fits(rem[i + 1], b, i) \in BOOLEAN
    <3>1. rem[i + 1] \in Bits(n)
      <4>1. i + 1 \in 1 .. n + 1
        BY <1>0
      <4> QED
        BY <1>1, <4>1, Zenon
    <3> QED
      BY <3>1, FitsFacts, Zenon
  <2>2. q \in [1 .. n -> BOOLEAN]
    BY <1>2, <2>1, Zenon
  <2> QED
    BY <1>2, <2>2, Zenon DEF Bits
<1> PICK v, Q : v = Values(q) /\ Q = Value(q)
  OBVIOUS
<1>4. Q \in Nat /\ Q = v[n]
  BY <1>0, <1>3, ValueFacts
<1> DEFINE At(k) == n + 1 - k
           Good == {k \in 0 .. n : LET R == Value(rem[At(k)])
                                       W == v[n - k]
                                   IN /\ R \in Nat /\ W \in Nat
                                      /\ A + W * B = Q * B + R
                                      /\ R < 2 ^ (n - k) * B}
<1>5. 0 \in Good
  <2>1. 0 \in 0 .. n /\ At(0) = n + 1 /\ n - 0 = n
    BY <1>0
  <2>2. PICK N \in Nat : N = 2 ^ n
    BY PowerFacts
  <2>3. A < N * B
    <3>1. PICK c \in Nat : B = 1 + c
      <4>1. B - 1 \in Nat /\ B = 1 + (B - 1)
        BY <1>0
      <4> QED
        BY <4>1
    <3>2. N * (1 + c) = N + N * c /\ N * c \in Nat
      OBVIOUS
    <3>3. N * B = N + N * c
      BY <3>1, <3>2, Zenon
    <3> QED
      BY <1>0, <2>2, <3>2, <3>3
  <2>4. Value(rem[At(0)]) = A /\ v[n - 0] = Q
    BY <1>1, <1>4, <2>1, Zenon
  <2>5. A + Q * B = Q * B + A
    BY ONLY <1>0, <1>4
  <2> QED
    BY <1>0, <1>4, <2>1, <2>2, <2>3, <2>4, <2>5, Zenon
<1>6. ASSUME NEW k \in 1 .. n, k - 1 \in Good PROVE k \in Good
  <2> PICK i, r, s, P : i = n + 1 - k /\ r = rem[i + 1] /\ s = rem[i] /\ P = 2 ^ (i - 1)
    OBVIOUS
  <2>1. /\ i \in 1 .. n /\ i \in 1 .. n + 1 /\ i + 1 \in 1 .. n + 1 /\ k \in 0 .. n
        /\ At(k) = i /\ At(k - 1) = i + 1 /\ n - (k - 1) = i /\ n - k = i - 1 /\ i - 1 \in Nat /\ (i - 1) + 1 = i
    BY <1>0
  <2>2. r \in Bits(n) /\ s = RestAt(r, b, i) /\ q[i] = Fits(r, b, i)
    BY <1>1, <1>3, <2>1, Zenon
  <2>3. P \in Nat /\ 2 ^ i = 2 * P
    BY <2>1, PowerFacts
  <2> PICK R, T, V, W, H : R = Value(r) /\ T = Value(s) /\ V = v[i] /\ W = v[i - 1] /\ H = Heavy(q[i], P)
    OBVIOUS
  <2>4. R \in Nat /\ V \in Nat /\ A + V * B = Q * B + R /\ R < (2 * P) * B
    BY <1>6, <2>1, <2>3, Zenon
  <2>5. /\ s \in Bits(n) /\ T + H * B = R
        /\ R < (2 * P) * B => T < P * B
    <3>1. /\ RestAt(r, b, i) \in Bits(n)
          /\ Value(RestAt(r, b, i)) + Heavy(Fits(r, b, i), P) * Value(b) = Value(r)
          /\ Value(r) < (2 * P) * Value(b) => Value(RestAt(r, b, i)) < P * Value(b)
      <4>1. r \in Bits(n) /\ i \in 1 .. n /\ P = 2 ^ (i - 1)
        BY <2>1, <2>2, Zenon
      <4>2. \A u \in Bits(n), w \in 1 .. n : Rests(u, b, w, 2 ^ (w - 1), n)
        BY RestFacts, Zenon
      <4>3. Rests(r, b, i, 2 ^ (i - 1), n)
        BY <4>1, <4>2, Zenon
      <4> QED
        BY <4>1, <4>3, Zenon DEF Rests
    <3> QED
      BY <2>2, <3>1, Zenon
  <2>6. T \in Nat
    BY <1>0, <2>5, ValueFacts
  <2>7. W \in Nat /\ V = W + H
    BY <1>0, <1>3, <2>1, ValuesStep
  <2>8. H \in Nat
    BY <2>3, HeavyNat
  <2>9. A + W * B = Q * B + T
    <3>1. V * B = W * B + H * B
      <4>1. (W + H) * B = W * B + H * B
        BY ONLY <1>0, <2>7, <2>8
      <4> QED
        BY <2>7, <4>1, Zenon
    <3> PICK X, Y, Z, U : X = V * B /\ Y = W * B /\ Z = H * B /\ U = Q * B
      OBVIOUS
    <3>2. X \in Nat /\ Y \in Nat /\ Z \in Nat /\ U \in Nat
      BY ONLY <1>0, <1>4, <2>4, <2>7, <2>8, X = V * B /\ Y = W * B /\ Z = H * B /\ U = Q * B
    <3>3. A + X = U + R /\ X = Y + Z /\ T + Z = R
      BY <2>4, <2>5, <3>1, Zenon
    <3>4. A + Y = U + T
      BY ONLY <1>0, <2>6, <3>2, <3>3
    <3> QED
      BY <3>4, Zenon
  <2>10. T < P * B
    BY <2>4, <2>5, Zenon
  <2> QED
    BY <2>1, <2>6, <2>7, <2>9, <2>10, Zenon
<1> HIDE DEF Good
<1>7. \A k \in 0 .. n : k \in Good
  BY <1>0, <1>5, <1>6, AllPlaces
<1>8. PICK R \in Nat : R = Value(rem[1]) /\ A = Q * B + R /\ R < B
  <2>1. n \in 0 .. n /\ At(n) = 1 /\ n - n = 0
    BY <1>0
  <2> PICK R, W : R = Value(rem[1]) /\ W = v[0]
    OBVIOUS
  <2>2. R \in Nat /\ W \in Nat /\ A + W * B = Q * B + R /\ R < 2 ^ 0 * B
    <3>1. n \in Good
      BY <1>7, <2>1
    <3> QED
      BY <2>1, <3>1, Zenon DEF Good
  <2>3. W = 0 /\ 2 ^ 0 = 1
    BY <1>0, <1>3, ValuesRec, PowerFacts
  <2>4. 0 * B = 0 /\ 1 * B = B /\ A + 0 = A
    BY ONLY <1>0
  <2>5. A = Q * B + R /\ R < B
    BY <2>2, <2>3, <2>4, Zenon
  <2> QED
    BY <2>2, <2>5
<1>9. Q = A \div B /\ R = A % B
  <2>1. B \in Nat \ {0} /\ R \in 0 .. B - 1 /\ Q \in Int /\ A = Q * B + R
    BY <1>0, <1>4, <1>8
  <2>2. A \div B = Q /\ A % B = R
    BY ONLY <2>1, Division
  <2> QED
    BY <2>2
<1>10. rem[1] \in Bits(n)
  <2>1. 1 \in 1 .. n + 1
    BY <1>0
  <2> QED
    BY <1>1, <2>1
<1> QED
  BY <1>2, <1>3, <1>8, <1>9, <1>10, Zenon

-----------------------------------------------------------------------------
(* What each operation is to compute *)

(* A number of n bits is the residue of what it differs from by a multiple *)
(* of 2^n.                                                                 *)
LEMMA ResidueOf ==
  ASSUME NEW N \in Nat \ {0}, NEW V \in Nat, V < N, NEW q \in Int, NEW X, X = q * N + V
  PROVE  V = X % N
<1>1. V \in 0 .. N - 1
  OBVIOUS
<1> QED
  BY ONLY <1>1, N \in Nat \ {0}, q \in Int, X = q * N + V, Division

(* The range of the values. *)
LEMMA ModFacts ==
  ASSUME NEW n \in Nat \ {0}, NEW a \in Bits(n)
  PROVE  /\ Value(a) \in Nat /\ Value(a) < 2 ^ n /\ 2 ^ n \in Nat \ {0}
<1>1. 2 ^ n \in Nat /\ 2 ^ n >= 1
  BY PowerFacts
<1>2. Value(a) \in Nat /\ Value(a) < 2 ^ n
  BY ValueFacts
<1> QED
  BY <1>1, <1>2

(* + is that of the residues. *)
LEMMA AddIs ==
  ASSUME NEW n \in Nat \ {0}, NEW a \in Bits(n), NEW b \in Bits(n)
  PROVE  Value(add_full(a, b)) = (Value(a) + Value(b)) % 2 ^ n
<1> PICK A, B, R, N : A = Value(a) /\ B = Value(b) /\ R = Value(add_full(a, b)) /\ N = 2 ^ n
  OBVIOUS
<1>1. add_full(a, b) \in Bits(n) /\ (R = A + B \/ R + N = A + B)
  BY AddFacts, Zenon
<1>2. A \in Nat /\ B \in Nat /\ R \in Nat /\ R < N /\ N \in Nat \ {0}
  BY <1>1, ModFacts, Zenon
<1>3. \E q \in Int : A + B = q * N + R
  <2>1. CASE R = A + B
    <3>1. A + B = 0 * N + R /\ 0 \in Int
      BY ONLY <1>2, <2>1
    <3> QED
      BY <3>1, Zenon
  <2>2. CASE R + N = A + B
    <3>1. A + B = 1 * N + R /\ 1 \in Int
      BY ONLY <1>2, <2>2
    <3> QED
      BY <3>1, Zenon
  <2> QED
    BY <1>1, <2>1, <2>2
<1>4. R = (A + B) % N
  BY ONLY <1>2, <1>3, ResidueOf
<1> QED
  BY <1>4, Zenon

(* - is that of the residues. *)
LEMMA SubIs ==
  ASSUME NEW n \in Nat \ {0}, NEW a \in Bits(n), NEW b \in Bits(n)
  PROVE  Value(sub_full(a, b).diff) = (Value(a) - Value(b)) % 2 ^ n
<1> PICK d, A, B, R, N, H : /\ d = sub_full(a, b) /\ A = Value(a) /\ B = Value(b)
                            /\ R = Value(d.diff) /\ N = 2 ^ n /\ H = Heavy(d.borrow, N)
  OBVIOUS
<1>1. d.diff \in Bits(n) /\ R + B = A + H /\ (H = 0 \/ H = N)
  <2>1. d.diff \in Bits(n) /\ Value(d.diff) + Value(b) = Value(a) + Heavy(d.borrow, 2 ^ n)
    BY SubFacts
  <2>2. H = 0 \/ H = N
    BY Zenon DEF Heavy
  <2> QED
    BY <2>1, <2>2, Zenon
<1>2. A \in Nat /\ B \in Nat /\ R \in Nat /\ R < N /\ N \in Nat \ {0}
  BY <1>1, ModFacts, Zenon
<1>3. \E q \in Int : A - B = q * N + R
  <2>1. CASE H = 0
    <3>1. A - B = 0 * N + R /\ 0 \in Int
      BY ONLY <1>1, <1>2, <2>1
    <3> QED
      BY <3>1, Zenon
  <2>2. CASE H = N
    <3>1. A - B = (-1) * N + R /\ -1 \in Int
      BY ONLY <1>1, <1>2, <2>2
    <3> QED
      BY <3>1, Zenon
  <2> QED
    BY <1>1, <2>1, <2>2
<1>4. R = (A - B) % N
  BY ONLY <1>2, <1>3, ResidueOf
<1> QED
  BY <1>4, Zenon

(* * is that of the residues. *)
LEMMA MulIs ==
  ASSUME NEW n \in Nat \ {0}, NEW a \in Bits(n), NEW b \in Bits(n)
  PROVE  Value(mul_full(a, b)) = (Value(a) * Value(b)) % 2 ^ n
<1> PICK A, B, R, N : A = Value(a) /\ B = Value(b) /\ R = Value(mul_full(a, b)) /\ N = 2 ^ n
  OBVIOUS
<1>1. mul_full(a, b) \in Bits(n) /\ \E q \in Nat : R + q * N = B * A
  BY MulFacts
<1>2. A \in Nat /\ B \in Nat /\ R \in Nat /\ R < N /\ N \in Nat \ {0}
  BY <1>1, ModFacts, Zenon
<1>3. PICK q \in Nat : R + q * N = B * A
  BY <1>1
<1>4. A * B = q * N + R /\ q \in Int
  BY ONLY <1>2, <1>3
<1>5. R = (A * B) % N
  BY ONLY <1>2, <1>4, ResidueOf
<1> QED
  BY <1>5, Zenon

(* What a quotient or a remainder is negated from: those of the absolute   *)
(* values.                                                                 *)
LEMMA AbsDivFacts ==
  ASSUME NEW n \in Nat \ {0}, NEW a \in Bits(n), NEW b \in Bits(n), Signed(b) # 0,
         NEW d, d = div_full(abs(a), abs(b)),
         NEW A, A = Magnitude(Signed(a)), NEW B, B = Magnitude(Signed(b)),
         NEW P, P = 2 ^ (n - 1)
  PROVE  /\ A \in Nat /\ B \in Nat \ {0} /\ B <= P /\ P \in Nat /\ P >= 1 /\ 2 ^ n = 2 * P
         /\ d.quot \in Bits(n) /\ d.rem \in Bits(n)
         /\ Value(d.quot) = A \div B /\ Value(d.rem) = A % B
<1>1. abs(a) \in Bits(n) /\ Value(abs(a)) = A /\ abs(b) \in Bits(n) /\ Value(abs(b)) = B
  BY AbsFacts, Zenon
<1>2. A \in Nat /\ B \in Nat
  BY <1>1, ModFacts, Zenon
<1>3. /\ P \in Nat /\ P >= 1 /\ 2 ^ n = 2 * P
      /\ Signed(b) \in Int /\ -P <= Signed(b) /\ Signed(b) < P
  BY SignedFacts
<1>4. B # 0 /\ B <= P
  BY <1>3 DEF Magnitude
<1>5. Value(abs(b)) # 0
  BY <1>1, <1>4
<1>6. /\ d.quot \in Bits(n) /\ d.rem \in Bits(n)
      /\ Value(d.quot) = Value(abs(a)) \div Value(abs(b))
      /\ Value(d.rem) = Value(abs(a)) % Value(abs(b))
  BY <1>1, <1>5, DivFacts
<1>7. B \in Nat \ {0}
  BY <1>2, <1>4
<1> QED
  BY <1>1, <1>2, <1>3, <1>4, <1>6, <1>7, Zenon

(* / is that of C. *)
LEMMA QuotientIs ==
  ASSUME NEW n \in Nat \ {0}, NEW a \in Bits(n), NEW b \in Bits(n), Signed(b) # 0,
         NEW q, q = Magnitude(Signed(a)) \div Magnitude(Signed(b))
  PROVE  Value(Quotient(a, b)) = (IF Msb(a) = Msb(b) THEN q ELSE -q) % 2 ^ n
<1> PICK c, e, s : /\ c = (Msb(a) # Msb(b)) /\ e = div_full(abs(a), abs(b)).quot
                   /\ s = condNeg(c, e)
  OBVIOUS
<1>1. s = Quotient(a, b) /\ c \in BOOLEAN
  BY Zenon DEF Quotient
<1>2. e \in Bits(n) /\ Value(e) = q
  BY AbsDivFacts
<1> PICK N, V : N = 2 ^ n /\ V = Value(s)
  OBVIOUS
<1>3. /\ s \in Bits(n)
      /\ ~c => s = e
      /\ c => (V + q = N /\ q # 0) \/ (V = 0 /\ q = 0)
  <2>1. \A k \in BOOLEAN : /\ condNeg(k, e) \in Bits(n)
                           /\ ~k => condNeg(k, e) = e
                           /\ k => \/ Value(condNeg(k, e)) + Value(e) = 2 ^ n /\ Value(e) # 0
                                   \/ Value(condNeg(k, e)) = 0 /\ Value(e) = 0
    BY <1>2, NegFacts
  <2> QED
    BY <1>1, <1>2, <2>1, Zenon
<1>4. q \in Nat /\ q < N /\ V \in Nat /\ V < N /\ N \in Nat \ {0}
  BY <1>2, <1>3, ModFacts, Zenon
<1>5. CASE Msb(a) = Msb(b)
  <2>1. ~c
    BY <1>5, Zenon
  <2>2. V = q
    BY <1>2, <1>3, <2>1, Zenon
  <2>3. q = 0 * N + V /\ 0 \in Int
    BY ONLY <1>4, <2>2
  <2>4. V = q % N
    BY ONLY <1>4, <2>3, ResidueOf
  <2> QED
    BY <1>1, <1>5, <2>4, Zenon
<1>6. CASE Msb(a) # Msb(b)
  <2>1. c
    BY <1>6, Zenon
  <2>2. V = -q % N
    <3>1. CASE V + q = N
      <4>1. -q = (-1) * N + V /\ -1 \in Int
        BY ONLY <1>4, <3>1
      <4> QED
        BY ONLY <1>4, <4>1, ResidueOf
    <3>2. CASE V = 0 /\ q = 0
      <4>1. -q = 0 * N + V /\ 0 \in Int
        BY ONLY <1>4, <3>2
      <4> QED
        BY ONLY <1>4, <4>1, ResidueOf
    <3> QED
      BY <1>3, <2>1, <3>1, <3>2
  <2> QED
    BY <1>1, <1>6, <2>2, Zenon
<1> QED
  BY <1>5, <1>6

(* % is that of C. *)
LEMMA RemainderIs ==
  ASSUME NEW n \in Nat \ {0}, NEW a \in Bits(n), NEW b \in Bits(n), Signed(b) # 0,
         NEW r, r = Magnitude(Signed(a)) % Magnitude(Signed(b))
  PROVE  Signed(Remainder(a, b)) = IF Msb(a) THEN -r ELSE r
<1> PICK c, e, s : c = Msb(a) /\ e = div_full(abs(a), abs(b)).rem /\ s = condNeg(c, e)
  OBVIOUS
<1> PICK A, B, P : A = Magnitude(Signed(a)) /\ B = Magnitude(Signed(b)) /\ P = 2 ^ (n - 1)
  OBVIOUS
<1>1. s = Remainder(a, b) /\ c \in BOOLEAN
  <2>1. Msb(a) \in BOOLEAN
    BY SignedFacts
  <2> QED
    BY <2>1, Zenon DEF Remainder
<1>2. /\ A \in Nat /\ B \in Nat \ {0} /\ B <= P /\ P \in Nat /\ P >= 1 /\ 2 ^ n = 2 * P
      /\ e \in Bits(n) /\ Value(e) = r /\ r = A % B
  BY AbsDivFacts
<1>3. r \in Nat /\ r < P
  BY ONLY <1>2
<1> PICK V, S : V = Value(s) /\ S = Signed(s)
  OBVIOUS
<1>4. /\ s \in Bits(n)
      /\ ~c => s = e
      /\ c => (V + r = 2 * P /\ r # 0) \/ (V = 0 /\ r = 0)
  <2>1. \A k \in BOOLEAN : /\ condNeg(k, e) \in Bits(n)
                           /\ ~k => condNeg(k, e) = e
                           /\ k => \/ Value(condNeg(k, e)) + Value(e) = 2 ^ n /\ Value(e) # 0
                                   \/ Value(condNeg(k, e)) = 0 /\ Value(e) = 0
    BY <1>2, NegFacts
  <2> QED
    BY <1>1, <1>2, <2>1, Zenon
<1> PICK H : H = Heavy(Msb(s), 2 * P)
  OBVIOUS
<1>5. S \in Int /\ V = S + H /\ -P <= S /\ S < P /\ (H = 0 \/ H = 2 * P) /\ V \in Nat
  <2>1. /\ Signed(s) \in Int /\ Value(s) \in Nat /\ Value(s) = Signed(s) + Heavy(Msb(s), 2 * P)
        /\ -P <= Signed(s) /\ Signed(s) < P
    BY <1>4, SignedFacts
  <2>2. H = 0 \/ H = 2 * P
    BY Zenon DEF Heavy
  <2> QED
    BY <2>1, <2>2, Zenon
<1>6. CASE c
  <2>1. (V + r = 2 * P /\ r # 0) \/ (V = 0 /\ r = 0)
    BY <1>4, <1>6
  <2>2. S = -r
    BY ONLY <1>2, <1>3, <1>5, <2>1
  <2> QED
    BY <1>1, <1>6, <2>2, Zenon
<1>7. CASE ~c
  <2>1. V = r
    BY <1>2, <1>4, <1>7, Zenon
  <2>2. S = r
    BY ONLY <1>2, <1>3, <1>5, <2>1
  <2> QED
    BY <1>1, <1>7, <2>2, Zenon
<1> QED
  BY <1>6, <1>7

-----------------------------------------------------------------------------
(* The steps *)

(* The operands are two Integers of one of the widths, throughout. *)
Operands == \E n \in Widths : x \in Bits(n) /\ y \in Bits(n)
IInv == Operands /\ RingOfResidues /\ SignedAsC

(* An operation that is the other property's concern. *)
LEMMA NotOfRing ==
  ASSUME op' \notin {"+", "-", "*", ">>", "swap", "keep"}
  PROVE  RingOfResidues'
BY Zenon DEF RingOfResidues
(* And of the one, an operation that is the other's. *)
LEMMA NotOfSigned ==
  ASSUME op' \notin {"/", "%", ">=", "<", "<=", ">", "==", "resize", "abs"}
  PROVE  SignedAsC'
BY Zenon DEF SignedAsC

(* Which operands an operation has. *)
LEMMA OperandFacts ==
  ASSUME Operands
  PROVE  \E n \in Nat \ {0} : x \in Bits(n) /\ y \in Bits(n) /\ Len(x) = n
<1>1. PICK n \in Widths : x \in Bits(n) /\ y \in Bits(n)
  BY DEF Operands
<1>2. n \in Nat \ {0}
  BY WidthsAssumption
<1>3. Len(x) = n
  BY <1>1, <1>2, BitsFacts
<1> QED
  BY <1>1, <1>2, <1>3

(* +, - and *, the shift and the swap. *)
LEMMA RingSteps ==
  ASSUME Operands,
         \/ Does("+", add_full(x, y))
         \/ Does("-", sub_full(x, y).diff)
         \/ Does("*", mul_full(x, y))
         \/ Does(">>", ShrBy(x, y))
         \/ \E s \in BOOLEAN : Does(IF s THEN "swap" ELSE "keep", Swapped(s, x, y))
  PROVE  RingOfResidues' /\ SignedAsC'
<1> PICK n \in Nat \ {0} : x \in Bits(n) /\ y \in Bits(n) /\ Len(x) = n
  BY OperandFacts
<1>1. Mod = 2 ^ n
  BY Zenon DEF Mod
<1>2. CASE Does("+", add_full(x, y))
  <2>1. op' = "+" /\ res' = add_full(x, y) /\ x' = x /\ y' = y
    BY <1>2, Zenon DEF Does
  <2>2. Value(res') = (Value(x) + Value(y)) % 2 ^ n
    BY <2>1, AddIs, Zenon
  <2>3. RingOfResidues'
    BY <2>1, <2>2, Zenon DEF RingOfResidues, Mod
  <2> QED
    BY <2>1, <2>3, NotOfSigned
<1>3. CASE Does("-", sub_full(x, y).diff)
  <2>1. op' = "-" /\ res' = sub_full(x, y).diff /\ x' = x /\ y' = y
    BY <1>3, Zenon DEF Does
  <2>2. Value(res') = (Value(x) - Value(y)) % 2 ^ n
    BY <2>1, SubIs, Zenon
  <2>3. RingOfResidues'
    BY <2>1, <2>2, Zenon DEF RingOfResidues, Mod
  <2> QED
    BY <2>1, <2>3, NotOfSigned
<1>4. CASE Does("*", mul_full(x, y))
  <2>1. op' = "*" /\ res' = mul_full(x, y) /\ x' = x /\ y' = y
    BY <1>4, Zenon DEF Does
  <2>2. Value(res') = (Value(x) * Value(y)) % 2 ^ n
    BY <2>1, MulIs, Zenon
  <2>3. RingOfResidues'
    BY <2>1, <2>2, Zenon DEF RingOfResidues, Mod
  <2> QED
    BY <2>1, <2>3, NotOfSigned
<1>5. CASE Does(">>", ShrBy(x, y))
  <2>1. op' = ">>" /\ res' = ShrBy(x, y) /\ x' = x /\ y' = y
    BY <1>5, Zenon DEF Does
  <2>2. Value(y) < n => Value(res') = Value(x) \div 2 ^ Value(y)
    BY <2>1, ShrByFacts, Zenon
  <2>3. RingOfResidues'
    BY <2>1, <2>2, Zenon DEF RingOfResidues
  <2> QED
    BY <2>1, <2>3, NotOfSigned
<1>6. ASSUME NEW s \in BOOLEAN, Does(IF s THEN "swap" ELSE "keep", Swapped(s, x, y))
      PROVE  RingOfResidues' /\ SignedAsC'
  <2>0. n \in Nat
    OBVIOUS
  <2>1. CASE s = TRUE
    <3>1. op' = "swap" /\ res' = Swapped(TRUE, x, y) /\ x' = x /\ y' = y
      BY <1>6, <2>1, Zenon DEF Does
    <3>2. res' = <<y, x>>
      BY <2>0, <3>1, SwapFacts, Zenon
    <3>3. RingOfResidues'
      BY <3>1, <3>2, Zenon DEF RingOfResidues
    <3> QED
      BY <3>1, <3>3, NotOfSigned
  <2>2. CASE s = FALSE
    <3>1. op' = "keep" /\ res' = Swapped(FALSE, x, y) /\ x' = x /\ y' = y
      BY <1>6, <2>2, Zenon DEF Does
    <3>2. res' = <<x, y>>
      BY <2>0, <3>1, SwapFacts, Zenon
    <3>3. RingOfResidues'
      BY <3>1, <3>2, Zenon DEF RingOfResidues
    <3> QED
      BY <3>1, <3>3, NotOfSigned
  <2> QED
    BY <2>1, <2>2
<1> QED
  BY <1>2, <1>3, <1>4, <1>5, <1>6

(* / and %, the comparisons, resize and abs. *)
LEMMA SignedSteps ==
  ASSUME Operands,
         \/ Does("/", Quotient(x, y))
         \/ Does("%", Remainder(x, y))
         \/ Does("abs", abs(x))
         \/ Comparison
         \/ Does("resize", resize(x, 2 * Len(x)))
  PROVE  RingOfResidues' /\ SignedAsC'
<1> PICK n \in Nat \ {0} : x \in Bits(n) /\ y \in Bits(n) /\ Len(x) = n
  BY OperandFacts
<1>1. CASE Does("/", Quotient(x, y))
  <2>1. op' = "/" /\ res' = Quotient(x, y) /\ x' = x /\ y' = y
    BY <1>1, Zenon DEF Does
  <2> PICK q : q = Magnitude(Signed(x)) \div Magnitude(Signed(y))
    OBVIOUS
  <2>2. Signed(y) # 0 => Value(res') = (IF Msb(x) = Msb(y) THEN q ELSE -q) % 2 ^ n
    <3>1. Signed(y) # 0 => Value(Quotient(x, y)) = (IF Msb(x) = Msb(y) THEN q ELSE -q) % 2 ^ n
      BY QuotientIs
    <3> QED
      BY <2>1, <3>1, Zenon
  <2>3. SignedAsC'
    BY <2>1, <2>2, Zenon DEF SignedAsC, Mod
  <2> QED
    BY <2>1, <2>3, NotOfRing
<1>2. CASE Does("%", Remainder(x, y))
  <2>1. op' = "%" /\ res' = Remainder(x, y) /\ x' = x /\ y' = y
    BY <1>2, Zenon DEF Does
  <2> PICK r : r = Magnitude(Signed(x)) % Magnitude(Signed(y))
    OBVIOUS
  <2>2. Signed(y) # 0 => Signed(res') = IF Msb(x) THEN -r ELSE r
    <3>1. Signed(y) # 0 => Signed(Remainder(x, y)) = IF Msb(x) THEN -r ELSE r
      BY RemainderIs
    <3> QED
      BY <2>1, <3>1, Zenon
  <2>3. SignedAsC'
    BY <2>1, <2>2, Zenon DEF SignedAsC
  <2> QED
    BY <2>1, <2>3, NotOfRing
<1>3. CASE Does("abs", abs(x))
  <2>1. op' = "abs" /\ res' = abs(x) /\ x' = x /\ y' = y
    BY <1>3, Zenon DEF Does
  <2>2. Value(res') = Magnitude(Signed(x))
    BY <2>1, AbsFacts, Zenon
  <2>3. SignedAsC'
    BY <2>1, <2>2, Zenon DEF SignedAsC
  <2> QED
    BY <2>1, <2>3, NotOfRing
<1>4. CASE Does("resize", resize(x, 2 * Len(x)))
  <2>1. op' = "resize" /\ res' = resize(x, 2 * n) /\ x' = x /\ y' = y
    BY <1>4, Zenon DEF Does
  <2>2. 2 * n \in Nat /\ n <= 2 * n
    OBVIOUS
  <2>3. Signed(res') = Signed(x)
    BY <2>1, <2>2, ResizeFacts, Zenon
  <2>4. SignedAsC'
    BY <2>1, <2>3, Zenon DEF SignedAsC
  <2> QED
    BY <2>1, <2>4, NotOfRing
<1>5. CASE Comparison
  <2>1. Signed(x) \in Int /\ Signed(y) \in Int
    BY SignedFacts
  <2>2. Geq(x, y) = (Signed(x) >= Signed(y)) /\ Geq(y, x) = (Signed(y) >= Signed(x))
    BY GeqFacts
  <2>3. CASE Does(">=", <<Geq(x, y)>>)
    <3>1. op' = ">=" /\ res'[1] = Geq(x, y) /\ x' = x /\ y' = y
      BY <2>3 DEF Does
    <3>2. res'[1] = (Signed(x) >= Signed(y))
      BY <2>2, <3>1, Zenon
    <3>3. SignedAsC'
      BY <3>1, <3>2, Zenon DEF SignedAsC
    <3> QED
      BY <3>1, <3>3, NotOfRing
  <2>4. CASE Does("<", <<~Geq(x, y)>>)
    <3>1. op' = "<" /\ res'[1] = ~Geq(x, y) /\ x' = x /\ y' = y
      BY <2>4 DEF Does
    <3>2. (~(Signed(x) >= Signed(y))) = (Signed(x) < Signed(y))
      BY <2>1
    <3>3. res'[1] = (Signed(x) < Signed(y))
      <4>1. (~Geq(x, y)) = (~(Signed(x) >= Signed(y)))
        BY <2>2, Zenon
      <4> QED
        BY <3>1, <3>2, <4>1
    <3>4. SignedAsC'
      BY <3>1, <3>3, Zenon DEF SignedAsC
    <3> QED
      BY <3>1, <3>4, NotOfRing
  <2>5. CASE Does("<=", <<Geq(y, x)>>)
    <3>1. op' = "<=" /\ res'[1] = Geq(y, x) /\ x' = x /\ y' = y
      BY <2>5 DEF Does
    <3>2. (Signed(y) >= Signed(x)) = (Signed(x) <= Signed(y))
      BY <2>1
    <3>3. res'[1] = (Signed(x) <= Signed(y))
      BY <2>2, <3>1, <3>2, Zenon
    <3>4. SignedAsC'
      BY <3>1, <3>3, Zenon DEF SignedAsC
    <3> QED
      BY <3>1, <3>4, NotOfRing
  <2>6. CASE Does(">", <<~Geq(y, x)>>)
    <3>1. op' = ">" /\ res'[1] = ~Geq(y, x) /\ x' = x /\ y' = y
      BY <2>6 DEF Does
    <3>2. (~(Signed(y) >= Signed(x))) = (Signed(x) > Signed(y))
      BY <2>1
    <3>3. res'[1] = (Signed(x) > Signed(y))
      <4>1. (~Geq(y, x)) = (~(Signed(y) >= Signed(x)))
        BY <2>2, Zenon
      <4> QED
        BY <3>1, <3>2, <4>1
    <3>4. SignedAsC'
      BY <3>1, <3>3, Zenon DEF SignedAsC
    <3> QED
      BY <3>1, <3>4, NotOfRing
  <2>7. CASE Does("==", <<Equal(x, y)>>)
    <3>1. op' = "==" /\ res'[1] = Equal(x, y) /\ x' = x /\ y' = y
      BY <2>7 DEF Does
    <3>2. n \in Nat
      OBVIOUS
    <3>3. res'[1] = (x = y)
      <4>1. Equal(x, y) = (x = y)
        BY <3>2, EqualFacts
      <4> QED
        BY <3>1, <4>1, Zenon
    <3>4. SignedAsC'
      BY <3>1, <3>3, Zenon DEF SignedAsC
    <3> QED
      BY <3>1, <3>4, NotOfRing
  <2> QED
    BY <1>5, <2>3, <2>4, <2>5, <2>6, <2>7 DEF Comparison
<1> QED
  BY <1>1, <1>2, <1>3, <1>4, <1>5

(* Nothing has been done at the start. *)
LEMMA IInvInit == Init => IInv
<1> SUFFICES ASSUME Init PROVE IInv
  OBVIOUS
<1>1. Operands
  BY DEF Init, Operands
<1>2. op = "integer"
  BY DEF Init
<1> QED
  BY <1>1, <1>2, Zenon DEF IInv, RingOfResidues, SignedAsC

(* Every step keeps the operands and computes what it is to compute. *)
LEMMA IInvNext == IInv /\ [Next]_vars => IInv'
<1> SUFFICES ASSUME IInv, [Next]_vars PROVE IInv'
  OBVIOUS
<1>1. Operands /\ RingOfResidues /\ SignedAsC
  BY DEF IInv
<1>2. CASE UNCHANGED vars
  <2>1. op' = op /\ x' = x /\ y' = y /\ res' = res
    BY <1>2 DEF vars
  <2>2. Operands'
    BY <1>1, <2>1, Zenon DEF Operands
  <2>3. RingOfResidues'
    BY <1>1, <2>1, Zenon DEF RingOfResidues, Mod
  <2>4. SignedAsC'
    BY <1>1, <2>1, Zenon DEF SignedAsC, Mod
  <2> QED
    BY <2>2, <2>3, <2>4 DEF IInv
<1>3. ASSUME NEW name, NEW result, Does(name, result) PROVE Operands'
  <2>1. x' = x /\ y' = y
    BY <1>3, Zenon DEF Does
  <2> QED
    BY <1>1, <2>1, Zenon DEF Operands
<1>4. CASE Arithmetic
  <2>1. Operands'
    BY <1>3, <1>4, Zenon DEF Arithmetic
  <2>2. RingOfResidues' /\ SignedAsC'
    BY <1>1, <1>4, RingSteps, SignedSteps, Zenon DEF Arithmetic
  <2> QED
    BY <2>1, <2>2, Zenon DEF IInv
<1>5. CASE Comparison
  <2>1. Operands'
    BY <1>3, <1>5, Zenon DEF Comparison
  <2>2. RingOfResidues' /\ SignedAsC'
    BY <1>1, <1>5, SignedSteps, Zenon
  <2> QED
    BY <2>1, <2>2, Zenon DEF IInv
<1>6. CASE Movement
  <2>1. Operands'
    BY <1>3, <1>6, Zenon DEF Movement
  <2>2. RingOfResidues' /\ SignedAsC'
    BY <1>1, <1>6, RingSteps, SignedSteps, Zenon DEF Movement
  <2> QED
    BY <2>1, <2>2, Zenon DEF IInv
<1>7. CASE Done
  BY <1>2, <1>7 DEF Done
<1> QED
  BY <1>2, <1>4, <1>5, <1>6, <1>7 DEF Next

(* The circuits of Integer compute what they are to compute at every width.*)
THEOREM CircuitsCompute == Spec => []IInv
BY IInvInit, IInvNext, PTL DEF Spec

(* integer.h's adder, subtracter and multiplier (add_full, sub_full,       *)
(* mul_full) compute modulo 2^n, >> by less than the width divides, and a  *)
(* swap swaps: at every width.                                             *)
THEOREM ComputesResidues == Spec => []RingOfResidues
<1>1. IInv => RingOfResidues
  BY DEF IInv
<1> QED
  BY <1>1, CircuitsCompute, PTL

(* integer.h's division, remainder, comparisons, resize and abs are those  *)
(* of C's signed numbers, also for the least number: at every width.       *)
THEOREM ComputesAsC == Spec => []SignedAsC
<1>1. IInv => SignedAsC
  BY DEF IInv
<1> QED
  BY <1>1, CircuitsCompute, PTL

=============================================================================
