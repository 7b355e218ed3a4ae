------------------------- MODULE OTExtension_proofs -------------------------
(***************************************************************************)
(* Every step of oblivious transfer keeps the invariant, with a lemma for  *)
(* each action (the lemmas named ...Inv), and what follows of it.          *)
(*                                                                         *)
(* The steps fall in three kinds.  Those that are Quiet change nothing of  *)
(* the extensions and those that are Resting nothing of the hashes; what   *)
(* the one kind leaves alone is shown once for all of them.  A step of an  *)
(* extension moves its party to the next place (BobMoves, AliceMoves), and *)
(* a step of the hashing gives it more results of the call (HashStep).     *)
(*                                                                         *)
(* That the check passes is the algebra of InnerProduct: to flip a block   *)
(* by delta adds delta times its coefficient to the sum.                   *)
(***************************************************************************)
EXTENDS OTExtension_steps, SequenceTheorems, FiniteSetTheorems, FunctionTheorems, WellFoundedInduction, TLAPS

-----------------------------------------------------------------------------
(* Sequences *)

(* There are two parties, each the other's peer. *)
LEMMA PeerFacts == ASSUME NEW p \in Party
  PROVE  /\ Peer(p) \in Party
         /\ Peer(p) # p
         /\ Peer(Peer(p)) = p
         /\ \A q \in Party : q = p \/ q = Peer(p)
         /\ Peer("ALICE") = "BOB" /\ Peer("BOB") = "ALICE"
         /\ "ALICE" \in Party /\ "BOB" \in Party
  BY DEF Party, Peer

(* A function on 1 .. n is a sequence of length n. *)
LEMMA FunSeq == ASSUME NEW S, NEW n \in Nat, NEW f \in [1 .. n -> S]
  PROVE  /\ f \in Seq(S)
         /\ Len(f) = n
<1>1. f \in Seq(S) BY SeqDef
<1> QED BY <1>1, LenProperties

(* An element of a sequence is in its set. *)
LEMMA SeqAt == ASSUME NEW S, NEW s \in Seq(S), NEW i \in 1 .. Len(s)
  PROVE  s[i] \in S
  BY ElementOfSeq

(* What Append gives: its type, its length, its elements. *)
LEMMA AppendFacts == ASSUME NEW S, NEW s \in Seq(S), NEW e \in S
  PROVE  /\ Append(s, e) \in Seq(S)
         /\ Len(Append(s, e)) = Len(s) + 1
         /\ Append(s, e)[Len(s) + 1] = e
         /\ \A i \in 1 .. Len(s) : Append(s, e)[i] = s[i]
  OBVIOUS

(* The sequence of one element. *)
LEMMA OneFacts == ASSUME NEW S, NEW e \in S
  PROVE  <<e>> \in Seq(S) /\ Len(<<e>>) = 1 /\ <<e>>[1] = e
  OBVIOUS

(* What a concatenation gives: its type, its length, its elements. *)
LEMMA ConcatFacts == ASSUME NEW S, NEW s \in Seq(S), NEW t \in Seq(S)
  PROVE  /\ s \o t \in Seq(S)
         /\ Len(s \o t) = Len(s) + Len(t)
         /\ \A i \in 1 .. Len(s) : (s \o t)[i] = s[i]
         /\ \A i \in 1 .. Len(t) : (s \o t)[Len(s) + i] = t[i]
<1>1. /\ Len(s) \in Nat /\ Len(t) \in Nat
      /\ s \o t \in Seq(S)
      /\ Len(s \o t) = Len(s) + Len(t)
      /\ \A i \in 1 .. Len(s) + Len(t) :
           (s \o t)[i] = IF i <= Len(s) THEN s[i] ELSE t[i - Len(s)]
  BY ConcatProperties, LenProperties
<1>2. ASSUME NEW i \in 1 .. Len(t)
      PROVE  (s \o t)[Len(s) + i] = t[i]
  <2> DEFINE m == Len(s)
             n == Len(t)
             u == s \o t
  <2>1. m \in Nat /\ n \in Nat /\ i \in 1 .. n BY <1>1
  <2>2. \A j \in 1 .. m + n : u[j] = IF j <= m THEN s[j] ELSE t[j - m] BY <1>1
  <2> HIDE DEF m, n, u
  <2>3. m + i \in 1 .. m + n /\ ~(m + i <= m) /\ m + i - m = i BY <2>1
  <2>4. u[m + i] = t[m + i - m] BY <2>1, <2>2, <2>3
  <2>5. u[m + i] = t[i] BY <2>3, <2>4, Zenon
  <2> QED BY <2>5 DEF m, u
<1> QED BY <1>1, <1>2

(* n elements from the one after the a-th: a slice of the labels or of the *)
(* pool.                                                                   *)
LEMMA SubSeqFacts ==
  ASSUME NEW S, NEW s, NEW a \in Nat, NEW n \in Nat, \A i \in a + 1 .. a + n : s[i] \in S
  PROVE  /\ SubSeq(s, a + 1, a + n) \in Seq(S)
         /\ Len(SubSeq(s, a + 1, a + n)) = n
         /\ \A i \in 1 .. n : SubSeq(s, a + 1, a + n)[i] = s[a + i]
<1>1. a + 1 \in Int /\ a + n \in Int /\ a + n - (a + 1) + 1 = n OBVIOUS
<1>2. /\ SubSeq(s, a + 1, a + n) \in Seq(S)
      /\ Len(SubSeq(s, a + 1, a + n)) = IF a + 1 <= a + n THEN a + n - (a + 1) + 1 ELSE 0
      /\ \A i \in 1 .. a + n - (a + 1) + 1 : SubSeq(s, a + 1, a + n)[i] = s[a + 1 + i - 1]
  BY <1>1, SubSeqProperties
<1>3. \A i \in 1 .. n : a + 1 + i - 1 = a + i OBVIOUS
<1> QED BY <1>1, <1>2, <1>3

-----------------------------------------------------------------------------
(* Blocks *)

(* The xor of two blocks is a block. *)
LEMMA XORBlock == ASSUME NEW x \in Block, NEW y \in Block
  PROVE  XOR(x, y) \in Block
  BY DEF Block, XOR

(* select_mask of a block is a block. *)
LEMMA MaskBlock == ASSUME NEW x \in Block, NEW v \in BOOLEAN
  PROVE  Mask(v, x) \in Block
  BY DEF Block, Mask

(* The label of a value is a block. *)
LEMMA ActiveBlock == ASSUME NEW x \in Block, NEW v \in BOOLEAN, NEW d \in Block
  PROVE  Active(x, v, d) \in Block
  BY XORBlock, MaskBlock DEF Active

(* A sequence begins with itself. *)
LEMMA ProlongsSelf == ASSUME NEW S, NEW s \in Seq(S) PROVE Prolongs(s, s)
  BY LenProperties DEF Prolongs

(* So does a concatenation with the first of its parts. *)
LEMMA ProlongsConcat == ASSUME NEW S, NEW s \in Seq(S), NEW t \in Seq(S)
  PROVE  Prolongs(s, s \o t)
<1>1. /\ Len(s) \in Nat /\ Len(t) \in Nat /\ Len(s \o t) = Len(s) + Len(t)
      /\ \A i \in 1 .. Len(s) : (s \o t)[i] = s[i]
  BY ConcatFacts, LenProperties
<1> QED BY <1>1 DEF Prolongs

(* A concatenation, under the name of its result. *)
LEMMA ConcatIs ==
  ASSUME NEW S, NEW s \in Seq(S), NEW t \in Seq(S), NEW u, u = s \o t
  PROVE  /\ u \in Seq(S) /\ Len(u) = Len(s) + Len(t) /\ Prolongs(s, u)
         /\ \A i \in 1 .. Len(t) : u[Len(s) + i] = t[i]
  BY ConcatFacts, ProlongsConcat

-----------------------------------------------------------------------------
(* Quotients and remainders *)

(* A multiple of w that lies strictly between -w and w is zero. *)
LEMMA SmallMultiple ==
  ASSUME NEW w \in Nat \ {0}, NEW d \in Int, d * w < w, -w < d * w
  PROVE  d = 0
<1>1. CASE d >= 1
  <2>1. d * w >= w BY <1>1
  <2> QED BY <2>1
<1>2. CASE d <= -1
  <2>1. d * w <= -w BY <1>2
  <2> QED BY <2>1
<1> QED BY <1>1, <1>2

(* A quotient and a remainder are the only ones. *)
LEMMA Division ==
  ASSUME NEW w \in Nat \ {0}, NEW i \in Int, NEW j \in 0 .. w - 1, NEW x, x = i * w + j
  PROVE  x \div w = i /\ x % w = j
<1>0. x \in Int OBVIOUS
<1>1. PICK q \in Int : q = x \div w BY <1>0
<1>2. PICK r \in Int : r = x % w BY <1>0
<1>3. x = w * q + r /\ 0 <= r /\ r < w BY <1>0, <1>1, <1>2
<1>4. PICK d \in Int : d = i - q OBVIOUS
<1>5. d * w = r - j
  <2>1. i * w + j = w * q + r BY <1>3
  <2> QED BY <2>1, <1>4
<1>6. d = 0 BY <1>3, <1>5, SmallMultiple
<1> QED BY <1>1, <1>2, <1>4, <1>5, <1>6

(* Dividing by a positive number *)
LEMMA Divided ==
  ASSUME NEW w \in Nat \ {0}, NEW x \in Nat
  PROVE  /\ x \div w \in Nat /\ x % w \in 0 .. w - 1
         /\ x = (x \div w) * w + (x % w)
<1>1. PICK q \in Int : q = x \div w OBVIOUS
<1>2. PICK r \in Int : r = x % w OBVIOUS
<1>3. x = w * q + r /\ 0 <= r /\ r < w BY <1>1, <1>2
<1>4. q >= 0
  <2> SUFFICES ASSUME q <= -1 PROVE FALSE OBVIOUS
  <2>1. w * q <= -w OBVIOUS
  <2> QED BY <1>3, <2>1
<1> QED BY <1>1, <1>2, <1>3, <1>4

(* A larger number has no smaller quotient. *)
LEMMA DividedMore ==
  ASSUME NEW w \in Nat \ {0}, NEW x \in Nat, NEW y \in Nat, x <= y
  PROVE  x \div w <= y \div w
<1>1. PICK q \in Nat, r \in 0 .. w - 1 : q = x \div w /\ x = q * w + r
  BY Divided
<1>2. PICK a \in Nat, b \in 0 .. w - 1 : a = y \div w /\ y = a * w + b
  BY Divided
<1>3. q <= a
  <2> SUFFICES ASSUME q >= a + 1 PROVE FALSE OBVIOUS
  <2>1. PICK d \in Nat : q = a + 1 + d
    <3>1. q - a - 1 \in Nat OBVIOUS
    <3> QED BY <3>1
  <2>2. q * w = a * w + w + d * w BY <2>1
  <2>3. d * w >= 0 OBVIOUS
  <2> QED BY <1>1, <1>2, <2>2, <2>3
<1> QED BY <1>1, <1>2, <1>3

(* A matrix of h rows of w, row after row *)
LEMMA RowMajor ==
  ASSUME NEW h \in Nat, NEW w \in Nat \ {0}, NEW i \in 0 .. h - 1, NEW j \in 1 .. w
  PROVE  /\ i * w + j \in 1 .. h * w
         /\ (i * w + j - 1) \div w = i
         /\ ((i * w + j - 1) % w) + 1 = j
<1>1. PICK x \in Int : x = i * w OBVIOUS
<1>2. x >= 0 BY <1>1
<1>3. h * w >= x + w
  <2>1. PICK d \in Nat : h = i + 1 + d
    <3>1. h - i - 1 \in Nat OBVIOUS
    <3> QED BY <3>1
  <2>2. h * w = x + w + d * w BY <1>1, <2>1
  <2>3. d * w >= 0 OBVIOUS
  <2>4. h * w \in Int /\ d * w \in Int OBVIOUS
  <2> QED BY <2>2, <2>3, <2>4
<1>4. PICK z \in Int, y \in 0 .. w - 1 : z = i * w + j - 1 /\ y = j - 1 /\ z = i * w + y
  <2>1. i * w + j - 1 \in Int /\ j - 1 \in 0 .. w - 1 /\ i * w + j - 1 = i * w + (j - 1)
    OBVIOUS
  <2> QED BY <2>1
<1>5. z \div w = i /\ z % w = y
  <2>1. i \in Int /\ z = i * w + y BY <1>4
  <2>2. w \in Nat \ {0} /\ y \in 0 .. w - 1 OBVIOUS
  <2> QED BY ONLY <2>1, <2>2, Division, Zenon
<1> QED
  <2>1. y + 1 = j BY <1>4
  <2> QED BY <1>1, <1>2, <1>3, <1>4, <1>5, <2>1

(* The remainder is the only number below m that differs by a multiple. *)
LEMMA Remainder ==
  ASSUME NEW m \in Nat \ {0}, NEW x \in Int, NEW y \in Int, NEW d \in Int, x = y + d * m
  PROVE  x % m = y % m
<1>1. PICK q \in Int, r \in 0 .. m - 1 : y % m = r /\ y = q * m + r
  <2>1. PICK q \in Int : q = y \div m OBVIOUS
  <2>2. PICK r \in Int : r = y % m OBVIOUS
  <2>3. y = m * q + r /\ 0 <= r /\ r < m BY <2>1, <2>2
  <2>4. r \in 0 .. m - 1 /\ y = q * m + r BY <2>3
  <2> QED BY <2>2, <2>4
<1>2. PICK e \in Int : e = q + d OBVIOUS
<1>3. e * m = q * m + d * m BY <1>2
<1>4. PICK a \in Int, b \in Int, c \in Int : a = q * m /\ b = d * m /\ c = e * m
  OBVIOUS
<1>5. x = c + r BY <1>1, <1>3, <1>4
<1>6. x % m = r
  <2>1. c = e * m /\ x = e * m + r BY <1>4, <1>5
  <2> QED BY <1>1, <2>1, Division
<1> QED BY <1>1, <1>6

(* A number and its remainder differ by a multiple. *)
LEMMA ByRemainder ==
  ASSUME NEW m \in Nat \ {0}, NEW x \in Int
  PROVE  x % m \in 0 .. m - 1 /\ \E d \in Int : x = (x % m) + d * m
<1>1. PICK q \in Int : q = x \div m OBVIOUS
<1>2. PICK r \in Int : r = x % m OBVIOUS
<1>3. x = m * q + r /\ 0 <= r /\ r < m BY <1>1, <1>2
<1>4. r \in 0 .. m - 1 /\ x = r + q * m BY <1>3
<1>5. x % m = r BY <1>2
<1> QED BY <1>4, <1>5

(* The smaller of two numbers *)
LEMMA AtMostFacts == ASSUME NEW n \in Int, NEW m \in Int
  PROVE  /\ AtMost(n, m) \in Int
         /\ AtMost(n, m) <= n /\ AtMost(n, m) <= m
         /\ AtMost(n, m) = n \/ AtMost(n, m) = m
  BY DEF AtMost

-----------------------------------------------------------------------------
(* The points of the base OTs *)

(* A point below the order is its own multiple. *)
LEMMA OwnPoint == ASSUME NEW a \in get_rand_bn
  PROVE  mul_gen(a) = a /\ a \in Nat /\ Order \in Nat \ {0}
<1>1. Order \in Nat \ {0} BY OTAssumption
<1>2. a \in 0 .. Order - 1 /\ a = 0 * Order + a /\ 0 \in Int
  BY <1>1 DEF get_rand_bn
<1>3. a % Order = a BY ONLY <1>1, <1>2, Division
<1> QED BY <1>1, <1>2, <1>3 DEF mul_gen

(* Without the bit, b times a and a times b are one point. *)
LEMMA FirstPad == ASSUME NEW a \in get_rand_bn, NEW b \in get_rand_bn
  PROVE  mul(mul_gen(b), a) = mul(mul_gen(a), b)
<1>1. a \in Nat /\ b \in Nat /\ mul_gen(a) = a /\ mul_gen(b) = b BY OwnPoint
<1>2. b * a = a * b BY <1>1
<1> QED BY <1>1, <1>2, Zenon DEF mul

(* With the bit, a times b + a, less a times a, is a times b. *)
LEMMA SecondPad == ASSUME NEW a \in get_rand_bn, NEW b \in get_rand_bn
  PROVE  add(mul(add(mul_gen(b), mul_gen(a)), a), inv(mul(mul_gen(a), a))) = mul(mul_gen(a), b)
<1>1. /\ a \in Nat /\ b \in Nat /\ mul_gen(a) = a /\ mul_gen(b) = b
      /\ Order \in Nat \ {0}
  BY OwnPoint
<1> DEFINE m == Order
           s == (b + a) % m
           p == (s * a) % m
           c == (a * a) % m
           i == (m - c) % m
<1>2. /\ b + a \in Int /\ a * a \in Int /\ a * b \in Int BY <1>1
<1>3. s \in Int /\ s * a \in Int
  <2>1. s \in 0 .. m - 1 BY <1>1, <1>2, ByRemainder
  <2> QED BY <1>1, <2>1
<1>4. PICK d1 \in Int : b + a = s + d1 * m BY <1>1, <1>2, ByRemainder
<1>5. p \in Int /\ c \in Int
  <2>1. p \in 0 .. m - 1 /\ c \in 0 .. m - 1 BY <1>1, <1>2, <1>3, ByRemainder
  <2> QED BY <1>1, <2>1
<1>6. PICK d2 \in Int : s * a = p + d2 * m BY <1>1, <1>3, ByRemainder
<1>7. PICK d3 \in Int : a * a = c + d3 * m BY <1>1, <1>2, ByRemainder
<1>8. m - c \in Int BY <1>1, <1>5
<1>9. i \in Int
  <2>1. i \in 0 .. m - 1 BY <1>1, <1>8, ByRemainder
  <2> QED BY <1>1, <2>1
<1>10. PICK d4 \in Int : m - c = i + d4 * m BY <1>1, <1>8, ByRemainder
<1>11. add(mul(add(mul_gen(b), mul_gen(a)), a), inv(mul(mul_gen(a), a))) = (p + i) % m
  BY <1>1, Zenon DEF add, mul, inv
<1>12. mul(mul_gen(a), b) = (a * b) % m BY <1>1, Zenon DEF mul
<1> HIDE DEF m, s, p, c, i
<1>13. PICK e \in Int : e = d3 + 1 - d1 * a - d2 - d4
  <2>1. d3 + 1 - d1 * a - d2 - d4 \in Int BY <1>1
  <2> QED BY <2>1
<1>14. m \in Nat \ {0} BY <1>1 DEF m
<1>15. s * a = b * a + a * a - (d1 * a) * m
  <2>1. s = b + a - d1 * m BY <1>1, <1>3, <1>4, <1>14
  <2>2. (b + a - d1 * m) * a = b * a + a * a - (d1 * a) * m BY <1>1, <1>14
  <2> QED BY <2>1, <2>2
<1>16. p + i = a * b + e * m
  <2>1. PICK u \in Int, v \in Int, w \in Int, x \in Int, y \in Int, z \in Int :
          /\ u = a * b /\ v = a * a /\ w = (d1 * a) * m /\ x = d2 * m /\ y = d3 * m /\ z = d4 * m
    BY <1>1, <1>14
  <2>2. s * a = u + v - w BY <1>1, <1>15, <2>1
  <2>3. p = u + v - w - x BY <1>3, <1>5, <1>6, <2>1, <2>2
  <2>4. i = m - (v - y) - z
    <3>1. c = v - y BY <1>5, <1>7, <2>1
    <3>2. m - c = i + z BY <1>10, <2>1
    <3> QED BY <1>5, <1>9, <1>14, <2>1, <3>1, <3>2
  <2>5. e * m = y + m - w - x - z BY <1>1, <1>13, <1>14, <2>1
  <2> QED BY <1>14, <2>1, <2>3, <2>4, <2>5
<1>17. (p + i) % m = (a * b) % m
  <2>1. p + i \in Int BY <1>5, <1>9
  <2> QED BY ONLY <1>2, <1>14, <1>16, <2>1, Remainder, Zenon
<1> QED BY <1>11, <1>12, <1>17, Zenon

-----------------------------------------------------------------------------
(* Rows and columns *)

(* How many blocks a row of n OTs takes, and where the c-th is in it. *)
LEMMA WideFacts == ASSUME NEW n \in Nat \ {0}
  PROVE  /\ Wide(n) \in Nat \ {0}
         /\ Width \in Nat \ {0}
         /\ \A c \in 1 .. n : /\ ((c - 1) \div Width) \in Nat
                              /\ ((c - 1) \div Width) + 1 \in 1 .. Wide(n)
                              /\ (c - 1) % Width \in Rows
                              /\ c - 1 = ((c - 1) \div Width) * Width + ((c - 1) % Width)
<1>1. Width \in Nat \ {0} BY BlocksAssumption
<1>2. n - 1 \in Nat OBVIOUS
<1>3. PICK q \in Nat, r \in 0 .. Width - 1 : q = (n - 1) \div Width /\ n - 1 = q * Width + r
  BY <1>1, <1>2, Divided
<1>4. Wide(n) = q + 1
  <2>1. PICK x \in Nat, y \in Int : x = n + Width - 1 /\ y = q + 1 BY <1>1, <1>2
  <2>2. x = y * Width + r BY <1>1, <1>3, <2>1
  <2>3. x \div Width = y
    BY ONLY <1>1, <2>2, Division, y \in Int, r \in 0 .. Width - 1
  <2> QED BY <2>1, <2>3 DEF Wide
<1>5. ASSUME NEW c \in 1 .. n
      PROVE  /\ ((c - 1) \div Width) \in Nat
             /\ ((c - 1) \div Width) + 1 \in 1 .. Wide(n)
             /\ (c - 1) % Width \in 0 .. Width - 1
             /\ c - 1 = ((c - 1) \div Width) * Width + ((c - 1) % Width)
  <2>1. c - 1 \in Nat /\ c - 1 <= n - 1 OBVIOUS
  <2>2. (c - 1) \div Width <= q BY <1>1, <1>2, <1>3, <2>1, DividedMore
  <2>3. /\ (c - 1) \div Width \in Nat /\ (c - 1) % Width \in 0 .. Width - 1
        /\ c - 1 = ((c - 1) \div Width) * Width + ((c - 1) % Width)
    BY <1>1, <2>1, Divided
  <2>4. ((c - 1) \div Width) + 1 \in 1 .. q + 1 BY <2>2, <2>3
  <2> QED BY <1>4, <2>3, <2>4
<1> QED BY <1>1, <1>4, <1>5 DEF Rows

(* The PRGs give blocks. *)
LEMMA StreamBlock == ASSUME NEW k \in Seed, NEW n \in Nat
  PROVE  Stream(k, n) \in Block
<1>1. Streams[k] \in Seq(Block) /\ Streams[k] # <<>> BY OTAssumption DEF Seed
<1>2. PICK l \in Nat \ {0} : l = Len(Streams[k])
  BY <1>1, EmptySeq, LenProperties
<1>3. (n % l) + 1 \in 1 .. l
  <2>1. n % l \in 0 .. l - 1 BY ByRemainder
  <2> QED BY <2>1
<1>4. Streams[k][(n % l) + 1] \in Block BY <1>1, <1>2, <1>3, SeqAt
<1> QED BY <1>2, <1>4 DEF Stream

(* A column is a block of as many bits as there are rows. *)
LEMMA ColumnsTyped == ASSUME NEW rows, NEW n \in Nat
  PROVE  /\ Columns(rows, n) \in Seq(Block)
         /\ Len(Columns(rows, n)) = n
         /\ \A c \in 1 .. n : Columns(rows, n)[c] \in Block
<1>1. Columns(rows, n) \in [1 .. n -> Block] BY DEF Columns, Rows, Block
<1>2. Columns(rows, n) \in Seq(Block) /\ Len(Columns(rows, n)) = n
  BY <1>1, FunSeq
<1> QED BY <1>1, <1>2

(* BOB's column is of his first PRGs. *)
LEMMA BobColumn ==
  ASSUME NEW n \in Nat \ {0}, NEW c \in 1 .. n, NEW w, w = Wide(n), NEW from, from = used.g0, from \in Nat
  PROVE  Columns(BobRows(w), n)[c] = Col(from, c)
<1> DEFINE j == (c - 1) \div Width
           x == (c - 1) % Width
<1>1. j \in Nat /\ j + 1 \in 1 .. w BY WideFacts
<1>2. Columns(BobRows(w), n)[c] = {i \in Rows : x \in BobRows(w)[i][j + 1]}
  BY DEF Columns
<1> HIDE DEF j
<1>3. from + (j + 1) - 1 = from + j BY <1>1
<1>4. \A i \in Rows : BobRows(w)[i][j + 1] = Stream(keys.k0[i], from + (j + 1) - 1)
  BY <1>1 DEF BobRows, Row
<1>5. \A i \in Rows : BobRows(w)[i][j + 1] = Stream(keys.k0[i], from + j)
  BY <1>3, <1>4
<1>6. Columns(BobRows(w), n)[c] = {i \in Rows : x \in Stream(keys.k0[i], from + j)}
  BY <1>2, <1>5
<1> QED BY <1>6 DEF Col, j

(* A row of ALICE is BOB's, flipped by his message where delta is set:    *)
(* her column is his, flipped where he chose.                             *)
LEMMA AliceColumn ==
  ASSUME NEW n \in Nat \ {0}, NEW c \in 1 .. n, NEW w, w = Wide(n), NEW from, NEW B, Brought(w, from, B),
         NEW r, Chooses(r, B, c)
  PROVE  Columns(AliceRows(w), n)[c] = Active(Col(from, c), r, delta)
<1>0. /\ from = used.a /\ from \in Nat /\ delta \in SUBSET Rows /\ keys.a = [i \in Rows |-> KeyOf(i)]
      /\ \A i \in Rows : \A j \in 1 .. w : net["ALICE"][i * w + j] = XOR(Given(from, i, j), B[j])
      /\ r \in BOOLEAN /\ (r <=> ((c - 1) % Width \in B[((c - 1) \div Width) + 1]))
  BY DEF Brought, Chooses
<1> DEFINE j == (c - 1) \div Width
           x == (c - 1) % Width
<1>1. j \in Nat /\ j + 1 \in 1 .. w BY WideFacts
<1>2. Columns(AliceRows(w), n)[c] = {i \in Rows : x \in AliceRows(w)[i][j + 1]}
  BY DEF Columns
<1>3. r <=> (x \in B[j + 1]) BY <1>0
<1>4. Col(from, c) = {i \in Rows : x \in Stream(keys.k0[i], from + j)}
  BY DEF Col
<1> HIDE DEF j, x
<1>5. from + (j + 1) - 1 = from + j BY <1>0, <1>1
<1>6. ASSUME NEW i \in Rows
      PROVE  (x \in AliceRows(w)[i][j + 1]) <=> ~((x \in Stream(keys.k0[i], from + j)) <=> (i \in delta /\ r))
  <2> DEFINE s0 == Stream(keys.k0[i], from + j)
             s1 == Stream(keys.k1[i], from + j)
             a == Stream(keys.a[i], from + j)
  <2>1. AliceRows(w)[i][j + 1] = XOR(Stream(keys.a[i], from + (j + 1) - 1), Mask(i \in delta, net["ALICE"][i * w + (j + 1)]))
    BY <1>0, <1>1 DEF AliceRows
  <2>2. net["ALICE"][i * w + (j + 1)] = XOR(Given(from, i, j + 1), B[j + 1])
    BY <1>0, <1>1
  <2>3. Given(from, i, j + 1) = XOR(s0, s1) BY <1>5, Zenon DEF Given
  <2>4. keys.a[i] = IF i \in delta THEN keys.k1[i] ELSE keys.k0[i]
    BY <1>0 DEF KeyOf
  <2>5. a = IF i \in delta THEN s1 ELSE s0 BY <2>4
  <2>6. AliceRows(w)[i][j + 1] = XOR(a, Mask(i \in delta, XOR(XOR(s0, s1), B[j + 1])))
    BY <1>5, <2>1, <2>2, <2>3, Zenon
  <2> HIDE DEF a, s0, s1
  <2>7. (x \in XOR(a, Mask(i \in delta, XOR(XOR(s0, s1), B[j + 1])))) <=> ~((x \in s0) <=> (i \in delta /\ x \in B[j + 1]))
    <3>1. CASE i \in delta BY <2>5, <3>1 DEF XOR, Mask
    <3>2. CASE i \notin delta BY <2>5, <3>2 DEF XOR, Mask
    <3> QED BY <3>1, <3>2
  <2>8. (x \in AliceRows(w)[i][j + 1]) <=> ~((x \in s0) <=> (i \in delta /\ r))
    BY <1>3, <2>6, <2>7, Zenon
  <2> QED BY <2>8 DEF s0
<1>7. Active(Col(from, c), r, delta) = {i \in Rows : ~((x \in Stream(keys.k0[i], from + j)) <=> (i \in delta /\ r))}
  <2>1. CASE r BY <1>0, <1>4, <2>1 DEF Active, XOR, Mask
  <2>2. CASE ~r BY <1>0, <1>4, <2>2 DEF Active, XOR, Mask
  <2> QED BY <2>1, <2>2
<1> QED BY <1>2, <1>6, <1>7

-----------------------------------------------------------------------------
(* What the invariant says of each variable *)

(* There are two parties. *)
LEMMA TwoParties == Parties
  BY DEF Parties, Party

(* The parts of the invariant *)
LEMMA Parts == ASSUME IInv
  PROVE  /\ TypeOK /\ Positions /\ BaseOT /\ Places /\ ToAlice
         /\ Columned /\ Correlates /\ InTurn /\ ToBob /\ Resulted
  BY DEF IInv

(* The constants are numbers. *)
LEMMA ConstantFacts ==
  /\ Width \in Nat \ {0} /\ BlockSize \in Nat \ {0} /\ OTBatch \in Nat \ {0} /\ Order \in Nat \ {0}
  /\ 2 * Width \in Nat \ {0}
  /\ Block = SUBSET Rows
  /\ \A i \in Rows : i \in Nat /\ i < Width
<1>1. Width \in Nat \ {0} /\ BlockSize \in Nat \ {0} /\ OTBatch \in Nat \ {0} /\ Order \in Nat \ {0}
  BY OTAssumption, BlocksAssumption
<1> QED BY <1>1 DEF Block, Rows

(* A call has a kind and one choice bit or more. *)
LEMMA ScriptFacts == ASSUME TypeOK, NEW k \in 1 .. Len(script)
  PROVE  /\ script \in Seq(Calls) /\ Len(script) \in Nat /\ k \in Nat \ {0}
         /\ script[k] \in Calls
         /\ script[k].kind \in {"cot", "ot", "rot"}
         /\ script[k].r \in Seq(BOOLEAN)
         /\ Len(script[k].r) \in Nat \ {0}
         /\ \A i \in 1 .. Len(script[k].r) : script[k].r[i] \in BOOLEAN
<1>1. script \in Seq(Calls) BY DEF TypeOK
<1>2. Len(script) \in Nat BY <1>1, LenProperties
<1>3. script[k] \in Calls BY <1>1, SeqAt
<1>4. script[k].kind \in {"cot", "ot", "rot"} /\ script[k].r \in Seq(BOOLEAN) /\ script[k].r # <<>>
  BY <1>3, OTAssumption
<1>5. Len(script[k].r) \in Nat \ {0} BY <1>4, EmptySeq, LenProperties
<1>6. \A i \in 1 .. Len(script[k].r) : script[k].r[i] \in BOOLEAN BY <1>4, SeqAt
<1> QED BY <1>1, <1>2, <1>3, <1>4, <1>5, <1>6

(* The types of what belongs to a party *)
LEMMA PartyFacts == ASSUME TypeOK, NEW p \in Party
  PROVE  /\ at \in [Party -> Nat \ {0}] /\ at[p] \in Nat \ {0}
         /\ pc \in [Party -> {"setup", "points", "keys", "idle", "extend", "extra", "check",
                       "start", "hash", "error"}]
         /\ net \in [Party -> Seq(Stuff)] /\ net[p] \in Seq(Stuff) /\ Len(net[p]) \in Nat
         /\ gid \in [Party -> Nat] /\ gid[p] \in Nat
         /\ start \in [Party -> StartPoint]
         /\ cot \in [Party -> Seq(Blocks)] /\ cot[p] \in Seq(Blocks) /\ Len(cot[p]) \in Nat
         /\ DOMAIN data = Party /\ DOMAIN out = Party
         /\ script \in Seq(Calls) /\ Len(script) \in Nat
<1>1. /\ at \in [Party -> Nat \ {0}] /\ net \in [Party -> Seq(Stuff)] /\ gid \in [Party -> Nat]
      /\ start \in [Party -> StartPoint] /\ cot \in [Party -> Seq(Blocks)] /\ script \in Seq(Calls)
      /\ DOMAIN data = Party /\ DOMAIN out = Party
      /\ pc \in [Party -> {"setup", "points", "keys", "idle", "extend", "extra", "check",
                       "start", "hash", "error"}]
  BY DEF TypeOK
<1>2. net[p] \in Seq(Stuff) /\ cot[p] \in Seq(Blocks) BY <1>1
<1>3. Len(net[p]) \in Nat /\ Len(cot[p]) \in Nat /\ Len(script) \in Nat
  BY <1>1, <1>2, LenProperties
<1> QED BY <1>1, <1>2, <1>3

(* The types of a place *)
LEMMA PlaceFacts == ASSUME TypeOK, NEW n \in 1 .. Len(place)
  PROVE  /\ place \in Seq(Place) /\ Len(place) \in Nat /\ n \in Nat
         /\ place[n] \in Place
         /\ place[n].k \in Nat \ {0} /\ place[n].phase \in {"extend", "extra", "check"}
         /\ place[n].done \in Nat /\ place[n].from \in Nat /\ place[n].pos \in Nat
         /\ place[n].r \in Seq(BOOLEAN)
<1>1. place \in Seq(Place) BY DEF TypeOK
<1>2. Len(place) \in Nat BY <1>1, LenProperties
<1>3. place[n] \in Place BY <1>1, SeqAt
<1>4. /\ place[n].k \in Nat \ {0} /\ place[n].phase \in {"extend", "extra", "check"}
      /\ place[n].done \in Nat /\ place[n].from \in Nat /\ place[n].pos \in Nat
      /\ place[n].r \in Seq(BOOLEAN)
  BY <1>3 DEF Place
<1>5. n \in Nat BY <1>2
<1> QED BY <1>1, <1>2, <1>3, <1>4, <1>5

(* There is a place that ALICE is at and one, the last, that BOB is at. *)
LEMMA AtPlace == ASSUME TypeOK, Places
  PROVE  /\ Len(place) \in Nat \ {0} /\ Len(place) \in 1 .. Len(place)
         /\ step \in 1 .. Len(place) /\ step \in Nat
         /\ place[Len(place)] = Last
<1>1. Len(place) \in Nat BY LenProperties DEF TypeOK
<1> QED BY <1>1 DEF Places, Last

(* What a party has of a call *)
LEMMA HaveTyped == ASSUME TypeOK, NEW p \in Party, NEW k \in Nat \ {0}
  PROVE  Have(p, k) \in Blocks /\ Len(Have(p, k)) \in Nat
<1>1. CASE k <= Len(cot[p])
  <2>1. cot[p][k] \in Blocks BY <1>1, PartyFacts, SeqAt
  <2> QED BY <1>1, <2>1, LenProperties DEF Have, Blocks
<1>2. CASE ~(k <= Len(cot[p])) /\ Extending(p) /\ k = at[p]
  <2>1. data[p] \in Blocks BY <1>2 DEF TypeOK
  <2> QED BY <1>2, <2>1, LenProperties DEF Have, Blocks
<1>3. CASE ~(k <= Len(cot[p])) /\ ~(Extending(p) /\ k = at[p])
  <2>1. Have(p, k) = <<>> BY <1>3 DEF Have
  <2> QED BY <2>1, EmptySeq DEF Blocks
<1> QED BY <1>1, <1>2, <1>3

(* A column is a block. *)
LEMMA ColTyped == ASSUME NEW from, NEW c PROVE Col(from, c) \in Block
  BY ConstantFacts DEF Col

(* Those made for the check are a sequence of blocks. *)
LEMMA Columns2Typed == ASSUME NEW from
  PROVE  /\ Columns2(from) \in Seq(Block)
         /\ Len(Columns2(from)) = 2 * Width
         /\ \A x \in 1 .. 2 * Width : Columns2(from)[x] = Col(from, x)
<1>1. Columns2(from) \in [1 .. 2 * Width -> Block] BY ColTyped DEF Columns2
<1>2. \A x \in 1 .. 2 * Width : Columns2(from)[x] = Col(from, x) BY DEF Columns2
<1> QED BY <1>1, <1>2, FunSeq, ConstantFacts

-----------------------------------------------------------------------------
(* The steps of the extensions stay as they are *)

(* What a step of the extension is of, and what it sends *)
LEMMA StepFacts == ASSUME TypeOK, Places, NEW n \in 1 .. Len(place) - 1
  PROVE  /\ n \in 1 .. Len(place) /\ n + 1 \in 1 .. Len(place)
         /\ Follows(place[n], place[n + 1])
         /\ place[n].k \in 1 .. Len(script)
         /\ place[n].pos < place[n + 1].pos
         /\ New(place[n]) \in Nat
         /\ place[n].phase = "extend" =>
               /\ New(place[n]) \in Nat \ {0}
               /\ Wide(New(place[n])) \in Nat \ {0}
               /\ place[n].done + New(place[n]) <= Len(script[place[n].k].r)
               /\ place[n + 1].pos - place[n].pos = Width * Wide(New(place[n]))
         /\ place[n].phase = "extra" => place[n + 1].pos - place[n].pos = 2 * Width
         /\ place[n].phase = "check" => place[n + 1].pos - place[n].pos = 4
<1>1. n \in 1 .. Len(place) /\ n + 1 \in 1 .. Len(place) /\ Len(place) \in Nat
  BY AtPlace
<1>2. /\ place[n].phase \in {"extend", "extra", "check"}
      /\ place[n].done \in Nat /\ place[n].pos \in Nat /\ place[n + 1].pos \in Nat
  BY <1>1, PlaceFacts
<1>3. Follows(place[n], place[n + 1]) BY DEF Places
<1>4. place[n].k \in 1 .. Len(script) BY <1>3 DEF Follows
<1>5. Len(script[place[n].k].r) \in Nat \ {0} BY <1>4, ScriptFacts
<1>6. New(place[n]) \in Int /\ New(place[n]) <= Len(script[place[n].k].r) - place[n].done
  <2>1. PICK d \in Int : d = Len(script[place[n].k].r) - place[n].done
    BY <1>2, <1>5
  <2>2. New(place[n]) = AtMost(BlockSize, d) BY <2>1 DEF New
  <2> QED BY <2>1, <2>2, AtMostFacts, ConstantFacts
<1>7. CASE place[n].phase = "extend"
  <2>1. /\ place[n].done < Len(script[place[n].k].r)
        /\ place[n + 1].pos = place[n].pos + Width * Wide(New(place[n]))
    BY <1>3, <1>7 DEF Follows
  <2>2. New(place[n]) \in Nat \ {0}
    <3>1. PICK d \in Int : d = Len(script[place[n].k].r) - place[n].done
      BY <1>2, <1>5
    <3>2. New(place[n]) = AtMost(BlockSize, d) BY <3>1 DEF New
    <3>3. d > 0
      <4>1. PICK a \in Int, b \in Int : a = place[n].done /\ b = Len(script[place[n].k].r)
        BY <1>2, <1>5
      <4> QED BY <2>1, <3>1, <4>1
    <3>4. BlockSize \in Nat \ {0} BY ConstantFacts
    <3> QED BY <3>2, <3>3, <3>4 DEF AtMost
  <2>3. Wide(New(place[n])) \in Nat \ {0} BY <2>2, WideFacts
  <2>4. PICK x \in Nat \ {0} : x = Width * Wide(New(place[n]))
    <3>1. Width * Wide(New(place[n])) \in Nat \ {0} BY <2>3, ConstantFacts
    <3> QED BY <3>1
  <2>5. place[n].pos < place[n + 1].pos /\ place[n + 1].pos - place[n].pos = Width * Wide(New(place[n]))
    BY <1>2, <2>1, <2>4
  <2>6. place[n].done + New(place[n]) <= Len(script[place[n].k].r)
    BY <1>2, <1>5, <1>6
  <2>7. New(place[n]) \in Nat BY <2>2
  <2> QED BY <1>1, <1>3, <1>4, <1>7, <2>2, <2>3, <2>5, <2>6, <2>7
<1>8. CASE place[n].phase = "extra"
  <2>1. place[n].done = Len(script[place[n].k].r) /\ place[n + 1].pos = place[n].pos + 2 * Width
    BY <1>3, <1>8 DEF Follows
  <2>2. New(place[n]) \in Nat
    <3>1. PICK d \in Int : d = Len(script[place[n].k].r) - place[n].done
      BY <1>2, <1>5
    <3>2. New(place[n]) = AtMost(BlockSize, d) BY <3>1 DEF New
    <3>3. d = 0 BY <1>2, <1>5, <2>1, <3>1
    <3>4. BlockSize \in Nat \ {0} BY ConstantFacts
    <3> QED BY <3>2, <3>3, <3>4 DEF AtMost
  <2> QED BY <1>1, <1>2, <1>3, <1>4, <1>8, <2>1, <2>2, ConstantFacts
<1>9. CASE place[n].phase = "check"
  <2>1. place[n].done = Len(script[place[n].k].r) /\ place[n + 1].pos = place[n].pos + 4
    BY <1>3, <1>9 DEF Follows
  <2>2. New(place[n]) \in Nat
    <3>1. PICK d \in Int : d = Len(script[place[n].k].r) - place[n].done
      BY <1>2, <1>5
    <3>2. New(place[n]) = AtMost(BlockSize, d) BY <3>1 DEF New
    <3>3. d = 0 BY <1>2, <1>5, <2>1, <3>1
    <3>4. BlockSize \in Nat \ {0} BY ConstantFacts
    <3> QED BY <3>2, <3>3, <3>4 DEF AtMost
  <2> QED BY <1>1, <1>2, <1>3, <1>4, <1>9, <2>1, <2>2
<1> QED BY <1>2, <1>7, <1>8, <1>9

(* A longer program has the same calls. *)
LEMMA NewStays ==
  ASSUME TypeOK, Prolongs(script, script'), NEW m, m.k \in 1 .. Len(script)
  PROVE  New(m)' = New(m) /\ script'[m.k] = script[m.k]
<1>1. script'[m.k] = script[m.k] BY DEF Prolongs
<1> QED BY <1>1 DEF New

(* So one step follows another as it did. *)
LEMMA FollowsStays ==
  ASSUME TypeOK, Prolongs(script, script'), Len(script') \in Nat, malicious' = malicious,
         NEW m, NEW n, Follows(m, n)
  PROVE  Follows(m, n)'
<1>1. m.k \in 1 .. Len(script) BY DEF Follows
<1>2. New(m)' = New(m) /\ script'[m.k] = script[m.k] BY <1>1, NewStays
<1>3. Len(script) \in Nat BY LenProperties DEF TypeOK
<1>4. m.k \in 1 .. Len(script') BY <1>1, <1>3 DEF Prolongs
<1> QED BY <1>2, <1>4 DEF Follows

(* So a step's message is right as long as it is in the stream. *)
LEMMA CarriedStays ==
  ASSUME TypeOK, Places, Prolongs(script, script'), Prolongs(place, place'), keys'.k0 = keys.k0, keys'.k1 = keys.k1,
         Prolongs(cot["BOB"], cot'["BOB"]), Len(cot'["BOB"]) \in Nat, NEW n \in 1 .. Len(place) - 1, Carried(n),
         \A x \in 1 .. place[n + 1].pos - place[n].pos : Sent(n, x)' = Sent(n, x)
  PROVE  Carried(n)'
<1>1. n \in 1 .. Len(place) /\ n + 1 \in 1 .. Len(place) /\ place[n].k \in 1 .. Len(script)
  BY StepFacts
<1>2. PICK m, e : m = place[n] /\ e = place[n + 1] /\ place'[n] = m /\ place'[n + 1] = e
  BY <1>1 DEF Prolongs
<1>3. New(m)' = New(m) /\ script'[m.k] = script[m.k] BY <1>1, <1>2, NewStays
<1>4. /\ m.pos \in Nat /\ e.pos \in Nat /\ m.phase \in {"extend", "extra", "check"}
      /\ m.from \in Nat /\ m.k \in Nat \ {0}
  BY <1>1, <1>2, PlaceFacts
<1>5. \A x \in 1 .. e.pos - m.pos : Sent(n, x)' = Sent(n, x) BY <1>2
<1>6. CASE m.phase = "extend"
  <2> PICK w : w = Wide(New(m)) OBVIOUS
  <2>1. w \in Nat \ {0} /\ e.pos - m.pos = Width * w BY <1>2, <1>6, StepFacts
  <2>2. ASSUME NEW i \in Rows, NEW j \in 1 .. w
        PROVE  Sent(n, i * w + j)' = XOR(Given(m.from, i, j), ChosenBits(m.k, m.done, j))'
    <3>1. i * w + j \in 1 .. e.pos - m.pos
      BY <2>1, ConstantFacts, RowMajor DEF Rows
    <3> PICK x : x = i * w + j OBVIOUS
    <3>2. Sent(n, x)' = Sent(n, x) BY <1>5, <3>1
    <3>3. Sent(n, x) = XOR(Given(m.from, i, j), ChosenBits(m.k, m.done, j))
      BY <1>2, <1>6 DEF Carried
    <3>4. Given(m.from, i, j)' = Given(m.from, i, j) /\ ChosenBits(m.k, m.done, j)' = ChosenBits(m.k, m.done, j)
      BY <1>3 DEF Given, ChosenBits
    <3> QED BY <3>2, <3>3, <3>4
  <2> QED
    <3>1. w = Wide(New(m))' BY <1>3 DEF Wide
    <3> QED BY <1>2, <1>3, <1>6, <2>2, <3>1 DEF Carried
<1>7. CASE m.phase = "extra"
  <2>1. e.pos - m.pos = 2 * Width BY <1>2, <1>7, StepFacts
  <2>2. ASSUME NEW i \in Rows, NEW j \in 1 .. 2
        PROVE  Sent(n, i * 2 + j)' = XOR(Given(m.from, i, j), ExtraBits(e.r, j))'
    <3>1. i * 2 + j \in 1 .. e.pos - m.pos BY <2>1, ConstantFacts
    <3>2. Sent(n, i * 2 + j)' = Sent(n, i * 2 + j) BY <1>5, <3>1
    <3>3. Sent(n, i * 2 + j) = XOR(Given(m.from, i, j), ExtraBits(e.r, j))
      BY <1>2, <1>7 DEF Carried
    <3>4. Given(m.from, i, j)' = Given(m.from, i, j) BY DEF Given
    <3> QED BY <3>2, <3>3, <3>4
  <2> QED BY <1>2, <1>7, <2>2 DEF Carried
<1>8. CASE m.phase = "check"
  <2>1. e.pos - m.pos = 4 BY <1>2, <1>8, StepFacts
  <2>2. Sent(n, 1)' = Sent(n, 1) /\ Sent(n, 2)' = Sent(n, 2) /\ Sent(n, 3)' = Sent(n, 3) /\ Sent(n, 4)' = Sent(n, 4)
    BY <1>5, <2>1
  <2>3. m.k <= Len(cot["BOB"]) BY <1>2, <1>8 DEF Carried
  <2>4. Len(cot["BOB"]) \in Nat BY PartyFacts, TwoParties DEF Parties
  <2>5. m.k <= Len(cot'["BOB"]) /\ cot'["BOB"][m.k] = cot["BOB"][m.k]
    BY <1>4, <2>3, <2>4 DEF Prolongs
  <2>6. Columns2(m.from - 2)' = Columns2(m.from - 2) BY DEF Columns2, Col
  <2>7. /\ Coeffs(Len(script[m.k].r), Sent(n, 1))' = Coeffs(Len(script[m.k].r), Sent(n, 1))
        /\ Sent(n, 1)' \in Combiners
    BY <1>2, <1>3, <1>8, <2>2 DEF Carried, Coeffs
  <2> QED BY <1>2, <1>3, <1>8, <2>2, <2>5, <2>6, <2>7 DEF Carried
<1> QED BY <1>4, <1>6, <1>7, <1>8

(* A column that BOB has taken stays, whatever he takes after it. *)
LEMMA ColumnStays ==
  ASSUME TypeOK, Places, Columned, Prolongs(script, script'), keys'.k0 = keys.k0,
         NEW n \in 1 .. Len(place) - 1, NEW m, m = place[n], m.phase = "extend",
         Prolongs(Taken(m.k), Taken(m.k)'), Len(Taken(m.k)') \in Nat
  PROVE  /\ m.done + New(m)' <= Len(Taken(m.k)')
         /\ \A c \in 1 .. New(m)' : Taken(m.k)'[m.done + c] = Col(m.from, c)'
<1>1. /\ n \in 1 .. Len(place) /\ m.k \in 1 .. Len(script) /\ New(m) \in Nat /\ m.done \in Nat
      /\ m.k \in Nat \ {0}
  BY StepFacts, PlaceFacts
<1>2. New(m)' = New(m) BY <1>1, NewStays
<1>3. PICK l \in Nat : l = Len(Taken(m.k))
  BY <1>1, HaveTyped, TwoParties DEF Parties, Taken
<1>4. PICK t : t = Taken(m.k) OBVIOUS
<1>5. PICK u : u = Taken(m.k)' OBVIOUS
<1>6. /\ m.done + New(m) <= l
      /\ \A c \in 1 .. New(m) : t[m.done + c] = Col(m.from, c)
  BY <1>3, <1>4 DEF Columned
<1>7. l <= Len(u) /\ \A i \in 1 .. l : u[i] = t[i]
  BY <1>3, <1>5, <1>4 DEF Prolongs
<1>8. \A c : Col(m.from, c)' = Col(m.from, c) BY DEF Col
<1>9. PICK a \in Nat : a = New(m) BY <1>1
<1>10. PICK d \in Nat : d = m.done BY <1>1
<1>11. ASSUME NEW c \in 1 .. a
       PROVE  u[d + c] = Col(m.from, c)
  <2>1. d + c \in 1 .. l BY <1>6, <1>9, <1>10
  <2>2. t[d + c] = Col(m.from, c) BY <1>6, <1>9, <1>10
  <2> QED BY <1>7, <2>1, <2>2
<1>12. d + a <= Len(u) BY <1>5, <1>6, <1>7, <1>9, <1>10
<1> QED BY <1>2, <1>5, <1>8, <1>9, <1>10, <1>11, <1>12

(* So does a block of ALICE that is right. *)
LEMMA CorrelationStays ==
  ASSUME TypeOK, Correlates, Prolongs(script, script'), delta' = delta, NEW k \in 1 .. Len(script),
         Have("ALICE", k)' = Have("ALICE", k), Prolongs(Taken(k), Taken(k)'), Len(Taken(k)') \in Nat
  PROVE  /\ Len(Have("ALICE", k)') <= Len(Taken(k)')
         /\ \A i \in 1 .. Len(Have("ALICE", k)') :
              Have("ALICE", k)'[i] = Active(Taken(k)'[i], script'[k].r[i], delta')
<1>1. k \in Nat \ {0} /\ script'[k] = script[k] BY ScriptFacts DEF Prolongs
<1>2. PICK l \in Nat : l = Len(Taken(k))
  BY <1>1, HaveTyped, TwoParties DEF Parties, Taken
<1>3. PICK t : t = Taken(k) OBVIOUS
<1>4. PICK h : h = Have("ALICE", k) /\ Len(h) \in Nat
  BY <1>1, HaveTyped, TwoParties DEF Parties
<1>5. PICK u : u = Taken(k)' OBVIOUS
<1>6. l <= Len(u) /\ \A i \in 1 .. l : u[i] = t[i]
  BY <1>2, <1>5, <1>3 DEF Prolongs
<1>7. Len(h) <= l /\ \A i \in 1 .. Len(h) : h[i] = Active(t[i], script[k].r[i], delta)
  BY <1>2, <1>4, <1>3 DEF Correlates
<1>8. Len(h) <= Len(u) BY <1>2, <1>4, <1>5, <1>6, <1>7
<1>9. \A i \in 1 .. Len(h) : h[i] = Active(u[i], script[k].r[i], delta)
  BY <1>2, <1>4, <1>6, <1>7
<1> QED BY <1>1, <1>4, <1>5, <1>8, <1>9

-----------------------------------------------------------------------------
(* Steps that are not of an extension *)

(* They change nothing of where a party is in its extension. *)
LEMMA StillThere == ASSUME TypeOK, NEW p \in Party, Still(p), cot' = cot
  PROVE  /\ Phase(p)' = Phase(p) /\ OTs(p)' = OTs(p)
         /\ pc'[p] = "check" <=> pc[p] = "check"
         /\ \A k \in Nat \ {0} : Have(p, k)' = Have(p, k)
<1>1. CASE pc'[p] = pc[p] /\ at'[p] = at[p] /\ data'[p] = data[p]
  BY <1>1 DEF Phase, OTs, Have, Extending
<1>2. CASE ~Extending(p) /\ ~(Extending(p))'
  BY <1>2 DEF Phase, OTs, Have, Extending
<1>3. CASE ~Extending(p) /\ pc'[p] = "extend" /\ data'[p] = <<>>
  BY <1>3 DEF Phase, OTs, Have, Extending
<1> QED BY <1>1, <1>2, <1>3 DEF Still

(* Where there is one place, no party is at the check. *)
LEMMA FirstOnly == ASSUME TypeOK, Places, Len(place) = 1
  PROVE  pc["BOB"] # "check" /\ pc["ALICE"] # "check"
<1>1. Last = First /\ place[step] = First BY DEF Places, Last
<1>2. Phase("BOB") = "extend" /\ Phase("ALICE") = "extend"
  BY <1>1 DEF Places, IsAt, First
<1> QED BY <1>2 DEF Phase

(* The places are the same, *)
LEMMA QuietPlaces == ASSUME TypeOK, Places, Quiet
  PROVE  Places'
<1>1. /\ Phase("BOB")' = Phase("BOB") /\ OTs("BOB")' = OTs("BOB")
      /\ Phase("ALICE")' = Phase("ALICE") /\ OTs("ALICE")' = OTs("ALICE")
      /\ pc'["BOB"] = "check" <=> pc["BOB"] = "check"
  BY StillThere, TwoParties DEF Quiet, Parties
<1>2. Last' = Last /\ place' = place /\ step' = step /\ used' = used /\ local' = local /\ cot' = cot
  BY DEF Quiet, Last
<1>3. IsAt("BOB", Last)' BY <1>1, <1>2 DEF Places, IsAt
<1>4. IsAt("ALICE", place[step])' BY <1>1, <1>2 DEF Places, IsAt
<1>5. ASSUME NEW n \in 1 .. Len(place) - 1
      PROVE  Follows(place[n], place[n + 1])'
  <2>1. PICK m, e : m = place[n] /\ e = place[n + 1] OBVIOUS
  <2>2. Follows(m, e) BY <2>1 DEF Places
  <2>3. Len(script') \in Nat BY LenProperties DEF Quiet
  <2>4. Follows(m, e)' BY <2>2, <2>3, FollowsStays DEF Quiet
  <2> QED BY <1>2, <2>1, <2>4
<1>6. \A m, n \in 1 .. Len(place) : m < n => Earlier(place[m], place[n])'
  BY <1>2 DEF Places, Earlier, Rank
<1> QED BY <1>1, <1>2, <1>3, <1>4, <1>5, <1>6 DEF Places

(* the stream has what they sent, *)
LEMMA QuietToAlice == ASSUME TypeOK, Places, ToAlice, Quiet
  PROVE  ToAlice'
<1>1. /\ place' = place /\ step' = step /\ Last' = Last
      /\ Len(net'["ALICE"]) = Before' + (Len(net["ALICE"]) - Before) /\ Before' \in Nat
  BY DEF Quiet, Last
<1>2. ASSUME NEW n \in step .. Len(place) - 1
      PROVE  Carried(n)'
  <2>1. n \in 1 .. Len(place) - 1 /\ Len(place) # 1 BY AtPlace
  <2>2. \A x \in 1 .. place[n + 1].pos - place[n].pos : Sent(n, x)' = Sent(n, x)
    BY DEF Quiet
  <2>3. Carried(n) BY DEF ToAlice
  <2>4. Prolongs(place, place') BY <1>1, ProlongsSelf DEF TypeOK
  <2>5. Prolongs(cot["BOB"], cot'["BOB"]) /\ Len(cot'["BOB"]) \in Nat
    BY ProlongsSelf, PartyFacts, TwoParties DEF Quiet, Parties
  <2>6. keys'.k0 = keys.k0 /\ keys'.k1 = keys.k1 /\ Prolongs(script, script')
    BY <2>1 DEF Quiet
  <2> QED BY <2>1, <2>2, <2>3, <2>4, <2>5, <2>6, CarriedStays
<1>3. Len(net'["ALICE"]) = Before' + (Last.pos - place[step].pos)
  <2>1. Len(net["ALICE"]) = Before + (Last.pos - place[step].pos) BY DEF ToAlice
  <2>2. Last.pos \in Nat /\ place[step].pos \in Nat BY AtPlace, PlaceFacts
  <2>3. Before \in Nat BY ConstantFacts DEF Before
  <2>4. PICK d \in Int : d = Last.pos - place[step].pos BY <2>2
  <2>5. Len(net["ALICE"]) - Before = d BY <2>1, <2>3, <2>4
  <2> QED BY <1>1, <2>4, <2>5
<1> QED BY <1>1, <1>2, <1>3 DEF ToAlice

(* both have the blocks they had, *)
LEMMA QuietHave == ASSUME TypeOK, Quiet, NEW k \in Nat \ {0}
  PROVE  /\ Have("ALICE", k)' = Have("ALICE", k)
         /\ Taken(k)' = Taken(k) /\ Prolongs(Taken(k), Taken(k)') /\ Len(Taken(k)') \in Nat
<1>1. Have("ALICE", k)' = Have("ALICE", k) /\ Have("BOB", k)' = Have("BOB", k)
  BY StillThere, TwoParties DEF Quiet, Parties
<1>2. Have("BOB", k) \in Blocks /\ Len(Have("BOB", k)) \in Nat
  BY HaveTyped, TwoParties DEF Parties
<1>3. Prolongs(Have("BOB", k), Have("BOB", k)) BY <1>2, ProlongsSelf DEF Blocks
<1> QED BY <1>1, <1>2, <1>3 DEF Taken

(* BOB's are the columns of his rows, *)
LEMMA QuietColumned == ASSUME TypeOK, Places, Columned, Quiet
  PROVE  Columned'
<1>1. place' = place /\ Last' = Last BY DEF Quiet, Last
<1>2. ASSUME NEW n \in 1 .. Len(place) - 1, NEW m, m = place[n], m.phase = "extend"
      PROVE  /\ m.done + New(m)' <= Len(Taken(m.k)')
             /\ \A c \in 1 .. New(m)' : Taken(m.k)'[m.done + c] = Col(m.from, c)'
  <2>1. m.k \in Nat \ {0} /\ Len(place) # 1
    BY <1>2, StepFacts, PlaceFacts, AtPlace
  <2> QED BY <1>2, <2>1, QuietHave, ColumnStays DEF Quiet
<1>3. pc'["BOB"] = "check" => local'.BOB = Columns2(Last.from - 2)'
  <2>1. pc'["BOB"] = "check" <=> pc["BOB"] = "check"
    BY StillThere, TwoParties DEF Quiet, Parties
  <2>2. local' = local /\ (Len(place) = 1 \/ keys'.k0 = keys.k0) BY DEF Quiet
  <2>3. CASE Len(place) = 1 BY <2>1, <2>3, FirstOnly
  <2>4. CASE keys'.k0 = keys.k0
    BY <1>1, <2>1, <2>2, <2>4 DEF Columned, Columns2, Col
  <2> QED BY <2>2, <2>3, <2>4
<1> QED BY <1>1, <1>2, <1>3 DEF Columned

(* and ALICE's those, flipped where he chose. *)
LEMMA QuietCorrelates == ASSUME TypeOK, Places, Positions, Correlates, Quiet
  PROVE  Correlates'
<1>1. /\ place' = place /\ step' = step /\ cot' = cot /\ local' = local /\ delta' = delta
      /\ Len(place) = 1 \/ keys'.k0 = keys.k0
  BY DEF Quiet
<1>2. ASSUME NEW k \in 1 .. Len(script')
      PROVE  /\ Len(Have("ALICE", k)') <= Len(Taken(k)')
             /\ \A i \in 1 .. Len(Have("ALICE", k)') :
                  Have("ALICE", k)'[i] = Active(Taken(k)'[i], script'[k].r[i], delta')
  <2>1. k \in Nat \ {0} OBVIOUS
  <2>2. CASE k \in 1 .. Len(script)
    BY <2>1, <2>2, QuietHave, CorrelationStays DEF Quiet
  <2>3. CASE k \notin 1 .. Len(script)
    <3>1. Len(script) \in Nat /\ k > Len(script)
      BY <2>1, <2>3, LenProperties DEF TypeOK
    <3>2. Len(cot["ALICE"]) <= Len(script) /\ (Extending("ALICE") => at["ALICE"] <= Len(script))
      <4>1. /\ Len(cot["ALICE"]) = IF Hashing("ALICE") THEN at["ALICE"] ELSE at["ALICE"] - 1
            /\ at["ALICE"] <= Len(script) + 1
            /\ Extending("ALICE") \/ Hashing("ALICE") => at["ALICE"] <= Len(script)
        BY TwoParties DEF Positions, Together, PositionOf, Parties
      <4>2. at["ALICE"] \in Nat BY PartyFacts, TwoParties DEF Parties
      <4> QED BY <3>1, <4>1, <4>2
    <3>3. Have("ALICE", k) = <<>>
      <4>1. ~(k <= Len(cot["ALICE"])) /\ ~(Extending("ALICE") /\ k = at["ALICE"])
        <5>1. at["ALICE"] \in Nat /\ Len(cot["ALICE"]) \in Nat
          BY PartyFacts, TwoParties DEF Parties
        <5> QED BY <3>1, <3>2, <5>1
      <4> QED BY <4>1 DEF Have
    <3>4. Have("ALICE", k)' = <<>> /\ Len(Taken(k)') \in Nat
      BY <2>1, <3>3, QuietHave
    <3>5. PICK h, u : h = Have("ALICE", k)' /\ u = Taken(k)' OBVIOUS
    <3>6. Len(h) = 0 BY <3>4, <3>5
    <3> QED BY <3>4, <3>5, <3>6
  <2> QED BY <2>2, <2>3
<1>3. pc'["ALICE"] = "check" <=> pc["ALICE"] = "check"
  BY StillThere, TwoParties DEF Quiet, Parties
<1>4. pc'["ALICE"] = "check" =>
         /\ Len(local'.ALICE) = 2 * Width
         /\ \A c \in 1 .. 2 * Width :
              local'.ALICE[c] = Active(Col(place[step].from - 2, c)', place'[step'].r[c], delta')
  <2>1. CASE Len(place) = 1 BY <1>3, <2>1, FirstOnly
  <2>2. CASE keys'.k0 = keys.k0 BY <1>1, <1>3, <2>2 DEF Correlates, Col
  <2> QED BY <1>1, <2>1, <2>2
<1> QED BY <1>1, <1>2, <1>4 DEF Correlates

(* So the four parts of the invariant that are about extensions hold. *)
LEMMA QuietExtensions == ASSUME IInv, Quiet
  PROVE  Places' /\ ToAlice' /\ Columned' /\ Correlates'
<1>1. TypeOK /\ Positions /\ Places /\ ToAlice /\ Columned /\ Correlates
  BY Parts
<1> QED BY <1>1, QuietPlaces, QuietToAlice, QuietColumned, QuietCorrelates

-----------------------------------------------------------------------------
(* A step of BOB's extension *)

(* The steps come one after the other. *)
LEMMA Later ==
  ASSUME TypeOK, NEW m \in Place, NEW n \in Place, Follows(m, n)
  PROVE  Earlier(m, n)
<1>1. m.k \in 1 .. Len(script) BY DEF Follows
<1>2. PICK L \in Nat \ {0} : L = Len(script[m.k].r) BY <1>1, ScriptFacts
<1>3. /\ m.k \in Nat /\ m.done \in Nat /\ m.pos \in Nat /\ m.phase \in {"extend", "extra", "check"}
      /\ n.k \in Nat /\ n.done \in Nat /\ n.pos \in Nat /\ n.phase \in {"extend", "extra", "check"}
  BY DEF Place
<1>4. PICK d \in Int : d = L - m.done BY <1>2, <1>3
<1>5. New(m) = AtMost(BlockSize, d) BY <1>2, <1>4 DEF New
<1>6. CASE m.phase = "extend"
  <2>1. /\ m.done < L
        /\ n.pos = m.pos + Width * Wide(New(m))
        /\ m.done + New(m) < L => n.k = m.k /\ n.phase = "extend" /\ n.done = m.done + New(m)
        /\ (m.done + New(m) = L /\ malicious) => n.k = m.k /\ n.phase = "extra" /\ n.done = L
        /\ (m.done + New(m) = L /\ ~malicious) => n.k = m.k + 1 /\ n.phase = "extend" /\ n.done = 0
    BY <1>2, <1>6 DEF Follows
  <2>2. PICK a \in Nat \ {0} : a = New(m) /\ a <= d
    <3>1. New(m) \in Nat \ {0} /\ New(m) <= d
      BY <1>3, <1>4, <1>5, <2>1, ConstantFacts DEF AtMost
    <3> QED BY <3>1
  <2>3. PICK x \in Nat \ {0} : x = Width * Wide(New(m))
    <3>1. Wide(a) \in Nat \ {0} BY WideFacts
    <3>2. Width * Wide(a) \in Nat \ {0} BY <3>1, ConstantFacts
    <3> QED BY <2>2, <3>2
  <2>4. m.pos < n.pos BY <1>3, <2>1, <2>3
  <2>5. CASE m.done + a < L BY <1>3, <2>1, <2>2, <2>4, <2>5 DEF Earlier
  <2>6. CASE m.done + a = L /\ malicious
    BY <1>3, <2>1, <2>2, <2>4, <2>6 DEF Earlier
  <2>7. CASE m.done + a = L /\ ~malicious
    BY <1>3, <2>1, <2>2, <2>4, <2>7 DEF Earlier
  <2> QED BY <1>3, <1>4, <2>2, <2>5, <2>6, <2>7
<1>7. CASE m.phase = "extra"
  <2>1. n.k = m.k /\ n.phase = "check" /\ n.done = L /\ m.done = L /\ n.pos = m.pos + 2 * Width
    BY <1>2, <1>7 DEF Follows
  <2> QED BY <1>3, <1>7, <2>1, ConstantFacts DEF Earlier, Rank
<1>8. CASE m.phase = "check"
  <2>1. n.k = m.k + 1 /\ n.pos = m.pos + 4 BY <1>8 DEF Follows
  <2> QED BY <1>3, <2>1 DEF Earlier
<1> QED BY <1>3, <1>6, <1>7, <1>8

(* A place after the last is after all the places. *)
LEMMA EarlierStill ==
  ASSUME NEW l \in Place, NEW m \in Place, NEW n \in Place, Earlier(l, m), Earlier(m, n)
  PROVE  Earlier(l, n)
<1>1. /\ l.k \in Nat /\ l.done \in Nat /\ l.pos \in Nat
      /\ m.k \in Nat /\ m.done \in Nat /\ m.pos \in Nat
      /\ n.k \in Nat /\ n.done \in Nat /\ n.pos \in Nat
  BY DEF Place
<1>2. Rank(l) \in Nat /\ Rank(m) \in Nat /\ Rank(n) \in Nat BY DEF Rank
<1> QED BY <1>1, <1>2 DEF Earlier

(* BOB is at the place he comes to, and ALICE where she was. *)
LEMMA BobPlaces == ASSUME TypeOK, Places, NEW m, NEW msgs, BobMoves(m, msgs)
  PROVE  /\ Places'
         /\ Prolongs(place, place') /\ Len(place') = Len(place) + 1 /\ place'[Len(place) + 1] = m
         /\ Last' = m /\ place'[step] = place[step]
<1>1. m \in Place /\ place' = Append(place, m) /\ step' = step /\ script' = script /\ malicious' = malicious
  BY DEF BobMoves
<1>2. /\ Len(place) \in Nat \ {0} /\ step \in 1 .. Len(place) /\ Len(place) \in 1 .. Len(place)
      /\ place[Len(place)] = Last /\ place \in Seq(Place)
  BY AtPlace DEF TypeOK
<1>3. PICK l \in Nat \ {0} : l = Len(place) BY <1>2
<1>4. /\ Len(place') = l + 1 /\ place'[l + 1] = m
      /\ \A i \in 1 .. l : place'[i] = place[i]
  BY <1>1, <1>2, <1>3, AppendFacts
<1>5. Last' = m BY <1>4 DEF Last
<1>6. Follows(Last, m) BY DEF BobMoves
<1>7. \A i \in 1 .. l : place[i] \in Place BY <1>2, <1>3, SeqAt
<1>8. Last \in Place /\ Earlier(Last, m) BY <1>1, <1>2, <1>3, <1>6, <1>7, Later
<1>9. ASSUME NEW n \in 1 .. l
      PROVE  Follows(place[n], place[n + 1])'
  <2>1. PICK a, b : a = place'[n] /\ b = place'[n + 1] OBVIOUS
  <2>2. Follows(a, b)
    <3>1. CASE n < l
      <4>1. Follows(place[n], place[n + 1]) /\ n + 1 \in 1 .. l
        BY <1>3, <3>1 DEF Places
      <4> QED BY <1>4, <2>1, <4>1
    <3>2. CASE n = l BY <1>2, <1>3, <1>4, <1>6, <2>1, <3>2
    <3> QED BY <3>1, <3>2
  <2>3. Follows(a, b)' BY <1>1, <2>2 DEF Follows, New
  <2> QED BY <2>1, <2>3
<1>10. ASSUME NEW i \in 1 .. l + 1, NEW j \in 1 .. l + 1, i < j
       PROVE  Earlier(place'[i], place'[j])
  <2>1. i \in 1 .. l BY <1>10
  <2>2. CASE j \in 1 .. l BY <1>3, <1>4, <1>10, <2>1, <2>2 DEF Places
  <2>3. CASE j = l + 1 /\ i = l BY <1>2, <1>3, <1>4, <1>8, <2>3
  <2>4. CASE j = l + 1 /\ i < l
    <3>1. Earlier(place[i], Last) /\ place[i] \in Place
      BY <1>2, <1>3, <1>7, <2>1, <2>4 DEF Places
    <3>2. Earlier(place[i], m) BY <1>1, <1>8, <3>1, EarlierStill
    <3> QED BY <1>4, <2>1, <2>4, <3>2
  <2> QED BY <2>1, <2>2, <2>3, <2>4
<1>11. ASSUME NEW i \in 1 .. l + 1, NEW j \in 1 .. l + 1, i < j
       PROVE  Earlier(place[i], place[j])'
  <2>1. PICK a, b : a = place'[i] /\ b = place'[j] OBVIOUS
  <2>2. Earlier(a, b) BY <1>10, <1>11, <2>1
  <2>3. Earlier(a, b)' BY <2>2 DEF Earlier, Rank
  <2> QED BY <2>1, <2>3
<1>12. place'[1] = First /\ step' \in 1 .. l + 1 /\ place'[step] = place[step]
  BY <1>1, <1>2, <1>3, <1>4 DEF Places
<1>13. (IsAt("BOB", m))' BY DEF BobMoves
<1>14. (IsAt("ALICE", place[step]))'
  <2>1. IsAt("ALICE", place[step]) BY DEF Places
  <2>2. PICK e : e = place[step] /\ e = place'[step'] BY <1>1, <1>12
  <2>3. IsAt("ALICE", e) BY <2>1, <2>2
  <2>4. /\ cot'["ALICE"] = cot["ALICE"] /\ pc'["ALICE"] = pc["ALICE"] /\ data'["ALICE"] = data["ALICE"]
    BY DEF BobMoves
  <2>5. IsAt("ALICE", e)' BY <2>3, <2>4 DEF IsAt, Phase, OTs, Extending
  <2> QED BY <2>2, <2>5
<1>15. /\ used'.g0 = m.from /\ used'.g1 = m.from /\ used'.a = place'[step'].from
       /\ pc'["BOB"] = "check" => local'.r = m.r /\ m.r \in Chosen
       /\ pc'["BOB"] # "check" => local'.r = <<>>
  BY <1>1, <1>12 DEF BobMoves, Places
<1>16. Places'
  <2>1. Len(place') > 0 /\ step' \in 1 .. Len(place') BY <1>4, <1>12
  <2>2. \A n \in 1 .. Len(place') - 1 : Follows(place[n], place[n + 1])'
    BY <1>4, <1>9
  <2>3. \A i, j \in 1 .. Len(place') : i < j => Earlier(place[i], place[j])'
    BY <1>4, <1>11
  <2>4. IsAt("BOB", Last)' BY <1>5, <1>13
  <2> QED BY <1>5, <1>12, <1>14, <1>15, <2>1, <2>2, <2>3, <2>4 DEF Places
<1> QED BY <1>2, <1>3, <1>4, <1>5, <1>12, <1>16 DEF Prolongs

(* Where a step's message is in the stream to ALICE *)
LEMMA InStream ==
  ASSUME TypeOK, Places, ToAlice, NEW n \in step .. Len(place) - 1, NEW x \in 1 .. place[n + 1].pos - place[n].pos
  PROVE  /\ Before + (place[n].pos - place[step].pos) + x \in 1 .. Len(net["ALICE"])
         /\ place[n].pos \in Nat /\ place[step].pos \in Nat /\ place[step].pos <= place[n].pos
         /\ Before \in Nat
<1>1. /\ Len(place) \in Nat \ {0} /\ step \in 1 .. Len(place) /\ place[Len(place)] = Last
      /\ n \in 1 .. Len(place) /\ n + 1 \in 1 .. Len(place) /\ Len(place) \in 1 .. Len(place)
  BY AtPlace
<1>2. /\ place[n].pos \in Nat /\ place[n + 1].pos \in Nat /\ place[step].pos \in Nat /\ Last.pos \in Nat
  BY <1>1, PlaceFacts
<1>3. Before \in Nat BY ConstantFacts DEF Before
<1>4. place[step].pos <= place[n].pos
  <2>1. CASE step = n BY <1>2, <2>1
  <2>2. CASE step < n BY <1>1, <1>2, <2>2 DEF Places, Earlier
  <2> QED BY <1>1, <2>1, <2>2
<1>5. place[n + 1].pos <= Last.pos
  <2>1. CASE n + 1 = Len(place) BY <1>1, <1>2, <2>1
  <2>2. CASE n + 1 < Len(place)
    <3>1. Earlier(place[n + 1], place[Len(place)]) BY <1>1, <2>2 DEF Places
    <3> QED BY <1>1, <1>2, <3>1 DEF Earlier
  <2> QED BY <1>1, <2>1, <2>2
<1>6. Len(net["ALICE"]) = Before + (Last.pos - place[step].pos) BY DEF ToAlice
<1>7. PICK a \in Nat, b \in Nat, c \in Nat, d \in Nat, e \in Nat :
        a = Before /\ b = place[n].pos /\ c = place[step].pos /\ d = place[n + 1].pos /\ e = Last.pos
  BY <1>2, <1>3
<1>8. x \in 1 .. d - b /\ c <= b /\ d <= e BY <1>4, <1>5, <1>7
<1>9. a + (b - c) + x \in 1 .. a + (e - c) BY <1>8
<1> QED BY <1>4, <1>6, <1>7, <1>9

(* What BOB sends is the message of the step he was at. *)
LEMMA BobSent ==
  ASSUME TypeOK, Places, ToAlice, NEW m, NEW msgs, BobMoves(m, msgs), NEW l, l = Len(place)
  PROVE  /\ Before' = Before
         /\ Len(net'["ALICE"]) = Before + (m.pos - place[step].pos)
         /\ \A i \in 1 .. Len(net["ALICE"]) : net'["ALICE"][i] = net["ALICE"][i]
         /\ \A x \in 1 .. Len(msgs) : Sent(l, x)' = msgs[x]
<1>1. /\ net["ALICE"] \in Seq(Stuff) /\ net \in [Party -> Seq(Stuff)] /\ "ALICE" \in Party
  BY PartyFacts, TwoParties DEF Parties
<1>2. /\ msgs \in Seq(Stuff) /\ net' = [net EXCEPT !["ALICE"] = @ \o msgs] /\ Len(msgs) = m.pos - Last.pos
      /\ pc'["ALICE"] = pc["ALICE"] /\ Extending("BOB") /\ pc'["BOB"] \notin {"setup", "points"}
      /\ m \in Place /\ step' = step
  BY DEF BobMoves
<1>3. Before' = Before BY <1>2 DEF Before, Extending
<1>4. net'["ALICE"] = net["ALICE"] \o msgs BY <1>1, <1>2
<1>5. PICK a \in Nat : a = Len(net["ALICE"]) BY <1>1, LenProperties
<1>6. PICK u : u = net'["ALICE"] OBVIOUS
<1>7. /\ Len(u) = a + Len(msgs)
      /\ \A i \in 1 .. a : u[i] = net["ALICE"][i]
      /\ \A x \in 1 .. Len(msgs) : u[a + x] = msgs[x]
  BY <1>1, <1>2, <1>4, <1>5, <1>6, ConcatFacts
<1>8. /\ place[step].pos \in Nat /\ Last.pos \in Nat /\ m.pos \in Nat /\ Before \in Nat
      /\ l \in Nat \ {0} /\ l \in 1 .. l /\ place[l] = Last
  <2>1. step \in 1 .. Len(place) /\ Len(place) \in Nat \ {0} /\ Len(place) \in 1 .. Len(place) /\ place[Len(place)] = Last
    BY AtPlace
  <2>2. Before \in Nat BY ConstantFacts DEF Before
  <2> QED BY <1>2, <2>1, <2>2, PlaceFacts DEF Place
<1>9. a = Before + (Last.pos - place[step].pos) BY <1>5 DEF ToAlice
<1>10. Len(u) = Before + (m.pos - place[step].pos)
  <2>1. PICK b \in Nat, c \in Nat, d \in Nat, f \in Nat :
          b = Before /\ c = place[step].pos /\ d = Last.pos /\ f = m.pos
    BY <1>8
  <2>2. Len(u) = a + (f - d) BY <1>2, <1>7, <2>1, Zenon
  <2>3. a = b + (d - c) BY <1>9, <2>1, Zenon
  <2>4. a + (f - d) = b + (f - c) BY <2>3
  <2> QED BY <2>1, <2>2, <2>4, Zenon
<1>11. place'[l] = Last /\ place'[step] = place[step]
  <2>1. Prolongs(place, place') /\ place'[step] = place[step] BY BobPlaces
  <2> QED BY <1>8, <2>1 DEF Prolongs
<1>12. ASSUME NEW x \in 1 .. Len(msgs)
       PROVE  Sent(l, x)' = msgs[x]
  <2>1. Sent(l, x)' = u[Before' + (place'[l].pos - place'[step'].pos) + x]
    BY <1>6 DEF Sent
  <2>2. Before' + (place'[l].pos - place'[step'].pos) + x = a + x
    BY <1>2, <1>3, <1>8, <1>9, <1>11
  <2> QED BY <1>7, <2>1, <2>2
<1> QED BY <1>3, <1>5, <1>6, <1>7, <1>10, <1>12

(* The stream has what the step sent, after what it had. *)
LEMMA BobToAlice ==
  ASSUME TypeOK, Places, ToAlice, NEW m, NEW msgs, BobMoves(m, msgs), NEW l, l = Len(place), Carried(l)'
  PROVE  ToAlice'
<1>1. /\ Prolongs(place, place') /\ Len(place') = l + 1 /\ Last' = m /\ place'[step] = place[step]
  BY BobPlaces
<1>2. /\ Before' = Before
      /\ Len(net'["ALICE"]) = Before + (m.pos - place[step].pos)
      /\ \A i \in 1 .. Len(net["ALICE"]) : net'["ALICE"][i] = net["ALICE"][i]
  BY BobSent
<1>3. l \in Nat \ {0} /\ step \in 1 .. l /\ step' = step BY AtPlace DEF BobMoves
<1>4. ASSUME NEW n \in step .. l - 1
      PROVE  Carried(n)'
  <2>1. n \in 1 .. Len(place) - 1 /\ Carried(n) BY <1>3 DEF ToAlice
  <2>2. ASSUME NEW x \in 1 .. place[n + 1].pos - place[n].pos
        PROVE  Sent(n, x)' = Sent(n, x)
    <3>1. PICK i \in 1 .. Len(net["ALICE"]) : i = Before + (place[n].pos - place[step].pos) + x
      BY InStream
    <3>2. Sent(n, x) = net["ALICE"][i] BY <3>1 DEF Sent
    <3>3. place'[n] = place[n] BY <1>1, <2>1, <1>3 DEF Prolongs
    <3>4. Before' + (place'[n].pos - place'[step'].pos) + x = i
      BY <1>1, <1>2, <1>3, <3>1, <3>3
    <3>5. Sent(n, x)' = net'["ALICE"][i] BY <3>4, Zenon DEF Sent
    <3> QED BY <1>2, <3>2, <3>5
  <2>3. Prolongs(script, script') BY ProlongsSelf DEF BobMoves, TypeOK
  <2>4. cot'["BOB"] \in Seq(Blocks) /\ Prolongs(cot["BOB"], cot'["BOB"]) /\ keys' = keys
    BY TwoParties DEF BobMoves, Parties
  <2>5. Len(cot'["BOB"]) \in Nat BY <2>4, LenProperties
  <2> QED BY <1>1, <2>1, <2>2, <2>3, <2>4, <2>5, CarriedStays
<1>5. \A n \in step' .. Len(place') - 1 : Carried(n)'
  <2>1. \A n \in step .. l : n = l \/ n \in step .. l - 1 BY <1>3
  <2> QED BY <1>1, <1>3, <1>4, <2>1
<1> QED BY <1>1, <1>2, <1>3, <1>5 DEF ToAlice

(* What BOB took before it is as it was, and what the step gave are the   *)
(* columns of its rows.                                                   *)
LEMMA BobColumned ==
  ASSUME TypeOK, Places, Columned, NEW m, NEW msgs, BobMoves(m, msgs), NEW l, l = Len(place),
         NEW z, z = Last,
         z.phase = "extend" =>
           /\ z.done + New(z) <= Len(Taken(z.k)')
           /\ \A c \in 1 .. New(z) : Taken(z.k)'[z.done + c] = Col(z.from, c),
         pc'["BOB"] = "check" => local'.BOB = Columns2(m.from - 2)
  PROVE  Columned'
<1>1. /\ Prolongs(place, place') /\ Len(place') = l + 1 /\ Last' = m /\ l \in Nat \ {0} /\ place[l] = Last
      /\ l \in 1 .. l /\ Last.k \in Nat \ {0}
  BY BobPlaces, AtPlace, PlaceFacts
<1>2. /\ keys' = keys /\ script' = script /\ Prolongs(script, script') /\ Follows(Last, m)
      /\ \A k \in Nat \ {0} : Prolongs(Taken(k), Taken(k)') /\ Len(Taken(k)') \in Nat
  BY ProlongsSelf DEF BobMoves, TypeOK
<1>3. ASSUME NEW n \in 1 .. l, NEW e, e = place[n], e.phase = "extend"
      PROVE  /\ e.done + New(e)' <= Len(Taken(e.k)')
             /\ \A c \in 1 .. New(e)' : Taken(e.k)'[e.done + c] = Col(e.from, c)'
  <2>1. CASE n = l
    <3>1. New(e)' = New(e) /\ \A c : Col(e.from, c)' = Col(e.from, c)
      BY <1>2 DEF New, Col
    <3>2. e = z BY <1>1, <1>3, <2>1
    <3> QED BY <1>3, <3>1, <3>2
  <2>2. CASE n \in 1 .. Len(place) - 1
    <3>1. e.k \in Nat \ {0} BY <1>1, <1>3, PlaceFacts
    <3> QED BY <1>2, <1>3, <2>2, <3>1, ColumnStays
  <2> QED BY <1>1, <2>1, <2>2
<1>4. \A n \in 1 .. l : place'[n] = place[n] BY <1>1 DEF Prolongs
<1>5. \A c : Columns2(c)' = Columns2(c) BY <1>2 DEF Columns2, Col
<1> QED BY <1>1, <1>3, <1>4, <1>5 DEF Columned

(* ALICE's blocks are still those BOB has, flipped where he chose. *)
LEMMA BobCorrelates ==
  ASSUME TypeOK, Places, Correlates, NEW m, NEW msgs, BobMoves(m, msgs)
  PROVE  Correlates'
<1>1. /\ place'[step] = place[step] /\ step' = step BY BobPlaces DEF BobMoves
<1>2. /\ keys' = keys /\ script' = script /\ delta' = delta /\ Prolongs(script, script')
      /\ \A k \in Nat \ {0} : Prolongs(Taken(k), Taken(k)') /\ Len(Taken(k)') \in Nat
      /\ pc'["ALICE"] = pc["ALICE"] /\ at'["ALICE"] = at["ALICE"] /\ data'["ALICE"] = data["ALICE"]
      /\ cot'["ALICE"] = cot["ALICE"] /\ Prolongs(cot["BOB"], cot'["BOB"])
      /\ local'.ALICE = local.ALICE
      /\ cot' \in [Party -> Seq(Blocks)]
  BY ProlongsSelf DEF BobMoves, TypeOK
<1>3. ASSUME NEW k \in 1 .. Len(script)
      PROVE  /\ Len(Have("ALICE", k)') <= Len(Taken(k)')
             /\ \A i \in 1 .. Len(Have("ALICE", k)') :
                  Have("ALICE", k)'[i] = Active(Taken(k)'[i], script'[k].r[i], delta')
  <2>1. Have("ALICE", k)' = Have("ALICE", k) BY <1>2 DEF Have, Extending
  <2>2. k \in Nat \ {0} OBVIOUS
  <2> QED BY <1>2, <2>1, <2>2, CorrelationStays
<1>4. Len(cot'["ALICE"]) <= Len(cot'["BOB"])
  <2>1. cot'["BOB"] \in Seq(Blocks) BY <1>2, TwoParties DEF Parties
  <2>2. Len(cot'["BOB"]) \in Nat /\ Len(cot["BOB"]) \in Nat /\ Len(cot["ALICE"]) \in Nat
    BY <2>1, LenProperties, PartyFacts, TwoParties DEF Parties
  <2> QED BY <1>2, <2>2 DEF Correlates, Prolongs
<1>5. \A e, c : Col(e, c)' = Col(e, c) BY <1>2 DEF Col
<1>6. pc'["ALICE"] = "check" =>
         /\ Len(local'.ALICE) = 2 * Width
         /\ \A c \in 1 .. 2 * Width :
              local'.ALICE[c] = Active(Col(place[step].from - 2, c), place[step].r[c], delta)
  BY <1>2 DEF Correlates
<1>7. PICK e : e = place[step] OBVIOUS
<1>8. pc'["ALICE"] = "check" =>
         /\ Len(local'.ALICE) = 2 * Width
         /\ \A c \in 1 .. 2 * Width :
              local'.ALICE[c] = Active(Col(place[step].from - 2, c), place[step].r[c], delta)'
  BY <1>1, <1>2, <1>5, <1>6, <1>7
<1> QED BY <1>2, <1>3, <1>4, <1>8 DEF Correlates

-----------------------------------------------------------------------------
(* A step of ALICE's extension *)

(* ALICE is at the next place, and BOB where he was. *)
LEMMA AlicePlaces == ASSUME TypeOK, Places, NEW m, NEW e, AliceMoves(m, e)
  PROVE  Places'
<1>1. /\ Len(place) \in Nat \ {0} /\ step \in Nat /\ step' = step + 1 /\ step' \in 1 .. Len(place)
      /\ place' = place /\ Last' = Last
  BY AtPlace DEF AliceMoves, Last
<1>2. ASSUME NEW n \in 1 .. Len(place) - 1
      PROVE  Follows(place[n], place[n + 1])'
  <2>1. PICK a, b : a = place[n] /\ b = place[n + 1] /\ Follows(a, b)
    BY DEF Places
  <2>2. Follows(a, b)' BY <2>1 DEF Follows, New, AliceMoves
  <2> QED BY <1>1, <2>1, <2>2
<1>3. ASSUME NEW i \in 1 .. Len(place), NEW j \in 1 .. Len(place), i < j
      PROVE  Earlier(place[i], place[j])'
  <2>1. PICK a, b : a = place[i] /\ b = place[j] /\ Earlier(a, b)
    BY <1>3 DEF Places
  <2>2. Earlier(a, b)' BY <2>1 DEF Earlier, Rank
  <2> QED BY <1>1, <2>1, <2>2
<1>4. IsAt("BOB", Last)'
  <2>1. PICK l : l = Last /\ IsAt("BOB", l) BY DEF Places
  <2>2. IsAt("BOB", l)' BY <2>1 DEF IsAt, Phase, OTs, Extending, AliceMoves
  <2> QED BY <1>1, <2>1, <2>2
<1>5. IsAt("ALICE", place[step])'
  <2>1. (IsAt("ALICE", e))' /\ e = place'[step'] BY <1>1 DEF AliceMoves
  <2> QED BY <2>1
<1>6. /\ used'.g0 = Last.from /\ used'.g1 = Last.from /\ used'.a = place[step'].from
      /\ pc'["BOB"] = "check" => local'.r = Last.r /\ Last.r \in Chosen
      /\ pc'["BOB"] # "check" => local'.r = <<>>
  BY <1>1 DEF AliceMoves, Places
<1>7. Len(place) > 0 /\ place[1] = First BY DEF Places
<1> QED BY <1>1, <1>2, <1>3, <1>4, <1>5, <1>6, <1>7 DEF Places

(* The stream has the messages of the steps that are left. *)
LEMMA AliceToAlice == ASSUME TypeOK, Places, ToAlice, NEW m, NEW e, AliceMoves(m, e)
  PROVE  ToAlice'
<1>1. /\ Len(place) \in Nat \ {0} /\ step \in Nat /\ step' = step + 1 /\ step + 1 \in 1 .. Len(place)
      /\ step \in 1 .. Len(place) - 1 /\ step \in 1 .. Len(place)
      /\ place' = place /\ Last' = Last /\ m = place[step] /\ e = place[step + 1] /\ place[Len(place)] = Last
      /\ Len(place) \in 1 .. Len(place)
  BY AtPlace DEF AliceMoves, Last
<1>2. Before = 0 /\ Before' = 0 BY DEF Before, AliceMoves, Extending
<1>3. /\ m.pos \in Nat /\ e.pos \in Nat /\ Last.pos \in Nat BY <1>1, PlaceFacts
<1>4. m.pos < e.pos BY <1>1, StepFacts
<1>5. e.pos <= Last.pos
  <2>1. CASE step + 1 = Len(place) BY <1>1, <1>3, <2>1
  <2>2. CASE step + 1 < Len(place)
    <3>1. Earlier(place[step + 1], place[Len(place)]) BY <1>1, <2>2 DEF Places
    <3> QED BY <1>1, <1>3, <3>1 DEF Earlier
  <2> QED BY <1>1, <2>1, <2>2
<1>6. PICK d \in Nat \ {0} : d = e.pos - m.pos
  <2>1. e.pos - m.pos \in Nat \ {0} BY <1>3, <1>4
  <2> QED BY <2>1
<1>7. PICK s \in Seq(Stuff), f \in Nat : s = net["ALICE"] /\ f = Last.pos - e.pos /\ Len(s) = d + f
  <2>1. Len(net["ALICE"]) = 0 + (Last.pos - m.pos) BY <1>1, <1>2 DEF ToAlice
  <2>2. Last.pos - e.pos \in Nat /\ Len(net["ALICE"]) = d + (Last.pos - e.pos)
    BY <1>3, <1>5, <1>6, <2>1
  <2> QED BY <2>2, PartyFacts, TwoParties DEF Parties
<1>8. PICK u : u = net'["ALICE"] OBVIOUS
<1>9. u = SubSeq(s, d + 1, d + f)
  <2>1. net \in [Party -> Seq(Stuff)] /\ "ALICE" \in Party
    BY PartyFacts, TwoParties DEF Parties
  <2> QED BY <1>6, <1>7, <1>8, <2>1 DEF AliceMoves
<1>10. Len(u) = f /\ \A i \in 1 .. f : u[i] = s[d + i]
  <2>1. \A i \in d + 1 .. d + f : s[i] \in Stuff BY <1>7, SeqAt
  <2> QED BY <1>9, <2>1, SubSeqFacts
<1>11. ASSUME NEW n \in step + 1 .. Len(place) - 1
       PROVE  Carried(n)'
  <2>1. n \in 1 .. Len(place) - 1 /\ n \in step .. Len(place) - 1 /\ Carried(n)
    BY <1>1 DEF ToAlice
  <2>2. PICK h \in Nat : h = place[n].pos
    <3>1. n \in 1 .. Len(place) BY <1>1
    <3>2. place[n].pos \in Nat BY <3>1, PlaceFacts
    <3> QED BY <3>2
  <2>3. ASSUME NEW x \in 1 .. place[n + 1].pos - place[n].pos
        PROVE  Sent(n, x)' = Sent(n, x)
    <3>1. 0 + (h - m.pos) + x \in 1 .. Len(s)
      BY <1>1, <1>2, <1>7, <2>1, <2>2, InStream
    <3>2. Sent(n, x) = s[0 + (h - m.pos) + x] BY <1>1, <1>2, <1>7, <2>2 DEF Sent
    <3>3. Sent(n, x)' = u[0 + (h - e.pos) + x]
      BY <1>1, <1>2, <1>8, <2>2 DEF Sent
    <3>4. e.pos <= h
      <4>1. CASE n = step + 1 BY <1>1, <1>3, <2>2, <4>1
      <4>2. CASE step + 1 < n
        <5>1. n \in 1 .. Len(place) /\ step + 1 \in 1 .. Len(place) BY <1>1
        <5>2. Earlier(e, place[n]) BY <1>1, <4>2, <5>1 DEF Places
        <5>3. e.pos < h BY <2>2, <5>2 DEF Earlier
        <5> QED BY <1>3, <2>2, <5>3
      <4> QED BY <1>1, <4>1, <4>2
    <3>5. PICK y \in 1 .. f : y = 0 + (h - e.pos) + x
      <4>1. x \in Nat \ {0} BY <1>1, <2>1, PlaceFacts
      <4>2. 0 + (h - e.pos) + x >= 1 BY <1>3, <2>2, <3>4, <4>1
      <4>3. 0 + (h - e.pos) + x <= f
        <5>1. PICK a \in Nat, b \in Nat : a = m.pos /\ b = e.pos BY <1>3
        <5>2. 0 + (h - a) + x <= d + f /\ d = b - a BY <1>6, <1>7, <3>1, <5>1
        <5>3. 0 + (h - b) + x <= f BY <4>1, <5>2
        <5> QED BY <5>1, <5>3
      <4> QED BY <1>3, <2>2, <4>1, <4>2, <4>3
    <3>6. d + y = 0 + (h - m.pos) + x
      <4>1. x \in Nat BY <1>1, <2>1, PlaceFacts
      <4>2. PICK a \in Nat, b \in Nat : a = m.pos /\ b = e.pos BY <1>3
      <4>3. y = 0 + (h - b) + x /\ d = b - a BY <1>6, <3>5, <4>2
      <4>4. d + y = 0 + (h - a) + x BY <4>1, <4>3
      <4> QED BY <4>2, <4>4
    <3> QED BY <1>10, <3>2, <3>3, <3>5, <3>6
  <2>4. Prolongs(script, script') /\ Prolongs(place, place') /\ keys' = keys
    BY ProlongsSelf DEF AliceMoves, TypeOK
  <2>5. Prolongs(cot["BOB"], cot'["BOB"]) /\ Len(cot'["BOB"]) \in Nat
    BY ProlongsSelf, PartyFacts, TwoParties DEF AliceMoves, Parties
  <2> QED BY <2>1, <2>3, <2>4, <2>5, CarriedStays
<1>12. Len(net'["ALICE"]) = Before' + (Last.pos - place'[step'].pos)
  BY <1>1, <1>2, <1>3, <1>7, <1>8, <1>10
<1> QED BY <1>1, <1>11, <1>12 DEF ToAlice

(* What BOB has is as it was. *)
LEMMA AliceTaken ==
  ASSUME TypeOK, NEW m, NEW e, AliceMoves(m, e), NEW k \in Nat \ {0}
  PROVE  /\ Taken(k)' = Taken(k) /\ Prolongs(Taken(k), Taken(k)') /\ Len(Taken(k)') \in Nat
         /\ Prolongs(script, script')
<1>1. Taken(k)' = Taken(k) BY DEF Taken, Have, Extending, AliceMoves
<1>2. Have("BOB", k) \in Blocks /\ Len(Have("BOB", k)) \in Nat
  BY HaveTyped, TwoParties DEF Parties
<1>3. Prolongs(Taken(k), Taken(k)) BY <1>2, ProlongsSelf DEF Blocks, Taken
<1> QED BY <1>1, <1>2, <1>3, ProlongsSelf DEF Taken, AliceMoves, TypeOK

(* What BOB took is as it was. *)
LEMMA AliceColumned == ASSUME TypeOK, Places, Columned, NEW m, NEW e, AliceMoves(m, e)
  PROVE  Columned'
<1>1. place' = place /\ Last' = Last /\ keys' = keys BY DEF AliceMoves, Last
<1>2. ASSUME NEW n \in 1 .. Len(place) - 1, NEW z, z = place[n], z.phase = "extend"
      PROVE  /\ z.done + New(z)' <= Len(Taken(z.k)')
             /\ \A c \in 1 .. New(z)' : Taken(z.k)'[z.done + c] = Col(z.from, c)'
  <2>1. z.k \in Nat \ {0} BY <1>2, StepFacts, PlaceFacts
  <2> QED BY <1>1, <1>2, <2>1, AliceTaken, ColumnStays
<1>3. pc'["BOB"] = "check" => local'.BOB = Columns2(Last.from - 2)'
  BY <1>1 DEF Columned, Columns2, Col, AliceMoves
<1> QED BY <1>1, <1>2, <1>3 DEF Columned

(* If what ALICE now has of the call she is at is right, all she has is. *)
LEMMA AliceCorrelates ==
  ASSUME TypeOK, Places, Correlates, NEW m, NEW e, AliceMoves(m, e), NEW c, c = at["ALICE"],
         \A k \in Nat \ {0} : k # c => Have("ALICE", k)' = Have("ALICE", k),
         c \in 1 .. Len(script) =>
            /\ Len(Have("ALICE", c)') <= Len(Taken(c))
            /\ \A i \in 1 .. Len(Have("ALICE", c)') :
                 Have("ALICE", c)'[i] = Active(Taken(c)[i], script[c].r[i], delta),
         pc'["ALICE"] = "check" =>
            /\ Len(local'.ALICE) = 2 * Width
            /\ \A i \in 1 .. 2 * Width : local'.ALICE[i] = Active(Col(e.from - 2, i), e.r[i], delta)
  PROVE  Correlates'
<1>1. /\ place' = place /\ script' = script /\ delta' = delta /\ keys' = keys /\ e = place'[step']
      /\ cot' \in [Party -> Seq(Blocks)] /\ cot'["BOB"] = cot["BOB"]
      /\ step < Len(place) /\ e = place[step + 1]
  BY DEF AliceMoves
<1>2. ASSUME NEW k \in 1 .. Len(script)
      PROVE  /\ Len(Have("ALICE", k)') <= Len(Taken(k)')
             /\ \A i \in 1 .. Len(Have("ALICE", k)') :
                  Have("ALICE", k)'[i] = Active(Taken(k)'[i], script'[k].r[i], delta')
  <2>1. k \in Nat \ {0} OBVIOUS
  <2>2. Taken(k)' = Taken(k) /\ Prolongs(Taken(k), Taken(k)') /\ Len(Taken(k)') \in Nat /\ Prolongs(script, script')
    BY <2>1, AliceTaken
  <2>3. CASE k = c
    <3>1. PICK t, h : t = Taken(k) /\ t = Taken(k)' /\ h = Have("ALICE", k)'
      BY <2>2
    <3> QED BY <1>1, <2>3, <3>1
  <2>4. CASE k # c
    <3>1. Have("ALICE", k)' = Have("ALICE", k) BY <2>1, <2>4
    <3> QED BY <1>1, <2>2, <3>1, CorrelationStays
  <2> QED BY <2>3, <2>4
<1>3. Len(cot'["ALICE"]) <= Len(cot'["BOB"])
  <2>1. PICK a \in Nat, b \in Nat : a = Len(cot'["ALICE"]) /\ b = Len(cot["BOB"]) /\ b = Len(cot'["BOB"])
    <3>1. cot'["ALICE"] \in Seq(Blocks) BY <1>1, TwoParties DEF Parties
    <3> QED BY <1>1, <3>1, LenProperties, PartyFacts, TwoParties DEF Parties
  <2>2. e.k = a + 1 BY <2>1 DEF AliceMoves, IsAt
  <2>3. Last.k = b + 1 BY <2>1 DEF Places, IsAt
  <2>4. e.k <= Last.k
    <3>1. Len(place) \in Nat /\ step \in Nat /\ place[Len(place)] = Last /\ step + 1 \in 1 .. Len(place)
          /\ Len(place) \in 1 .. Len(place)
      BY <1>1, AtPlace
    <3>2. CASE step + 1 = Len(place) BY <1>1, <2>2, <2>3, <3>1, <3>2
    <3>3. CASE step + 1 < Len(place)
      <4>1. Earlier(place[step + 1], place[Len(place)])
        BY <1>1, <3>1, <3>3 DEF Places
      <4>2. e.k < Last.k \/ e.k = Last.k BY <1>1, <3>1, <4>1 DEF Earlier
      <4> QED BY <2>1, <2>2, <2>3, <4>2
    <3> QED BY <1>1, <3>1, <3>2, <3>3
  <2> QED BY <2>1, <2>2, <2>3, <2>4
<1>4. \A a, b : Col(a, b)' = Col(a, b) BY <1>1 DEF Col
<1>5. pc'["ALICE"] = "check" =>
         /\ Len(local'.ALICE) = 2 * Width
         /\ \A i \in 1 .. 2 * Width :
              local'.ALICE[i] = Active(Col(place[step].from - 2, i), place[step].r[i], delta)'
  BY <1>1, <1>4
<1> QED BY <1>1, <1>2, <1>3, <1>5 DEF Correlates

-----------------------------------------------------------------------------
(* Sums modulo two *)

(* The parity of a symmetric difference is the sum of the parities. *)
LEMMA OddXor ==
  ASSUME NEW A, NEW B, IsFiniteSet(A), IsFiniteSet(B)
  PROVE  Odd(XOR(A, B)) <=> ~(Odd(A) <=> Odd(B))
<1> DEFINE C == A \cap B
           D == A \ B
           E == B \ A
<1>1. IsFiniteSet(C) /\ IsFiniteSet(D) /\ IsFiniteSet(E) BY FS_Subset
<1>2. Cardinality(D) = Cardinality(A) - Cardinality(C) BY FS_Difference
<1>3. Cardinality(E) = Cardinality(B) - Cardinality(C)
  <2>1. B \cap A = C OBVIOUS
  <2>2. Cardinality(E) = Cardinality(B) - Cardinality(B \cap A) BY FS_Difference
  <2> QED BY <2>1, <2>2, Zenon
<1>4. Cardinality(D \cup E) = Cardinality(D) + Cardinality(E)
  <2>1. D \cap E = {} OBVIOUS
  <2>2. Cardinality(D \cup E) = Cardinality(D) + Cardinality(E) - Cardinality(D \cap E)
    BY <1>1, FS_Union
  <2> QED
    <3>1. Cardinality(D \cap E) = 0 BY <2>1, FS_EmptySet
    <3>2. Cardinality(D) \in Nat /\ Cardinality(E) \in Nat
      BY <1>1, FS_CardinalityType
    <3> HIDE DEF D, E
    <3> QED BY <2>2, <3>1, <3>2
<1>5. /\ Cardinality(A) \in Nat /\ Cardinality(B) \in Nat /\ Cardinality(C) \in Nat
      /\ Cardinality(D) \in Nat /\ Cardinality(E) \in Nat
  BY <1>1, FS_CardinalityType
<1>6. XOR(A, B) = D \cup E BY DEF XOR
<1> HIDE DEF C, D, E
<1>7. PICK a \in Nat, b \in Nat, c \in Nat, d \in Nat, e \in Nat :
        /\ a = Cardinality(A) /\ b = Cardinality(B) /\ c = Cardinality(C)
        /\ d = Cardinality(D) /\ e = Cardinality(E)
  BY <1>5
<1>8. Cardinality(XOR(A, B)) = d + e /\ d = a - c /\ e = b - c
  BY <1>2, <1>3, <1>4, <1>6, <1>7
<1>9. ((d + e) % 2 = 1) <=> ~((a % 2 = 1) <=> (b % 2 = 1))
  BY ONLY <1>8, a \in Nat, b \in Nat, c \in Nat, d \in Nat, e \in Nat
<1> QED BY <1>7, <1>8, <1>9 DEF Odd

(* The empty set is even, *)
LEMMA OddNone == ~Odd({})
<1>1. Cardinality({}) = 0 BY FS_EmptySet
<1> QED BY <1>1 DEF Odd

(* and a set of one odd. *)
LEMMA OddOne == ASSUME NEW x PROVE Odd({x})
<1>1. Cardinality({x}) = 1 BY FS_Singleton
<1> QED BY <1>1 DEF Odd

(* A slice is odd when its pairs are. *)
LEMMA SliceOdd ==
  ASSUME NEW I, IsFiniteSet(I), NEW D, NEW b
  PROVE  /\ IsFiniteSet({<<i, b>> : i \in Slice(D, I, b)})
         /\ Odd({<<i, b>> : i \in Slice(D, I, b)}) <=> Odd(Slice(D, I, b))
<1> DEFINE S == Slice(D, I, b)
           T == {<<i, b>> : i \in S}
           f == [i \in S |-> <<i, b>>]
<1>1. IsFiniteSet(S) BY FS_Subset DEF Slice
<1> HIDE DEF S
<1>2. f \in Bijection(S, T)
  <2>1. f \in [S -> T] OBVIOUS
  <2>2. \A x, y \in S : f[x] = f[y] => x = y OBVIOUS
  <2>3. \A y \in T : \E x \in S : f[x] = y OBVIOUS
  <2> QED BY <2>1, <2>2, <2>3, Fun_IsBij
<1>3. ExistsBijection(S, T) BY <1>2 DEF ExistsBijection
<1>4. IsFiniteSet(T) /\ Cardinality(T) = Cardinality(S)
  BY <1>1, <1>3, FS_Bijection
<1> QED BY <1>4 DEF Odd, S

(* A matrix has an odd number of ones if and only if an odd number of its  *)
(* columns have.                                                           *)
LEMMA ColumnStep ==
  ASSUME NEW I, IsFiniteSet(I), NEW D \in SUBSET (I \X Nat), NEW m \in Nat,
         IsFiniteSet(Below(D, m)), Odd(Below(D, m)) <=> Odd(OddColumns(D, I, m))
  PROVE  /\ IsFiniteSet(Below(D, m + 1))
         /\ Odd(Below(D, m + 1)) <=> Odd(OddColumns(D, I, m + 1))
<1> DEFINE T == {<<i, m>> : i \in Slice(D, I, m)}
           c == IF Odd(Slice(D, I, m)) THEN {m} ELSE {}
<1>1. Below(D, m + 1) = XOR(Below(D, m), T)
  <2>1. ASSUME NEW d \in Below(D, m + 1) PROVE d \in XOR(Below(D, m), T)
    <3>1. PICK i \in I, b \in Nat : d = <<i, b>> BY DEF Below
    <3>2. b < m + 1 /\ <<i, b>> \in D BY <3>1 DEF Below
    <3>3. CASE b < m
      <4>1. d \in Below(D, m) BY <3>1, <3>2, <3>3 DEF Below
      <4>2. d \notin T BY <3>1, <3>3
      <4> QED BY <4>1, <4>2 DEF XOR
    <3>4. CASE b = m
      <4>1. d \notin Below(D, m) BY <3>1, <3>4 DEF Below
      <4>2. d \in T BY <3>1, <3>2, <3>4 DEF Slice
      <4> QED BY <4>1, <4>2 DEF XOR
    <3> QED BY <3>2, <3>3, <3>4
  <2>2. ASSUME NEW d \in Below(D, m) PROVE d \in Below(D, m + 1)
    <3>1. d \in D /\ d[2] \in Nat /\ d[2] < m BY DEF Below
    <3>2. d[2] < m + 1 BY <3>1
    <3> QED BY <3>1, <3>2 DEF Below
  <2>3. ASSUME NEW d \in T PROVE d \in Below(D, m + 1)
    <3>1. PICK i \in I : d = <<i, m>> /\ <<i, m>> \in D BY DEF Slice
    <3>2. d \in D /\ d[2] = m /\ m < m + 1 BY <3>1
    <3> QED BY <3>2 DEF Below
  <2> QED BY <2>1, <2>2, <2>3 DEF XOR
<1>2. /\ IsFiniteSet(T)
      /\ Odd(T) <=> Odd(Slice(D, I, m))
  BY SliceOdd
<1> HIDE DEF T
<1>3. Odd(Below(D, m + 1)) <=> ~(Odd(Below(D, m)) <=> Odd(Slice(D, I, m)))
  <2>1. Odd(XOR(Below(D, m), T)) <=> ~(Odd(Below(D, m)) <=> Odd(T))
    BY <1>2, OddXor
  <2> QED BY <1>1, <1>2, <2>1, Zenon
<1>4. OddColumns(D, I, m + 1) = XOR(OddColumns(D, I, m), c)
  BY DEF OddColumns, XOR
<1>5. IsFiniteSet(OddColumns(D, I, m))
  <2>1. IsFiniteSet(0 .. m - 1) BY FS_Interval
  <2>2. OddColumns(D, I, m) \subseteq 0 .. m - 1 BY DEF OddColumns
  <2> QED BY <2>1, <2>2, FS_Subset
<1>6. IsFiniteSet(c) /\ (Odd(c) <=> Odd(Slice(D, I, m)))
  BY OddNone, OddOne, FS_EmptySet, FS_Singleton
<1> HIDE DEF c
<1>7. Odd(OddColumns(D, I, m + 1)) <=> ~(Odd(OddColumns(D, I, m)) <=> Odd(Slice(D, I, m)))
  <2>1. Odd(XOR(OddColumns(D, I, m), c)) <=> ~(Odd(OddColumns(D, I, m)) <=> Odd(c))
    BY <1>5, <1>6, OddXor
  <2> QED BY <1>4, <1>6, <2>1, Zenon
<1>8. IsFiniteSet(Below(D, m + 1))
  <2>1. IsFiniteSet(Below(D, m) \cup T) BY <1>2, FS_Union
  <2>2. Below(D, m + 1) \subseteq Below(D, m) \cup T BY <1>1 DEF XOR
  <2> QED BY <2>1, <2>2, FS_Subset
<1> QED BY <1>3, <1>7, <1>8, Zenon

(* A property of natural numbers that fails has a least failure. *)
LEMMA ColumnsBelow ==
  ASSUME NEW I, IsFiniteSet(I), NEW D \in SUBSET (I \X Nat), NEW n \in Nat
  PROVE  /\ IsFiniteSet(Below(D, n))
         /\ Odd(Below(D, n)) <=> Odd(OddColumns(D, I, n))
<1> DEFINE Good(m) == IsFiniteSet(Below(D, m)) /\ (Odd(Below(D, m)) <=> Odd(OddColumns(D, I, m)))
           Bad == {m \in Nat : ~Good(m)}
<1>1. Good(0)
  <2>1. Below(D, 0) = {} BY DEF Below
  <2>2. OddColumns(D, I, 0) = {} BY DEF OddColumns
  <2> QED BY <2>1, <2>2, FS_EmptySet
<1>2. ASSUME NEW m \in Nat, Good(m)
      PROVE  Good(m + 1)
  BY <1>2, ColumnStep
<1> HIDE DEF Good
<1>3. SUFFICES ASSUME Bad # {} PROVE FALSE BY DEF Good
<1>4. PICK m \in Bad : \A y \in Bad : ~ (<<y, m>> \in OpToRel(<, Nat))
  <2>1. Bad \subseteq Nat OBVIOUS
  <2> QED BY <1>3, <2>1, WFMin, NatLessThanWellFounded, Zenon
<1>5. \A y \in Bad : ~ (y < m) BY <1>4, Zenon DEF OpToRel
<1>6. m \in Nat /\ ~Good(m) OBVIOUS
<1>7. m # 0 BY <1>1, <1>6
<1>8. m - 1 \in Nat /\ m - 1 < m /\ (m - 1) + 1 = m BY <1>6, <1>7
<1>9. Good(m - 1) BY <1>5, <1>8
<1> QED BY <1>2, <1>6, <1>8, <1>9

(* The rows are finite, *)
LEMMA RowsFinite == /\ IsFiniteSet(Rows)
                    /\ Rows \subseteq Nat
                    /\ Width \in Nat
                    /\ \A b \in Rows : b < Width
<1>1. Width \in Nat BY BlocksAssumption
<1>2. IsFiniteSet(0 .. Width - 1) BY <1>1, FS_Interval
<1> QED BY <1>1, <1>2 DEF Rows

(* A set of pairs is finite, and odd when an odd number of its columns    *)
(* are.                                                                   *)
LEMMA PairsFinite ==
  ASSUME NEW n \in Nat, NEW D \in SUBSET ((1 .. n) \X Rows)
  PROVE  /\ IsFiniteSet(D)
         /\ Odd(D) <=> Odd(OddColumns(D, 1 .. n, Width))
<1>1. IsFiniteSet(1 .. n) BY FS_Interval
<1>2. IsFiniteSet((1 .. n) \X Rows) BY <1>1, RowsFinite, FS_Product
<1>3. IsFiniteSet(D) BY <1>2, FS_Subset
<1>4. Below(D, Width) = D BY RowsFinite DEF Below
<1>5. D \in SUBSET ((1 .. n) \X Nat) BY RowsFinite
<1>6. Odd(Below(D, Width)) <=> Odd(OddColumns(D, 1 .. n, Width))
  BY <1>1, <1>5, RowsFinite, ColumnsBelow
<1> QED BY <1>3, <1>4, <1>6

(* The k-th coefficient: that of delta times the combination of choice bits*)
(* is the parity of what the flipped blocks add.                           *)
LEMMA FlippedColumn ==
  ASSUME NEW n \in Nat, NEW c \in [1 .. n -> Block], NEW r \in [1 .. n -> BOOLEAN], NEW d \in Block,
         NEW k \in Int, NEW x, x = Summed(n, c, r), NEW b \in Rows
  PROVE  Odd(Slice(Flipped(n, c, r, d, k), 1 .. n, b)) <=> Odd(Slice(Terms(<<x>>, <<d>>, k), 1 .. 1, b))
<1> DEFINE S == Slice(Flipped(n, c, r, d, k), 1 .. n, b)
           T == Slice(Terms(<<x>>, <<d>>, k), 1 .. 1, b)
           O == {i \in 1 .. n : r[i] /\ (k - b) \in c[i]}
<1>0. b \in Int /\ k - b \in Int BY RowsFinite
<1>1. b \notin d => S = {} BY DEF Slice, Flipped
<1>2. b \in d => S = O BY DEF Slice, Flipped
<1>3. T = IF b \in d /\ k - b \in x THEN {1} ELSE {}
  <2>1. \A i \in 1 .. 1 : <<i, b>> \in Terms(<<x>>, <<d>>, k) <=> b \in d /\ k - b \in x
    BY DEF Terms
  <2> HIDE DEF Terms
  <2> QED BY <2>1 DEF Slice
<1>4. k - b \in x <=> (k - b \in Rows /\ Odd(O)) BY DEF Summed
<1>5. k - b \notin Rows => O = {} BY DEF Block, Rows
<1> HIDE DEF S, T, O
<1>6. CASE b \notin d BY <1>1, <1>3, <1>6 DEF S, T
<1>7. CASE b \in d /\ k - b \in x
  <2>1. Odd(T) BY <1>3, <1>7, OddOne
  <2>2. Odd(S) BY <1>2, <1>4, <1>7
  <2> QED BY <2>1, <2>2 DEF S, T
<1>8. CASE b \in d /\ k - b \notin x
  <2>1. ~Odd(T) BY <1>3, <1>8, OddNone
  <2>2. ~Odd(S) BY <1>2, <1>4, <1>5, <1>8, OddNone
  <2> QED BY <2>1, <2>2 DEF S, T
<1> QED BY <1>6, <1>7, <1>8

(* What delta adds to a coefficient, over all the blocks, is odd when the *)
(* coefficient of delta times the combined choices is.                    *)
LEMMA FlippedOdd ==
  ASSUME NEW n \in Nat, NEW c \in [1 .. n -> Block], NEW r \in [1 .. n -> BOOLEAN], NEW d \in Block,
         NEW k \in Int, NEW x, x = Summed(n, c, r)
  PROVE  Odd(Flipped(n, c, r, d, k)) <=> Odd(Terms(<<x>>, <<d>>, k))
<1> DEFINE S == Flipped(n, c, r, d, k)
           T == Terms(<<x>>, <<d>>, k)
<1>1. S \in SUBSET ((1 .. n) \X Rows) BY DEF Flipped
<1>2. T \in SUBSET ((1 .. 1) \X Rows) BY DEF Terms
<1>3. \A b \in 0 .. Width - 1 : Odd(Slice(S, 1 .. n, b)) <=> Odd(Slice(T, 1 .. 1, b))
  BY FlippedColumn DEF Rows
<1> HIDE DEF S, T
<1>4. OddColumns(S, 1 .. n, Width) = OddColumns(T, 1 .. 1, Width)
  BY <1>3 DEF OddColumns
<1>5. Odd(S) <=> Odd(OddColumns(S, 1 .. n, Width)) BY <1>1, PairsFinite
<1>6. Odd(T) <=> Odd(OddColumns(T, 1 .. 1, Width)) BY <1>2, PairsFinite
<1> QED BY <1>4, <1>5, <1>6 DEF S, T

(* So ALICE's sum is BOB's, and the product of delta and his choices'     *)
(* combination.                                                           *)
LEMMA HonestSum ==
  ASSUME NEW n, NEW r, NEW d, NEW t, NEW q, Flips(n, r, d, t, q), NEW c \in [1 .. n -> Block], 
         NEW x, x = Summed(n, c, r)
  PROVE  InnerProduct(c, q) = XOR(InnerProduct(c, t), InnerProduct(<<x>>, <<d>>))
<1>0. /\ n \in Nat /\ r \in [1 .. n -> BOOLEAN] /\ d \in Block
      /\ t \in [1 .. n -> Block] /\ q \in [1 .. n -> Block]
      /\ \A i \in 1 .. n : q[i] = Active(t[i], r[i], d)
  BY DEF Flips
<1>1. ASSUME NEW k \in 0 .. 2 * Width - 2
      PROVE  Odd(Terms(c, q, k)) <=> ~(Odd(Terms(c, t, k)) <=> Odd(Terms(<<x>>, <<d>>, k)))
  <2> DEFINE Q == Terms(c, q, k)
             T == Terms(c, t, k)
             F == Flipped(n, c, r, d, k)
  <2>1. Q = XOR(T, F) BY <1>0 DEF Terms, Flipped, XOR, Active, Mask
  <2>2. T \in SUBSET ((1 .. n) \X Rows) /\ F \in SUBSET ((1 .. n) \X Rows)
    BY <1>0 DEF Terms, Flipped
  <2> HIDE DEF Q, T, F
  <2>3. IsFiniteSet(T) /\ IsFiniteSet(F) BY <1>0, <2>2, PairsFinite
  <2>4. Odd(Q) <=> ~(Odd(T) <=> Odd(F)) BY <2>1, <2>3, OddXor, Zenon
  <2>5. k \in Int BY RowsFinite
  <2>6. Odd(F) <=> Odd(Terms(<<x>>, <<d>>, k)) BY <1>0, <2>5, FlippedOdd DEF F
  <2> QED BY <2>4, <2>6, Zenon DEF Q, T
<1>2. InnerProduct(c, q) = {k \in 0 .. 2 * Width - 2 : Odd(Terms(c, q, k))}
  BY <1>0 DEF InnerProduct, Terms
<1>3. InnerProduct(c, t) = {k \in 0 .. 2 * Width - 2 : Odd(Terms(c, t, k))}
  BY <1>0 DEF InnerProduct, Terms
<1>4. InnerProduct(<<x>>, <<d>>) = {k \in 0 .. 2 * Width - 2 : Odd(Terms(<<x>>, <<d>>, k))}
  BY <1>0 DEF InnerProduct, Terms
<1> QED BY <1>1, <1>2, <1>3, <1>4, Zenon DEF XOR

-----------------------------------------------------------------------------
(* The coefficients *)

(* There are coefficients for a block of OTs and those made for the       *)
(* check.                                                                 *)
LEMMA LongestFacts == Longest \in Nat /\ BlockSize \in Nat \ {0} /\ Width \in Nat \ {0} /\ 2 * Width \in Nat
  BY OTAssumption, BlocksAssumption DEF Longest

(* Powers up to one are followed by powers up to the next. *)
LEMMA PowersStep ==
  ASSUME NEW seed \in Block, NEW m \in Nat, \E f : PowersTo(f, seed, m)
  PROVE  \E f : PowersTo(f, seed, m + 1)
<1>1. PICK f : PowersTo(f, seed, m) OBVIOUS
<1>2. Longest \in Nat BY LongestFacts
<1>3. CASE m + 1 \notin 1 .. Longest
  <2>1. \A j \in 1 .. Longest : j <= m + 1 => j <= m BY <1>2, <1>3
  <2> QED BY <1>1, <2>1 DEF PowersTo
<1>4. CASE m + 1 \in 1 .. Longest
  <2> DEFINE e == IF m + 1 = 1 THEN seed ELSE GFMul[<<f[m], seed>>]
             g == [f EXCEPT ![m + 1] = e]
  <2>1. f \in [1 .. Longest -> Block] BY <1>1 DEF PowersTo
  <2>2. e \in Block
    <3>1. CASE m + 1 = 1 BY <3>1
    <3>2. CASE m + 1 # 1
      <4>1. f[m] \in Block BY <1>2, <1>4, <2>1, <3>2
      <4>2. GFMul \in [Block \X Block -> Block] BY OTAssumption
      <4> QED BY <3>2, <4>1, <4>2
    <3> QED BY <3>1, <3>2
  <2>3. g \in [1 .. Longest -> Block] BY <2>1, <2>2, <1>4
  <2>4. g[m + 1] = e /\ \A j \in 1 .. Longest : j <= m => g[j] = f[j]
    BY <2>1, <1>4
  <2> HIDE DEF g
  <2>5. ASSUME NEW j \in 1 .. Longest, j <= m + 1
        PROVE  g[j] = IF j = 1 THEN seed ELSE GFMul[<<g[j - 1], seed>>]
    <3>1. CASE j = m + 1
      <4>1. j # 1 => g[j - 1] = f[m] BY <1>2, <2>4, <3>1
      <4> QED BY <2>4, <3>1, <4>1
    <3>2. CASE j # m + 1
      <4>1. j <= m /\ (j # 1 => j - 1 \in 1 .. Longest /\ j - 1 <= m)
        BY <1>2, <2>5, <3>2
      <4>2. f[j] = IF j = 1 THEN seed ELSE GFMul[<<f[j - 1], seed>>]
        BY <1>1, <4>1 DEF PowersTo, Powers
      <4> QED BY <2>4, <4>1, <4>2
    <3> QED BY <3>1, <3>2
  <2> QED BY <2>3, <2>5 DEF PowersTo, Powers
<1> QED BY <1>3, <1>4

(* There are powers up to any exponent. *)
LEMMA PowersExist ==
  ASSUME NEW seed \in Block
  PROVE  \E f : f = Powers(f, seed)
<1> DEFINE Good(m) == \E f : PowersTo(f, seed, m)
           Bad == {m \in Nat : ~Good(m)}
<1>1. Good(0)
  <2>1. [j \in 1 .. Longest |-> seed] \in [1 .. Longest -> Block] OBVIOUS
  <2> QED
    <3>1. PowersTo([j \in 1 .. Longest |-> seed], seed, 0) BY <2>1 DEF PowersTo
    <3> QED BY <3>1
<1>2. ASSUME NEW m \in Nat, Good(m)
      PROVE  Good(m + 1)
  BY <1>2, PowersStep
<1> HIDE DEF Good
<1>3. Bad = {}
  <2> SUFFICES ASSUME Bad # {} PROVE FALSE OBVIOUS
  <2>4. PICK m \in Bad : \A y \in Bad : ~ (<<y, m>> \in OpToRel(<, Nat))
    <3>1. Bad \subseteq Nat OBVIOUS
    <3> QED BY <3>1, WFMin, NatLessThanWellFounded, Zenon
  <2>5. \A y \in Bad : ~ (y < m) BY <2>4, Zenon DEF OpToRel
  <2>6. m \in Nat /\ ~Good(m) OBVIOUS
  <2>8. m - 1 \in Nat /\ m - 1 < m /\ (m - 1) + 1 = m BY <1>1, <2>6
  <2>9. Good(m - 1) BY <2>5, <2>8
  <2> QED BY <1>2, <2>6, <2>8, <2>9
<1>4. Good(Longest) BY <1>3, LongestFacts
<1>5. PICK f : PowersTo(f, seed, Longest) BY <1>4 DEF Good
<1>6. f \in [1 .. Longest -> Block] BY <1>5 DEF PowersTo
<1>7. \A j \in 1 .. Longest : f[j] = Powers(f, seed)[j]
  BY <1>5, LongestFacts DEF PowersTo
<1>8. f = Powers(f, seed) BY <1>6, <1>7 DEF Powers
<1> QED BY <1>8

(* Each is a block, which a recursive function has to be shown to be. *)
LEMMA ChiTyped == ASSUME NEW seed \in Block
  PROVE  Chi(seed) \in [1 .. Longest -> Block]
<1> PICK f : f = Chi(seed) OBVIOUS
<1>1. f = Powers(f, seed)
  <2>1. Chi(seed) = CHOOSE g : g = [j \in 1 .. Longest |-> IF j = 1 THEN seed ELSE GFMul[<<g[j - 1], seed>>]]
    BY DEF Chi, Longest
  <2>2. \E g : g = [j \in 1 .. Longest |-> IF j = 1 THEN seed ELSE GFMul[<<g[j - 1], seed>>]]
    BY PowersExist DEF Powers
  <2> QED BY <2>1, <2>2 DEF Powers
<1>2. DOMAIN f = 1 .. Longest BY <1>1 DEF Powers
<1>3. f[1] = seed \/ Longest = 0 BY <1>1, LongestFacts DEF Powers
<1>4. \A j \in 1 .. Longest : j # 1 => f[j] = GFMul[<<f[j - 1], seed>>]
  BY <1>1 DEF Powers
<1>5. f = [j \in 1 .. Longest |-> f[j]] BY <1>1 DEF Powers
<1> DEFINE Bad == {j \in Nat : j \in 1 .. Longest /\ f[j] \notin Block}
<1>6. Bad = {}
  <2> SUFFICES ASSUME Bad # {} PROVE FALSE OBVIOUS
  <2>1. PICK m \in Bad : \A y \in Bad : ~ (<<y, m>> \in OpToRel(<, Nat))
    <3>1. Bad \subseteq Nat OBVIOUS
    <3> QED BY <3>1, WFMin, NatLessThanWellFounded, Zenon
  <2>2. \A y \in Bad : ~ (y < m) BY <2>1, Zenon DEF OpToRel
  <2>3. m \in 1 .. Longest /\ f[m] \notin Block OBVIOUS
  <2>4. m # 1 BY <1>3, <2>3, LongestFacts
  <2>5. m - 1 \in 1 .. Longest /\ m - 1 < m /\ m - 1 \in Nat
    BY <2>3, <2>4, LongestFacts
  <2>6. f[m - 1] \in Block BY <2>2, <2>5
  <2>7. GFMul \in [Block \X Block -> Block] BY OTAssumption
  <2> QED BY <1>4, <2>3, <2>4, <2>6, <2>7
<1> QED BY <1>5, <1>6, LongestFacts

-----------------------------------------------------------------------------
(* The hashing of the OTs *)

(* A party that hashes, or is about to, has the OTs of the call. *)
LEMMA HashFacts == ASSUME TypeOK, Positions, NEW p \in Party, Hashing(p)
  PROVE  /\ at[p] \in 1 .. Len(script)
         /\ Call(p) = script[at[p]] /\ Call(p).kind \in {"ot", "rot"}
         /\ Length(p) \in Nat \ {0}
         /\ Len(cot[p]) = at[p] /\ Len(cot[p][at[p]]) = Length(p) /\ cot[p][at[p]] \in Seq(Block)
         /\ Done(p) \in Nat /\ Done(p) < Length(p)
<1>1. at[p] \in Nat \ {0} /\ Len(script) \in Nat BY PartyFacts
<1>2. /\ at[p] <= Len(script) /\ Len(cot[p]) = at[p] /\ Call(p).kind # "cot"
      /\ \A k \in 1 .. Len(cot[p]) : Len(cot[p][k]) = Len(script[k].r)
      /\ pc[p] = "hash" => Len(data[p]) < Length(p)
  BY DEF Positions, Together, PositionOf
<1>3. at[p] \in 1 .. Len(script) /\ Call(p) = script[at[p]] /\ Length(p) = Len(script[at[p]].r)
  BY <1>1, <1>2 DEF Call, Length
<1>4. Length(p) \in Nat \ {0} /\ script[at[p]].kind \in {"cot", "ot", "rot"}
  BY <1>3, ScriptFacts
<1>5. Len(cot[p][at[p]]) = Length(p) /\ cot[p][at[p]] \in Seq(Block)
  <2>1. at[p] \in 1 .. Len(cot[p]) BY <1>1, <1>2
  <2>2. cot[p][at[p]] \in Blocks BY <2>1, PartyFacts, SeqAt
  <2> QED BY <1>2, <1>3, <2>1, <2>2 DEF Blocks
<1>6. Done(p) \in Nat /\ Done(p) < Length(p)
  <2>1. CASE pc[p] = "hash"
    <3>1. Len(data[p]) \in Nat
      <4>1. CASE p = "ALICE" BY <2>1, <4>1, LenProperties DEF TypeOK
      <4>2. CASE p = "BOB" BY <2>1, <4>2, LenProperties DEF TypeOK
      <4> QED BY <4>1, <4>2, TwoParties DEF Parties
    <3> QED BY <1>2, <2>1, <3>1 DEF Done
  <2>2. CASE pc[p] # "hash" BY <1>4, <2>2 DEF Done
  <2> QED BY <2>1, <2>2
<1> QED BY <1>2, <1>3, <1>4, <1>5, <1>6

(* What has been hashed of a call, and its first gate *)
LEMMA DoneFacts == ASSUME TypeOK, Positions, InTurn, NEW p \in Party
  PROVE  /\ Done(p) \in Nat /\ gid[p] \in Nat /\ Gid0(p) \in Nat /\ gid[p] = Gid0(p) + Done(p)
         /\ pc[p] # "hash" => Done(p) = 0 /\ Gid0(p) = gid[p]
<1>1. Done(p) \in Nat
  <2>1. CASE pc[p] = "hash" BY <2>1, HashFacts DEF Hashing
  <2>2. CASE pc[p] # "hash" BY <2>2 DEF Done
  <2> QED BY <2>1, <2>2
<1>2. gid[p] \in Nat /\ gid[p] >= Done(p) BY PartyFacts DEF InTurn
<1>3. PICK g \in Nat, d \in Nat : g = gid[p] /\ d = Done(p) /\ g >= d
  BY <1>1, <1>2
<1>4. g - d \in Nat /\ g = (g - d) + d /\ (d = 0 => g - d = g) BY <1>3
<1>5. pc[p] # "hash" => d = 0 BY <1>3 DEF Done
<1> QED BY <1>3, <1>4, <1>5 DEF Gid0

-----------------------------------------------------------------------------
(* Steps that are not of the hashing *)

(* They change nothing of what a party has hashed. *)
LEMMA RestingThere == ASSUME Resting, NEW p \in Party
  PROVE  /\ Done(p)' = Done(p) /\ Gid0(p)' = Gid0(p)
         /\ (p = "BOB" => (Hashing(p)' <=> Hashing(p)))
         /\ \A k : Results(p, k)' = Results(p, k)
         /\ pc'[p] = "hash" <=> pc[p] = "hash"
<1>1. /\ at' = at /\ gid' = gid /\ out' = out
      /\ pc'[p] = "hash" <=> pc[p] = "hash"
      /\ pc'["BOB"] = "start" <=> pc["BOB"] = "start"
      /\ pc[p] = "hash" => data'[p] = data[p]
  BY DEF Resting
<1>2. Done(p)' = Done(p) BY <1>1 DEF Done
<1>3. p = "BOB" => (Hashing(p)' <=> Hashing(p)) BY <1>1 DEF Hashing
<1>4. \A k : Results(p, k)' = Results(p, k) BY <1>1 DEF Results
<1> QED BY <1>1, <1>2, <1>3, <1>4 DEF Gid0

(* The call of a party that hashes is the same. *)
LEMMA RestingCall == ASSUME TypeOK, Positions, Resting, NEW p \in Party, Hashing(p)
  PROVE  /\ Call(p)' = Call(p) /\ Length(p)' = Length(p)
         /\ cot'[p][at[p]] = cot[p][at[p]]
<1>1. at[p] \in 1 .. Len(script) /\ at[p] \in 1 .. Len(cot[p]) BY HashFacts
<1>2. script'[at[p]] = script[at[p]] /\ at' = at /\ cot'[p][at[p]] = cot[p][at[p]]
  BY <1>1 DEF Resting, Prolongs
<1> QED BY <1>2 DEF Call, Length

(* Whose turn it is stays, *)
LEMMA RestingTurn == ASSUME TypeOK, Positions, InTurn, Resting
  PROVE  /\ InTurn'
         /\ Past' = Past /\ Made' = Made /\ Greets' = Greets
<1>1. /\ at' = at /\ gid' = gid /\ start' = start /\ Prolongs(script, script')
      /\ Hashing("BOB") => net'["BOB"] = net["BOB"]
      /\ "ALICE" \in Party /\ "BOB" \in Party
  BY TwoParties DEF Resting, Parties
<1>2. /\ \A p \in Party : /\ Done(p)' = Done(p) /\ Gid0(p)' = Gid0(p)
                          /\ pc'[p] = "hash" <=> pc[p] = "hash"
      /\ Hashing("BOB")' <=> Hashing("BOB")
      /\ pc'["BOB"] = "start" <=> pc["BOB"] = "start"
      /\ Past => pc'["ALICE"] # "start"
  BY <1>1, RestingThere DEF Resting
<1>3. \A p \in Party : Hashing(p) => Call(p)' = Call(p) /\ Length(p)' = Length(p)
  BY RestingCall
<1>4. Past' = Past BY <1>1 DEF Past
<1>5. Begun' = Begun BY <1>1, <1>2 DEF Begun, Past
<1>6. Greets' = Greets BY <1>1, <1>2, <1>5 DEF Greets
<1>7. Past => Length("BOB")' = Length("BOB") BY <1>1, <1>3 DEF InTurn
<1>8. Made' = Made BY <1>1, <1>2, <1>4, <1>7 DEF Made
<1>9. \A p \in Party : gid'[p] >= Done(p)' /\ Whole(Done(p))'
  BY <1>1, <1>2 DEF InTurn, Whole
<1>10. Past' => /\ Hashing("BOB")' /\ gid'["ALICE"] >= Gid0("BOB")'
                /\ Rounded(Length("BOB"), gid["ALICE"] - Gid0("BOB"))'
                /\ ~(Hashing("ALICE"))'
  <2> SUFFICES ASSUME Past
               PROVE  /\ Hashing("BOB")' /\ gid'["ALICE"] >= Gid0("BOB")'
                      /\ Rounded(Length("BOB"), gid["ALICE"] - Gid0("BOB"))'
                      /\ ~(Hashing("ALICE"))'
    BY <1>4
  <2>1. /\ Hashing("BOB") /\ gid["ALICE"] >= Gid0("BOB")
        /\ Rounded(Length("BOB"), gid["ALICE"] - Gid0("BOB")) /\ ~Hashing("ALICE")
    BY DEF InTurn
  <2> QED BY <1>1, <1>2, <1>7, <2>1 DEF Rounded, Hashing
<1>11. at'["ALICE"] < at'["BOB"] =>
       /\ pc'["BOB"] # "hash"
       /\ \A k \in at'["ALICE"] .. at'["BOB"] - 1 : 
            \/ script'[k].kind = "cot"
            \/ k = at'["ALICE"] /\ script'[k].kind = "rot" /\ pc'["ALICE"] = "hash"
       /\ pc'["ALICE"] # "hash" => gid'["BOB"] = gid'["ALICE"]
       /\ pc'["ALICE"] = "hash" => gid'["BOB"] >= Gid0("ALICE")' /\ Rounded(Length("ALICE"), gid["BOB"] - Gid0("ALICE"))'
  <2> SUFFICES ASSUME at["ALICE"] < at["BOB"]
               PROVE  /\ pc'["BOB"] # "hash"
                      /\ \A k \in at["ALICE"] .. at["BOB"] - 1 :
                           \/ script'[k].kind = "cot"
                           \/ k = at["ALICE"] /\ script'[k].kind = "rot" /\ pc'["ALICE"] = "hash"
                      /\ pc'["ALICE"] # "hash" => gid'["BOB"] = gid'["ALICE"]
                      /\ pc'["ALICE"] = "hash" => gid'["BOB"] >= Gid0("ALICE")' /\ Rounded(Length("ALICE"), gid["BOB"] - Gid0("ALICE"))'
    BY <1>1
  <2>1. \A k \in at["ALICE"] .. at["BOB"] - 1 : script'[k] = script[k]
    <3>1. /\ at["ALICE"] \in Nat \ {0} /\ at["BOB"] \in Nat \ {0} /\ Len(script) \in Nat
          /\ at["BOB"] <= Len(script) + 1
      BY <1>1, PartyFacts DEF Positions, Together, PositionOf
    <3>2. Prolongs(script, script') BY <1>1
    <3> SUFFICES ASSUME NEW k \in at["ALICE"] .. at["BOB"] - 1 PROVE script'[k] = script[k]
      OBVIOUS
    <3>3. k \in 1 .. Len(script)
      BY ONLY <3>1, k \in at["ALICE"] .. at["BOB"] - 1
    <3> QED BY ONLY <3>2, <3>3 DEF Prolongs
  <2>2. pc["ALICE"] = "hash" => Length("ALICE")' = Length("ALICE")
    BY <1>1, <1>3 DEF Hashing
  <2> QED BY <1>1, <1>2, <2>1, <2>2 DEF InTurn, Rounded
<1>12. /\ at'["ALICE"] <= at'["BOB"] + 1
       /\ at'["ALICE"] = at'["BOB"] => Gid0("ALICE")' = Gid0("BOB")'
       /\ (at'["ALICE"] = at'["BOB"] /\ pc'["BOB"] = "hash") => pc'["ALICE"] = "hash"
       /\ Greets' = 1 => net'["BOB"][1] = start'["ALICE"]
       /\ Greets' = 0 => start'["ALICE"] = start'["BOB"]
  BY <1>1, <1>2, <1>6 DEF InTurn, Greets, Hashing
<1> QED BY <1>4, <1>6, <1>8, <1>9, <1>10, <1>11, <1>12 DEF InTurn

(* what is on its way to BOB stays, *)
LEMMA RestingToBob == ASSUME IInv, Resting
  PROVE  ToBob'
<1>1. TypeOK /\ Positions /\ InTurn /\ ToBob /\ Correlates BY Parts
<1>2. /\ at' = at /\ start' = start /\ delta' = delta
      /\ "ALICE" \in Party /\ "BOB" \in Party
      /\ Hashing("BOB") => net'["BOB"] = net["BOB"]
      /\ (~Hashing("BOB") /\ ~(pc'["BOB"] = "points" /\ pc'["ALICE"] = "keys")) => net'["BOB"] = <<>>
  BY TwoParties DEF Resting, Parties
<1>3. /\ Done("BOB")' = Done("BOB") /\ Gid0("BOB")' = Gid0("BOB") /\ (Hashing("BOB")' <=> Hashing("BOB"))
  BY <1>2, RestingThere
<1>4. Made' = Made /\ Greets' = Greets BY <1>1, RestingTurn
<1>5. CASE ~Hashing("BOB") BY <1>1, <1>2, <1>3, <1>5 DEF ToBob
<1>6. CASE Hashing("BOB")
  <2>1. Call("BOB")' = Call("BOB") BY <1>1, <1>2, <1>6, RestingCall
  <2>2. (Hashing("BOB"))' BY <1>3, <1>6
  <2>3. Len(net'["BOB"]) = Greets' + IF Call("BOB")'.kind = "ot" THEN 2 * (Made' - Done("BOB")') ELSE 0
    BY <1>1, <1>2, <1>3, <1>4, <1>6, <2>1 DEF ToBob
  <2>4. CASE Call("BOB").kind = "ot"
    <3>1. PICK d, k, g, m : d = Done("BOB") /\ k = at["BOB"] /\ g = Greets /\ m = Made
      OBVIOUS
    <3>2. d \in Nat /\ m \in Nat /\ k \in Nat \ {0}
      <4>1. Made \in Nat BY <1>1, <1>2, <1>6, HashFacts, DoneFacts DEF Made
      <4> QED BY <1>1, <1>2, <3>1, <4>1, PartyFacts, DoneFacts
    <3>3. /\ m >= d
          /\ \A i \in d + 1 .. m : \A b \in BOOLEAN : net["BOB"][g + 2 * (i - d) - IF b THEN 0 ELSE 1] = Sealing(i, b)
      BY <1>1, <1>6, <2>4, <3>1 DEF ToBob
    <3>4. d < m => cot'["ALICE"][k] = cot["ALICE"][k]
      <4> SUFFICES ASSUME d < m PROVE cot'["ALICE"][k] = cot["ALICE"][k] OBVIOUS
      <4>1. Prolongs(cot["ALICE"], cot'["ALICE"]) BY <1>2 DEF Resting
      <4>2. k \in 1 .. Len(cot["ALICE"])
        <5>1. at["ALICE"] \in Nat \ {0} /\ Len(cot["ALICE"]) \in Nat
          BY <1>1, <1>2, PartyFacts
        <5>2. (at["ALICE"] = k /\ pc["ALICE"] = "hash") \/ at["ALICE"] = k + 1
          BY <3>1, <3>2 DEF Made, Done, Past
        <5>3. Len(cot["ALICE"]) = IF Hashing("ALICE") THEN at["ALICE"] ELSE at["ALICE"] - 1
          BY <1>1, <1>2 DEF Positions, Together, PositionOf
        <5>4. Len(cot["ALICE"]) >= k BY <3>2, <5>1, <5>2, <5>3 DEF Hashing
        <5> QED BY <3>2, <5>1, <5>4
      <4> QED BY <4>1, <4>2 DEF Prolongs
    <3>5. ASSUME NEW i \in d + 1 .. m, NEW b \in BOOLEAN
          PROVE  Sealing(i, b)' = Sealing(i, b)
      <4>1. cot'["ALICE"][k] = cot["ALICE"][k] BY <3>2, <3>4
      <4> QED BY <1>2, <1>3, <3>1, <4>1 DEF Sealing, Message
    <3>6. \A i \in d + 1 .. m : \A b \in BOOLEAN : net'["BOB"][g + 2 * (i - d) - IF b THEN 0 ELSE 1] = Sealing(i, b)'
      BY <1>2, <1>6, <3>3, <3>5
    <3>7. d = Done("BOB")' /\ g = Greets' /\ m = Made' BY <1>3, <1>4, <3>1
    <3>8. (~(~Hashing("BOB")))' BY <2>2
    <3>9. Made' >= Done("BOB")' BY <3>3, <3>7
    <3>10. \A i \in Done("BOB")' + 1 .. Made' : \A b \in BOOLEAN :
             net'["BOB"][Greets' + 2 * (i - Done("BOB")') - IF b THEN 0 ELSE 1] = Sealing(i, b)'
      BY <3>6, <3>7
    <3> QED BY <2>3, <3>8, <3>9, <3>10 DEF ToBob
  <2>5. CASE Call("BOB").kind # "ot"
    <3>1. Call("BOB")'.kind # "ot" BY <2>1, <2>5
    <3> QED BY <2>2, <2>3, <3>1 DEF ToBob
  <2> QED BY <2>4, <2>5
<1> QED BY <1>5, <1>6

(* What was hashed of a call is of OTs made before. *)
LEMMA ResultsHave == ASSUME TypeOK, Positions, NEW p \in Party, NEW k \in Nat \ {0}, Results(p, k) # <<>>
  PROVE  k \in 1 .. Len(cot[p]) /\ k \in 1 .. Len(script)
<1>1. at[p] \in Nat \ {0} /\ Len(script) \in Nat /\ Len(cot[p]) \in Nat
  BY PartyFacts
<1>2. /\ at[p] <= Len(script) + 1
      /\ Extending(p) \/ Hashing(p) => at[p] <= Len(script)
      /\ Len(cot[p]) = IF Hashing(p) THEN at[p] ELSE at[p] - 1
  BY DEF Positions, Together, PositionOf
<1>3. k < at[p] \/ (k = at[p] /\ pc[p] = "hash") BY DEF Results
<1>4. CASE k < at[p] BY <1>1, <1>2, <1>4
<1>5. CASE k = at[p] /\ pc[p] = "hash" BY <1>1, <1>2, <1>5 DEF Hashing
<1> QED BY <1>3, <1>4, <1>5

(* the results stay, where nothing they are derived from changes, *)
LEMMA ResultsStay == ASSUME TypeOK, Positions, Resulted, SameResults
  PROVE  Resulted'
<1>1. /\ delta' = delta /\ Prolongs(script, script')
      /\ "ALICE" \in Party /\ "BOB" \in Party
      /\ \A p \in Party : Prolongs(cot[p], cot'[p])
      /\ script' \in Seq(Calls) /\ at' \in [Party -> Nat \ {0}]
  BY TwoParties DEF SameResults, Parties
<1>2. /\ \A k \in Nat \ {0} : Results("ALICE", k)' = Results("ALICE", k)
      /\ \A k \in Nat \ {0} : Results("BOB", k)' = Results("BOB", k)
  BY <1>1 DEF SameResults
<1>3. Len(script) \in Nat /\ Len(script') \in Nat /\ \A p \in Party : at[p] \in Nat \ {0} /\ at'[p] \in Nat \ {0}
  BY <1>1, PartyFacts, LenProperties
<1>4. \A p \in Party : Hashing(p) /\ at'[p] = at[p] => Call(p)' = Call(p)
  <2> SUFFICES ASSUME NEW p \in Party, Hashing(p), at'[p] = at[p] PROVE Call(p)' = Call(p)
    OBVIOUS
  <2>1. at[p] \in 1 .. Len(script) BY HashFacts
  <2> QED BY <1>1, <2>1 DEF Call, Prolongs
<1>5. \A p \in Party : \A k \in 1 .. at'[p] - 1 : Len(out'[p][k]) = IF script'[k].kind = "cot" THEN 0 ELSE Len(script'[k].r)
  BY DEF SameResults
<1>6. ASSUME NEW k \in 1 .. Len(script'), NEW p \in Party
      PROVE  Results(p, k) = <<>> \/ (k \in 1 .. Len(script) /\ script'[k] = script[k])
  <2>1. CASE Results(p, k) # <<>> BY <1>1, <2>1, ResultsHave DEF Prolongs
  <2> QED BY <2>1
<1>7. ASSUME NEW k \in 1 .. Len(script'), script'[k].kind = "ot"
      PROVE  /\ \A i \in 1 .. Len(Results("ALICE", k)) : \A b \in BOOLEAN :
                  Results("ALICE", k)[i][b] = Message(k, i, b)
             /\ \A i \in 1 .. Len(Results("BOB", k)) :
                  Results("BOB", k)[i] = Message(k, i, script'[k].r[i])
  <2>1. \A i \in 1 .. Len(Results("ALICE", k)) : \A b \in BOOLEAN :
          Results("ALICE", k)[i][b] = Message(k, i, b)
    <3>1. PICK a : a = Results("ALICE", k) OBVIOUS
    <3>2. CASE a = <<>> BY <3>1, <3>2
    <3>3. CASE a # <<>> BY <1>1, <1>6, <1>7, <3>1, <3>3 DEF Resulted
    <3> QED BY <3>2, <3>3
  <2>2. \A i \in 1 .. Len(Results("BOB", k)) :
          Results("BOB", k)[i] = Message(k, i, script'[k].r[i])
    <3>1. PICK a : a = Results("BOB", k) OBVIOUS
    <3>2. CASE a = <<>> BY <3>1, <3>2
    <3>3. CASE a # <<>> BY <1>1, <1>6, <1>7, <3>1, <3>3 DEF Resulted
    <3> QED BY <3>2, <3>3
  <2> QED BY <2>1, <2>2
<1>8. ASSUME NEW k \in 1 .. Len(script'), script'[k].kind = "rot",
             NEW i \in 1 .. AtMost(Len(Results("ALICE", k)), Len(Results("BOB", k)))
      PROVE  Results("BOB", k)[i] = Results("ALICE", k)[i][script'[k].r[i]]
  <2>1. PICK a, b : a = Results("ALICE", k) /\ b = Results("BOB", k) OBVIOUS
  <2>2. CASE b = <<>>
    <3>1. Len(b) = 0 /\ i \in 1 .. AtMost(Len(a), Len(b)) BY <1>8, <2>1, <2>2
    <3>2. FALSE BY <3>1 DEF AtMost
    <3> QED BY <3>2
  <2>3. CASE b # <<>> BY <1>1, <1>6, <1>8, <2>1, <2>3 DEF Resulted
  <2> QED BY <2>2, <2>3
<1>9. (Hashing("BOB") /\ Call("BOB").kind = "rot")' =>
       \A i \in 1 .. Len(Results("ALICE", at'["BOB"])) : \A b \in BOOLEAN :
            Results("ALICE", at'["BOB"])[i][b] =
              <<start'["ALICE"], Gid0("BOB")' + i - 1, Active(cot'["ALICE"][at'["BOB"]][i], b, delta)>>
  <2> SUFFICES ASSUME (Hashing("BOB") /\ Call("BOB").kind = "rot")'
               PROVE  \A i \in 1 .. Len(Results("ALICE", at'["BOB"])) : \A b \in BOOLEAN :
                        Results("ALICE", at'["BOB"])[i][b] =
                          <<start'["ALICE"], Gid0("BOB")' + i - 1, Active(cot'["ALICE"][at'["BOB"]][i], b, delta)>>
    OBVIOUS
  <2>1. PICK k \in Nat \ {0} : k = at'["BOB"] BY <1>1, <1>3
  <2>2. CASE Results("ALICE", k) = <<>> BY <2>1, <2>2
  <2>3. CASE Results("ALICE", k) # <<>>
    <3>1. cot'["ALICE"][k] = cot["ALICE"][k]
      BY <1>1, <2>3, ResultsHave DEF Prolongs
    <3>2. Hashing("BOB") /\ k = at["BOB"] /\ Gid0("BOB")' = Gid0("BOB") /\ start'["ALICE"] = start["ALICE"]
      BY <2>1, <2>3 DEF SameResults
    <3>3. Call("BOB").kind = "rot" BY <1>1, <1>4, <2>1, <3>2
    <3>4. \A i \in 1 .. Len(Results("ALICE", k)) : \A b \in BOOLEAN :
            Results("ALICE", k)[i][b] = <<start["ALICE"], Gid0("BOB") + i - 1, Active(cot["ALICE"][k][i], b, delta)>>
      BY <3>2, <3>3 DEF Resulted
    <3> QED BY <2>1, <3>1, <3>2, <3>4
  <2> QED BY <2>2, <2>3
<1>10. (pc["ALICE"] = "hash" /\ Call("ALICE").kind = "rot")' =>
       \A i \in 1 .. Len(Results("BOB", at'["ALICE"])) :
            Results("BOB", at'["ALICE"])[i] =
              <<start'["ALICE"], Gid0("ALICE")' + i - 1, cot'["BOB"][at'["ALICE"]][i]>>
  <2> SUFFICES ASSUME (pc["ALICE"] = "hash" /\ Call("ALICE").kind = "rot")'
               PROVE  \A i \in 1 .. Len(Results("BOB", at'["ALICE"])) :
                        Results("BOB", at'["ALICE"])[i] =
                          <<start'["ALICE"], Gid0("ALICE")' + i - 1, cot'["BOB"][at'["ALICE"]][i]>>
    OBVIOUS
  <2>1. PICK k \in Nat \ {0} : k = at'["ALICE"] BY <1>1, <1>3
  <2>4. CASE Results("BOB", k) = <<>> BY <2>1, <2>4
  <2>5. CASE Results("BOB", k) # <<>>
    <3>a. /\ pc["ALICE"] = "hash" /\ k = at["ALICE"] /\ Gid0("ALICE")' = Gid0("ALICE")
          /\ start'["ALICE"] = start["ALICE"]
      BY <2>1, <2>5 DEF SameResults
    <3>b. Call("ALICE").kind = "rot" BY <1>1, <1>4, <2>1, <3>a DEF Hashing
    <3>1. cot'["BOB"][k] = cot["BOB"][k] BY <1>1, <2>5, ResultsHave DEF Prolongs
    <3>2. \A i \in 1 .. Len(Results("BOB", k)) :
            Results("BOB", k)[i] = <<start["ALICE"], Gid0("ALICE") + i - 1, cot["BOB"][k][i]>>
      BY <3>a, <3>b DEF Resulted
    <3> QED BY <2>1, <3>a, <3>1, <3>2
  <2> QED BY <2>4, <2>5
<1>11. /\ Results("ALICE", at'["BOB"]) = Results("ALICE", at["BOB"])'
       /\ Results("BOB", at'["ALICE"]) = Results("BOB", at["ALICE"])'
       /\ \A k \in 1 .. Len(script') : /\ Results("ALICE", k)' = Results("ALICE", k)
                                        /\ Results("BOB", k)' = Results("BOB", k)
  BY <1>1, <1>2, <1>3
<1>12. ((Hashing("BOB") /\ Call("BOB").kind = "rot") =>
         \A i \in 1 .. Len(Results("ALICE", at["BOB"])) : \A b \in BOOLEAN :
            Results("ALICE", at["BOB"])[i][b] =
              <<start["ALICE"], Gid0("BOB") + i - 1, Active(cot["ALICE"][at["BOB"]][i], b, delta)>>)'
  BY <1>1, <1>9, <1>11
<1>13. ((pc["ALICE"] = "hash" /\ Call("ALICE").kind = "rot") =>
         \A i \in 1 .. Len(Results("BOB", at["ALICE"])) :
            Results("BOB", at["ALICE"])[i] =
              <<start["ALICE"], Gid0("ALICE") + i - 1, cot["BOB"][at["ALICE"]][i]>>)'
  BY <1>1, <1>10, <1>11
<1>14. (\A k \in 1 .. Len(script) : script[k].kind = "ot" =>
         /\ \A i \in 1 .. Len(Results("ALICE", k)) : \A b \in BOOLEAN :
                Results("ALICE", k)[i][b] = Message(k, i, b)
         /\ \A i \in 1 .. Len(Results("BOB", k)) :
                Results("BOB", k)[i] = Message(k, i, script[k].r[i]))'
  BY <1>7, <1>11 DEF Message
<1>15. (\A k \in 1 .. Len(script) : script[k].kind = "rot" =>
         \A i \in 1 .. AtMost(Len(Results("ALICE", k)), Len(Results("BOB", k))) :
           Results("BOB", k)[i] = Results("ALICE", k)[i][script[k].r[i]])'
  BY <1>8, <1>11 DEF AtMost
<1>16. (\A p \in Party : \A k \in 1 .. at[p] - 1 :
          Len(out[p][k]) = IF script[k].kind = "cot" THEN 0 ELSE Len(script[k].r))'
  BY <1>5
<1> QED BY <1>12, <1>13, <1>14, <1>15, <1>16 DEF Resulted

(* and so what hashing gave. *)
LEMMA RestingResulted == ASSUME TypeOK, Positions, InTurn, Resulted, Resting
  PROVE  Resulted'
<1>1. /\ at' = at /\ start' = start /\ delta' = delta /\ out' = out /\ Prolongs(script, script')
      /\ "ALICE" \in Party /\ "BOB" \in Party
      /\ \A p \in Party : Prolongs(cot[p], cot'[p])
      /\ script' \in Seq(Calls)
  BY TwoParties DEF Resting, Parties
<1>2. /\ \A p \in Party : \A k \in Nat \ {0} : Results(p, k)' = Results(p, k)
      /\ Hashing("BOB")' => Hashing("BOB") /\ Gid0("BOB")' = Gid0("BOB")
      /\ pc'["ALICE"] = "hash" => pc["ALICE"] = "hash" /\ Gid0("ALICE")' = Gid0("ALICE")
  BY <1>1, RestingThere
<1>3. at \in [Party -> Nat \ {0}] /\ Len(script) \in Nat /\ \A p \in Party : at[p] \in Nat \ {0} /\ at[p] <= Len(script) + 1
  BY <1>1, PartyFacts DEF Positions, Together, PositionOf
<1>4. \A p \in Party : \A k \in 1 .. at'[p] - 1 : Len(out'[p][k]) = IF script'[k].kind = "cot" THEN 0 ELSE Len(script'[k].r)
  <2> SUFFICES ASSUME NEW p \in Party, NEW k \in 1 .. at[p] - 1
               PROVE  Len(out[p][k]) = IF script'[k].kind = "cot" THEN 0 ELSE Len(script'[k].r)
    BY <1>1
  <2>1. k \in 1 .. Len(script) BY <1>3
  <2>2. script'[k] = script[k] BY <1>1, <2>1 DEF Prolongs
  <2> QED BY <2>2 DEF Resulted
<1>5. SameResults BY <1>1, <1>2, <1>3, <1>4 DEF SameResults
<1> QED BY <1>5, ResultsStay

(* So the three parts of the invariant that are about hashing hold. *)
LEMMA RestingHashes == ASSUME IInv, Resting
  PROVE  InTurn' /\ ToBob' /\ Resulted'
<1>1. TypeOK /\ Positions /\ InTurn /\ ToBob /\ Resulted BY Parts
<1> QED BY <1>1, RestingTurn, RestingToBob, RestingResulted

-----------------------------------------------------------------------------
(* A call begins *)

(* A party that takes no step stays where it is. *)
LEMMA OtherStays ==
  ASSUME TypeOK, Positions, NEW p \in Party, at'[p] = at[p], pc'[p] = pc[p], out'[p] = out[p],
         cot'[p] = cot[p], data'[p] = data[p], malicious' = malicious,
         Prolongs(script, script'), Len(script') \in Nat
  PROVE  PositionOf(p)'
<1>1. PositionOf(p) BY DEF Positions, Together
<1>2. at[p] \in Nat \ {0} /\ Len(script) \in Nat /\ Len(script) <= Len(script') /\ Len(cot[p]) \in Nat
  BY PartyFacts DEF Prolongs
<1>3. (Extending(p)' <=> Extending(p)) /\ (Hashing(p)' <=> Hashing(p))
  BY DEF Extending, Hashing
<1>4. Extending(p) \/ Hashing(p) => script'[at[p]] = script[at[p]]
  BY <1>1, <1>2 DEF PositionOf, Prolongs
<1>5. Extending(p) \/ Hashing(p) => Call(p)' = Call(p) /\ Length(p)' = Length(p)
  BY <1>4 DEF Call, Length
<1>6. \A k \in 1 .. Len(cot[p]) : script'[k] = script[k]
  <2>1. Len(cot[p]) <= Len(script) BY <1>1, <1>2 DEF PositionOf
  <2> QED BY <1>2, <2>1 DEF Prolongs
<1>7. \A k \in 1 .. Len(cot'[p]) : Len(cot'[p][k]) = Len(script'[k].r)
  BY <1>1, <1>6 DEF PositionOf
<1>8. /\ pc'[p] \in {"setup", "keys", "points"} => at'[p] = 1
      /\ at'[p] <= Len(script') + 1
      /\ (Extending(p) \/ Hashing(p))' => at'[p] <= Len(script')
      /\ Len(out'[p]) = at'[p] - 1
      /\ Len(cot'[p]) = IF Hashing(p)' THEN at'[p] ELSE at'[p] - 1
  <2>1. /\ pc'[p] \in {"setup", "keys", "points"} => at'[p] = 1
        /\ at'[p] <= Len(script') + 1
        /\ Len(out'[p]) = at'[p] - 1
    BY <1>1, <1>2 DEF PositionOf
  <2>2. (Extending(p) \/ Hashing(p))' => at'[p] <= Len(script')
    BY <1>1, <1>2, <1>3 DEF PositionOf
  <2>3. Len(cot'[p]) = IF Hashing(p)' THEN at'[p] ELSE at'[p] - 1
    BY <1>1, <1>3 DEF PositionOf
  <2> QED BY <2>1, <2>2, <2>3
<1>9. /\ pc'[p] \in {"extend", "hash"} => Len(data'[p]) < Length(p)'
      /\ pc'[p] \in {"extra", "check"} => malicious' /\ Len(data'[p]) = Length(p)'
      /\ Hashing(p)' => Call(p)'.kind # "cot"
  BY <1>1, <1>3, <1>5 DEF PositionOf, Extending, Hashing
<1> QED BY <1>7, <1>8, <1>9 DEF PositionOf

(* What BaseOT says stays, when the keys and what ALICE has yet to receive of the base OTs do. *)
LEMMA BaseStays ==
  ASSUME IInv, keys' = keys, secret' = secret, delta' = delta,
         \A p \in Party : pc'[p] = pc[p] \/ {pc[p], pc'[p]} \cap {"setup", "keys", "points"} = {},
         pc["BOB"] \in {"setup", "points"} => net' = net,
         pc["ALICE"] = "keys" => \A x \in 1 .. 2 * Width : net'["ALICE"][x] = net["ALICE"][x]
  PROVE  BaseOT'
<1>1. /\ BaseOT /\ Positions /\ "ALICE" \in Party /\ "BOB" \in Party
  BY Parts, TwoParties DEF Parties
<1>2. /\ pc["ALICE"] = "setup" => pc["BOB"] \in {"setup", "points"}
      /\ pc'["ALICE"] = "setup" <=> pc["ALICE"] = "setup"
      /\ pc'["ALICE"] = "keys" <=> pc["ALICE"] = "keys"
      /\ pc'["BOB"] = "setup" <=> pc["BOB"] = "setup"
      /\ pc'["BOB"] = "points" <=> pc["BOB"] = "points"
  <2>1. /\ pc'["ALICE"] = pc["ALICE"] \/ {pc["ALICE"], pc'["ALICE"]} \cap {"setup", "keys", "points"} = {}
        /\ pc'["BOB"] = pc["BOB"] \/ {pc["BOB"], pc'["BOB"]} \cap {"setup", "keys", "points"} = {}
    BY <1>1
  <2> QED BY <1>1, <2>1 DEF Positions, Together
<1>3. \A i : KeyOf(i)' = KeyOf(i) BY DEF KeyOf
<1>4. /\ pc'["BOB"] # "setup" => keys'.k0 \in Seeds /\ keys'.k1 \in Seeds
      /\ pc'["BOB"] = "setup" => net'["ALICE"] = <<>>
  BY <1>1, <1>2 DEF BaseOT
<1>5. pc'["BOB"] = "points" => \E a \in get_rand_bn :
        /\ secret'["BOB"] = <<a>>
        /\ pc'["ALICE"] = "setup" => net'["ALICE"] = <<mul_gen(a)>>
        /\ pc'["ALICE"] = "keys" => net'["ALICE"] = <<>> /\ Offered(mul_gen(a))'
  <2> SUFFICES ASSUME pc["BOB"] = "points"
               PROVE  \E a \in get_rand_bn :
                        /\ secret'["BOB"] = <<a>>
                        /\ pc'["ALICE"] = "setup" => net'["ALICE"] = <<mul_gen(a)>>
                        /\ pc'["ALICE"] = "keys" => net'["ALICE"] = <<>> /\ Offered(mul_gen(a))'
    BY <1>2
  <2>1. PICK a \in get_rand_bn : /\ secret["BOB"] = <<a>>
                                 /\ pc["ALICE"] = "setup" => net["ALICE"] = <<mul_gen(a)>>
                                 /\ pc["ALICE"] = "keys" => net["ALICE"] = <<>> /\ Offered(mul_gen(a))
    BY <1>1 DEF BaseOT
  <2>2. net' = net OBVIOUS
  <2>3. Offered(mul_gen(a)) => Offered(mul_gen(a))' BY <2>2 DEF Offered
  <2> QED BY <1>2, <2>1, <2>2, <2>3
<1>6. (pc'["ALICE"] = "keys" /\ pc'["BOB"] # "points") => \A i \in Rows :
        Opened(net'["ALICE"][2 * i + (IF i \in delta THEN 2 ELSE 1)], <<secret["ALICE"][i], i>>) = KeyOf(i)'
  <2> SUFFICES ASSUME pc["ALICE"] = "keys", pc["BOB"] # "points", NEW i \in Rows
               PROVE  Opened(net'["ALICE"][2 * i + (IF i \in delta THEN 2 ELSE 1)], <<secret["ALICE"][i], i>>) = KeyOf(i)
    BY <1>2, <1>3
  <2>1. PICK x : x = 2 * i + (IF i \in delta THEN 2 ELSE 1) OBVIOUS
  <2>2. x \in 1 .. 2 * Width BY <2>1, ConstantFacts
  <2>3. Opened(net["ALICE"][x], <<secret["ALICE"][i], i>>) = KeyOf(i)
    BY <1>1, <2>1 DEF BaseOT
  <2> QED BY <2>1, <2>2, <2>3
<1>7. pc'["ALICE"] \notin {"setup", "keys"} => keys'.a = [i \in Rows |-> KeyOf(i)']
  BY <1>1, <1>2, <1>3 DEF BaseOT
<1> QED BY <1>3, <1>4, <1>5, <1>6, <1>7 DEF BaseOT

(* Begin: the call there is, or a new one. *)
LEMMA BeginScript == ASSUME TypeOK, NEW p \in Party, Begin(p)
  PROVE  /\ script' \in Seq(Calls) /\ Prolongs(script, script') /\ Len(script') \in Nat
         /\ at[p] <= Len(script) + 1 => at[p] <= Len(script')
<1>1. script \in Seq(Calls) /\ Len(script) \in Nat /\ at[p] \in Nat \ {0}
  BY PartyFacts
<1>2. CASE at[p] <= Len(script) /\ UNCHANGED script BY <1>1, <1>2, ProlongsSelf
<1>3. CASE at[p] > Len(script) /\ \E c \in Calls : script' = Append(script, c)
  <2>1. PICK c \in Calls : script' = Append(script, c) BY <1>3
  <2>2. /\ script' \in Seq(Calls) /\ Len(script') = Len(script) + 1
        /\ \A i \in 1 .. Len(script) : script'[i] = script[i]
    BY <1>1, <2>1, AppendFacts
  <2> QED BY <1>1, <2>2 DEF Prolongs
<1> QED BY <1>2, <1>3 DEF Begin

(* A call begins: what it will need is as the last call left it. *)
LEMMA BeginInv == ASSUME IInv, NEW p \in Party, Begin(p)
  PROVE  IInv'
<1>1. /\ TypeOK /\ Positions
      /\ "ALICE" \in Party /\ "BOB" \in Party /\ \A q \in Party : q = "ALICE" \/ q = "BOB"
  BY Parts, TwoParties DEF Parties
<1>2. /\ pc[p] = "idle" /\ pc' = [pc EXCEPT ![p] = "extend"]
      /\ UNCHANGED <<base, at, net, prg, gid, start, data, local, cot, out>>
  BY DEF Begin, Goes
<1>3. /\ malicious' = malicious /\ delta' = delta /\ secret' = secret /\ keys' = keys /\ at' = at /\ net' = net
      /\ used' = used /\ place' = place /\ step' = step /\ gid' = gid /\ start' = start /\ data' = data
      /\ local' = local /\ cot' = cot /\ out' = out
  BY <1>2 DEF base, prg
<1>4. /\ script' \in Seq(Calls) /\ Prolongs(script, script') /\ Len(script') \in Nat
      /\ at[p] <= Len(script) + 1 => at[p] <= Len(script')
  BY <1>1, BeginScript
<1>5. /\ pc \in [Party -> {"setup", "points", "keys", "idle", "extend", "extra", "check",
                           "start", "hash", "error"}]
      /\ at[p] \in Nat \ {0} /\ cot \in [Party -> Seq(Blocks)]
  BY <1>1, PartyFacts
<1>6. pc'[p] = "extend" /\ \A q \in Party : q # p => pc'[q] = pc[q]
  BY <1>2, <1>5
<1>7. data[p] = <<>> BY <1>1, <1>2 DEF TypeOK, Extending
<1>8. TypeOK'
  <2>1. /\ pc' \in [Party -> {"setup", "points", "keys", "idle", "extend", "extra", "check",
                              "start", "hash", "error"}]
        /\ script' \in Seq(Calls)
    BY <1>2, <1>4, <1>5
  <2>2. <<>> \in Blocks BY EmptySeq DEF Blocks
  <2>3. /\ \A q \in Party : Extending(q)' => data'[q] \in Blocks
        /\ pc'["ALICE"] = "hash" => data'["ALICE"] \in Seq(Pair)
        /\ pc'["BOB"] = "hash" => data'["BOB"] \in Seq(Plain \cup Pad)
        /\ \A q \in Party : ~Extending(q)' /\ pc'[q] # "hash" /\ pc'[q] # "error" => data'[q] = <<>>
    <3>1. \A q \in Party : q # p => (Extending(q)' <=> Extending(q))
      BY <1>6 DEF Extending
    <3>2. /\ pc'["ALICE"] = "hash" => data'["ALICE"] \in Seq(Pair)
          /\ pc'["BOB"] = "hash" => data'["BOB"] \in Seq(Plain \cup Pad)
      BY <1>1, <1>3, <1>6 DEF TypeOK
    <3>3. \A q \in Party : Extending(q)' => data'[q] \in Blocks
      BY <1>1, <1>3, <1>7, <2>2, <3>1 DEF TypeOK
    <3>4. \A q \in Party : ~Extending(q)' /\ pc'[q] # "hash" /\ pc'[q] # "error" => data'[q] = <<>>
      BY <1>1, <1>3, <1>6, <1>7, <3>1 DEF TypeOK
    <3> QED BY <3>2, <3>3, <3>4
  <2> QED BY <1>1, <1>3, <2>1, <2>3 DEF TypeOK
<1>9. Positions'
  <2>1. PositionOf(p)'
    <3>1. PositionOf(p) BY <1>1 DEF Positions, Together
    <3>2. /\ at'[p] <= Len(script') /\ Len(out'[p]) = at'[p] - 1 /\ Len(cot'[p]) = at'[p] - 1
          /\ ~Hashing(p)'
      BY <1>2, <1>3, <1>4, <1>6, <3>1 DEF PositionOf, Hashing
    <3>3. Len(data'[p]) < Length(p)'
      <4>1. at[p] \in 1 .. Len(script') BY <1>3, <1>4, <1>5, <3>2
      <4>2. script'[at[p]] \in Calls BY <1>4, <4>1, SeqAt
      <4>3. script'[at[p]].r \in Seq(BOOLEAN) /\ script'[at[p]].r # <<>>
        BY <4>2, OTAssumption
      <4>4. Len(script'[at[p]].r) \in Nat \ {0} BY <4>3, EmptySeq, LenProperties
      <4>5. Length(p)' = Len(script'[at[p]].r) BY <1>3 DEF Length, Call
      <4> QED BY <1>3, <1>7, <4>4, <4>5, EmptySeq
    <3>4. \A k \in 1 .. Len(cot'[p]) : Len(cot'[p][k]) = Len(script'[k].r)
      <4>1. \A k \in 1 .. Len(cot[p]) : Len(cot[p][k]) = Len(script[k].r)
        BY <3>1 DEF PositionOf
      <4>2. Len(cot[p]) <= Len(script)
        <5>1. PICK a \in Nat, b \in Nat : a = at[p] /\ b = Len(script)
          BY <1>1, <1>5, PartyFacts
        <5>2. a <= b + 1 BY <3>1, <5>1 DEF PositionOf
        <5>3. Len(cot[p]) = a - 1 BY <1>3, <3>2, <5>1
        <5> QED BY <5>1, <5>2, <5>3
      <4>3. \A k \in 1 .. Len(cot[p]) : script'[k] = script[k]
        BY <1>1, <1>4, <4>2, PartyFacts DEF Prolongs
      <4> QED BY <1>3, <4>1, <4>3
    <3>5. at'[p] <= Len(script') + 1 BY <1>3, <1>4, <1>5, <3>2
    <3>6. Len(cot'[p]) = IF Hashing(p)' THEN at'[p] ELSE at'[p] - 1 BY <3>2
    <3>7. pc'[p] \notin {"setup", "keys", "points", "hash", "extra", "check"}
      BY <1>6
    <3> QED BY <3>2, <3>3, <3>4, <3>5, <3>6, <3>7 DEF PositionOf
  <2>2. \A q \in Party : q # p => PositionOf(q)'
    BY <1>1, <1>3, <1>4, <1>6, OtherStays
  <2>3. /\ pc'["ALICE"] # "points" /\ pc'["BOB"] # "keys" /\ pc'["BOB"] # "error" /\ pc'["ALICE"] # "error"
        /\ pc'["BOB"] \in {"setup", "points"} => pc'["ALICE"] \in {"setup", "keys"}
        /\ pc'["ALICE"] = "keys" => pc'["BOB"] # "setup"
        /\ pc'["ALICE"] = "setup" => pc'["BOB"] \in {"setup", "points"}
    BY <1>1, <1>2, <1>6 DEF Positions, Together
  <2> QED BY <2>1, <2>2, <2>3 DEF Positions, Together
<1>10. BaseOT' BY <1>2, <1>3, <1>6, BaseStays
<1>11. Quiet
  <2>1. Before' = Before BY <1>1, <1>2, <1>6 DEF Before
  <2>2. Before \in Nat /\ Len(net["ALICE"]) \in Nat
    BY <1>1, ConstantFacts, PartyFacts DEF Before
  <2>3. \A n, x : Sent(n, x)' = Sent(n, x) BY <1>3, <2>1 DEF Sent
  <2>4. \A q \in Party : Still(q) BY <1>2, <1>3, <1>6, <1>7 DEF Still, Extending
  <2>5. Len(net'["ALICE"]) = Before' + (Len(net["ALICE"]) - Before)
    BY <1>3, <2>1, <2>2
  <2> QED BY <1>3, <1>4, <2>1, <2>2, <2>3, <2>4, <2>5 DEF Quiet
<1>12. Resting
  <2>1. \A q \in Party : /\ Prolongs(cot[q], cot'[q])
                         /\ pc'[q] = "hash" <=> pc[q] = "hash"
                         /\ pc[q] = "hash" => data'[q] = data[q]
    <3>1. \A q \in Party : Prolongs(cot[q], cot'[q])
      BY <1>1, <1>3, PartyFacts, ProlongsSelf
    <3> QED BY <1>2, <1>3, <1>6, <3>1
  <2>2. (~Hashing("BOB") /\ ~(pc'["BOB"] = "points" /\ pc'["ALICE"] = "keys")) => net'["BOB"] = <<>>
    <3>1. pc'["BOB"] = "points" <=> pc["BOB"] = "points" BY <1>1, <1>2, <1>6
    <3>2. pc'["ALICE"] = "keys" <=> pc["ALICE"] = "keys" BY <1>1, <1>2, <1>6
    <3> QED BY <1>3, <3>1, <3>2, Parts DEF ToBob
  <2>3. pc'["BOB"] = "start" <=> pc["BOB"] = "start" BY <1>1, <1>2, <1>6
  <2>4. Past => pc'["ALICE"] # "start"
    <3>1. pc'["ALICE"] = "start" <=> pc["ALICE"] = "start" BY <1>1, <1>2, <1>6
    <3> QED BY <3>1, Parts DEF InTurn, Hashing
  <2> QED BY <1>3, <1>4, <1>5, <2>1, <2>2, <2>3, <2>4 DEF Resting
<1> QED
  BY <1>8, <1>9, <1>10, <1>11, <1>12, QuietExtensions, RestingHashes DEF IInv

-----------------------------------------------------------------------------
(* The base OTs *)

(* Until BOB is done with them no step of an extension has been made. *)
LEMMA FirstPlace == ASSUME TypeOK, Positions, Places, pc["BOB"] \in {"setup", "points"}
  PROVE  Len(place) = 1 /\ step = 1
<1>1. Len(cot["BOB"]) = 0 /\ ~Extending("BOB") /\ Phase("BOB") = "extend"
  BY TwoParties DEF Positions, Together, PositionOf, Parties, Hashing, Extending, Phase
<1>2. Last.k = 1 /\ Last.phase = "extend" /\ Last.done = 0
  BY <1>1 DEF Places, IsAt, OTs
<1>3. Len(place) \in Nat \ {0} /\ step \in 1 .. Len(place) /\ place[Len(place)] = Last
  BY AtPlace
<1>4. CASE Len(place) > 1
  <2>1. Earlier(place[1], Last) BY <1>3, <1>4 DEF Places
  <2>2. place[1].k = 1 /\ place[1].phase = "extend" /\ place[1].done = 0
    BY DEF Places, First
  <2> QED BY <1>2, <2>1, <2>2 DEF Earlier, Rank
<1>5. PICK l \in Nat \ {0} : l = Len(place) BY <1>3
<1> QED BY <1>3, <1>4, <1>5

(* A step of the base OTs, once what is particular to it is known *)
LEMMA SetupInv ==
  ASSUME IInv, NEW p \in Party, NEW there \in {"setup", "points", "keys"}, NEW next \in {"points", "keys", "idle"},
         Setup(p, there, next), Together', BaseOT', Streamed,
         net' \in [Party -> Seq(Stuff)],
         secret' \in [Party -> {<<>>} \cup {<<a>> : a \in get_rand_bn} \cup [Rows -> get_rand_bn]],
         keys' \in [a : {<<>>} \cup [Rows -> Seed], k0 : {<<>>} \cup Seeds, k1 : {<<>>} \cup Seeds],
         Len(place) = 1 \/ (keys'.k0 = keys.k0 /\ keys'.k1 = keys.k1),
         Hashing("BOB") => net'["BOB"] = net["BOB"],
         (~Hashing("BOB") /\ ~(pc'["BOB"] = "points" /\ pc'["ALICE"] = "keys")) => net'["BOB"] = <<>>
  PROVE  IInv'
<1>1. /\ TypeOK /\ Positions
      /\ "ALICE" \in Party /\ "BOB" \in Party /\ \A q \in Party : q = "ALICE" \/ q = "BOB"
  BY Parts, TwoParties DEF Parties
<1>2. /\ pc[p] = there /\ pc' = [pc EXCEPT ![p] = next]
      /\ UNCHANGED <<malicious, delta, script, at, prg, gid, start, data, local, cot, out>>
  BY DEF Setup, Goes
<1>3. /\ malicious' = malicious /\ delta' = delta /\ script' = script /\ at' = at
      /\ used' = used /\ place' = place /\ step' = step /\ gid' = gid /\ start' = start /\ data' = data
      /\ local' = local /\ cot' = cot /\ out' = out
  BY <1>2 DEF prg
<1>4. /\ pc \in [Party -> {"setup", "points", "keys", "idle", "extend", "extra", "check",
                           "start", "hash", "error"}]
      /\ at[p] \in Nat \ {0} /\ cot \in [Party -> Seq(Blocks)]
      /\ script \in Seq(Calls) /\ Len(script) \in Nat
  BY <1>1, PartyFacts
<1>5. pc'[p] = next /\ \A q \in Party : q # p => pc'[q] = pc[q] BY <1>2, <1>4
<1>6. \A q \in Party : (Extending(q)' <=> Extending(q)) /\ (Hashing(q)' <=> Hashing(q))
  BY <1>2, <1>5 DEF Extending, Hashing
<1>7. data[p] = <<>> BY <1>1, <1>2 DEF TypeOK, Extending
<1>8. Prolongs(script, script') BY <1>3, <1>4, ProlongsSelf
<1>9. TypeOK'
  <2>1. pc' \in [Party -> {"setup", "points", "keys", "idle", "extend", "extra", "check",
                              "start", "hash", "error"}]
    BY <1>2, <1>4
  <2>2. /\ pc'["ALICE"] = "hash" => data'["ALICE"] \in Seq(Pair)
        /\ pc'["BOB"] = "hash" => data'["BOB"] \in Seq(Plain \cup Pad)
    BY <1>1, <1>3, <1>5 DEF TypeOK
  <2>3. \A q \in Party : Extending(q)' => data'[q] \in Blocks
    BY <1>1, <1>3, <1>6 DEF TypeOK
  <2>4. \A q \in Party : ~Extending(q)' /\ pc'[q] # "hash" /\ pc'[q] # "error" => data'[q] = <<>>
    BY <1>1, <1>3, <1>5, <1>6, <1>7 DEF TypeOK
  <2> QED BY <1>1, <1>3, <2>1, <2>2, <2>3, <2>4 DEF TypeOK
<1>10. Positions'
  <2>1. PositionOf(p)'
    <3>1. PositionOf(p) BY <1>1 DEF Positions
    <3>2. Call(p)' = Call(p) /\ Length(p)' = Length(p) BY <1>3 DEF Call, Length
    <3>3. at[p] = 1 BY <1>2, <3>1 DEF PositionOf
    <3>4. pc'[p] \notin {"extend", "hash", "extra", "check"} BY <1>5
    <3> QED BY <1>3, <1>6, <3>1, <3>2, <3>3, <3>4 DEF PositionOf
  <2>2. \A q \in Party : q # p => PositionOf(q)'
    BY <1>1, <1>3, <1>4, <1>5, <1>8, OtherStays
  <2> QED BY <2>1, <2>2 DEF Positions
<1>11. Quiet
  <2>1. \A q \in Party : Still(q) BY <1>3, <1>2, <1>5, <1>6 DEF Still, Extending
  <2> QED BY <1>3, <1>4, <1>8, <2>1 DEF Quiet, Streamed
<1>12. Resting
  <2>1. \A q \in Party : /\ Prolongs(cot[q], cot'[q])
                         /\ pc'[q] = "hash" <=> pc[q] = "hash"
                         /\ pc[q] = "hash" => data'[q] = data[q]
    <3>1. \A q \in Party : Prolongs(cot[q], cot'[q])
      BY <1>1, <1>3, PartyFacts, ProlongsSelf
    <3> QED BY <1>2, <1>3, <1>5, <3>1
  <2>3. pc'["BOB"] = "start" <=> pc["BOB"] = "start" BY <1>1, <1>2, <1>5
  <2>4. Past => pc'["ALICE"] # "start"
    <3>1. pc'["ALICE"] = "start" <=> pc["ALICE"] = "start" BY <1>1, <1>2, <1>5
    <3> QED BY <3>1, Parts DEF InTurn, Hashing
  <2> QED BY <1>3, <1>4, <1>8, <2>1, <2>3, <2>4 DEF Resting
<1> QED BY <1>9, <1>10, <1>11, <1>12, QuietExtensions, RestingHashes DEF IInv

(* BOB's point reaches a sender that has had nothing. *)
LEMMA BobOffersInv == ASSUME IInv, BobOffers
  PROVE  IInv'
<1>1. /\ TypeOK /\ Positions /\ Together /\ Places /\ BaseOT /\ ToBob
      /\ "ALICE" \in Party /\ "BOB" \in Party
  BY Parts, TwoParties DEF Parties, Positions
<1>2. PICK a \in get_rand_bn, k0 \in Seeds, k1 \in Seeds :
        /\ Setup("BOB", "setup", "points")
        /\ secret' = [secret EXCEPT !["BOB"] = <<a>>]
        /\ keys' = [keys EXCEPT !.k0 = k0, !.k1 = k1]
        /\ Sends("BOB", <<mul_gen(a)>>)
  BY DEF BobOffers
<1>3. /\ pc["BOB"] = "setup" /\ pc["ALICE"] = "setup" /\ net["ALICE"] = <<>>
      /\ pc'["BOB"] = "points" /\ pc'["ALICE"] = "setup"
  BY <1>1, <1>2, PartyFacts DEF Setup, Goes, Together, BaseOT
<1>4. mul_gen(a) \in Stuff BY OwnPoint DEF Stuff
<1>5. net' = [net EXCEPT !["ALICE"] = <<>> \o <<mul_gen(a)>>]
  BY <1>1, <1>2, <1>3, PeerFacts DEF Sends
<1>6. net \in [Party -> Seq(Stuff)] /\ <<>> \o <<mul_gen(a)>> = <<mul_gen(a)>> /\ <<mul_gen(a)>> \in Seq(Stuff)
  BY <1>1, <1>4, PartyFacts, OneFacts
<1>7. net' \in [Party -> Seq(Stuff)] /\ net'["ALICE"] = <<mul_gen(a)>> /\ net'["BOB"] = net["BOB"]
  BY <1>1, <1>5, <1>6
<1>8. Together' BY <1>3 DEF Together
<1>9. keys' \in [a : {<<>>} \cup [Rows -> Seed], k0 : {<<>>} \cup Seeds, k1 : {<<>>} \cup Seeds]
      /\ keys'.k0 = k0 /\ keys'.k1 = k1
  <2>1. keys \in [a : {<<>>} \cup [Rows -> Seed], k0 : {<<>>} \cup Seeds, k1 : {<<>>} \cup Seeds]
    BY <1>1 DEF TypeOK
  <2> QED BY <1>2, <2>1
<1>10. secret' \in [Party -> {<<>>} \cup {<<b>> : b \in get_rand_bn} \cup [Rows -> get_rand_bn]]
       /\ secret'["BOB"] = <<a>>
  <2>1. secret \in [Party -> {<<>>} \cup {<<b>> : b \in get_rand_bn} \cup [Rows -> get_rand_bn]]
    BY <1>1 DEF TypeOK
  <2> QED BY <1>1, <1>2, <2>1
<1>11. BaseOT' BY <1>3, <1>7, <1>9, <1>10 DEF BaseOT
<1>12. Len(place) = 1 /\ step = 1 BY <1>1, <1>3, FirstPlace
<1>13. Streamed
  <2>1. Before = 0 /\ Before' = 1 BY <1>3 DEF Before
  <2>2. Len(net["ALICE"]) = 0 /\ Len(net'["ALICE"]) = 1 BY <1>3, <1>7
  <2> QED BY <1>12, <2>1, <2>2 DEF Streamed
<1>14. ~Hashing("BOB") /\ net["BOB"] = <<>> BY <1>1, <1>3 DEF Hashing, ToBob
<1> QED
  BY <1>1, <1>2, <1>7, <1>8, <1>9, <1>10, <1>11, <1>12, <1>13, <1>14, SetupInv

(* ALICE's points are as many as the rows, and each keeps her choice. *)
LEMMA AliceChoosesInv == ASSUME IInv, AliceChooses
  PROVE  IInv'
<1>1. /\ TypeOK /\ Positions /\ Together /\ Places /\ BaseOT /\ ToBob
      /\ "ALICE" \in Party /\ "BOB" \in Party
  BY Parts, TwoParties DEF Parties, Positions
<1> PICK A : A = net["ALICE"][1] OBVIOUS
<1> DEFINE B(bb, i) == IF i \in delta THEN add(mul_gen(bb[i]), A) ELSE mul_gen(bb[i])
<1>2. PICK bb \in Exponents :
        /\ Setup("ALICE", "setup", "keys")
        /\ Arrived("ALICE", 1)
        /\ secret' = [secret EXCEPT !["ALICE"] = [i \in Rows |-> mul(A, bb[i])]]
        /\ net' = [net EXCEPT !["ALICE"] = Tail(@), !["BOB"] = @ \o [j \in 1 .. Width |-> B(bb, j - 1)]]
        /\ UNCHANGED keys
  BY DEF AliceChooses
<1> DEFINE sent == [j \in 1 .. Width |-> B(bb, j - 1)]
<1>3. net["ALICE"] # <<>> BY <1>2 DEF Arrived
<1>4. /\ pc["ALICE"] = "setup" /\ pc["BOB"] = "points"
      /\ pc'["ALICE"] = "keys" /\ pc'["BOB"] = "points"
  BY <1>1, <1>2, <1>3, PartyFacts DEF Setup, Goes, Together, BaseOT
<1>5. PICK a \in get_rand_bn : secret["BOB"] = <<a>> /\ net["ALICE"] = <<mul_gen(a)>>
  BY <1>1, <1>4 DEF BaseOT
<1>6. A = mul_gen(a) /\ A \in Nat /\ A \in get_rand_bn BY <1>5, OwnPoint
<1>7. \A i \in Rows : /\ bb[i] \in get_rand_bn /\ mul(A, bb[i]) \in get_rand_bn
                      /\ B(bb, i) \in Nat
  <2> SUFFICES ASSUME NEW i \in Rows
               PROVE  /\ bb[i] \in get_rand_bn /\ mul(A, bb[i]) \in get_rand_bn
                      /\ B(bb, i) \in Nat
    OBVIOUS
  <2>1. bb[i] \in get_rand_bn BY OTAssumption DEF get_rand_bn
  <2>2. PICK b \in Nat, m \in Nat \ {0} : b = bb[i] /\ m = Order /\ mul_gen(bb[i]) = b
    BY <2>1, OwnPoint
  <2>3. \A x \in Int : x % m \in 0 .. m - 1 BY <2>2, ByRemainder
  <2>4. A * b \in Int /\ b + A \in Int BY <1>6, <2>2
  <2>5. (A * b) % m \in 0 .. m - 1 /\ (b + A) % m \in Nat
    <3>1. PICK x \in Int, y \in Int : x = A * b /\ y = b + A BY <2>4
    <3>2. x % m \in 0 .. m - 1 /\ y % m \in 0 .. m - 1 BY <2>3
    <3> QED BY <3>1, <3>2
  <2> QED BY <2>1, <2>2, <2>5 DEF mul, add, get_rand_bn
<1> HIDE DEF B
<1>8. sent \in Seq(Stuff) /\ Len(sent) = Width /\ \A i \in Rows : sent[i + 1] = B(bb, i)
  <2>1. Width \in Nat \ {0} BY ConstantFacts
  <2>2. \A j \in 1 .. Width : j - 1 \in Rows BY <2>1 DEF Rows
  <2>3. sent \in [1 .. Width -> Stuff] BY <1>7, <2>2 DEF Stuff
  <2>4. \A i \in Rows : sent[i + 1] = B(bb, i)
    <3> SUFFICES ASSUME NEW i \in Rows PROVE sent[i + 1] = B(bb, i) OBVIOUS
    <3>1. i + 1 \in 1 .. Width /\ (i + 1) - 1 = i BY <2>1 DEF Rows
    <3>2. sent[i + 1] = B(bb, (i + 1) - 1) BY <3>1
    <3> QED BY <3>1, <3>2
  <2> QED BY <2>1, <2>3, <2>4, FunSeq
<1> HIDE DEF sent
<1>9. net["BOB"] = <<>> /\ ~Hashing("BOB") BY <1>1, <1>4 DEF ToBob, Hashing
<1>10. /\ net' \in [Party -> Seq(Stuff)] /\ net'["ALICE"] = <<>> /\ net'["BOB"] = sent
  <2>1. net \in [Party -> Seq(Stuff)] BY <1>1, PartyFacts
  <2>2. net' = [net EXCEPT !["ALICE"] = Tail(net["ALICE"]), !["BOB"] = net["BOB"] \o sent]
    BY <1>2, <2>1 DEF sent, B
  <2>3. <<>> \o sent = sent /\ Tail(<<mul_gen(a)>>) = <<>> /\ <<>> \in Seq(Stuff)
    BY <1>8
  <2> QED BY <1>5, <1>8, <1>9, <2>1, <2>2, <2>3, <1>1
<1>11. /\ secret' \in [Party -> {<<>>} \cup {<<b>> : b \in get_rand_bn} \cup [Rows -> get_rand_bn]]
       /\ secret'["BOB"] = <<a>> /\ \A i \in Rows : secret'["ALICE"][i] = mul(A, bb[i])
  <2>1. secret \in [Party -> {<<>>} \cup {<<b>> : b \in get_rand_bn} \cup [Rows -> get_rand_bn]]
    BY <1>1 DEF TypeOK
  <2>2. [i \in Rows |-> mul(A, bb[i])] \in [Rows -> get_rand_bn] BY <1>7
  <2> QED BY <1>1, <1>2, <1>5, <2>1, <2>2
<1>12. delta' = delta BY <1>2 DEF Setup
<1>13. Offered(mul_gen(a))'
  <2>1. \A i \in Rows : /\ secret'["ALICE"][i] = mul(mul_gen(a), bb[i])
                        /\ net'["BOB"][i + 1] = IF i \in delta THEN add(mul_gen(bb[i]), mul_gen(a)) ELSE mul_gen(bb[i])
    BY <1>6, <1>8, <1>10, <1>11 DEF B
  <2> QED BY <1>8, <1>10, <1>12, <2>1 DEF Offered
<1>14. BaseOT'
  <2>1. keys' = keys BY <1>2
  <2> QED BY <1>1, <1>4, <1>10, <1>11, <1>13, <2>1 DEF BaseOT
<1>15. Together' BY <1>4 DEF Together
<1>16. Len(place) = 1 /\ step = 1 BY <1>1, <1>4, FirstPlace
<1>17. Streamed
  <2>1. Before = 1 /\ Before' = 0 BY <1>4 DEF Before
  <2>2. Len(net["ALICE"]) = 1 /\ Len(net'["ALICE"]) = 0 BY <1>5, <1>10
  <2> QED BY <1>16, <2>1, <2>2 DEF Streamed
<1>18. keys' = keys /\ keys' \in [a : {<<>>} \cup [Rows -> Seed], k0 : {<<>>} \cup Seeds, k1 : {<<>>} \cup Seeds]
  BY <1>1, <1>2 DEF TypeOK
<1> QED
  BY <1>1, <1>2, <1>4, <1>9, <1>10, <1>11, <1>14, <1>15, <1>17, <1>18, SetupInv

(* A product and a sum of points are points. *)
LEMMA PointTyped == ASSUME NEW P \in get_rand_bn, NEW n \in get_rand_bn
  PROVE  mul(P, n) \in get_rand_bn /\ add(P, n) \in get_rand_bn /\ inv(P) \in get_rand_bn
<1>1. P \in Nat /\ n \in Nat /\ Order \in Nat \ {0} BY OwnPoint
<1>2. PICK x \in Int, y \in Int, z \in Int : x = P * n /\ y = P + n /\ z = Order - P
  BY <1>1
<1>3. x % Order \in 0 .. Order - 1 /\ y % Order \in 0 .. Order - 1 /\ z % Order \in 0 .. Order - 1
  BY <1>1, ByRemainder
<1> QED BY <1>2, <1>3 DEF mul, add, inv, get_rand_bn

(* Each row's seeds are sealed with points one of which is ALICE's, the one she chose. *)
LEMMA BobSealsInv == ASSUME IInv, BobSeals
  PROVE  IInv'
<1>1. /\ TypeOK /\ Positions /\ Together /\ Places /\ BaseOT /\ ToBob
      /\ "ALICE" \in Party /\ "BOB" \in Party
  BY Parts, TwoParties DEF Parties, Positions
<1>2. net \in [Party -> Seq(Stuff)] BY <1>1, PartyFacts
<1> PICK b : b = secret["BOB"][1] OBVIOUS
<1> DEFINE AaInv == inv(mul(mul_gen(b), b))
           B(i) == mul(net["BOB"][i + 1], b)
           res(i) == << Sealed(<<B(i), i>>, keys.k0[i]), Sealed(<<add(B(i), AaInv), i>>, keys.k1[i]) >>
           sent == [j \in 1 .. 2 * Width |-> res((j - 1) \div 2)[((j - 1) % 2) + 1]]
<1>3. /\ Setup("BOB", "points", "idle")
      /\ Arrived("BOB", Width)
      /\ net' = [net EXCEPT !["BOB"] = SubSeq(net["BOB"], Width + 1, Len(net["BOB"])), !["ALICE"] = net["ALICE"] \o sent]
      /\ secret' = [secret EXCEPT !["BOB"] = <<>>]
      /\ UNCHANGED keys
  BY <1>2 DEF BobSeals
<1>4. pc["BOB"] = "points" /\ delta' = delta /\ keys' = keys BY <1>3 DEF Setup
<1>5. net["BOB"] # <<>> BY <1>3, ConstantFacts DEF Arrived
<1>6. /\ pc["ALICE"] = "keys" /\ pc'["ALICE"] = "keys" /\ pc'["BOB"] = "idle"
      /\ ~Hashing("BOB")
  BY <1>1, <1>3, <1>4, <1>5, PartyFacts DEF ToBob, Hashing, Setup, Goes
<1>7. PICK a \in get_rand_bn : secret["BOB"] = <<a>> /\ net["ALICE"] = <<>> /\ Offered(mul_gen(a))
  BY <1>1, <1>4, <1>6 DEF BaseOT
<1>8. b = a /\ mul_gen(a) = a BY <1>7, OwnPoint
<1>9. /\ Len(net["BOB"]) = Width
      /\ \E bb \in Exponents : \A i \in Rows :
           /\ secret["ALICE"][i] = mul(mul_gen(a), bb[i])
           /\ net["BOB"][i + 1] = IF i \in delta THEN add(mul_gen(bb[i]), mul_gen(a)) ELSE mul_gen(bb[i])
  BY <1>7 DEF Offered
<1>10. PICK bb \in Exponents : \A i \in Rows :
           /\ secret["ALICE"][i] = mul(mul_gen(a), bb[i])
           /\ net["BOB"][i + 1] = IF i \in delta THEN add(mul_gen(bb[i]), mul_gen(a)) ELSE mul_gen(bb[i])
  BY <1>9
<1>11. \A i \in Rows : bb[i] \in get_rand_bn /\ mul_gen(bb[i]) = bb[i]
  <2>1. \A i \in Rows : bb[i] \in get_rand_bn BY OTAssumption DEF get_rand_bn
  <2> QED BY <2>1, OwnPoint
<1>12. \A i \in Rows : net["BOB"][i + 1] \in get_rand_bn
  BY <1>8, <1>10, <1>11, PointTyped
<1>13. \A i \in Rows : B(i) \in get_rand_bn /\ add(B(i), AaInv) \in get_rand_bn
  <2>1. AaInv \in get_rand_bn BY <1>8, PointTyped
  <2>2. \A i \in Rows : B(i) \in get_rand_bn BY <1>8, <1>12, PointTyped
  <2> HIDE DEF AaInv, B
  <2> QED BY <2>1, <2>2, PointTyped
<1>14. \A i \in Rows : /\ i \in delta => add(B(i), AaInv) = secret["ALICE"][i]
                       /\ i \notin delta => B(i) = secret["ALICE"][i]
  <2> SUFFICES ASSUME NEW i \in Rows
               PROVE  /\ i \in delta => add(B(i), AaInv) = secret["ALICE"][i]
                      /\ i \notin delta => B(i) = secret["ALICE"][i]
    OBVIOUS
  <2>1. bb[i] \in get_rand_bn BY <1>11
  <2>2. /\ add(mul(add(mul_gen(bb[i]), mul_gen(a)), a), inv(mul(mul_gen(a), a))) = mul(mul_gen(a), bb[i])
        /\ mul(mul_gen(bb[i]), a) = mul(mul_gen(a), bb[i])
    BY <2>1, FirstPad, SecondPad
  <2> QED BY <1>8, <1>10, <2>2
<1> HIDE DEF B, AaInv
<1>15. keys.k0 \in Seeds /\ keys.k1 \in Seeds BY <1>1, <1>4 DEF BaseOT
<1>16. \A i \in Rows : res(i)[1] \in Stuff /\ res(i)[2] \in Stuff
  <2> SUFFICES ASSUME NEW i \in Rows PROVE res(i)[1] \in Stuff /\ res(i)[2] \in Stuff
    OBVIOUS
  <2>1. keys.k0[i] \in Plain /\ keys.k1[i] \in Plain
    BY <1>15, OTAssumption DEF Plain, Seed
  <2>2. <<B(i), i>> \in Pad /\ <<add(B(i), AaInv), i>> \in Pad
    BY <1>13 DEF get_rand_bn, Pad
  <2> QED BY <2>1, <2>2 DEF Sealed, Stuff
<1>17. /\ sent \in Seq(Stuff) /\ Len(sent) = 2 * Width
       /\ \A i \in Rows : sent[2 * i + 1] = res(i)[1] /\ sent[2 * i + 2] = res(i)[2]
  <2>1. \A j \in 1 .. 2 * Width : (j - 1) \div 2 \in Rows /\ ((j - 1) % 2) + 1 \in {1, 2}
    BY ConstantFacts DEF Rows
  <2>2. sent \in [1 .. 2 * Width -> Stuff]
    <3> HIDE DEF res
    <3> SUFFICES ASSUME NEW j \in 1 .. 2 * Width PROVE res((j - 1) \div 2)[((j - 1) % 2) + 1] \in Stuff
      OBVIOUS
    <3>1. PICK i \in Rows, c \in {1, 2} : i = (j - 1) \div 2 /\ c = ((j - 1) % 2) + 1
      BY <2>1
    <3> QED BY <1>16, <3>1
  <2>3. ASSUME NEW i \in Rows, NEW c \in {1, 2}
        PROVE  sent[2 * i + c] = res(i)[c]
    <3>1. i \in 0 .. Width - 1 /\ Width \in Nat /\ c \in 1 .. 2
      BY ConstantFacts DEF Rows
    <3>2. i * 2 + c \in 1 .. Width * 2 /\ (i * 2 + c - 1) \div 2 = i /\ ((i * 2 + c - 1) % 2) + 1 = c
      BY <3>1, RowMajor
    <3>3. PICK x \in 1 .. 2 * Width : x = 2 * i + c BY <3>1, <3>2
    <3>4. (x - 1) \div 2 = i /\ ((x - 1) % 2) + 1 = c BY <3>1, <3>2, <3>3
    <3> HIDE DEF res
    <3>5. sent[x] = res((x - 1) \div 2)[((x - 1) % 2) + 1] OBVIOUS
    <3> QED BY <3>3, <3>4, <3>5
  <2> HIDE DEF sent, res
  <2>4. \A i \in Rows : sent[2 * i + 1] = res(i)[1] /\ sent[2 * i + 2] = res(i)[2]
    BY <2>3
  <2> QED BY <2>2, <2>4, ConstantFacts, FunSeq
<1> HIDE DEF sent
<1>18. net' \in [Party -> Seq(Stuff)] /\ net'["ALICE"] = sent /\ net'["BOB"] = <<>>
  <2>1. /\ SubSeq(net["BOB"], Width + 1, Width + 0) \in Seq(Stuff)
        /\ Len(SubSeq(net["BOB"], Width + 1, Width + 0)) = 0
    BY ConstantFacts, SubSeqFacts
  <2>2. Width + 0 = Len(net["BOB"]) BY <1>9, ConstantFacts
  <2>3. SubSeq(net["BOB"], Width + 1, Len(net["BOB"])) = <<>> /\ <<>> \in Seq(Stuff)
    BY <2>1, <2>2, EmptySeq
  <2>4. <<>> \o sent = sent BY <1>17
  <2> QED BY <1>1, <1>2, <1>3, <1>7, <1>17, <2>3, <2>4
<1>19. secret' \in [Party -> {<<>>} \cup {<<c>> : c \in get_rand_bn} \cup [Rows -> get_rand_bn]]
       /\ secret'["ALICE"] = secret["ALICE"]
  <2>1. secret \in [Party -> {<<>>} \cup {<<c>> : c \in get_rand_bn} \cup [Rows -> get_rand_bn]]
    BY <1>1 DEF TypeOK
  <2> QED BY <1>1, <1>3, <2>1
<1>20. \A i \in Rows : Opened(net'["ALICE"][2 * i + (IF i \in delta THEN 2 ELSE 1)], <<secret'["ALICE"][i], i>>) = KeyOf(i)
  <2> SUFFICES ASSUME NEW i \in Rows
               PROVE  Opened(sent[2 * i + (IF i \in delta THEN 2 ELSE 1)], <<secret["ALICE"][i], i>>) = KeyOf(i)
    BY <1>18, <1>19
  <2>1. CASE i \in delta
    <3>1. sent[2 * i + (IF i \in delta THEN 2 ELSE 1)] = Sealed(<<secret["ALICE"][i], i>>, keys.k1[i])
      BY <1>14, <1>17, <2>1
    <3> QED BY <2>1, <3>1 DEF Opened, Sealed, KeyOf
  <2>2. CASE i \notin delta
    <3>1. sent[2 * i + (IF i \in delta THEN 2 ELSE 1)] = Sealed(<<secret["ALICE"][i], i>>, keys.k0[i])
      BY <1>14, <1>17, <2>2
    <3> QED BY <2>2, <3>1 DEF Opened, Sealed, KeyOf
  <2> QED BY <2>1, <2>2
<1>21. BaseOT'
  <2>1. \A i : KeyOf(i)' = KeyOf(i) BY <1>4 DEF KeyOf
  <2> QED BY <1>4, <1>6, <1>15, <1>20, <2>1 DEF BaseOT
<1>22. Together' BY <1>6 DEF Together
<1>23. Len(place) = 1 /\ step = 1 BY <1>1, <1>4, FirstPlace
<1>24. Streamed
  <2>1. Before = 0 /\ Before' = 2 * Width BY <1>4, <1>6 DEF Before
  <2>2. Len(net["ALICE"]) = 0 /\ Len(net'["ALICE"]) = 2 * Width
    BY <1>7, <1>17, <1>18
  <2> QED BY <1>23, <2>1, <2>2, ConstantFacts DEF Streamed
<1>25. keys' \in [a : {<<>>} \cup [Rows -> Seed], k0 : {<<>>} \cup Seeds, k1 : {<<>>} \cup Seeds]
  BY <1>1, <1>4 DEF TypeOK
<1> QED
  BY <1>1, <1>3, <1>6, <1>18, <1>19, <1>21, <1>22, <1>23, <1>24, <1>25, SetupInv

(* ALICE opens the seed she chose, and nothing else has been taken from the stream. *)
LEMMA AliceOpensInv == ASSUME IInv, AliceOpens
  PROVE  IInv'
<1>1. /\ TypeOK /\ Positions /\ Together /\ Places /\ BaseOT /\ ToBob /\ ToAlice
      /\ "ALICE" \in Party /\ "BOB" \in Party
  BY Parts, TwoParties DEF Parties, Positions
<1> DEFINE res(i) == net["ALICE"][2 * i + (IF i \in delta THEN 2 ELSE 1)]
<1>2. /\ Setup("ALICE", "keys", "idle")
      /\ Arrived("ALICE", 2 * Width)
      /\ keys' = [keys EXCEPT !.a = [i \in Rows |-> Opened(res(i), <<secret["ALICE"][i], i>>)]]
      /\ Takes("ALICE", 2 * Width)
      /\ secret' = [secret EXCEPT !["ALICE"] = <<>>]
  BY DEF AliceOpens
<1>3. /\ net \in [Party -> Seq(Stuff)] /\ net["ALICE"] \in Seq(Stuff) /\ Len(net["ALICE"]) \in Nat
      /\ 2 * Width \in Nat \ {0} /\ Len(net["ALICE"]) >= 2 * Width
  BY <1>1, <1>2, PartyFacts, ConstantFacts DEF Arrived
<1>4. /\ pc["ALICE"] = "keys" /\ pc["BOB"] # "points" /\ pc["BOB"] # "setup" /\ delta' = delta
      /\ pc'["ALICE"] = "idle" /\ pc'["BOB"] = pc["BOB"]
  <2>1. pc["ALICE"] = "keys" /\ delta' = delta /\ pc'["ALICE"] = "idle" /\ pc'["BOB"] = pc["BOB"]
    BY <1>1, <1>2, PartyFacts DEF Setup, Goes
  <2>2. net["ALICE"] # <<>> BY <1>3
  <2>3. pc["BOB"] # "points" BY <1>1, <2>1, <2>2 DEF BaseOT
  <2> QED BY <1>1, <2>1, <2>3 DEF Together
<1>5. keys \in [a : {<<>>} \cup [Rows -> Seed], k0 : {<<>>} \cup Seeds, k1 : {<<>>} \cup Seeds]
  BY <1>1 DEF TypeOK
<1>6. \A i \in Rows : Opened(res(i), <<secret["ALICE"][i], i>>) = KeyOf(i)
  BY <1>1, <1>4 DEF BaseOT
<1>7. keys' = [keys EXCEPT !.a = [i \in Rows |-> KeyOf(i)]]
  <2>1. [i \in Rows |-> Opened(res(i), <<secret["ALICE"][i], i>>)] = [i \in Rows |-> KeyOf(i)]
    BY <1>6
  <2> QED BY <1>2, <2>1
<1> HIDE DEF res
<1>8. [i \in Rows |-> KeyOf(i)] \in [Rows -> Seed]
  <2>1. keys.k0 \in Seeds /\ keys.k1 \in Seeds BY <1>1, <1>4 DEF BaseOT
  <2>2. \A i \in Rows : keys.k0[i] \in Seed /\ keys.k1[i] \in Seed
    BY <2>1, OTAssumption DEF Seed
  <2> QED BY <2>2 DEF KeyOf
<1>9. /\ keys' \in [a : {<<>>} \cup [Rows -> Seed], k0 : {<<>>} \cup Seeds, k1 : {<<>>} \cup Seeds]
      /\ keys'.k0 = keys.k0 /\ keys'.k1 = keys.k1 /\ keys'.a = [i \in Rows |-> KeyOf(i)]
  BY <1>5, <1>7, <1>8
<1>10. secret' \in [Party -> {<<>>} \cup {<<c>> : c \in get_rand_bn} \cup [Rows -> get_rand_bn]]
  <2>1. secret \in [Party -> {<<>>} \cup {<<c>> : c \in get_rand_bn} \cup [Rows -> get_rand_bn]]
    BY <1>1 DEF TypeOK
  <2> QED BY <1>1, <1>2, <2>1
<1>11. PICK v \in Nat, z \in Nat : v = 2 * Width /\ Len(net["ALICE"]) = v + z
  <2>1. PICK v \in Nat, l \in Nat : v = 2 * Width /\ l = Len(net["ALICE"]) /\ l >= v
    BY <1>3
  <2>2. l - v \in Nat /\ l = v + (l - v) BY <2>1
  <2> QED BY <2>1, <2>2
<1>12. /\ net' \in [Party -> Seq(Stuff)] /\ net'["BOB"] = net["BOB"]
       /\ Len(net'["ALICE"]) = z
       /\ \A x \in 1 .. z : net'["ALICE"][x] = net["ALICE"][v + x]
  <2>1. net' = [net EXCEPT !["ALICE"] = SubSeq(net["ALICE"], v + 1, v + z)]
    BY <1>1, <1>2, <1>3, <1>11 DEF Takes
  <2>2. \A i \in v + 1 .. v + z : net["ALICE"][i] \in Stuff
    BY <1>3, <1>11, SeqAt
  <2>3. /\ SubSeq(net["ALICE"], v + 1, v + z) \in Seq(Stuff)
        /\ Len(SubSeq(net["ALICE"], v + 1, v + z)) = z
        /\ \A i \in 1 .. z : SubSeq(net["ALICE"], v + 1, v + z)[i] = net["ALICE"][v + i]
    BY <2>2, SubSeqFacts
  <2> QED BY <1>1, <1>3, <2>1, <2>3
<1>13. BaseOT'
  <2>1. \A i : KeyOf(i)' = KeyOf(i) BY <1>4, <1>9 DEF KeyOf
  <2> QED BY <1>1, <1>4, <1>9, <2>1 DEF BaseOT
<1>14. Together' BY <1>1, <1>4 DEF Together
<1>15. Streamed
  <2>1. Before = v /\ Before' = 0 BY <1>4, <1>11 DEF Before
  <2>2. Len(net'["ALICE"]) = Before' + (Len(net["ALICE"]) - Before)
    BY <1>11, <1>12, <2>1
  <2>3. ASSUME NEW n \in step .. Len(place) - 1, NEW x \in 1 .. place[n + 1].pos - place[n].pos
        PROVE  Sent(n, x)' = Sent(n, x)
    <3>1. /\ Before + (place[n].pos - place[step].pos) + x \in 1 .. Len(net["ALICE"])
          /\ place[n].pos \in Nat /\ place[step].pos \in Nat /\ place[step].pos <= place[n].pos
      BY <1>1, InStream
    <3>2. x \in Nat \ {0}
      <4>1. n \in 1 .. Len(place) /\ n + 1 \in 1 .. Len(place) BY <1>1, AtPlace
      <4>2. place[n + 1].pos \in Nat /\ place[n].pos \in Nat
        BY <1>1, <4>1, PlaceFacts
      <4> QED BY <4>2
    <3>3. PICK d \in Nat, e \in Nat : d = place[n].pos - place[step].pos /\ e = x
      BY <3>1, <3>2
    <3>4. PICK y \in Nat : y = d + e /\ v + y = v + d + e /\ 0 + d + e = y
      BY <3>3
    <3>5. y \in 1 .. z
      <4>1. v + d + e \in 1 .. v + z BY <1>11, <2>1, <3>1, <3>3
      <4>2. e \in Nat \ {0} /\ d \in Nat /\ v \in Nat /\ z \in Nat /\ y = d + e
        BY <3>2, <3>3, <3>4
      <4> QED BY ONLY <4>1, <4>2
    <3>6. net'["ALICE"][y] = net["ALICE"][v + y] BY <1>12, <3>5
    <3>7. place' = place /\ step' = step BY <1>2 DEF Setup, prg
    <3> QED
      <4>1. Sent(n, x)' = net'["ALICE"][0 + d + e] /\ Sent(n, x) = net["ALICE"][v + d + e]
        BY <2>1, <3>3, <3>7 DEF Sent
      <4> QED BY <3>4, <3>6, <4>1
  <2> QED BY <2>1, <2>2, <2>3 DEF Streamed
<1>16. (~Hashing("BOB") /\ ~(pc'["BOB"] = "points" /\ pc'["ALICE"] = "keys")) => net'["BOB"] = <<>>
  BY <1>1, <1>4, <1>12 DEF ToBob
<1> QED BY <1>1, <1>2, <1>9, <1>10, <1>12, <1>13, <1>14, <1>15, <1>16, SetupInv

-----------------------------------------------------------------------------
(* What an extension does to the party that takes a step of it *)

(* The three ways *)
LEMMA AdvancesWays == ASSUME TypeOK, Positions, NEW p \in Party, NEW all, Advances(p, all)
  PROVE  /\ at[p] \in 1 .. Len(script) /\ at[p] \in Nat /\ Len(cot[p]) = at[p] - 1 /\ Len(out[p]) = at[p] - 1
         /\ Extending(p) /\ ~Hashing(p)
         /\ \A q \in Party : q # p => /\ pc'[q] = pc[q] /\ at'[q] = at[q] /\ data'[q] = data[q]
                                      /\ cot'[q] = cot[q] /\ out'[q] = out[q]
         /\ \/ /\ pc[p] = "extend" /\ Len(all) < Length(p) /\ pc'[p] = "extend" /\ data'[p] = all
               /\ at' = at /\ cot' = cot /\ out' = out
            \/ /\ pc[p] = "extend" /\ Len(all) = Length(p) /\ malicious /\ pc'[p] = "extra" /\ data'[p] = all
               /\ at' = at /\ cot' = cot /\ out' = out
            \/ /\ Len(all) = Length(p) /\ Call(p).kind = "cot" /\ pc'[p] = "idle" /\ data'[p] = <<>>
               /\ at'[p] = at[p] + 1 /\ cot'[p] = Append(cot[p], all) /\ out'[p] = Append(out[p], <<>>)
            \/ /\ Len(all) = Length(p) /\ Call(p).kind # "cot" /\ pc'[p] = "start" /\ data'[p] = <<>>
               /\ at' = at /\ cot'[p] = Append(cot[p], all) /\ out' = out
<1>1. /\ at \in [Party -> Nat \ {0}] /\ at[p] \in Nat \ {0} /\ Len(script) \in Nat
      /\ pc \in [Party -> {"setup", "points", "keys", "idle", "extend", "extra", "check",
                           "start", "hash", "error"}]
      /\ cot \in [Party -> Seq(Blocks)] /\ DOMAIN data = Party /\ DOMAIN out = Party
  BY PartyFacts
<1>2. PositionOf(p) BY DEF Positions
<1>3. Extending(p) /\ ~Hashing(p) BY DEF Advances, Extending, Hashing
<1>4. at[p] \in 1 .. Len(script) /\ at[p] \in Nat /\ Len(cot[p]) = at[p] - 1 /\ Len(out[p]) = at[p] - 1
  BY <1>1, <1>2, <1>3 DEF PositionOf
<1>5. CASE /\ pc[p] = "extend" /\ Len(all) < Length(p)
           /\ data' = [data EXCEPT ![p] = all] /\ pc' = pc /\ at' = at /\ cot' = cot /\ out' = out
  BY <1>1, <1>3, <1>4, <1>5
<1>6. CASE /\ pc[p] = "extend" /\ Len(all) = Length(p) /\ malicious
           /\ data' = [data EXCEPT ![p] = all] /\ pc' = [pc EXCEPT ![p] = "extra"]
           /\ at' = at /\ cot' = cot /\ out' = out
  BY <1>1, <1>3, <1>4, <1>6
<1>7. CASE Len(all) = Length(p) /\ Returns(p, all)
  <2>1. cot' = [cot EXCEPT ![p] = Append(cot[p], all)] /\ data' = [data EXCEPT ![p] = <<>>]
    BY <1>7 DEF Returns
  <2>2. CASE Call(p).kind = "cot"
    <3>1. /\ pc' = [pc EXCEPT ![p] = "idle"] /\ at' = [at EXCEPT ![p] = at[p] + 1]
          /\ out' = [out EXCEPT ![p] = Append(out[p], <<>>)]
      BY <1>7, <2>2 DEF Returns, Goes
    <3> QED BY <1>1, <1>3, <1>4, <1>7, <2>1, <2>2, <3>1
  <2>3. CASE Call(p).kind # "cot"
    <3>1. pc' = [pc EXCEPT ![p] = "start"] /\ at' = at /\ out' = out
      BY <1>7, <2>3 DEF Returns, Goes
    <3> QED BY <1>1, <1>3, <1>4, <1>7, <2>1, <2>3, <3>1
  <2> QED BY <2>2, <2>3
<1> QED BY <1>5, <1>6, <1>7 DEF Advances

(* The variables have their types. *)
LEMMA AdvancesTyped == ASSUME TypeOK, Positions, NEW p \in Party, NEW all, Advances(p, all)
  PROVE  /\ at' \in [Party -> Nat \ {0}]
         /\ pc' \in [Party -> {"setup", "points", "keys", "idle", "extend", "extra", "check",
                               "start", "hash", "error"}]
         /\ cot' \in [Party -> Seq(Blocks)]
         /\ DOMAIN data' = Party
         /\ \A q \in Party : Extending(q)' => data'[q] \in Blocks
         /\ pc'["ALICE"] = "hash" => data'["ALICE"] \in Seq(Pair)
         /\ pc'["BOB"] = "hash" => data'["BOB"] \in Seq(Plain \cup Pad)
         /\ \A q \in Party : ~Extending(q)' /\ pc'[q] # "hash" /\ pc'[q] # "error" => data'[q] = <<>>
         /\ DOMAIN out' = Party
         /\ out'["ALICE"] \in Seq(Seq(Pair))
         /\ out'["BOB"] \in Seq(Seq(Plain \cup Pad))
<1>1. /\ at \in [Party -> Nat \ {0}] /\ at[p] \in Nat \ {0}
      /\ pc \in [Party -> {"setup", "points", "keys", "idle", "extend", "extra", "check",
                           "start", "hash", "error"}]
      /\ cot \in [Party -> Seq(Blocks)] /\ DOMAIN data = Party /\ DOMAIN out = Party
      /\ cot[p] \in Seq(Blocks)
  BY PartyFacts
<1>2. all \in Blocks BY DEF Advances, Blocks
<1>3. \A q \in Party : q # p => /\ pc'[q] = pc[q] /\ at'[q] = at[q] /\ data'[q] = data[q]
                                /\ cot'[q] = cot[q] /\ out'[q] = out[q]
  BY AdvancesWays
<1>4. \/ pc'[p] \in {"extend", "extra"} /\ data'[p] = all
      \/ pc'[p] \in {"idle", "start"} /\ data'[p] = <<>>
  BY AdvancesWays
<1>5. Append(cot[p], all) \in Seq(Blocks) BY <1>1, <1>2, AppendFacts
<1>6. /\ at' = at \/ at' = [at EXCEPT ![p] = at[p] + 1]
      /\ pc' = pc \/ \E s \in {"idle", "start", "extra"} : pc' = [pc EXCEPT ![p] = s]
      /\ cot' = cot \/ cot' = [cot EXCEPT ![p] = Append(cot[p], all)]
      /\ data' = [data EXCEPT ![p] = all] \/ data' = [data EXCEPT ![p] = <<>>]
      /\ out' = out \/ out' = [out EXCEPT ![p] = Append(out[p], <<>>)]
  BY DEF Advances, Returns, Goes
<1>7. /\ at' \in [Party -> Nat \ {0}]
      /\ pc' \in [Party -> {"setup", "points", "keys", "idle", "extend", "extra", "check",
                            "start", "hash", "error"}]
      /\ cot' \in [Party -> Seq(Blocks)]
  <2>1. at' \in [Party -> Nat \ {0}] BY <1>1, <1>6
  <2>2. pc' \in [Party -> {"setup", "points", "keys", "idle", "extend", "extra", "check",
                           "start", "hash", "error"}]
    BY <1>1, <1>6
  <2>3. cot' \in [Party -> Seq(Blocks)] BY <1>1, <1>5, <1>6
  <2> QED BY <2>1, <2>2, <2>3
<1>8. \A q \in Party : Extending(q)' => data'[q] \in Blocks
  <2> SUFFICES ASSUME NEW q \in Party, Extending(q)' PROVE data'[q] \in Blocks
    OBVIOUS
  <2>1. CASE q = p BY <1>2, <1>4, <2>1 DEF Extending
  <2>2. CASE q # p BY <1>3, <2>2 DEF Extending, TypeOK
  <2> QED BY <2>1, <2>2
<1>9. \A q \in Party : ~Extending(q)' /\ pc'[q] # "hash" /\ pc'[q] # "error" => data'[q] = <<>>
  <2> SUFFICES ASSUME NEW q \in Party, ~Extending(q)', pc'[q] # "hash", pc'[q] # "error" PROVE data'[q] = <<>>
    OBVIOUS
  <2>1. CASE q = p BY <1>4, <2>1 DEF Extending
  <2>2. CASE q # p BY <1>3, <2>2 DEF Extending, TypeOK
  <2> QED BY <2>1, <2>2
<1>10. /\ pc'["ALICE"] = "hash" => data'["ALICE"] \in Seq(Pair)
       /\ pc'["BOB"] = "hash" => data'["BOB"] \in Seq(Plain \cup Pad)
  <2>1. pc'[p] # "hash" /\ "ALICE" \in Party /\ "BOB" \in Party
    BY <1>4, TwoParties DEF Parties
  <2> QED BY <1>3, <2>1 DEF TypeOK
<1>11. /\ DOMAIN out' = Party
       /\ out'["ALICE"] \in Seq(Seq(Pair))
       /\ out'["BOB"] \in Seq(Seq(Plain \cup Pad))
  <2>1. out["ALICE"] \in Seq(Seq(Pair)) /\ out["BOB"] \in Seq(Seq(Plain \cup Pad))
    BY DEF TypeOK
  <2>2. <<>> \in Seq(Pair) /\ <<>> \in Seq(Plain \cup Pad) BY EmptySeq
  <2>3. Append(out["ALICE"], <<>>) \in Seq(Seq(Pair)) /\ Append(out["BOB"], <<>>) \in Seq(Seq(Plain \cup Pad))
    BY <2>1, <2>2, AppendFacts
  <2>4. DOMAIN out' = Party BY <1>1, <1>6
  <2>5. \A q \in Party : out'[q] = out[q] \/ out'[q] = Append(out[q], <<>>)
    BY <1>1, <1>6
  <2>6. "ALICE" \in Party /\ "BOB" \in Party BY TwoParties DEF Parties
  <2> QED BY <2>1, <2>3, <2>4, <2>5, <2>6
<1>12. DOMAIN data' = Party BY <1>1, <1>6
<1> QED BY <1>7, <1>8, <1>9, <1>10, <1>11, <1>12

(* What each call has given stays. *)
LEMMA AdvancesCot == ASSUME TypeOK, Positions, NEW p \in Party, NEW all, Advances(p, all)
  PROVE  /\ \A q \in Party : Prolongs(cot[q], cot'[q])
         /\ \/ Len(cot'[p]) = at[p] - 1 /\ cot'[p] = cot[p]
            \/ Len(cot'[p]) = at[p] /\ cot'[p][at[p]] = all
<1>1. cot \in [Party -> Seq(Blocks)] /\ cot[p] \in Seq(Blocks) /\ all \in Blocks
  BY PartyFacts DEF Advances, Blocks
<1>2. at[p] \in Nat /\ Len(cot[p]) = at[p] - 1 /\ \A q \in Party : q # p => cot'[q] = cot[q]
  BY AdvancesWays
<1>3. \A q \in Party : q # p => Prolongs(cot[q], cot'[q])
  BY <1>1, <1>2, ProlongsSelf
<1>4. cot'[p] = cot[p] \/ cot'[p] = Append(cot[p], all) BY AdvancesWays
<1>5. CASE cot'[p] = cot[p] BY <1>1, <1>2, <1>3, <1>5, ProlongsSelf
<1>6. CASE cot'[p] = Append(cot[p], all)
  <2>1. /\ Len(cot'[p]) = Len(cot[p]) + 1
        /\ cot'[p][Len(cot[p]) + 1] = all
        /\ \A i \in 1 .. Len(cot[p]) : cot'[p][i] = cot[p][i]
    BY <1>1, <1>6, AppendFacts
  <2>2. PICK a \in Nat, l \in Int : a = at[p] /\ l = Len(cot[p]) /\ l = a - 1
    BY <1>2
  <2>3. l + 1 = a /\ l <= l + 1 BY <2>2
  <2>4. Len(cot'[p]) = at[p] /\ cot'[p][at[p]] = all BY <2>1, <2>2, <2>3
  <2>5. Prolongs(cot[p], cot'[p]) BY <2>1, <2>2, <2>3 DEF Prolongs
  <2> QED BY <1>3, <2>4, <2>5
<1> QED BY <1>4, <1>5, <1>6

(* What the party has of the call is all of it; of another, what it had. *)
LEMMA AdvancesHave == ASSUME TypeOK, Positions, NEW p \in Party, NEW all, Advances(p, all), NEW k \in Nat \ {0}
  PROVE  /\ Have(p, k)' = IF k = at[p] THEN all ELSE Have(p, k)
         /\ Have(p, at[p]) = data[p]
<1>1. /\ at[p] \in Nat /\ Len(cot[p]) = at[p] - 1 /\ Extending(p)
  BY AdvancesWays
<1>2. Have(p, at[p]) = data[p] BY <1>1 DEF Have
<1>3. CASE pc'[p] \in {"extend", "extra"} /\ data'[p] = all /\ at'[p] = at[p] /\ cot'[p] = cot[p]
  BY <1>1, <1>2, <1>3 DEF Have, Extending
<1>4. CASE pc'[p] \in {"idle", "start"} /\ cot'[p] = Append(cot[p], all)
  <2>1. /\ Len(cot'[p]) = at[p] /\ cot'[p][at[p]] = all /\ \A i \in 1 .. Len(cot[p]) : cot'[p][i] = cot[p][i]
    <3>1. cot[p] \in Seq(Blocks) /\ all \in Blocks
      BY PartyFacts DEF Advances, Blocks
    <3>2. /\ Len(cot'[p]) = Len(cot[p]) + 1
          /\ cot'[p][Len(cot[p]) + 1] = all
          /\ \A i \in 1 .. Len(cot[p]) : cot'[p][i] = cot[p][i]
      BY <1>4, <3>1, AppendFacts
    <3>3. PICK a \in Nat, l \in Int : a = at[p] /\ l = Len(cot[p]) /\ l = a - 1
      BY <1>1
    <3>4. l + 1 = a BY <3>3
    <3> QED BY <3>2, <3>3, <3>4
  <2>2. ~Extending(p)' BY <1>4 DEF Extending
  <2>3. CASE k <= at[p] - 1
    <3>1. Have(p, k)' = cot'[p][k] /\ Have(p, k) = cot[p][k]
      BY <1>1, <2>1, <2>3 DEF Have
    <3> QED BY <1>1, <1>2, <2>1, <2>3, <3>1
  <2>4. CASE k = at[p] BY <1>1, <1>2, <2>1, <2>4 DEF Have
  <2>5. CASE k > at[p] BY <1>1, <1>2, <2>1, <2>2, <2>5 DEF Have
  <2> QED BY <1>1, <2>3, <2>4, <2>5
<1>5. \/ pc'[p] \in {"extend", "extra"} /\ data'[p] = all /\ at'[p] = at[p] /\ cot'[p] = cot[p]
      \/ pc'[p] \in {"idle", "start"} /\ cot'[p] = Append(cot[p], all)
  BY AdvancesWays
<1> QED BY <1>3, <1>4, <1>5

(* And each party is where it should be. *)
LEMMA AdvancesPositions == ASSUME TypeOK, Positions, NEW p \in Party, NEW all, Advances(p, all)
  PROVE  Positions'
<1>1. /\ at[p] \in 1 .. Len(script) /\ at[p] \in Nat /\ Len(cot[p]) = at[p] - 1 /\ Len(out[p]) = at[p] - 1
      /\ Extending(p) /\ ~Hashing(p)
      /\ \A q \in Party : q # p => /\ pc'[q] = pc[q] /\ at'[q] = at[q] /\ data'[q] = data[q]
                                   /\ cot'[q] = cot[q] /\ out'[q] = out[q]
  BY AdvancesWays
<1>2. script' = script /\ malicious' = malicious /\ Len(script) \in Nat /\ Prolongs(script, script')
  BY PartyFacts, ProlongsSelf DEF Advances
<1>3. \A q \in Party : q # p => PositionOf(q)' BY <1>1, <1>2, OtherStays
<1>4. Together'
  <2>1. \A q \in Party : /\ pc'[q] \in {"setup", "points", "keys"} <=> pc[q] \in {"setup", "points", "keys"}
                         /\ pc[q] \in {"setup", "points", "keys"} => pc'[q] = pc[q]
                         /\ pc'[q] = "error" => pc[q] = "error"
    <3>1. pc[p] \in {"extend", "check"} /\ pc'[p] \in {"extend", "extra", "idle", "start"}
      BY AdvancesWays DEF Advances
    <3> QED BY <1>1, <3>1
  <2>2. "ALICE" \in Party /\ "BOB" \in Party BY TwoParties DEF Parties
  <2> QED BY <2>1, <2>2 DEF Positions, Together
<1>5. \A k \in 1 .. Len(cot'[p]) : Len(cot'[p][k]) = Len(script'[k].r)
  <2>1. \A k \in 1 .. Len(cot[p]) : Len(cot[p][k]) = Len(script[k].r)
    BY DEF Positions, PositionOf
  <2>2. CASE cot'[p] = cot[p] BY <1>2, <2>1, <2>2
  <2>3. CASE cot'[p] = Append(cot[p], all) /\ Len(all) = Length(p)
    <3>1. cot[p] \in Seq(Blocks) /\ all \in Blocks
      BY PartyFacts DEF Advances, Blocks
    <3>2. /\ Len(cot'[p]) = Len(cot[p]) + 1
          /\ cot'[p][Len(cot[p]) + 1] = all
          /\ \A i \in 1 .. Len(cot[p]) : cot'[p][i] = cot[p][i]
      BY <2>3, <3>1, AppendFacts
    <3>3. PICK a \in Nat, l \in Int : a = at[p] /\ l = Len(cot[p]) /\ l = a - 1
      BY <1>1
    <3>4. l + 1 = a BY <3>3
    <3>5. Len(cot'[p]) = a /\ cot'[p][a] = all /\ \A i \in 1 .. l : cot'[p][i] = cot[p][i]
      BY <3>2, <3>3, <3>4
    <3>6. Length(p) = Len(script[a].r) BY <3>3 DEF Length, Call
    <3> SUFFICES ASSUME NEW k \in 1 .. a PROVE Len(cot'[p][k]) = Len(script[k].r)
      BY <1>2, <3>5
    <3>7. CASE k = a BY <2>3, <3>5, <3>6, <3>7
    <3>8. CASE k # a
      <4>1. k \in 1 .. l BY <3>3, <3>8
      <4> QED BY <2>1, <3>3, <3>5, <4>1
    <3> QED BY <3>7, <3>8
  <2> QED BY <2>2, <2>3, AdvancesWays
<1>6. PositionOf(p)'
  <2>1. PositionOf(p) BY DEF Positions
  <2>2. at'[p] = at[p] => Call(p)' = Call(p) /\ Length(p)' = Length(p)
    BY <1>2 DEF Call, Length
  <2>3. CASE /\ pc[p] = "extend" /\ Len(all) < Length(p) /\ pc'[p] = "extend" /\ data'[p] = all
             /\ at' = at /\ cot' = cot /\ out' = out
    BY <1>2, <1>5, <2>1, <2>2, <2>3 DEF PositionOf, Hashing, Extending
  <2>4. CASE /\ pc[p] = "extend" /\ Len(all) = Length(p) /\ malicious /\ pc'[p] = "extra" /\ data'[p] = all
             /\ at' = at /\ cot' = cot /\ out' = out
    BY <1>2, <1>5, <2>1, <2>2, <2>4 DEF PositionOf, Hashing, Extending
  <2>5. CASE /\ Len(all) = Length(p) /\ Call(p).kind = "cot" /\ pc'[p] = "idle" /\ data'[p] = <<>>
             /\ at'[p] = at[p] + 1 /\ cot'[p] = Append(cot[p], all) /\ out'[p] = Append(out[p], <<>>)
    <3>1. ~Hashing(p)' /\ ~Extending(p)' BY <2>5 DEF Hashing, Extending
    <3>2. Len(cot'[p]) = Len(cot[p]) + 1 /\ Len(out'[p]) = Len(out[p]) + 1
      <4>1. cot[p] \in Seq(Blocks) /\ all \in Blocks
        BY PartyFacts DEF Advances, Blocks
      <4>2. out[p] \in Seq(Seq(Pair)) \/ out[p] \in Seq(Seq(Plain \cup Pad))
        BY TwoParties DEF TypeOK, Parties
      <4>3. <<>> \in Seq(Pair) /\ <<>> \in Seq(Plain \cup Pad) BY EmptySeq
      <4>4. Len(Append(out[p], <<>>)) = Len(out[p]) + 1
        BY <4>2, <4>3, AppendFacts
      <4> QED BY <2>5, <4>1, <4>4, AppendFacts
    <3>3. PICK a \in Nat : a = at[p] /\ a <= Len(script) /\ Len(cot[p]) = a - 1 /\ Len(out[p]) = a - 1 /\ at'[p] = a + 1
      BY <1>1, <1>2, <2>5
    <3>4. a - 1 + 1 = a + 1 - 1 /\ a + 1 <= Len(script) + 1 BY <1>2, <3>3
    <3>5. at'[p] <= Len(script') + 1 /\ Len(out'[p]) = at'[p] - 1 /\ Len(cot'[p]) = at'[p] - 1
      BY <1>2, <3>2, <3>3, <3>4
    <3> QED BY <1>5, <2>5, <3>1, <3>5 DEF PositionOf
  <2>6. CASE /\ Len(all) = Length(p) /\ Call(p).kind # "cot" /\ pc'[p] = "start" /\ data'[p] = <<>>
             /\ at' = at /\ cot'[p] = Append(cot[p], all) /\ out' = out
    <3>1. Hashing(p)' /\ ~Extending(p)' BY <2>6 DEF Hashing, Extending
    <3>2. Len(cot'[p]) = at'[p]
      <4>1. cot[p] \in Seq(Blocks) /\ all \in Blocks
        BY PartyFacts DEF Advances, Blocks
      <4>2. Len(cot'[p]) = Len(cot[p]) + 1 BY <2>6, <4>1, AppendFacts
      <4>3. PICK a \in Nat : a = at[p] /\ Len(cot[p]) = a - 1 BY <1>1
      <4> QED BY <2>6, <4>2, <4>3
    <3>3. at'[p] <= Len(script') /\ at'[p] <= Len(script') + 1 /\ Len(out'[p]) = at'[p] - 1
      BY <1>1, <1>2, <2>6
    <3> QED BY <1>5, <2>2, <2>6, <3>1, <3>2, <3>3 DEF PositionOf
  <2> QED BY <2>3, <2>4, <2>5, <2>6, AdvancesWays
<1> QED BY <1>3, <1>4, <1>6 DEF Positions

-----------------------------------------------------------------------------
(* What an extension does to the hashing, which comes after it *)

(* No party is at the base OTs after the other's step, unless it was. *)
LEMMA NoPoints == ASSUME IInv, NEW p \in Party, NEW all, Advances(p, all)
  PROVE  ~Hashing("BOB") => net["BOB"] = <<>>
<1>1. pc[p] \in {"extend", "check"} /\ (p = "ALICE" \/ p = "BOB")
  BY TwoParties DEF Advances, Parties
<1>2. ~(pc["BOB"] = "points" /\ pc["ALICE"] = "keys") BY <1>1
<1> QED BY <1>2, Parts DEF ToBob

(* As long as the party goes on, or ALICE comes to the hash, the hashing rests. *)
LEMMA GoesOn ==
  ASSUME IInv, NEW p \in Party, NEW all, Advances(p, all), Aside, Len(cot'["ALICE"]) <= Len(cot'["BOB"]),
         at' = at, p = "BOB" => pc'["BOB"] # "start"
  PROVE  Resting
<1>1. /\ TypeOK /\ Positions /\ InTurn
      /\ "ALICE" \in Party /\ "BOB" \in Party /\ \A q \in Party : q = "ALICE" \/ q = "BOB"
  BY Parts, TwoParties DEF Parties
<1>2. /\ \A q \in Party : q # p => /\ pc'[q] = pc[q] /\ data'[q] = data[q] /\ cot'[q] = cot[q] /\ out'[q] = out[q]
      /\ at[p] \in Nat
  BY <1>1, AdvancesWays
<1>3. /\ pc[p] \in {"extend", "check"} /\ pc'[p] \in {"extend", "extra", "start"} /\ out' = out
  <2>1. at'[p] # at[p] + 1 BY <1>2
  <2> QED BY <1>1, <2>1, AdvancesWays DEF Advances
<1>4. script' = script /\ Prolongs(script, script') /\ script' \in Seq(Calls)
  BY <1>1, PartyFacts, ProlongsSelf DEF Advances
<1>5. cot' \in [Party -> Seq(Blocks)] /\ \A q \in Party : Prolongs(cot[q], cot'[q])
  BY <1>1, AdvancesTyped, AdvancesCot
<1>6. \A q \in Party : /\ pc'[q] = "hash" <=> pc[q] = "hash"
                       /\ pc[q] = "hash" => data'[q] = data[q]
  BY <1>2, <1>3
<1>7. pc'["BOB"] = "start" <=> pc["BOB"] = "start" BY <1>1, <1>2, <1>3
<1>8. Past => pc'["ALICE"] # "start"
  <2> SUFFICES ASSUME Past, pc'["ALICE"] = "start" PROVE FALSE OBVIOUS
  <2>1. pc["ALICE"] # "start" BY <1>1 DEF InTurn, Hashing
  <2>2. p = "ALICE" BY <1>1, <1>2, <2>1
  <2>3. Len(cot'["ALICE"]) = at["ALICE"]
    BY <1>1, <2>2, AdvancesWays, AdvancesPositions DEF Positions, PositionOf, Hashing
  <2>4. cot'["BOB"] = cot["BOB"] /\ Len(cot["BOB"]) <= at["BOB"]
    <3>1. at["BOB"] \in Nat BY <1>1, PartyFacts
    <3> QED BY <1>1, <1>2, <2>2, <3>1 DEF Positions, PositionOf
  <2>5. at["ALICE"] \in Nat /\ at["BOB"] \in Nat /\ Len(cot["BOB"]) \in Nat
    BY <1>1, PartyFacts
  <2> QED BY <2>3, <2>4, <2>5 DEF Past
<1> QED BY <1>3, <1>4, <1>5, <1>6, <1>7, <1>8, NoPoints DEF Resting, Aside

(* BOB comes to the hash of a call that ALICE has not begun to hash. *)
LEMMA BobComes ==
  ASSUME IInv, NEW all, Advances("BOB", all), Aside, Len(cot'["ALICE"]) <= Len(cot'["BOB"]), pc'["BOB"] = "start"
  PROVE  InTurn' /\ ToBob' /\ Resulted'
<1>1. /\ TypeOK /\ Positions /\ InTurn /\ Correlates /\ Resulted
      /\ "ALICE" \in Party /\ "BOB" \in Party /\ \A q \in Party : q = "ALICE" \/ q = "BOB"
      /\ "ALICE" # "BOB"
  BY Parts, TwoParties DEF Parties
<1>2. /\ pc'["ALICE"] = pc["ALICE"] /\ data'["ALICE"] = data["ALICE"] /\ cot'["ALICE"] = cot["ALICE"]
      /\ ~Hashing("BOB") /\ Extending("BOB") /\ Len(cot["BOB"]) = at["BOB"] - 1
  BY <1>1, AdvancesWays
<1>3. at' = at /\ out' = out /\ Call("BOB").kind # "cot" /\ data'["BOB"] = <<>>
  BY <1>1, AdvancesWays
<1>4. gid' = gid /\ start' = start /\ delta' = delta /\ net'["BOB"] = net["BOB"] /\ script' = script
  BY DEF Aside, Advances
<1>5. at["ALICE"] \in Nat \ {0} /\ at["BOB"] \in Nat \ {0} /\ gid["ALICE"] \in Nat /\ gid["BOB"] \in Nat
  BY <1>1, PartyFacts
<1>6. ~Past /\ pc["BOB"] # "hash" /\ pc["BOB"] # "start"
  BY <1>1, <1>2 DEF InTurn, Hashing
<1>7. at["ALICE"] = at["BOB"] => pc["ALICE"] # "hash"
  <2> SUFFICES ASSUME at["ALICE"] = at["BOB"], pc["ALICE"] = "hash" PROVE FALSE
    OBVIOUS
  <2>1. Len(cot["ALICE"]) = at["ALICE"] /\ Len(cot["ALICE"]) <= Len(cot["BOB"])
    BY <1>1 DEF Positions, PositionOf, Hashing, Correlates
  <2> QED BY <1>2, <1>5, <2>1
<1>8. /\ Done("ALICE")' = Done("ALICE") /\ Done("BOB")' = 0 /\ Done("BOB") = 0
      /\ Gid0("ALICE")' = Gid0("ALICE") /\ Gid0("BOB")' = Gid0("BOB")
  BY <1>2, <1>3, <1>4, <1>6 DEF Done, Gid0
<1>9. ~Past' /\ ~Begun' /\ Greets' = 0 /\ Greets = 0 /\ Made' = 0
  <2>1. ~Past' /\ ~Begun /\ ~Begun' BY <1>2, <1>3, <1>6, <1>7 DEF Past, Begun
  <2> QED BY <1>2, <1>3, <1>6, <1>7, <1>8, <2>1 DEF Greets, Made, Done
<1>10. InTurn'
  <2>1. \A p \in Party : gid'[p] >= Done(p)' /\ Whole(Done(p))'
    BY <1>1, <1>4, <1>8 DEF InTurn, Whole
  <2>2. at'["ALICE"] = at'["BOB"] => Gid0("ALICE")' = Gid0("BOB")'
    BY <1>1, <1>3, <1>8 DEF InTurn
  <2>3. pc["ALICE"] = "hash" => Length("ALICE")' = Length("ALICE")
    BY <1>3, <1>4 DEF Length, Call
  <2>4. at'["ALICE"] < at'["BOB"] =>
       /\ pc'["BOB"] # "hash"
       /\ \A k \in at'["ALICE"] .. at'["BOB"] - 1 :
            \/ script'[k].kind = "cot"
            \/ k = at'["ALICE"] /\ script'[k].kind = "rot" /\ pc'["ALICE"] = "hash"
       /\ pc'["ALICE"] # "hash" => gid'["BOB"] = gid'["ALICE"]
       /\ pc'["ALICE"] = "hash" => gid'["BOB"] >= Gid0("ALICE")' /\ Rounded(Length("ALICE"), gid["BOB"] - Gid0("ALICE"))'
    BY <1>1, <1>2, <1>3, <1>4, <1>8, <2>3 DEF InTurn, Rounded
  <2>5. pc'["BOB"] # "hash" OBVIOUS
  <2>6. start'["ALICE"] = start'["BOB"] BY <1>1, <1>4, <1>9 DEF InTurn
  <2>7. at'["ALICE"] <= at'["BOB"] + 1 BY <1>1, <1>3 DEF InTurn
  <2> QED BY <1>9, <2>1, <2>2, <2>4, <2>5, <2>6, <2>7 DEF InTurn
<1>11. ToBob'
  <2>1. net'["BOB"] = <<>> BY <1>1, <1>2, <1>4, NoPoints
  <2>2. Len(net'["BOB"]) = Greets' + IF Call("BOB")'.kind = "ot" THEN 2 * (Made' - Done("BOB")') ELSE 0
    BY <1>8, <1>9, <2>1
  <2>3. Made' >= Done("BOB")' BY <1>8, <1>9
  <2>4. \A i \in Done("BOB")' + 1 .. Made' : FALSE BY <1>8, <1>9
  <2>5. Hashing("BOB")' BY DEF Hashing
  <2> QED BY <2>2, <2>3, <2>4, <2>5 DEF ToBob
<1>12. SameResults
  <2>1. \A p \in Party : \A k \in Nat \ {0} : Results(p, k)' = Results(p, k)
    BY <1>1, <1>2, <1>3, <1>6 DEF Results
  <2>2. Results("ALICE", at'["BOB"]) = <<>>
    <3>1. ~(at["BOB"] < at["ALICE"]) BY <1>1, <1>5, <1>6 DEF InTurn, Past
    <3> QED BY <1>3, <1>7, <3>1 DEF Results
  <2>3. script' \in Seq(Calls) /\ Prolongs(script, script')
    BY <1>1, <1>4, PartyFacts, ProlongsSelf
  <2>4. \A p \in Party : Prolongs(cot[p], cot'[p]) BY <1>1, AdvancesCot
  <2>5. \A p \in Party : \A k \in 1 .. at'[p] - 1 :
          Len(out'[p][k]) = IF script'[k].kind = "cot" THEN 0 ELSE Len(script'[k].r)
    BY <1>1, <1>3, <1>4 DEF Resulted
  <2>6. at' \in [Party -> Nat \ {0}] BY <1>1, AdvancesTyped
  <2> QED
    BY <1>2, <1>3, <1>4, <1>8, <2>1, <2>2, <2>3, <2>4, <2>5, <2>6 DEF SameResults
<1> QED BY <1>1, <1>10, <1>11, <1>12, ResultsStay

(* A party that has no more of its call to do is at the next, with nothing in its hand. *)
LEMMA CotReturns == ASSUME IInv, NEW p \in Party, NEW all, Advances(p, all), at' # at
  PROVE  /\ pc'[p] = "idle" /\ data'[p] = <<>> /\ Call(p).kind = "cot" /\ script[at[p]].kind = "cot"
         /\ at'[p] = at[p] + 1 /\ at[p] \in Nat \ {0} /\ pc[p] # "hash" /\ pc[p] # "start"
         /\ at' \in [Party -> Nat \ {0}]
         /\ \A q \in Party : \A k \in Nat \ {0} : Results(q, k)' = Results(q, k)
         /\ \A q \in Party : \A k \in 1 .. at'[q] - 1 :
               Len(out'[q][k]) = IF script'[k].kind = "cot" THEN 0 ELSE Len(script'[k].r)
         /\ Prolongs(script, script') /\ script' \in Seq(Calls) /\ script' = script
         /\ \A q \in Party : Prolongs(cot[q], cot'[q])
<1>1. TypeOK /\ Positions /\ Resulted BY Parts
<1>2. /\ pc'[p] = "idle" /\ data'[p] = <<>> /\ Call(p).kind = "cot" /\ at'[p] = at[p] + 1
      /\ out'[p] = Append(out[p], <<>>)
  BY <1>1, AdvancesWays
<1>3. /\ Len(out[p]) = at[p] - 1 /\ pc[p] # "hash" /\ pc[p] # "start"
      /\ \A q \in Party : q # p => /\ pc'[q] = pc[q] /\ at'[q] = at[q] /\ data'[q] = data[q]
                                   /\ out'[q] = out[q]
  BY <1>1, AdvancesWays DEF Hashing
<1>4. at[p] \in Nat \ {0} BY <1>1, PartyFacts
<1>5. /\ out'[p][at[p]] = <<>>
      /\ \A i \in 1 .. at[p] - 1 : out'[p][i] = out[p][i]
  <2>1. out[p] \in Seq(Seq(Pair)) \/ out[p] \in Seq(Seq(Plain \cup Pad))
    BY <1>1, TwoParties DEF TypeOK, Parties
  <2>2. <<>> \in Seq(Pair) /\ <<>> \in Seq(Plain \cup Pad) BY EmptySeq
  <2>3. /\ out'[p][Len(out[p]) + 1] = <<>>
        /\ \A i \in 1 .. Len(out[p]) : out'[p][i] = out[p][i]
    BY <1>2, <2>1, <2>2, AppendFacts
  <2>4. Len(out[p]) + 1 = at[p] BY <1>3, <1>4
  <2> QED BY <1>3, <2>3, <2>4
<1>6. \A q \in Party : \A k \in Nat \ {0} : Results(q, k)' = Results(q, k)
  <2> SUFFICES ASSUME NEW q \in Party, NEW k \in Nat \ {0} PROVE Results(q, k)' = Results(q, k)
    OBVIOUS
  <2>1. CASE q # p BY <1>3, <2>1 DEF Results
  <2>2. CASE q = p
    <3>1. PICK a \in Nat : a = at[p] /\ at'[p] = a + 1 BY <1>2, <1>4
    <3>2. CASE k < a
      <4>1. k \in 1 .. at[p] - 1 /\ k < at[p] /\ k < at'[p] BY <3>1, <3>2
      <4> QED BY <1>5, <2>2, <4>1 DEF Results
    <3>3. CASE k = a
      <4>1. k < at'[p] /\ ~(k < at[p]) /\ k = at[p] BY <3>1, <3>3
      <4> QED BY <1>3, <1>5, <2>2, <4>1 DEF Results
    <3>4. CASE k > a
      <4>1. ~(k < at[p]) /\ k # at[p] /\ ~(k < at'[p]) BY <3>1, <3>4
      <4> QED BY <1>2, <2>2, <4>1 DEF Results
    <3> QED BY <3>1, <3>2, <3>3, <3>4
  <2> QED BY <2>1, <2>2
<1>7. script' = script BY DEF Advances
<1>8. \A q \in Party : \A k \in 1 .. at'[q] - 1 :
        Len(out'[q][k]) = IF script'[k].kind = "cot" THEN 0 ELSE Len(script'[k].r)
  <2> SUFFICES ASSUME NEW q \in Party, NEW k \in 1 .. at'[q] - 1
               PROVE  Len(out'[q][k]) = IF script[k].kind = "cot" THEN 0 ELSE Len(script[k].r)
    BY <1>7
  <2>1. CASE q # p BY <1>1, <1>3, <2>1 DEF Resulted
  <2>2. CASE q = p /\ k = at[p] BY <1>2, <1>5, <2>2 DEF Call
  <2>3. CASE q = p /\ k # at[p]
    <3>1. k \in 1 .. at[p] - 1 BY <1>2, <1>4, <2>3
    <3> QED BY <1>1, <1>5, <2>3, <3>1 DEF Resulted
  <2> QED BY <2>1, <2>2, <2>3
<1>9. script[at[p]].kind = "cot" BY <1>2 DEF Call
<1> QED
  BY <1>1, <1>2, <1>3, <1>4, <1>6, <1>7, <1>8, <1>9, AdvancesTyped, AdvancesCot, PartyFacts, ProlongsSelf

(* ALICE is done with a call that BOB was done with before. *)
LEMMA AliceReturns ==
  ASSUME IInv, NEW all, Advances("ALICE", all), Aside, Len(cot'["ALICE"]) <= Len(cot'["BOB"]), at' # at
  PROVE  InTurn' /\ ToBob' /\ Resulted'
<1>1. /\ TypeOK /\ Positions /\ InTurn /\ Correlates /\ Resulted /\ ToBob
      /\ "ALICE" \in Party /\ "BOB" \in Party /\ \A q \in Party : q = "ALICE" \/ q = "BOB"
      /\ "ALICE" # "BOB"
  BY Parts, TwoParties DEF Parties
<1>2. /\ pc'["BOB"] = pc["BOB"] /\ data'["BOB"] = data["BOB"] /\ cot'["BOB"] = cot["BOB"] /\ at'["BOB"] = at["BOB"]
      /\ ~Hashing("ALICE") /\ Extending("ALICE")
  BY <1>1, AdvancesWays
<1>3. /\ pc'["ALICE"] = "idle" /\ data'["ALICE"] = <<>> /\ script[at["ALICE"]].kind = "cot"
      /\ at'["ALICE"] = at["ALICE"] + 1 /\ pc["ALICE"] # "hash" /\ pc["ALICE"] # "start"
      /\ at' \in [Party -> Nat \ {0}]
      /\ script' \in Seq(Calls) /\ Prolongs(script, script')
  BY <1>1, CotReturns
<1>4. gid' = gid /\ start' = start /\ delta' = delta /\ net'["BOB"] = net["BOB"] /\ script' = script
  BY DEF Aside, Advances
<1>5. PICK a \in Nat \ {0}, b \in Nat \ {0}, g \in Nat : a = at["ALICE"] /\ b = at["BOB"] /\ g = gid["BOB"]
  BY <1>1, PartyFacts
<1>6. a <= Len(cot["BOB"]) /\ Len(cot["BOB"]) = IF Hashing("BOB") THEN b ELSE b - 1
  <2>1. Len(cot'["ALICE"]) = at["ALICE"] \/ Len(cot'["ALICE"]) = at["ALICE"] - 1
    BY <1>1, AdvancesCot
  <2>2. Len(cot'["ALICE"]) = at'["ALICE"] - 1
    BY <1>1, <1>3, AdvancesPositions DEF Positions, PositionOf, Hashing
  <2>3. Len(cot'["ALICE"]) = a BY <1>3, <1>5, <2>2
  <2> QED BY <1>1, <1>2, <1>5, <2>3 DEF Positions, PositionOf
<1>7. a < b
  <2>1. CASE Hashing("BOB")
    <3>1. script[b].kind # "cot"
      BY <1>1, <1>5, <2>1 DEF Positions, PositionOf, Call
    <3>2. a # b BY <1>3, <1>5, <3>1
    <3> QED BY <1>5, <1>6, <2>1, <3>2
  <2>2. CASE ~Hashing("BOB") BY <1>5, <1>6, <2>2
  <2> QED BY <2>1, <2>2
<1>8. /\ pc["BOB"] # "hash" /\ gid["ALICE"] = g
      /\ \A k \in a .. b - 1 : script[k].kind = "cot"
  BY <1>1, <1>3, <1>5, <1>7 DEF InTurn
<1>9. at'["ALICE"] = a + 1 /\ at'["BOB"] = b /\ a + 1 <= b
  BY <1>2, <1>3, <1>5, <1>7
<1>10. /\ Done("ALICE")' = 0 /\ Done("ALICE") = 0 /\ Done("BOB")' = 0 /\ Done("BOB") = 0
       /\ Gid0("ALICE")' = g /\ Gid0("BOB")' = g /\ Gid0("BOB") = g
  BY <1>2, <1>3, <1>4, <1>5, <1>8 DEF Done, Gid0
<1>11. ~Past' /\ ~Begun' /\ Greets' = 0 /\ Greets = 0 /\ Made' = 0 /\ Made = 0
  <2>1. ~Past' /\ ~Past /\ at["ALICE"] # at["BOB"] BY <1>5, <1>7, <1>9 DEF Past
  <2>2. ~Begun /\ ~Begun' BY <1>3, <2>1 DEF Begun
  <2> QED BY <1>10, <2>1, <2>2 DEF Greets, Made
<1>12. InTurn'
  <2>1. \A p \in Party : gid'[p] >= Done(p)' /\ Whole(Done(p))'
    <3>1. Whole(Done("ALICE")) /\ Whole(0) BY <1>1, <1>10 DEF InTurn
    <3> QED BY <1>1, <1>4, <1>5, <1>8, <1>10, <3>1 DEF Whole
  <2>2. at'["ALICE"] < at'["BOB"] =>
       /\ pc'["BOB"] # "hash"
       /\ \A k \in at'["ALICE"] .. at'["BOB"] - 1 :
            \/ script'[k].kind = "cot"
            \/ k = at'["ALICE"] /\ script'[k].kind = "rot" /\ pc'["ALICE"] = "hash"
       /\ pc'["ALICE"] # "hash" => gid'["BOB"] = gid'["ALICE"]
       /\ pc'["ALICE"] # "hash"
    <3>1. \A k \in a + 1 .. b - 1 : script'[k].kind = "cot" BY <1>4, <1>8
    <3> QED BY <1>2, <1>3, <1>4, <1>5, <1>8, <1>9, <3>1
  <2>3. /\ Greets' = 1 => net'["BOB"][1] = start'["ALICE"]
        /\ start'["ALICE"] = start'["BOB"]
    BY <1>1, <1>4, <1>11 DEF InTurn
  <2>4. at'["ALICE"] <= at'["BOB"] + 1 BY <1>9
  <2>5. pc'["BOB"] # "hash" BY <1>2, <1>8
  <2> QED BY <1>10, <1>11, <2>1, <2>2, <2>3, <2>4, <2>5 DEF InTurn
<1>13. Call("BOB")' = Call("BOB") /\ (Hashing("BOB")' <=> Hashing("BOB"))
  BY <1>2, <1>4 DEF Call, Hashing
<1>14. ToBob'
  <2>1. ~Hashing("BOB") => net'["BOB"] = <<>> BY <1>1, <1>4, NoPoints
  <2>2. Hashing("BOB") => Len(net'["BOB"]) = 0
    BY <1>1, <1>4, <1>10, <1>11 DEF ToBob
  <2>3. Hashing("BOB") => Len(net'["BOB"]) = Greets' + IF Call("BOB")'.kind = "ot" THEN 2 * (Made' - Done("BOB")') ELSE 0
    BY <1>10, <1>11, <2>2
  <2>4. Made' >= Done("BOB")' /\ \A i \in Done("BOB")' + 1 .. Made' : FALSE
    BY <1>10, <1>11
  <2> QED BY <1>13, <2>1, <2>3, <2>4 DEF ToBob
<1>15. SameResults
  <2>1. Hashing("BOB")' => Hashing("BOB") /\ at'["BOB"] = at["BOB"] /\ Gid0("BOB")' = Gid0("BOB")
    BY <1>2, <1>10, <1>13
  <2>2. \A q \in Party : \A k \in Nat \ {0} : Results(q, k)' = Results(q, k)
    BY <1>1, CotReturns
  <2>3. \A q \in Party : \A k \in 1 .. at'[q] - 1 :
               Len(out'[q][k]) = IF script'[k].kind = "cot" THEN 0 ELSE Len(script'[k].r)
    BY <1>1, CotReturns
  <2>4. \A q \in Party : Prolongs(cot[q], cot'[q]) BY <1>1, AdvancesCot
  <2> QED BY <1>3, <1>4, <2>1, <2>2, <2>3, <2>4 DEF SameResults
<1> QED BY <1>1, <1>12, <1>14, <1>15, ResultsStay

(* BOB is done with a call of nothing but correlated OTs. *)
LEMMA BobReturns ==
  ASSUME IInv, NEW all, Advances("BOB", all), Aside, at' # at
  PROVE  InTurn' /\ ToBob' /\ Resulted'
<1>1. /\ TypeOK /\ Positions /\ InTurn /\ Correlates /\ Resulted /\ ToBob
      /\ "ALICE" \in Party /\ "BOB" \in Party /\ \A q \in Party : q = "ALICE" \/ q = "BOB"
      /\ "ALICE" # "BOB"
  BY Parts, TwoParties DEF Parties
<1>2. /\ pc'["ALICE"] = pc["ALICE"] /\ data'["ALICE"] = data["ALICE"] /\ cot'["ALICE"] = cot["ALICE"]
      /\ at'["ALICE"] = at["ALICE"]
      /\ ~Hashing("BOB") /\ Extending("BOB")
  BY <1>1, AdvancesWays
<1>3. /\ pc'["BOB"] = "idle" /\ data'["BOB"] = <<>> /\ script[at["BOB"]].kind = "cot"
      /\ at'["BOB"] = at["BOB"] + 1 /\ pc["BOB"] # "hash" /\ pc["BOB"] # "start"
      /\ at' \in [Party -> Nat \ {0}]
      /\ script' \in Seq(Calls) /\ Prolongs(script, script')
  BY <1>1, CotReturns
<1>4. gid' = gid /\ start' = start /\ delta' = delta /\ net'["BOB"] = net["BOB"] /\ script' = script
  BY DEF Aside, Advances
<1>5. PICK a \in Nat \ {0}, b \in Nat \ {0}, g \in Nat : a = at["ALICE"] /\ b = at["BOB"] /\ g = gid["BOB"]
  BY <1>1, PartyFacts
<1>6. ~Past /\ a <= b
  <2>1. ~Past /\ a <= b + 1 BY <1>1, <1>2, <1>5 DEF InTurn
  <2> QED BY <1>5, <2>1 DEF Past
<1>7. a = b => pc["ALICE"] # "hash" /\ gid["ALICE"] = g
  <2> SUFFICES ASSUME a = b PROVE pc["ALICE"] # "hash" /\ gid["ALICE"] = g
    OBVIOUS
  <2>1. pc["ALICE"] # "hash"
    <3>1. Hashing("ALICE") => Call("ALICE").kind # "cot"
      BY <1>1 DEF Positions, PositionOf
    <3>2. Call("ALICE").kind = "cot" BY <1>3, <1>5 DEF Call
    <3> QED BY <3>1, <3>2 DEF Hashing
  <2>2. Gid0("ALICE") = Gid0("BOB") BY <1>1, <1>5 DEF InTurn
  <2>3. Gid0("ALICE") = gid["ALICE"] /\ Gid0("BOB") = gid["BOB"]
    BY <1>1, <1>3, <2>1, DoneFacts
  <2> QED BY <1>5, <2>1, <2>2, <2>3
<1>8. at'["ALICE"] = a /\ at'["BOB"] = b + 1 BY <1>2, <1>3, <1>5
<1>9. /\ Done("ALICE")' = Done("ALICE") /\ Done("BOB")' = 0 /\ Gid0("ALICE")' = Gid0("ALICE") /\ Gid0("BOB")' = g
  BY <1>2, <1>3, <1>4, <1>5 DEF Done, Gid0
<1>10. ~Past' /\ Greets' = 0 /\ Greets = 0
  BY <1>3, <1>5, <1>6, <1>8 DEF Past, Greets
<1>11. pc["ALICE"] = "hash" => Length("ALICE")' = Length("ALICE")
  BY <1>2, <1>4 DEF Length, Call
<1>12. InTurn'
  <2>1. \A p \in Party : gid'[p] >= Done(p)' /\ Whole(Done(p))'
    <3>1. gid'["ALICE"] >= Done("ALICE")' /\ Whole(Done("ALICE"))'
      BY <1>1, <1>4, <1>9 DEF InTurn, Whole
    <3>2. Done("BOB") = 0 /\ Whole(Done("BOB")) BY <1>1, <1>3 DEF InTurn, Done
    <3>3. gid'["BOB"] >= Done("BOB")' /\ Whole(Done("BOB"))'
      BY <1>4, <1>5, <1>9, <3>2 DEF Whole
    <3> QED BY <1>1, <3>1, <3>3
  <2>2. \A k \in a .. b : \/ script[k].kind = "cot"
                          \/ k = a /\ script[k].kind = "rot" /\ pc["ALICE"] = "hash"
    <3> SUFFICES ASSUME NEW k \in a .. b
                 PROVE  \/ script[k].kind = "cot"
                        \/ k = a /\ script[k].kind = "rot" /\ pc["ALICE"] = "hash"
      OBVIOUS
    <3>1. CASE k = b BY <1>3, <1>5, <3>1
    <3>2. CASE k # b
      <4>1. k \in a .. b - 1 /\ a < b BY <1>5, <3>2
      <4> QED BY <1>1, <1>5, <4>1 DEF InTurn
    <3> QED BY <3>1, <3>2
  <2>3. /\ pc["ALICE"] # "hash" => gid["BOB"] = gid["ALICE"]
        /\ pc["ALICE"] = "hash" => gid["BOB"] >= Gid0("ALICE") /\ Rounded(Length("ALICE"), gid["BOB"] - Gid0("ALICE"))
    <3>1. CASE a < b BY <1>1, <1>5, <3>1 DEF InTurn
    <3>2. CASE a = b BY <1>5, <1>7, <3>2
    <3> QED BY <1>5, <1>6, <3>1, <3>2
  <2>4. /\ pc'["BOB"] # "hash"
        /\ \A k \in at'["ALICE"] .. at'["BOB"] - 1 :
             \/ script'[k].kind = "cot"
             \/ k = at'["ALICE"] /\ script'[k].kind = "rot" /\ pc'["ALICE"] = "hash"
    <3>1. b + 1 - 1 = b BY <1>5
    <3> QED BY <1>2, <1>3, <1>4, <1>8, <2>2, <3>1
  <2>5. /\ pc'["ALICE"] # "hash" => gid'["BOB"] = gid'["ALICE"]
        /\ pc'["ALICE"] = "hash" => gid'["BOB"] >= Gid0("ALICE")' /\ Rounded(Length("ALICE"), gid["BOB"] - Gid0("ALICE"))'
    BY <1>2, <1>4, <1>9, <1>11, <2>3 DEF Rounded
  <2>6. at'["ALICE"] <= at'["BOB"] + 1 /\ at'["ALICE"] # at'["BOB"]
    BY <1>5, <1>6, <1>8
  <2>7. start'["ALICE"] = start'["BOB"] BY <1>1, <1>4, <1>10 DEF InTurn
  <2> QED BY <1>10, <2>1, <2>4, <2>5, <2>6, <2>7 DEF InTurn
<1>13. ToBob'
  <2>1. net'["BOB"] = <<>> BY <1>1, <1>2, <1>4, NoPoints
  <2>2. ~Hashing("BOB")' BY <1>3 DEF Hashing
  <2> QED BY <2>1, <2>2 DEF ToBob
<1>14. SameResults
  <2>1. ~Hashing("BOB")' BY <1>3 DEF Hashing
  <2>2. \A q \in Party : \A k \in Nat \ {0} : Results(q, k)' = Results(q, k)
    BY <1>1, CotReturns
  <2>3. \A q \in Party : \A k \in 1 .. at'[q] - 1 :
               Len(out'[q][k]) = IF script'[k].kind = "cot" THEN 0 ELSE Len(script'[k].r)
    BY <1>1, CotReturns
  <2>4. \A q \in Party : Prolongs(cot[q], cot'[q]) BY <1>1, AdvancesCot
  <2> QED BY <1>2, <1>3, <1>4, <1>9, <2>1, <2>2, <2>3, <2>4 DEF SameResults
<1> QED BY <1>1, <1>12, <1>13, <1>14, ResultsStay

(* So what an extension does leaves the hashing right. *)
LEMMA AdvancesHashes ==
  ASSUME IInv, NEW p \in Party, NEW all, Advances(p, all), Aside, Len(cot'["ALICE"]) <= Len(cot'["BOB"])
  PROVE  InTurn' /\ ToBob' /\ Resulted'
<1>1. p = "ALICE" \/ p = "BOB" BY TwoParties DEF Parties
<1>2. CASE at' # at BY <1>1, <1>2, AliceReturns, BobReturns
<1>3. CASE at' = at /\ p = "BOB" /\ pc'["BOB"] = "start" BY <1>3, BobComes
<1>4. CASE at' = at /\ ~(p = "BOB" /\ pc'["BOB"] = "start")
  BY <1>4, GoesOn, RestingHashes
<1> QED BY <1>2, <1>3, <1>4

-----------------------------------------------------------------------------
(* What BOB sends for an extension *)

(* BOB's keys are seeds, once the base OTs are done. *)
LEMMA BobKeys == ASSUME IInv, pc["BOB"] # "setup", NEW i \in Rows, NEW n \in Nat
  PROVE  Stream(keys.k0[i], n) \in Block /\ Stream(keys.k1[i], n) \in Block
<1>1. keys.k0 \in Seeds /\ keys.k1 \in Seeds BY Parts DEF BaseOT
<1>2. keys.k0 \in [Rows -> Seed] /\ keys.k1 \in [Rows -> Seed]
  BY <1>1, OTAssumption DEF Seed
<1>3. keys.k0[i] \in Seed /\ keys.k1[i] \in Seed BY <1>2
<1> QED BY <1>3, StreamBlock

(* The row of a place in a matrix written row after row *)
LEMMA RowOf == ASSUME NEW h \in Nat, NEW w \in Nat \ {0}, NEW x \in 1 .. h * w
  PROVE  (x - 1) \div w \in 0 .. h - 1 /\ ((x - 1) % w) + 1 \in 1 .. w
<1>1. PICK p \in Int : p = h * w OBVIOUS
<1>2. x - 1 \in Nat /\ x - 1 < p BY <1>1
<1>3. PICK q \in Nat, s \in Nat : q = (x - 1) \div w /\ s = (x - 1) % w /\ s < w /\ x - 1 = q * w + s
  <2>1. PICK y \in Nat : y = x - 1 BY <1>2
  <2>2. /\ y \div w \in Nat /\ y % w \in 0 .. w - 1
        /\ y = (y \div w) * w + (y % w)
    BY Divided
  <2> QED BY <2>1, <2>2
<1>4. q < h
  <2> SUFFICES ASSUME q >= h PROVE FALSE OBVIOUS
  <2>1. PICK d \in Nat : d = q - h OBVIOUS
  <2>2. q = h + d BY <2>1
  <2>3. q * w = h * w + d * w BY <2>2
  <2>4. d * w >= 0 OBVIOUS
  <2> QED BY <1>1, <1>2, <1>3, <2>3, <2>4
<1> QED BY <1>3, <1>4

(* The message of a step has the xors for every row and block, where      *)
(* ALICE reads them.                                                      *)
LEMMA RecvFacts ==
  ASSUME IInv, Extending("BOB"), NEW w \in Nat \ {0}, NEW r, \A j \in 1 .. w : r[j] \in Block,
         NEW from, from = used.g0, RecvPreBlock(w, r)
  PROVE  /\ from \in Nat
         /\ used'.g0 = from + w /\ used'.g1 = from + w /\ used'.a = used.a /\ from + w \in Nat
         /\ used' \in [a : Nat, g0 : Nat, g1 : Nat]
         /\ \E msgs : Received(msgs, w, r, from)
<1>1. /\ used \in [a : Nat, g0 : Nat, g1 : Nat] /\ used.g0 = used.g1
      /\ pc["BOB"] # "setup"
  BY Parts DEF TypeOK, Places, Extending
<1>2. from \in Nat /\ from = used.g1 BY <1>1
<1> DEFINE t == BobRows(w)
           g == [i \in Rows |-> Row(keys.k1[i], used.g1, w)]
           u(i, j) == XOR(XOR(t[i][j], g[i][j]), r[j])
           msgs == [x \in 1 .. Width * w |-> u((x - 1) \div w, ((x - 1) % w) + 1)]
<1>3. /\ Sends("BOB", msgs)
      /\ used' = [used EXCEPT !.g0 = @ + w, !.g1 = @ + w]
  BY DEF RecvPreBlock
<1>4. net' = [net EXCEPT !["ALICE"] = @ \o msgs]
  <2> HIDE DEF msgs
  <2> QED BY <1>3, PeerFacts, TwoParties DEF Sends, Parties, Peer
<1>5. ASSUME NEW i \in Rows, NEW j \in 1 .. w
      PROVE  u(i, j) = XOR(Given(from, i, j), r[j]) /\ u(i, j) \in Block
  <2>1. from + j - 1 \in Nat BY <1>2
  <2>2. t[i][j] = Stream(keys.k0[i], from + j - 1) BY DEF BobRows, Row
  <2>3. g[i][j] = Stream(keys.k1[i], from + j - 1) BY <1>2 DEF Row
  <2>4. XOR(t[i][j], g[i][j]) = Given(from, i, j) BY <2>2, <2>3 DEF Given
  <2>5. Given(from, i, j) \in Block BY <1>1, <2>1, BobKeys, XORBlock DEF Given
  <2>6. XOR(Given(from, i, j), r[j]) \in Block BY <2>5, XORBlock
  <2> QED BY <2>4, <2>6
<1> HIDE DEF u
<1>6. Width \in Nat /\ Width * w \in Nat /\ Rows = 0 .. Width - 1
  BY ConstantFacts DEF Rows
<1>7. msgs \in [1 .. Width * w -> Stuff]
  <2> SUFFICES ASSUME NEW x \in 1 .. Width * w
               PROVE  u((x - 1) \div w, ((x - 1) % w) + 1) \in Stuff
    OBVIOUS
  <2>1. (x - 1) \div w \in Rows /\ ((x - 1) % w) + 1 \in 1 .. w BY <1>6, RowOf
  <2> QED BY <1>5, <2>1 DEF Stuff
<1>8. msgs \in Seq(Stuff) /\ Len(msgs) = Width * w
  <2> HIDE DEF msgs
  <2> QED BY <1>6, <1>7, FunSeq
<1>9. ASSUME NEW i \in Rows, NEW j \in 1 .. w
      PROVE  msgs[i * w + j] = XOR(Given(from, i, j), r[j])
  <2>1. /\ i * w + j \in 1 .. Width * w
        /\ (i * w + j - 1) \div w = i
        /\ ((i * w + j - 1) % w) + 1 = j
    BY <1>6, RowMajor
  <2>2. PICK x \in 1 .. Width * w : x = i * w + j BY <2>1
  <2>3. msgs[x] = u((x - 1) \div w, ((x - 1) % w) + 1) BY <2>1, <2>2
  <2>4. (x - 1) \div w = i /\ ((x - 1) % w) + 1 = j
    <3>1. x - 1 = i * w + j - 1 BY <2>2, ConstantFacts
    <3> QED BY <2>1, <3>1, Zenon
  <2> HIDE DEF msgs
  <2>5. msgs[x] = u(i, j) BY <2>3, <2>4, Zenon
  <2> QED BY <1>5, <2>2, <2>5
<1>10. used' = [used EXCEPT !.g0 = from + w, !.g1 = from + w]
  BY <1>1, <1>2, <1>3
<1> HIDE DEF msgs
<1> QED
  <2> HIDE DEF msgs
  <2>1. used'.g0 = from + w /\ used'.g1 = from + w /\ used'.a = used.a /\ from + w \in Nat
        /\ used' \in [a : Nat, g0 : Nat, g1 : Nat]
    <3>1. from \in Nat /\ used \in [a : Nat, g0 : Nat, g1 : Nat] BY <1>1, <1>2
    <3>2. PICK x \in Nat : x = from + w BY <3>1
    <3>3. used' = [[used EXCEPT !.g0 = x] EXCEPT !.g1 = x] BY <1>10, <3>2
    <3> QED BY ONLY <3>1, <3>2, <3>3
  <2>2. Received(msgs, w, r, from) BY <1>4, <1>8, <1>9 DEF Received
  <2> QED BY <1>2, <2>1, <2>2

(* A step of BOB's extension keeps the invariant, once what is particular to it is known. *)
LEMMA BobStepInv ==
  ASSUME IInv, NEW m, NEW msgs, BobMoves(m, msgs), secret' = secret,
         TypeOK', Positions', InTurn', ToBob', Resulted',
         NEW l, l = Len(place), Carried(l)',
         NEW z, z = Last,
         z.phase = "extend" =>
           /\ z.done + New(z) <= Len(Taken(z.k)')
           /\ \A c \in 1 .. New(z) : Taken(z.k)'[z.done + c] = Col(z.from, c),
         pc'["BOB"] = "check" => local'.BOB = Columns2(m.from - 2)
  PROVE  IInv'
<1>1. /\ TypeOK /\ Positions /\ Places /\ ToAlice /\ Columned /\ Correlates
      /\ "ALICE" \in Party /\ "BOB" \in Party /\ \A q \in Party : q = "ALICE" \/ q = "BOB"
  BY Parts, TwoParties DEF Parties
<1>2. /\ Places' /\ ToAlice' /\ Columned' /\ Correlates'
  BY <1>1, BobPlaces, BobToAlice, BobColumned, BobCorrelates
<1>3. /\ keys' = keys /\ delta' = delta /\ Extending("BOB") /\ pc'["BOB"] \notin {"setup", "points"}
      /\ pc'["ALICE"] = pc["ALICE"] /\ pc'["BOB"] # "keys"
  BY DEF BobMoves, Positions, Together
<1>4. \A q \in Party : pc'[q] = pc[q] \/ {pc[q], pc'[q]} \cap {"setup", "keys", "points"} = {}
  <2>1. pc["BOB"] \notin {"setup", "keys", "points"} /\ pc'["BOB"] \notin {"setup", "keys", "points"}
    BY <1>3 DEF Extending
  <2> QED BY <1>1, <1>3, <2>1
<1>5. pc["BOB"] \notin {"setup", "points"} BY <1>3 DEF Extending
<1>6. pc["ALICE"] = "keys" => \A x \in 1 .. 2 * Width : net'["ALICE"][x] = net["ALICE"][x]
  <2> SUFFICES ASSUME pc["ALICE"] = "keys" PROVE \A x \in 1 .. 2 * Width : net'["ALICE"][x] = net["ALICE"][x]
    OBVIOUS
  <2>1. Before = 2 * Width /\ 2 * Width \in Nat
    BY <1>5, ConstantFacts DEF Before
  <2>2. Len(net["ALICE"]) = Before + (Last.pos - place[step].pos)
    BY <1>1 DEF ToAlice
  <2>3. Last.pos \in Nat /\ place[step].pos \in Nat /\ place[step].pos <= Last.pos
    <3>1. /\ Len(place) \in Nat \ {0} /\ step \in 1 .. Len(place) /\ place[Len(place)] = Last
          /\ Len(place) \in 1 .. Len(place)
      BY <1>1, AtPlace
    <3>2. Last.pos \in Nat /\ place[step].pos \in Nat BY <1>1, <3>1, PlaceFacts
    <3>3. CASE step = Len(place) BY <3>1, <3>2, <3>3
    <3>4. CASE step # Len(place)
      <4>1. Earlier(place[step], place[Len(place)])
        BY <1>1, <3>1, <3>4 DEF Places
      <4> QED BY <3>1, <3>2, <4>1 DEF Earlier
    <3> QED BY <3>3, <3>4
  <2>4. PICK b \in Nat, e \in Nat : b = 2 * Width /\ Len(net["ALICE"]) = b + e
    <3>1. PICK b \in Nat, c \in Nat, d \in Nat : b = 2 * Width /\ c = place[step].pos /\ d = Last.pos
      BY <2>1, <2>3
    <3>2. Len(net["ALICE"]) = b + (d - c) /\ d - c \in Nat
      BY <2>1, <2>2, <2>3, <3>1
    <3> QED BY <3>1, <3>2
  <2>5. \A i \in 1 .. Len(net["ALICE"]) : net'["ALICE"][i] = net["ALICE"][i]
    BY <1>1, BobSent
  <2>6. \A x \in 1 .. b : x \in 1 .. b + e OBVIOUS
  <2> QED BY <2>4, <2>5, <2>6
<1>7. BaseOT' BY <1>3, <1>4, <1>5, <1>6, BaseStays
<1> QED BY <1>2, <1>7 DEF IInv

-----------------------------------------------------------------------------
(* The next OTs of a call *)

(* How many they are, and how many blocks a row of them takes *)
LEMMA NowFacts == ASSUME IInv, NEW p \in Party, pc[p] = "extend"
  PROVE  /\ Now(p) \in Nat \ {0} /\ Cols(p) = Wide(Now(p)) /\ Cols(p) \in Nat \ {0}
         /\ data[p] \in Seq(Block) /\ Len(data[p]) \in Nat /\ Length(p) \in Nat
         /\ Len(data[p]) + Now(p) <= Length(p)
         /\ at[p] \in 1 .. Len(script) /\ Call(p) = script[at[p]] /\ Length(p) = Len(script[at[p]].r)
         /\ \A m : IsAt(p, m) => /\ m.k = at[p] /\ m.phase = "extend" /\ m.done = Len(data[p])
                                 /\ New(m) = Now(p)
<1>1. TypeOK /\ Positions /\ Extending(p) /\ ~Hashing(p)
  BY Parts DEF Extending, Hashing
<1>2. data[p] \in Seq(Block) /\ Len(data[p]) \in Nat
  BY <1>1, LenProperties DEF TypeOK, Blocks
<1>3. /\ at[p] \in Nat \ {0} /\ Len(script) \in Nat /\ at[p] <= Len(script)
      /\ Len(data[p]) < Length(p) /\ Len(cot[p]) = at[p] - 1
  BY <1>1, PartyFacts DEF Positions, PositionOf
<1>4. /\ at[p] \in 1 .. Len(script) /\ Call(p) = script[at[p]] /\ Length(p) = Len(script[at[p]].r)
  BY <1>3 DEF Call, Length
<1>5. Length(p) \in Nat BY <1>1, <1>4, ScriptFacts
<1>6. PICK d \in Nat \ {0} : d = Left(p) /\ d = Length(p) - Len(data[p])
  <2>1. Length(p) - Len(data[p]) \in Nat \ {0} BY <1>2, <1>3, <1>5
  <2> QED BY <2>1 DEF Left
<1>7. PICK n \in Nat \ {0} : n = Now(p) /\ n = AtMost(BlockSize, d) /\ n <= d
  <2>1. AtMost(BlockSize, d) \in Nat \ {0} /\ AtMost(BlockSize, d) <= d
    BY ConstantFacts DEF AtMost
  <2> QED BY <1>6, <2>1 DEF Now
<1>8. Cols(p) = Wide(n) /\ Wide(n) \in Nat \ {0}
  BY <1>7, WideFacts DEF Cols, Wide
<1>9. Len(data[p]) + n <= Length(p) BY <1>2, <1>5, <1>6, <1>7
<1>10. ASSUME NEW m, IsAt(p, m)
       PROVE  m.k = at[p] /\ m.phase = "extend" /\ m.done = Len(data[p]) /\ New(m) = Now(p)
  <2>1. m.k = at[p] - 1 + 1 /\ m.phase = "extend" /\ m.done = Len(data[p])
    BY <1>1, <1>3, <1>10 DEF IsAt, Phase, OTs
  <2>2. m.k = at[p] BY <1>3, <2>1
  <2>3. New(m) = AtMost(BlockSize, d) BY <1>4, <1>6, <2>1, <2>2 DEF New
  <2> QED BY <1>7, <2>1, <2>2, <2>3
<1> QED BY <1>2, <1>4, <1>5, <1>7, <1>8, <1>9, <1>10

(* With them the party advances. *)
LEMMA ExtendedAdvances ==
  ASSUME IInv, NEW p \in Party, pc[p] = "extend", NEW blocks \in Seq(Block), Len(blocks) = Now(p),
         Extended(p, blocks), script' = script, malicious' = malicious,
         NEW all, all = data[p] \o blocks
  PROVE  /\ Advances(p, all)
         /\ Len(all) = Len(data[p]) + Now(p)
         /\ \A c \in 1 .. Now(p) : all[Len(data[p]) + c] = blocks[c]
<1>1. /\ Now(p) \in Nat \ {0} /\ data[p] \in Seq(Block) /\ Len(data[p]) \in Nat /\ Length(p) \in Nat
      /\ Len(data[p]) + Now(p) <= Length(p)
  BY NowFacts
<1>2. /\ all \in Seq(Block) /\ Len(all) = Len(data[p]) + Now(p) /\ Prolongs(data[p], all)
      /\ \A c \in 1 .. Now(p) : all[Len(data[p]) + c] = blocks[c]
  <2>1. all \in Seq(Block) /\ Len(all) = Len(data[p]) + Len(blocks) /\ Prolongs(data[p], all)
    <3>1. PICK d : d = data[p] /\ d \in Seq(Block) /\ all = d \o blocks
      BY <1>1, Zenon
    <3>2. all \in Seq(Block) /\ Len(all) = Len(d) + Len(blocks)
      <4>1. d \o blocks \in Seq(Block) /\ Len(d \o blocks) = Len(d) + Len(blocks)
        BY <3>1, ConcatFacts
      <4> QED BY <3>1, <4>1, Zenon
    <3>3. Prolongs(d, all) BY <3>1, ProlongsConcat
    <3> QED BY <3>1, <3>2, <3>3
  <2>2. \A c \in 1 .. Len(blocks) : all[Len(data[p]) + c] = blocks[c]
    BY <1>1, ConcatIs
  <2> QED BY <2>1, <2>2
<1>3. \/ /\ Len(all) < Length(p)
         /\ data' = [data EXCEPT ![p] = all] /\ pc' = pc /\ at' = at /\ cot' = cot /\ out' = out
      \/ /\ Len(all) = Length(p) /\ malicious
         /\ data' = [data EXCEPT ![p] = all] /\ pc' = [pc EXCEPT ![p] = "extra"]
         /\ at' = at /\ cot' = cot /\ out' = out
      \/ Len(all) = Length(p) /\ Returns(p, all)
  <2>1. CASE Len(all) = Length(p) /\ ~malicious BY <2>1 DEF Extended
  <2>2. CASE Len(all) = Length(p) /\ malicious BY <2>2 DEF Extended, Goes
  <2>3. CASE Len(all) # Length(p)
    <3>1. Len(all) < Length(p)
      <4>1. PICK a \in Nat, b \in Nat, c \in Nat : a = Len(data[p]) /\ b = Now(p) /\ c = Length(p)
        BY <1>1
      <4>2. Len(all) = a + b /\ a + b <= c BY <1>1, <1>2, <4>1
      <4> QED BY <2>3, <4>1, <4>2
    <3> QED BY <2>3, <3>1 DEF Extended
  <2> QED BY <2>1, <2>2, <2>3
<1> QED BY <1>1, <1>2, <1>3 DEF Advances

(* The step after which BOB has all of the call's OTs so far follows the  *)
(* last one.                                                              *)
LEMMA BobAdvancesPlace ==
  ASSUME IInv, NEW all, Advances("BOB", all), NEW m, Lands(m), NEW k \in Nat \ {0}, k = at["BOB"]
  PROVE  Landed(k, m, all)
<1>0. /\ m \in Place
      /\ m.k = Len(cot'["BOB"]) + 1
      /\ m.phase = IF pc'["BOB"] \in {"extra", "check"} THEN pc'["BOB"] ELSE "extend"
      /\ m.done = Len(data'["BOB"])
  BY DEF Lands
<1>1. /\ TypeOK /\ Positions /\ "ALICE" \in Party /\ "BOB" \in Party /\ "ALICE" # "BOB"
  BY Parts, TwoParties DEF Parties
<1>2. /\ at["BOB"] \in Nat /\ Len(cot["BOB"]) = at["BOB"] - 1
      /\ pc'["ALICE"] = pc["ALICE"] /\ at'["ALICE"] = at["ALICE"] /\ data'["ALICE"] = data["ALICE"]
      /\ cot'["ALICE"] = cot["ALICE"]
  BY <1>1, AdvancesWays
<1>3. all \in Blocks /\ data["BOB"] \in Blocks /\ Prolongs(data["BOB"], all) /\ Len(all) \in Nat
  BY LenProperties DEF Advances, Blocks
<1>4. cot' \in [Party -> Seq(Blocks)] BY <1>1, AdvancesTyped
<1>5. Prolongs(cot["BOB"], cot'["BOB"]) BY <1>1, AdvancesCot
<1>6. ASSUME NEW j \in Nat \ {0}
      PROVE  Prolongs(Taken(j), Taken(j)') /\ Len(Taken(j)') \in Nat
  <2>1. /\ Have("BOB", j)' = IF j = at["BOB"] THEN all ELSE Have("BOB", j)
        /\ Have("BOB", at["BOB"]) = data["BOB"]
    BY <1>1, AdvancesHave
  <2>2. Have("BOB", j) \in Blocks /\ Len(Have("BOB", j)) \in Nat
    BY <1>1, HaveTyped
  <2>3. Prolongs(Have("BOB", j), Have("BOB", j))
    BY <2>2, ProlongsSelf DEF Blocks
  <2> QED BY <1>3, <2>1, <2>2, <2>3 DEF Taken
<1>7. Taken(k)' = all BY <1>1, AdvancesHave DEF Taken
<1>8. Len(<<>>) = 0 OBVIOUS
<1>9. CASE /\ pc["BOB"] = "extend" /\ Len(all) < Length("BOB") /\ pc'["BOB"] = "extend" /\ data'["BOB"] = all
           /\ at' = at /\ cot' = cot /\ out' = out
  <2>1. m.k = k /\ m.phase = "extend" /\ m.done = Len(all) BY <1>0, <1>2, <1>9
  <2>2. (IsAt("BOB", m))' BY <1>0, <1>9 DEF IsAt, Phase, OTs, Extending
  <2> QED BY <1>2, <1>4, <1>5, <1>6, <1>7, <1>9, <2>1, <2>2 DEF Landed
<1>10. CASE /\ pc["BOB"] = "extend" /\ Len(all) = Length("BOB") /\ malicious /\ pc'["BOB"] = "extra" /\ data'["BOB"] = all
            /\ at' = at /\ cot' = cot /\ out' = out
  <2>1. m.k = k /\ m.phase = "extra" /\ m.done = Len(all) BY <1>0, <1>2, <1>10
  <2>2. (IsAt("BOB", m))' BY <1>0, <1>10 DEF IsAt, Phase, OTs, Extending
  <2> QED BY <1>2, <1>4, <1>5, <1>6, <1>7, <1>10, <2>1, <2>2 DEF Landed
<1>11. CASE /\ Len(all) = Length("BOB") /\ pc'["BOB"] \in {"idle", "start"} /\ data'["BOB"] = <<>>
            /\ cot'["BOB"] = Append(cot["BOB"], all)
  <2>1. Len(cot'["BOB"]) = Len(cot["BOB"]) + 1
    BY <1>1, <1>3, <1>11, PartyFacts, AppendFacts
  <2>2. m.k = k + 1 /\ m.phase = "extend" /\ m.done = 0
    BY <1>0, <1>2, <1>8, <1>11, <2>1
  <2>3. (IsAt("BOB", m))' BY <1>0, <1>11, <2>2 DEF IsAt, Phase, OTs, Extending
  <2> QED BY <1>2, <1>4, <1>5, <1>6, <1>7, <1>11, <2>2, <2>3 DEF Landed
<1> QED BY <1>1, <1>9, <1>10, <1>11, AdvancesWays

(* The types after a step that advances a party *)
LEMMA AdvanceTypeOK ==
  ASSUME TypeOK, Positions, NEW p \in Party, NEW all, Advances(p, all),
         delta' = delta, secret' = secret, keys' = keys, gid' = gid, start' = start,
         net' \in [Party -> Seq(Stuff)], used' \in [a : Nat, g0 : Nat, g1 : Nat],
         place' \in Seq(Place), step' \in Nat, local' \in [ALICE : Blocks, BOB : Blocks, r : Bits]
  PROVE  TypeOK'
<1>1. malicious' = malicious /\ script' = script BY DEF Advances
<1>2. /\ malicious' \in Modes /\ delta' \in Delta
      /\ secret' \in [Party -> {<<>>} \cup {<<a>> : a \in get_rand_bn} \cup [Rows -> get_rand_bn]]
      /\ keys' \in [a : {<<>>} \cup [Rows -> Seed], k0 : {<<>>} \cup Seeds, k1 : {<<>>} \cup Seeds]
      /\ script' \in Seq(Calls) /\ gid' \in [Party -> Nat] /\ start' \in [Party -> StartPoint]
  BY <1>1 DEF TypeOK
<1> QED BY <1>2, AdvancesTyped DEF TypeOK

(* The place BOB notes after a step *)
LEMMA NotedPlace ==
  ASSUME TypeOK, Places, NEW n \in Nat, Noted(n),
         cot' \in [Party -> Seq(Blocks)], Len(data'["BOB"]) \in Nat, used'.g0 \in Nat, local'.r \in Bits
  PROVE  \E m \in Place :
           /\ place' = Append(place, m) /\ place' \in Seq(Place) /\ Lands(m)
           /\ m.from = used'.g0 /\ m.pos = Last.pos + n /\ m.r = local'.r
<1>1. /\ Last.pos \in Nat /\ place \in Seq(Place)
  BY AtPlace, PlaceFacts DEF TypeOK
<1>2. PICK m : m = [k |-> Len(cot'["BOB"]) + 1,
                    phase |-> IF pc'["BOB"] \in {"extra", "check"} THEN pc'["BOB"] ELSE "extend",
                    done |-> Len(data'["BOB"]),
                    from |-> used'.g0,
                    pos |-> Last.pos + n,
                    r |-> local'.r]
  OBVIOUS
<1>3. place' = Append(place, m) BY <1>2 DEF Noted, Last
<1>4. m \in Place
  <2>1. Len(cot'["BOB"]) \in Nat BY TwoParties, LenProperties DEF Parties
  <2>2. Len(cot'["BOB"]) + 1 \in Nat \ {0} /\ Last.pos + n \in Nat BY <1>1, <2>1
  <2>3. (IF pc'["BOB"] \in {"extra", "check"} THEN pc'["BOB"] ELSE "extend") \in {"extend", "extra", "check"}
    OBVIOUS
  <2> QED BY <1>2, <2>2, <2>3 DEF Place, Bits
<1>5. place' \in Seq(Place) BY <1>1, <1>3, <1>4, AppendFacts
<1>6. Lands(m) BY <1>2, <1>4 DEF Lands
<1> QED BY <1>2, <1>3, <1>4, <1>5, <1>6

(* BOB's next OTs *)
LEMMA BobExtendsInv == ASSUME IInv, BobExtends
  PROVE  IInv'
<1>1. /\ TypeOK /\ Positions /\ Places /\ ToAlice /\ Columned /\ Correlates
      /\ "ALICE" \in Party /\ "BOB" \in Party
  BY Parts, TwoParties DEF Parties
<1> DEFINE r == [j \in 1 .. Cols("BOB") |-> ChoiceBlock("BOB", j)]
<1>2. /\ pc["BOB"] = "extend" /\ Extending("BOB")
      /\ RecvPreBlock(Cols("BOB"), r)
      /\ Extended("BOB", Columns(BobRows(Cols("BOB")), Now("BOB")))
      /\ Noted(Width * Cols("BOB"))
  BY DEF BobExtends, Extending
<1>3. /\ malicious' = malicious /\ delta' = delta /\ secret' = secret /\ keys' = keys /\ script' = script
      /\ step' = step /\ gid' = gid /\ start' = start /\ local' = local
  BY DEF BobExtends, base
<1>4. /\ Now("BOB") \in Nat \ {0} /\ Cols("BOB") = Wide(Now("BOB")) /\ Cols("BOB") \in Nat \ {0}
      /\ data["BOB"] \in Seq(Block) /\ Len(data["BOB"]) \in Nat /\ Length("BOB") \in Nat
      /\ Len(data["BOB"]) + Now("BOB") <= Length("BOB")
      /\ at["BOB"] \in 1 .. Len(script) /\ Call("BOB") = script[at["BOB"]]
      /\ Length("BOB") = Len(script[at["BOB"]].r)
  BY <1>1, <1>2, NowFacts
<1>5. PICK n \in Nat \ {0}, w \in Nat \ {0} : n = Now("BOB") /\ w = Cols("BOB") /\ w = Wide(n)
  BY <1>4
<1>6. PICK z : z = Last OBVIOUS
<1>7. /\ IsAt("BOB", z) /\ z \in Place /\ used.g0 = z.from
      /\ z.from \in Nat /\ z.pos \in Nat /\ z.done \in Nat
  BY <1>1, <1>6, AtPlace, PlaceFacts DEF Places
<1>8. z.k = at["BOB"] /\ z.phase = "extend" /\ z.done = Len(data["BOB"]) /\ New(z) = n
  BY <1>1, <1>2, <1>5, <1>7, NowFacts
<1>9. \A j \in 1 .. w : r[j] = ChosenBits(z.k, z.done, j) /\ r[j] \in Block
  <2> SUFFICES ASSUME NEW j \in 1 .. w PROVE r[j] = ChosenBits(z.k, z.done, j) /\ r[j] \in Block
    OBVIOUS
  <2>1. r[j] = ChoiceBlock("BOB", j) BY <1>5
  <2>2. ChoiceBlock("BOB", j) = ChosenBits(z.k, z.done, j)
    BY <1>4, <1>8 DEF ChoiceBlock, ChosenBits
  <2>3. ChosenBits(z.k, z.done, j) \in Block BY ConstantFacts DEF ChosenBits
  <2> QED BY <2>1, <2>2, <2>3
<1> HIDE DEF r
<1>10. PICK from \in Nat : from = used.g0 /\ from = z.from BY <1>7
<1>11. RecvPreBlock(w, r) BY <1>2, <1>5
<1>12. PICK msgs : Received(msgs, w, r, from)
  BY <1>2, <1>9, <1>10, <1>11, RecvFacts
<1>13. /\ msgs \in Seq(Stuff) /\ Len(msgs) = Width * w
       /\ net' = [net EXCEPT !["ALICE"] = @ \o msgs]
       /\ \A i \in Rows : \A j \in 1 .. w : msgs[i * w + j] = XOR(Given(from, i, j), r[j])
  BY <1>12 DEF Received
<1>14. PICK cols \in Seq(Block) : cols = Columns(BobRows(w), n) /\ Len(cols) = n
  BY ColumnsTyped
<1>15. Extended("BOB", cols) BY <1>2, <1>5, <1>14
<1>16. PICK all : all = data["BOB"] \o cols OBVIOUS
<1>17. /\ Advances("BOB", all)
       /\ Len(all) = z.done + n
       /\ \A c \in 1 .. n : all[z.done + c] = cols[c]
  <2>1. Len(cols) = Now("BOB") BY <1>5, <1>14
  <2>2. /\ Advances("BOB", all)
        /\ Len(all) = Len(data["BOB"]) + Now("BOB")
        /\ \A c \in 1 .. Now("BOB") : all[Len(data["BOB"]) + c] = cols[c]
    <3>1. "BOB" \in Party /\ pc["BOB"] = "extend" /\ script' = script /\ malicious' = malicious
      BY <1>1, <1>2, <1>3
    <3> QED BY <1>15, <1>16, <2>1, <3>1, ExtendedAdvances, Zenon
  <2> QED BY <1>5, <1>8, <2>2, Zenon
<1>18. used \in [a : Nat, g0 : Nat, g1 : Nat] /\ local.r = <<>> /\ local \in [ALICE : Blocks, BOB : Blocks, r : Bits]
  BY <1>1, <1>2 DEF TypeOK, Places
<1>19. used'.g0 = from + w /\ used'.g1 = from + w /\ used'.a = used.a /\ from + w \in Nat
       /\ used' \in [a : Nat, g0 : Nat, g1 : Nat]
  BY <1>2, <1>9, <1>10, <1>11, RecvFacts
<1>20. cot' \in [Party -> Seq(Blocks)] /\ Len(data'["BOB"]) \in Nat
  <2>1. cot' \in [Party -> Seq(Blocks)] BY <1>1, <1>17, AdvancesTyped
  <2>2. data'["BOB"] = all \/ data'["BOB"] = <<>> BY <1>1, <1>17, AdvancesWays
  <2>3. Len(<<>>) = 0 /\ Len(all) \in Nat BY <1>7, <1>17
  <2> QED BY <2>1, <2>2, <2>3
<1>21. PICK m \in Place :
         /\ place' = Append(place, m) /\ place' \in Seq(Place) /\ Lands(m)
         /\ m.from = used'.g0 /\ m.pos = z.pos + Width * w /\ m.r = <<>>
  <2>1. Width * w \in Nat BY ConstantFacts
  <2>2. local'.r \in Bits BY <1>3, <1>18
  <2>3. Noted(Width * w) BY <1>2, <1>5
  <2> QED BY <1>1, <1>3, <1>6, <1>18, <1>19, <1>20, <2>1, <2>2, <2>3, NotedPlace
<1>22. Landed(z.k, m, all)
  <2>1. PICK k \in Nat \ {0} : k = z.k BY <1>7 DEF Place
  <2>2. k = at["BOB"] BY <1>8, <2>1
  <2>3. Landed(k, m, all) BY <1>17, <1>21, <2>2, BobAdvancesPlace
  <2> QED BY <2>1, <2>3
<1>23. Follows(z, m)
  <2>1. malicious /\ Len(all) = Length("BOB") => pc'["BOB"] = "extra"
    <3>1. data["BOB"] \o cols = all /\ pc \in [Party -> {"setup", "points", "keys", "idle", "extend", "extra", "check",
                                                         "start", "hash", "error"}]
      BY <1>1, <1>16, PartyFacts
    <3> QED BY <1>1, <1>15, <3>1 DEF Extended, Goes
  <2>2. PICK L \in Nat : L = Length("BOB") /\ L = Len(script[z.k].r)
    BY <1>4, <1>8
  <2>3. z.done < L BY <1>2, <1>1, <1>8, <2>2 DEF Positions, PositionOf
  <2>4. m.from = z.from + w /\ m.pos = z.pos + Width * w /\ m.r = <<>>
    BY <1>10, <1>19, <1>21
  <2>5. /\ z.done + n < L => m.k = z.k /\ m.phase = "extend" /\ m.done = z.done + n
        /\ (z.done + n = L /\ malicious) => m.k = z.k /\ m.phase = "extra" /\ m.done = L
        /\ (z.done + n = L /\ ~malicious) => m.k = z.k + 1 /\ m.phase = "extend" /\ m.done = 0
    <3>1. PICK d \in Nat : d = z.done + n /\ d = Len(all) BY <1>7, <1>17
    <3>2. CASE d < L BY <1>22, <2>2, <3>1, <3>2 DEF Landed
    <3>3. CASE d = L /\ malicious BY <1>22, <2>1, <2>2, <3>1, <3>3 DEF Landed
    <3>4. CASE d = L /\ ~malicious BY <1>22, <2>2, <3>1, <3>4 DEF Landed
    <3> QED BY <3>1, <3>2, <3>3, <3>4
  <2> QED BY <1>4, <1>5, <1>8, <2>2, <2>3, <2>4, <2>5 DEF Follows
<1>24. BobMoves(m, msgs)
  <2>1. Len(msgs) = m.pos - z.pos
    <3>1. PICK x \in Nat : x = Width * w BY ConstantFacts
    <3> QED BY <1>7, <1>13, <1>21, <3>1
  <2> QED
    BY <1>2, <1>3, <1>6, <1>13, <1>18, <1>19, <1>21, <1>22, <1>23, <2>1 DEF BobMoves, Landed
<1>25. PICK l : l = Len(place) OBVIOUS
<1>26. Carried(l)'
  <2>1. \A x \in 1 .. Len(msgs) : Sent(l, x)' = msgs[x]
    BY <1>1, <1>24, <1>25, BobSent
  <2>2. place'[l] = z /\ l \in Nat \ {0}
    <3>1. Prolongs(place, place') /\ Len(place) \in 1 .. Len(place) /\ place[Len(place)] = Last /\ Len(place) \in Nat \ {0}
      BY <1>1, <1>24, BobPlaces, AtPlace
    <3> QED BY <1>6, <1>25, <3>1 DEF Prolongs
  <2>3. New(z)' = n /\ Wide(n)' = w BY <1>3, <1>5, <1>8 DEF New, Wide
  <2>4. ASSUME NEW i \in Rows, NEW j \in 1 .. w
        PROVE  Sent(l, i * w + j)' = XOR(Given(from, i, j), ChosenBits(z.k, z.done, j))'
    <3>1. i * w + j \in 1 .. Width * w BY ConstantFacts, RowMajor DEF Rows
    <3>2. Sent(l, i * w + j)' = msgs[i * w + j] BY <1>13, <2>1, <3>1
    <3>3. Given(from, i, j)' = Given(from, i, j) /\ ChosenBits(z.k, z.done, j)' = ChosenBits(z.k, z.done, j)
      BY <1>3 DEF Given, ChosenBits
    <3>4. msgs[i * w + j] = XOR(Given(from, i, j), ChosenBits(z.k, z.done, j))
      BY <1>9, <1>13
    <3> QED BY <3>2, <3>3, <3>4
  <2> QED BY <1>8, <1>10, <2>2, <2>3, <2>4 DEF Carried
<1>27. /\ z.done + New(z) <= Len(Taken(z.k)')
       /\ \A c \in 1 .. New(z) : Taken(z.k)'[z.done + c] = Col(z.from, c)
  <2>1. Len(all) <= Len(Taken(z.k)') /\ z.done + New(z) <= Len(all)
    <3>1. PICK d \in Nat : d = Len(all) /\ d = z.done + New(z)
      BY <1>7, <1>8, <1>17
    <3> QED BY <1>22, <3>1 DEF Landed
  <2>2. \A c \in 1 .. n : cols[c] = Col(z.from, c)
    BY <1>5, <1>10, <1>14, BobColumn
  <2>3. z.done + New(z) <= Len(Taken(z.k)')
    BY <1>8, <1>17, <1>22, <2>1 DEF Landed
  <2> QED BY <1>8, <1>17, <1>22, <2>2, <2>3 DEF Landed
<1>28. Positions' BY <1>1, <1>17, AdvancesPositions
<1>29. TypeOK'
  <2>1. net' \in [Party -> Seq(Stuff)]
    <3>1. net \in [Party -> Seq(Stuff)] /\ net["ALICE"] \in Seq(Stuff)
      BY <1>1, PartyFacts
    <3>2. net["ALICE"] \o msgs \in Seq(Stuff) BY <1>13, <3>1, ConcatFacts
    <3> QED BY <1>13, <3>1, <3>2
  <2>2. step' \in Nat /\ local' \in [ALICE : Blocks, BOB : Blocks, r : Bits]
    BY <1>1, <1>3, <1>18 DEF TypeOK
  <2> QED BY <1>1, <1>3, <1>17, <1>19, <1>21, <2>1, <2>2, AdvanceTypeOK
<1>30. InTurn' /\ ToBob' /\ Resulted'
  <2>1. Len(cot'["ALICE"]) <= Len(cot'["BOB"])
    BY <1>1, <1>24, BobCorrelates DEF Correlates
  <2>2. net'["BOB"] = net["BOB"] BY <1>1, <1>13, PartyFacts, PeerFacts
  <2> QED BY <1>1, <1>3, <1>17, <2>1, <2>2, AdvancesHashes DEF Aside
<1> QED
  BY <1>3, <1>6, <1>22, <1>24, <1>25, <1>26, <1>27, <1>28, <1>29, <1>30, BobStepInv DEF Landed

-----------------------------------------------------------------------------
(* What BOB proves *)

(* The halves of a sum of products are blocks. *)
LEMMA Halves == ASSUME NEW c, NEW blocks, NEW t, t = InnerProduct(c, blocks)
  PROVE  Low(t) \in Block /\ High(t) \in Block
<1>1. Width \in Nat \ {0} /\ Rows = 0 .. Width - 1 /\ Block = SUBSET Rows
  BY ConstantFacts DEF Rows
<1>2. \A k \in t : k \in 0 .. 2 * Width - 2 BY DEF InnerProduct
<1>3. ASSUME NEW k \in t, k \notin Rows PROVE k - Width \in Rows
  BY <1>1, <1>2, <1>3
<1>4. High(t) \subseteq Rows BY <1>3 DEF High
<1> QED BY <1>1, <1>4 DEF Low

(* The coefficients are those of the call the party is at. *)
LEMMA CoefficientsAre == ASSUME NEW p, NEW seed, NEW L, L = Length(p)
  PROVE  Coefficients(p, seed) = Coeffs(L, seed)
  BY DEF Coefficients, Coeffs

(* The proof is of four blocks. *)
LEMMA ProofFacts ==
  ASSUME NEW seed \in Block, NEW x \in Block, NEW c, NEW blocks, NEW t, t = InnerProduct(c, blocks),
         NEW msgs, msgs = Proof(seed, x, t)
  PROVE  /\ msgs \in Seq(Stuff) /\ Len(msgs) = 4
         /\ msgs[1] = seed /\ msgs[2] = x /\ msgs[3] = Low(t) /\ msgs[4] = High(t)
<1>1. Low(t) \in Block /\ High(t) \in Block BY Halves
<1>2. Block \subseteq Stuff BY DEF Stuff
<1> QED BY <1>1, <1>2 DEF Proof

(* BOB's proof is of the OTs he has. *)
LEMMA BobProvesInv == ASSUME IInv, BobProves
  PROVE  IInv'
<1>1. /\ TypeOK /\ Positions /\ Places /\ ToAlice /\ Columned /\ Correlates
      /\ "ALICE" \in Party /\ "BOB" \in Party
  BY Parts, TwoParties DEF Parties
<1>2. PICK seed \in Combiners :
        LET c == Coefficients("BOB", seed)
            t == InnerProduct(c, data["BOB"] \o local.BOB)
            x == Combined(c, Call("BOB").r \o local.r)
        IN
        /\ pc["BOB"] = "check"
        /\ Sends("BOB", <<seed, x, Low(t), High(t)>>)
        /\ local' = [local EXCEPT !.BOB = <<>>, !.r = <<>>]
        /\ Returns("BOB", data["BOB"])
        /\ UNCHANGED <<base, script, used, step, gid, start>>
        /\ Noted(4)
  BY DEF BobProves
<1>3. PICK c : c = Coefficients("BOB", seed) OBVIOUS
<1>4. PICK t : t = InnerProduct(c, data["BOB"] \o local.BOB) OBVIOUS
<1>5. PICK x : x = Combined(c, Call("BOB").r \o local.r) OBVIOUS
<1>6. PICK msgs : msgs = Proof(seed, x, t) OBVIOUS
<1>7. /\ pc["BOB"] = "check" /\ Extending("BOB")
      /\ Sends("BOB", msgs)
      /\ local' = [local EXCEPT !.BOB = <<>>, !.r = <<>>]
      /\ Returns("BOB", data["BOB"])
      /\ Noted(4)
  BY <1>2, <1>3, <1>4, <1>5, <1>6 DEF Extending, Proof
<1>8. /\ malicious' = malicious /\ delta' = delta /\ secret' = secret /\ keys' = keys /\ script' = script
      /\ step' = step /\ gid' = gid /\ start' = start /\ used' = used
  BY <1>2 DEF base
<1>9. seed \in Block /\ x \in Block
  BY ConstantFacts, OTAssumption, <1>5 DEF Combined
<1>10. /\ msgs \in Seq(Stuff) /\ Len(msgs) = 4
       /\ msgs[1] = seed /\ msgs[2] = x /\ msgs[3] = Low(t) /\ msgs[4] = High(t)
  BY <1>4, <1>6, <1>9, ProofFacts
<1>11. PICK z : z = Last OBVIOUS
<1>12. /\ IsAt("BOB", z) /\ z \in Place /\ used.g0 = z.from /\ used.g1 = z.from
       /\ z.from \in Nat /\ z.pos \in Nat /\ z.done \in Nat
       /\ local.r = z.r /\ z.r \in Chosen
  BY <1>1, <1>7, <1>11, AtPlace, PlaceFacts DEF Places
<1>13. /\ at["BOB"] \in Nat \ {0} /\ at["BOB"] \in 1 .. Len(script) /\ Len(cot["BOB"]) = at["BOB"] - 1
       /\ Len(data["BOB"]) = Length("BOB") /\ malicious
       /\ data["BOB"] \in Seq(Block) /\ Len(data["BOB"]) \in Nat /\ cot["BOB"] \in Seq(Blocks)
  <2>1. PositionOf("BOB") /\ data["BOB"] \in Seq(Block) /\ Len(data["BOB"]) \in Nat
    BY <1>1, <1>7, LenProperties DEF Positions, TypeOK, Blocks
  <2>2. at["BOB"] \in Nat \ {0} /\ cot["BOB"] \in Seq(Blocks) /\ Len(script) \in Nat
    BY <1>1, PartyFacts
  <2> QED BY <1>7, <2>1, <2>2 DEF PositionOf, Hashing, Extending
<1>14. z.k = at["BOB"] /\ z.phase = "check" /\ z.done = Length("BOB") /\ Length("BOB") = Len(script[z.k].r)
       /\ Call("BOB") = script[z.k]
  <2>1. z.k = Len(cot["BOB"]) + 1 /\ z.phase = "check" /\ z.done = Len(data["BOB"])
    BY <1>7, <1>12 DEF IsAt, Phase, OTs
  <2> QED BY <1>13, <2>1 DEF Length, Call
<1>15. Advances("BOB", data["BOB"])
  <2>1. Prolongs(data["BOB"], data["BOB"]) BY <1>13, ProlongsSelf
  <2> QED BY <1>7, <1>8, <1>13, <2>1 DEF Advances
<1>16. /\ cot' \in [Party -> Seq(Blocks)] /\ data'["BOB"] = <<>> /\ cot'["BOB"] = Append(cot["BOB"], data["BOB"])
       /\ Len(data'["BOB"]) \in Nat /\ Len(<<>>) = 0
  <2>1. cot' \in [Party -> Seq(Blocks)] BY <1>1, <1>15, AdvancesTyped
  <2>2. data'["BOB"] = <<>> /\ cot'["BOB"] = Append(cot["BOB"], data["BOB"])
    <3>1. pc["BOB"] # "extend" BY <1>7
    <3> QED BY <1>1, <1>15, <3>1, AdvancesWays
  <2> QED BY <2>1, <2>2
<1>17. /\ local'.r = <<>> /\ local'.r \in Bits /\ local'.ALICE = local.ALICE
       /\ local' \in [ALICE : Blocks, BOB : Blocks, r : Bits]
       /\ used' \in [a : Nat, g0 : Nat, g1 : Nat]
  <2>1. local \in [ALICE : Blocks, BOB : Blocks, r : Bits] /\ used \in [a : Nat, g0 : Nat, g1 : Nat]
    BY <1>1 DEF TypeOK
  <2>2. <<>> \in Blocks /\ <<>> \in Bits BY DEF Blocks, Bits
  <2> QED BY <1>7, <1>8, <2>1, <2>2
<1>18. PICK m \in Place :
         /\ place' = Append(place, m) /\ place' \in Seq(Place) /\ Lands(m)
         /\ m.from = used'.g0 /\ m.pos = z.pos + 4 /\ m.r = <<>>
  <2>1. used'.g0 \in Nat BY <1>8, <1>12
  <2> QED BY <1>1, <1>7, <1>11, <1>16, <1>17, <2>1, NotedPlace
<1>19. Landed(z.k, m, data["BOB"])
  <2>1. PICK k \in Nat \ {0} : k = z.k BY <1>12 DEF Place
  <2>2. k = at["BOB"] BY <1>14, <2>1
  <2>3. Landed(k, m, data["BOB"]) BY <1>15, <1>18, <2>2, BobAdvancesPlace
  <2> QED BY <2>1, <2>3
<1>20. Follows(z, m)
  <2>1. m.k = z.k + 1 /\ m.phase = "extend" /\ m.done = 0
    BY <1>7, <1>19 DEF Landed
  <2>2. z.k \in 1 .. Len(script) /\ m.from = z.from
    BY <1>8, <1>12, <1>13, <1>14, <1>18
  <2> QED BY <1>14, <1>18, <2>1, <2>2 DEF Follows
<1>21. net' = [net EXCEPT !["ALICE"] = @ \o msgs]
  BY <1>7, PeerFacts, <1>1 DEF Sends, Peer
<1>22. BobMoves(m, msgs)
  <2>1. Len(msgs) = m.pos - z.pos BY <1>10, <1>12, <1>18
  <2>2. used'.g0 = m.from /\ used'.g1 = m.from /\ used'.a = used.a
    BY <1>8, <1>12, <1>18
  <2> QED
    BY <1>7, <1>8, <1>10, <1>11, <1>17, <1>18, <1>19, <1>20, <1>21, <2>1, <2>2 DEF BobMoves, Landed
<1>23. PICK l : l = Len(place) OBVIOUS
<1>24. Carried(l)'
  <2>1. \A i \in 1 .. Len(msgs) : Sent(l, i)' = msgs[i]
    BY <1>1, <1>22, <1>23, BobSent
  <2>2. Sent(l, 1)' = seed /\ Sent(l, 2)' = x /\ Sent(l, 3)' = Low(t) /\ Sent(l, 4)' = High(t)
    BY <1>10, <2>1
  <2>3. place'[l] = z
    <3>1. Prolongs(place, place') /\ Len(place) \in 1 .. Len(place) /\ place[Len(place)] = Last
      BY <1>1, <1>22, BobPlaces, AtPlace
    <3> QED BY <1>11, <1>23, <3>1 DEF Prolongs
  <2>4. cot'["BOB"][z.k] = data["BOB"] /\ z.k <= Len(cot'["BOB"])
    <3>1. data["BOB"] \in Blocks BY <1>13 DEF Blocks
    <3>2. Len(Append(cot["BOB"], data["BOB"])) = Len(cot["BOB"]) + 1
          /\ Append(cot["BOB"], data["BOB"])[Len(cot["BOB"]) + 1] = data["BOB"]
      BY <1>13, <3>1, AppendFacts
    <3>3. Len(cot["BOB"]) + 1 = z.k BY <1>13, <1>14
    <3> QED BY <1>13, <1>14, <1>16, <3>2, <3>3
  <2>5. local.BOB = Columns2(z.from - 2) /\ Columns2(z.from - 2)' = Columns2(z.from - 2)
    BY <1>1, <1>7, <1>8, <1>11 DEF Columned, Columns2, Col
  <2>6. c = Coeffs(Len(script[z.k].r), seed) BY <1>3, <1>14, CoefficientsAre
  <2>7. t = InnerProduct(Coeffs(Len(script'[z.k].r), Sent(l, 1)'), cot'["BOB"][z.k] \o Columns2(z.from - 2)')
    BY <1>4, <1>8, <2>2, <2>4, <2>5, <2>6, Zenon
  <2>8. x = Combined(Coeffs(Len(script'[z.k].r), Sent(l, 1)'), script'[z.k].r \o z.r)
    BY <1>5, <1>8, <1>12, <1>14, <2>2, <2>6, Zenon
  <2>9. z.phase # "extend" /\ z.phase # "extra" BY <1>14
  <2>10. /\ z.k <= Len(cot'["BOB"])
         /\ Sent(l, 1)' \in Combiners
         /\ Sent(l, 2)' = Combined(Coeffs(Len(script'[z.k].r), Sent(l, 1)'), script'[z.k].r \o z.r)
         /\ Sent(l, 3)' = Low(InnerProduct(Coeffs(Len(script'[z.k].r), Sent(l, 1)'), cot'["BOB"][z.k] \o Columns2(z.from - 2)'))
         /\ Sent(l, 4)' = High(InnerProduct(Coeffs(Len(script'[z.k].r), Sent(l, 1)'), cot'["BOB"][z.k] \o Columns2(z.from - 2)'))
    BY <2>2, <2>4, <2>7, <2>8
  <2> QED BY <2>3, <2>9, <2>10, Zenon DEF Carried
<1>25. Positions' BY <1>1, <1>15, AdvancesPositions
<1>26. net' \in [Party -> Seq(Stuff)]
  <2>1. net \in [Party -> Seq(Stuff)] /\ net["ALICE"] \in Seq(Stuff)
    BY <1>1, PartyFacts
  <2>2. net["ALICE"] \o msgs \in Seq(Stuff) BY <1>10, <2>1, ConcatFacts
  <2> QED BY <1>21, <2>1, <2>2
<1>27. TypeOK'
  <2>1. step' \in Nat BY <1>1, <1>8 DEF TypeOK
  <2> QED BY <1>1, <1>8, <1>15, <1>17, <1>18, <1>26, <2>1, AdvanceTypeOK
<1>28. InTurn' /\ ToBob' /\ Resulted'
  <2>1. Len(cot'["ALICE"]) <= Len(cot'["BOB"])
    BY <1>1, <1>22, BobCorrelates DEF Correlates
  <2>2. net'["BOB"] = net["BOB"] BY <1>1, <1>21, PartyFacts, PeerFacts
  <2> QED BY <1>1, <1>8, <1>15, <2>1, <2>2, AdvancesHashes DEF Aside
<1>29. z.phase # "extend" /\ pc'["BOB"] # "check" BY <1>14, <1>19 DEF Landed
<1> QED
  BY <1>8, <1>11, <1>22, <1>23, <1>24, <1>25, <1>27, <1>28, <1>29, BobStepInv

-----------------------------------------------------------------------------
(* The OTs made for the check *)

(* A block of choice bits is a block. *)
LEMMA ExtraBlock == ASSUME NEW r, NEW j PROVE ExtraBits(r, j) \in Block
  BY ConstantFacts DEF ExtraBits

(* A row of the OTs made for the check takes two blocks. *)
LEMMA WideTwice == Wide(2 * Width) = 2 /\ 2 * Width \in Nat \ {0}
<1>1. Width \in Nat \ {0} BY ConstantFacts
<1>2. 2 * Width + Width - 1 = 2 * Width + (Width - 1) /\ Width - 1 \in 0 .. Width - 1
  BY <1>1
<1>3. PICK x : x = 2 * Width + Width - 1 OBVIOUS
<1>4. x \div Width = 2 BY <1>1, <1>2, <1>3, Division
<1> QED BY <1>1, <1>3, <1>4 DEF Wide

(* BOB's extra OTs come after all those of the call. *)
LEMMA BobExtraInv == ASSUME IInv, BobExtra
  PROVE  IInv'
<1>1. /\ TypeOK /\ Positions /\ Places /\ ToAlice /\ Columned /\ Correlates /\ InTurn /\ ToBob
      /\ "ALICE" \in Party /\ "BOB" \in Party /\ "ALICE" # "BOB"
  BY Parts, TwoParties DEF Parties
<1>2. PICK r \in Chosen :
        /\ pc["BOB"] = "extra"
        /\ RecvPreBlock(2, [j \in 1 .. 2 |-> {b \in Rows : r[(j - 1) * Width + b + 1]}])
        /\ local' = [local EXCEPT !.BOB = Columns(BobRows(2), 2 * Width), !.r = r]
        /\ Goes("BOB", "check")
        /\ UNCHANGED <<base, script, at, step, gid, start, data, cot, out>>
        /\ Noted(2 * Width)
  BY DEF BobExtra
<1> DEFINE e == [j \in 1 .. 2 |-> {b \in Rows : r[(j - 1) * Width + b + 1]}]
<1>3. \A j \in 1 .. 2 : e[j] = ExtraBits(r, j) /\ e[j] \in Block
  BY ExtraBlock DEF ExtraBits
<1>4. RecvPreBlock(2, e) /\ Extending("BOB") BY <1>2 DEF Extending
<1> HIDE DEF e
<1>5. /\ malicious' = malicious /\ delta' = delta /\ secret' = secret /\ keys' = keys /\ script' = script
      /\ step' = step /\ gid' = gid /\ start' = start /\ at' = at /\ data' = data /\ cot' = cot /\ out' = out
  BY <1>2 DEF base
<1>6. pc' = [pc EXCEPT !["BOB"] = "check"] /\ pc'["BOB"] = "check" /\ pc'["ALICE"] = pc["ALICE"]
  BY <1>1, <1>2, PartyFacts DEF Goes
<1>7. PICK z : z = Last OBVIOUS
<1>8. /\ IsAt("BOB", z) /\ z \in Place /\ used.g0 = z.from /\ used.g1 = z.from
      /\ z.from \in Nat /\ z.pos \in Nat /\ z.done \in Nat
  BY <1>1, <1>7, AtPlace, PlaceFacts DEF Places
<1>9. PICK from \in Nat : from = used.g0 /\ from = z.from BY <1>8
<1>10. PICK msgs : Received(msgs, 2, e, from) BY <1>3, <1>4, <1>9, RecvFacts
<1>11. /\ msgs \in Seq(Stuff) /\ Len(msgs) = Width * 2
       /\ net' = [net EXCEPT !["ALICE"] = @ \o msgs]
       /\ \A i \in Rows : \A j \in 1 .. 2 : msgs[i * 2 + j] = XOR(Given(from, i, j), e[j])
  BY <1>10 DEF Received
<1>12. used'.g0 = from + 2 /\ used'.g1 = from + 2 /\ used'.a = used.a /\ from + 2 \in Nat
       /\ used' \in [a : Nat, g0 : Nat, g1 : Nat]
  BY <1>3, <1>4, <1>9, RecvFacts
<1>13. PICK cols \in Seq(Block) : cols = Columns(BobRows(2), 2 * Width) /\ Len(cols) = 2 * Width
  BY WideTwice, ColumnsTyped
<1>14. r \in Bits BY WideTwice, OTAssumption, FunSeq DEF Bits
<1>15. /\ local'.r = r /\ local'.BOB = cols /\ local'.ALICE = local.ALICE
       /\ local' \in [ALICE : Blocks, BOB : Blocks, r : Bits]
  <2>1. local \in [ALICE : Blocks, BOB : Blocks, r : Bits] /\ cols \in Blocks
    BY <1>1 DEF TypeOK, Blocks
  <2>2. local' = [[local EXCEPT !.BOB = cols] EXCEPT !.r = r] BY <1>2, <1>13
  <2> QED BY ONLY <1>14, <2>1, <2>2
<1>16. /\ at["BOB"] \in Nat \ {0} /\ at["BOB"] \in 1 .. Len(script) /\ Len(cot["BOB"]) = at["BOB"] - 1
       /\ Len(data["BOB"]) = Length("BOB") /\ malicious /\ data["BOB"] \in Seq(Block) /\ Len(data["BOB"]) \in Nat
       /\ cot \in [Party -> Seq(Blocks)] /\ cot["BOB"] \in Seq(Blocks) /\ pc \in [Party -> {"setup", "points", "keys", "idle", "extend", "extra", "check", "start", "hash", "error"}]
  <2>1. PositionOf("BOB") /\ data["BOB"] \in Seq(Block) /\ Len(data["BOB"]) \in Nat
    BY <1>1, <1>4, LenProperties DEF Positions, TypeOK, Blocks
  <2>2. at["BOB"] \in Nat \ {0} /\ cot \in [Party -> Seq(Blocks)] /\ cot["BOB"] \in Seq(Blocks) /\ Len(script) \in Nat
    BY <1>1, PartyFacts
  <2> QED
    <3>1. pc \in [Party -> {"setup", "points", "keys", "idle", "extend", "extra", "check", "start", "hash", "error"}]
      BY <1>1 DEF TypeOK
    <3> QED BY <1>2, <2>1, <2>2, <3>1 DEF PositionOf, Hashing, Extending
<1>17. z.k = at["BOB"] /\ z.phase = "extra" /\ z.done = Length("BOB") /\ Length("BOB") = Len(script[z.k].r)
       /\ z.k = Len(cot["BOB"]) + 1
  <2>1. z.k = Len(cot["BOB"]) + 1 /\ z.phase = "extra" /\ z.done = Len(data["BOB"])
    BY <1>2, <1>4, <1>8 DEF IsAt, Phase, OTs
  <2> QED BY <1>16, <2>1 DEF Length, Call
<1>18. PICK m \in Place :
         /\ place' = Append(place, m) /\ place' \in Seq(Place) /\ Lands(m)
         /\ m.from = used'.g0 /\ m.pos = z.pos + 2 * Width /\ m.r = r
  <2>1. used'.g0 \in Nat BY <1>12
  <2>2. cot' \in [Party -> Seq(Blocks)] /\ Len(data'["BOB"]) \in Nat /\ local'.r \in Bits
    BY <1>5, <1>14, <1>15, <1>16
  <2> QED BY <1>1, <1>2, <1>7, <1>15, <2>1, <2>2, WideTwice, NotedPlace
<1>19. /\ m.k = z.k /\ m.phase = "check" /\ m.done = z.done
       /\ (IsAt("BOB", m))'
  <2>1. m.k = Len(cot["BOB"]) + 1 /\ m.phase = "check" /\ m.done = Len(data["BOB"])
    BY <1>5, <1>6, <1>18 DEF Lands
  <2> QED BY <1>5, <1>6, <1>16, <1>17, <2>1 DEF IsAt, Phase, OTs, Extending
<1>20. Follows(z, m)
  <2>1. z.k \in 1 .. Len(script) /\ m.from = z.from + 2 /\ m.pos = z.pos + 2 * Width /\ m.r \in Chosen
    BY <1>9, <1>12, <1>16, <1>17, <1>18
  <2> QED BY <1>17, <1>19, <2>1 DEF Follows
<1>21. \A k \in Nat \ {0} : Taken(k)' = Taken(k)
  BY <1>4, <1>5, <1>6 DEF Taken, Have, Extending
<1>22. \A k \in Nat \ {0} : Prolongs(Taken(k), Taken(k)') /\ Len(Taken(k)') \in Nat
  <2> SUFFICES ASSUME NEW k \in Nat \ {0} PROVE Prolongs(Taken(k), Taken(k)') /\ Len(Taken(k)') \in Nat
    OBVIOUS
  <2>1. Taken(k) \in Blocks /\ Len(Taken(k)) \in Nat
    BY <1>1, HaveTyped DEF Taken
  <2> QED BY <1>21, <2>1, ProlongsSelf DEF Blocks
<1>23. BobMoves(m, msgs)
  <2>1. Len(msgs) = m.pos - z.pos
    <3>1. PICK x \in Nat : x = 2 * Width /\ x = Width * 2 BY ConstantFacts
    <3> QED BY <1>8, <1>11, <1>18, <3>1
  <2>2. Prolongs(cot["BOB"], cot'["BOB"]) BY <1>5, <1>16, ProlongsSelf
  <2>3. cot' \in [Party -> Seq(Blocks)] /\ cot'["ALICE"] = cot["ALICE"]
    BY <1>5, <1>16
  <2>4. used'.g0 = m.from /\ used'.g1 = m.from /\ used'.a = used.a /\ local'.r = m.r
    BY <1>12, <1>15, <1>18
  <2>5. pc'["BOB"] \notin {"setup", "points"} /\ m.r \in Chosen BY <1>6, <1>18
  <2> QED
    BY <1>4, <1>5, <1>6, <1>7, <1>11, <1>15, <1>18, <1>19, <1>20, <1>22, <2>1, <2>2, <2>3, <2>4, <2>5 DEF BobMoves
<1>24. PICK l : l = Len(place) OBVIOUS
<1>25. Carried(l)'
  <2>1. \A x \in 1 .. Len(msgs) : Sent(l, x)' = msgs[x]
    BY <1>1, <1>23, <1>24, BobSent
  <2>2. place'[l] = z /\ place'[l + 1] = m
    <3>1. Prolongs(place, place') /\ Len(place) \in 1 .. Len(place) /\ place[Len(place)] = Last /\ place'[Len(place) + 1] = m
      BY <1>1, <1>23, BobPlaces, AtPlace
    <3> QED BY <1>7, <1>24, <3>1 DEF Prolongs
  <2>3. ASSUME NEW i \in Rows, NEW j \in 1 .. 2
        PROVE  Sent(l, i * 2 + j)' = XOR(Given(from, i, j), ExtraBits(r, j))'
    <3>1. i * 2 + j \in 1 .. Width * 2 BY ConstantFacts, RowMajor DEF Rows
    <3>2. Sent(l, i * 2 + j)' = msgs[i * 2 + j] BY <1>11, <2>1, <3>1
    <3>3. Given(from, i, j)' = Given(from, i, j) /\ ExtraBits(r, j)' = ExtraBits(r, j)
      BY <1>5 DEF Given, ExtraBits
    <3>4. msgs[i * 2 + j] = XOR(Given(from, i, j), ExtraBits(r, j))
      BY <1>3, <1>11
    <3> QED BY <3>2, <3>3, <3>4
  <2>4. z.phase # "extend" /\ z.phase # "check" /\ m.r = r BY <1>17, <1>18
  <2> QED BY <1>9, <2>2, <2>3, <2>4 DEF Carried
<1>26. local'.BOB = Columns2(m.from - 2)
  <2>1. m.from - 2 = from BY <1>9, <1>12, <1>18
  <2>2. \A c \in 1 .. 2 * Width : cols[c] = Col(from, c)
    BY <1>9, <1>13, WideTwice, BobColumn
  <2>3. Columns2(from) \in Seq(Block) /\ Len(Columns2(from)) = 2 * Width
        /\ \A c \in 1 .. 2 * Width : Columns2(from)[c] = Col(from, c)
    BY Columns2Typed
  <2>4. PICK s : s = Columns2(from) OBVIOUS
  <2>5. cols = s
    <3>1. /\ s \in Seq(Block) /\ Len(s) = Len(cols)
          /\ \A c \in 1 .. Len(cols) : s[c] = cols[c]
      BY <1>13, <2>2, <2>3, <2>4
    <3> QED BY <3>1, SeqEqual
  <2> QED BY <1>15, <2>1, <2>4, <2>5
<1>27. Positions'
  <2>1. Prolongs(script, script') /\ Len(script') \in Nat
    BY <1>1, <1>5, PartyFacts, ProlongsSelf
  <2>2. PositionOf("ALICE")' BY <1>1, <1>5, <1>6, <2>1, OtherStays
  <2>3. PositionOf("BOB")'
    BY <1>1, <1>2, <1>5, <1>6 DEF Positions, PositionOf, Hashing, Extending, Length, Call
  <2>4. Together' BY <1>1, <1>2, <1>6 DEF Positions, Together
  <2> QED BY <2>2, <2>3, <2>4, TwoParties DEF Positions, Parties
<1>28. net' \in [Party -> Seq(Stuff)] /\ net'["BOB"] = net["BOB"]
  <2>1. net \in [Party -> Seq(Stuff)] /\ net["ALICE"] \in Seq(Stuff)
    BY <1>1, PartyFacts
  <2>2. net["ALICE"] \o msgs \in Seq(Stuff) BY <1>11, <2>1, ConcatFacts
  <2> QED BY <1>1, <1>11, <2>1, <2>2
<1>29. TypeOK'
  <2>1. step' \in Nat BY <1>1, <1>5 DEF TypeOK
  <2>2. pc' \in [Party -> {"setup", "points", "keys", "idle", "extend", "extra", "check", "start", "hash", "error"}]
    BY <1>6, <1>16
  <2>3. /\ \A p \in Party : Extending(p)' => data'[p] \in Blocks
        /\ pc'["ALICE"] = "hash" => data'["ALICE"] \in Seq(Pair)
        /\ pc'["BOB"] = "hash" => data'["BOB"] \in Seq(Plain \cup Pad)
        /\ \A p \in Party : ~Extending(p)' /\ pc'[p] # "hash" /\ pc'[p] # "error" => data'[p] = <<>>
    <3>1. \A p \in Party : p = "ALICE" \/ p = "BOB" BY TwoParties DEF Parties
    <3> QED BY <1>1, <1>2, <1>5, <1>6, <3>1 DEF TypeOK, Extending
  <2> QED BY <1>1, <1>5, <1>12, <1>15, <1>18, <1>28, <2>1, <2>2, <2>3 DEF TypeOK
<1>30. InTurn' /\ ToBob' /\ Resulted'
  <2>1. ~Hashing("BOB") /\ ~Past BY <1>1, <1>2 DEF Hashing, InTurn
  <2>2. net["BOB"] = <<>> BY <1>1, <1>2, <2>1 DEF ToBob
  <2>3. script' \in Seq(Calls) /\ Prolongs(script, script')
    BY <1>1, <1>5, PartyFacts, ProlongsSelf
  <2>4. \A p \in Party : /\ Prolongs(cot[p], cot'[p])
                         /\ pc'[p] = "hash" <=> pc[p] = "hash"
                         /\ pc[p] = "hash" => data'[p] = data[p]
    <3> SUFFICES ASSUME NEW p \in Party
                 PROVE  /\ Prolongs(cot[p], cot'[p])
                        /\ pc'[p] = "hash" <=> pc[p] = "hash"
                        /\ pc[p] = "hash" => data'[p] = data[p]
      OBVIOUS
    <3>1. Prolongs(cot[p], cot'[p]) BY <1>5, <1>16, ProlongsSelf
    <3>2. p = "ALICE" \/ p = "BOB" BY TwoParties DEF Parties
    <3> QED BY <1>2, <1>5, <1>6, <3>1, <3>2
  <2>5. /\ pc'["BOB"] = "start" <=> pc["BOB"] = "start"
        /\ Past => pc'["ALICE"] # "start"
        /\ Hashing("BOB") => net'["BOB"] = net["BOB"]
        /\ (~Hashing("BOB") /\ ~(pc'["BOB"] = "points" /\ pc'["ALICE"] = "keys")) => net'["BOB"] = <<>>
        /\ cot' \in [Party -> Seq(Blocks)]
    BY <1>2, <1>5, <1>6, <1>16, <1>28, <2>1, <2>2
  <2>6. Resting BY <1>5, <2>3, <2>4, <2>5 DEF Resting
  <2> QED BY <2>6, RestingHashes
<1>31. z.phase # "extend" BY <1>17
<1> QED
  BY <1>5, <1>7, <1>23, <1>24, <1>25, <1>26, <1>27, <1>29, <1>30, <1>31, BobStepInv

-----------------------------------------------------------------------------
(* A step of ALICE's extension, once its message is there *)

(* If there is something for ALICE to read, it is the message of the step *)
(* she is at, and there is a next place.                                  *)
LEMMA AliceTurn == ASSUME IInv, Extending("ALICE"), Len(net["ALICE"]) >= 1
  PROVE  \E m, e : Turn(m, e)
<1>1. /\ TypeOK /\ Positions /\ Places /\ ToAlice /\ "ALICE" \in Party /\ "BOB" \in Party
  BY Parts, TwoParties DEF Parties
<1>2. /\ Len(place) \in Nat \ {0} /\ Len(place) \in 1 .. Len(place)
      /\ step \in 1 .. Len(place) /\ step \in Nat /\ place[Len(place)] = Last
  BY <1>1, AtPlace
<1>3. Before = 0 BY <1>1 DEF Before, Extending, Positions, Together
<1>4. Last.pos \in Nat /\ place[step].pos \in Nat BY <1>1, <1>2, PlaceFacts
<1>5. Len(net["ALICE"]) = Before + (Last.pos - place[step].pos)
  BY <1>1 DEF ToAlice
<1>6. step # Len(place)
  <2> SUFFICES ASSUME step = Len(place) PROVE FALSE OBVIOUS
  <2>1. place[step].pos = Last.pos BY <1>2
  <2> QED BY <1>3, <1>4, <1>5, <2>1
<1>7. step \in 1 .. Len(place) - 1 /\ step + 1 \in 1 .. Len(place) BY <1>2, <1>6
<1>8. Follows(place[step], place[step + 1]) BY <1>1, <1>7, StepFacts
<1>9. place[step] \in Place /\ place[step + 1] \in Place
  BY <1>1, <1>7, PlaceFacts
<1>10. Carried(step) BY <1>1, <1>2, <1>7 DEF ToAlice
<1>11. ASSUME NEW x \in Int PROVE Sent(step, x) = net["ALICE"][x]
  <2>1. Before + (place[step].pos - place[step].pos) + x = x BY <1>3, <1>4
  <2> QED BY <2>1 DEF Sent
<1>12. IsAt("ALICE", place[step]) /\ used.a = place[step].from
  BY <1>1 DEF Places
<1>13. place[step].k = at["ALICE"]
  <2>1. PositionOf("ALICE") /\ at["ALICE"] \in Nat
    BY <1>1, PartyFacts DEF Positions
  <2> QED BY <1>12, <2>1 DEF PositionOf, Extending, Hashing, IsAt
<1> QED BY <1>2, <1>7, <1>8, <1>9, <1>10, <1>11, <1>12, <1>13 DEF Turn

(* Having all of the call's OTs so far, ALICE is at the place after the   *)
(* one she was at.                                                        *)
LEMMA AliceAdvancesPlace ==
  ASSUME IInv, NEW all, Advances("ALICE", all), NEW e, Meets(e, all), NEW k \in Nat \ {0}, k = at["ALICE"]
  PROVE  Met(e, k, all)
<1>1. /\ TypeOK /\ Positions /\ "ALICE" \in Party /\ "BOB" \in Party /\ "ALICE" # "BOB"
  BY Parts, TwoParties DEF Parties
<1>2. /\ at["ALICE"] \in Nat /\ Len(cot["ALICE"]) = at["ALICE"] - 1
      /\ pc'["BOB"] = pc["BOB"] /\ at'["BOB"] = at["BOB"] /\ data'["BOB"] = data["BOB"]
      /\ cot'["BOB"] = cot["BOB"]
  BY <1>1, AdvancesWays
<1>3. all \in Blocks /\ Len(all) \in Nat BY LenProperties DEF Advances, Blocks
<1>4. cot' \in [Party -> Seq(Blocks)] BY <1>1, AdvancesTyped
<1>5. \A j \in Nat \ {0} : j # k => Have("ALICE", j)' = Have("ALICE", j)
  BY <1>1, AdvancesHave
<1>6. Have("ALICE", k)' = all /\ Have("ALICE", k) = data["ALICE"]
  BY <1>1, AdvancesHave
<1>7. Len(<<>>) = 0 OBVIOUS
<1>8. CASE /\ pc["ALICE"] = "extend" /\ Len(all) < Length("ALICE") /\ pc'["ALICE"] = "extend" /\ data'["ALICE"] = all
           /\ at' = at /\ cot' = cot /\ out' = out
  <2>1. e.k = at["ALICE"] /\ e.phase = "extend" /\ e.done = Len(all)
    BY <1>8 DEF Meets
  <2>2. (IsAt("ALICE", e))' BY <1>2, <1>8, <2>1 DEF IsAt, Phase, OTs, Extending
  <2> QED BY <1>2, <1>4, <1>5, <1>6, <1>8, <2>2 DEF Met
<1>9. CASE /\ pc["ALICE"] = "extend" /\ Len(all) = Length("ALICE") /\ malicious /\ pc'["ALICE"] = "extra" /\ data'["ALICE"] = all
           /\ at' = at /\ cot' = cot /\ out' = out
  <2>1. e.k = at["ALICE"] /\ e.phase = "extra" /\ e.done = Len(all)
    BY <1>9 DEF Meets
  <2>2. (IsAt("ALICE", e))' BY <1>2, <1>9, <2>1 DEF IsAt, Phase, OTs, Extending
  <2> QED BY <1>2, <1>4, <1>5, <1>6, <1>9, <2>2 DEF Met
<1>10. CASE /\ Len(all) = Length("ALICE") /\ pc'["ALICE"] \in {"idle", "start"} /\ data'["ALICE"] = <<>>
            /\ cot'["ALICE"] = Append(cot["ALICE"], all)
  <2>1. Len(cot'["ALICE"]) = Len(cot["ALICE"]) + 1
    BY <1>1, <1>3, <1>10, PartyFacts, AppendFacts
  <2>2. e.k = at["ALICE"] + 1 /\ e.phase = "extend" /\ e.done = 0
    BY <1>10 DEF Meets
  <2>3. (IsAt("ALICE", e))'
    BY <1>2, <1>10, <2>1, <2>2 DEF IsAt, Phase, OTs, Extending
  <2> QED BY <1>2, <1>4, <1>5, <1>6, <1>10, <2>3 DEF Met
<1> QED BY <1>1, <1>8, <1>9, <1>10, AdvancesWays

(* A step of ALICE's extension keeps the invariant, once what is particular to it is known. *)
LEMMA AliceStepInv ==
  ASSUME IInv, NEW m, NEW e, AliceMoves(m, e), secret' = secret,
         TypeOK', Positions', InTurn', ToBob', Resulted', Correlates'
  PROVE  IInv'
<1>1. /\ TypeOK /\ Positions /\ Places /\ ToAlice /\ Columned
      /\ "ALICE" \in Party /\ "BOB" \in Party
  BY Parts, TwoParties DEF Parties
<1>2. Places' /\ ToAlice' /\ Columned'
  BY <1>1, AlicePlaces, AliceToAlice, AliceColumned
<1>3. /\ keys' = keys /\ delta' = delta /\ pc'["BOB"] = pc["BOB"]
      /\ pc["ALICE"] \in {"extend", "extra", "check"} /\ pc'["ALICE"] \notin {"setup", "keys"}
  BY DEF AliceMoves, Extending
<1>4. pc'["ALICE"] # "points" /\ pc["BOB"] \notin {"setup", "points"} /\ pc["BOB"] # "keys"
  BY <1>1, <1>3 DEF Positions, Together
<1>5. \A p \in Party : pc'[p] = pc[p] \/ {pc[p], pc'[p]} \cap {"setup", "keys", "points"} = {}
  <2>1. \A p \in Party : p = "ALICE" \/ p = "BOB" BY TwoParties DEF Parties
  <2>2. {pc["ALICE"], pc'["ALICE"]} \cap {"setup", "keys", "points"} = {}
    BY <1>3, <1>4
  <2> QED BY <1>3, <2>1, <2>2
<1>6. BaseOT' BY <1>3, <1>4, <1>5, BaseStays
<1> QED BY <1>2, <1>6 DEF IInv

-----------------------------------------------------------------------------
(* ALICE's next OTs *)

(* ALICE's choice bits are those BOB's message is of. *)
LEMMA ChosenThere ==
  ASSUME TypeOK, NEW k \in 1 .. Len(script), NEW done \in Nat, NEW n \in Nat \ {0}, done + n <= Len(script[k].r),
         NEW c \in 1 .. n
  PROVE  /\ script[k].r[done + c] \in BOOLEAN
         /\ script[k].r[done + c] <=> ((c - 1) % Width) \in ChosenBits(k, done, ((c - 1) \div Width) + 1)
<1>1. /\ Width \in Nat \ {0}
      /\ ((c - 1) \div Width) \in Nat /\ (c - 1) % Width \in Rows
      /\ c - 1 = ((c - 1) \div Width) * Width + ((c - 1) % Width)
  BY WideFacts
<1>2. PICK q \in Nat, b \in Rows : q = (c - 1) \div Width /\ b = (c - 1) % Width
  BY <1>1
<1>3. Len(script[k].r) \in Nat /\ \A i \in 1 .. Len(script[k].r) : script[k].r[i] \in BOOLEAN
  BY ScriptFacts
<1>4. done + c \in 1 .. Len(script[k].r) BY <1>3
<1>5. done + ((q + 1) - 1) * Width + b + 1 = done + c
  <2>1. PICK y \in Nat : y = q * Width BY <1>1
  <2>2. c - 1 = y + b /\ b \in Nat BY <1>1, <1>2, <2>1 DEF Rows
  <2>3. ((q + 1) - 1) * Width = y BY <2>1
  <2> QED BY <2>2, <2>3
<1>6. b \in ChosenBits(k, done, q + 1) <=> (done + c <= Len(script[k].r) /\ script[k].r[done + c])
  BY <1>5 DEF ChosenBits
<1>7. script[k].r[done + c] \in BOOLEAN BY <1>3, <1>4
<1> QED BY <1>2, <1>3, <1>4, <1>6, <1>7

(* ALICE's keys are those BOB gave for the bits of delta. *)
LEMMA AliceKeys == ASSUME IInv, Extending("ALICE")
  PROVE  /\ keys.a = [i \in Rows |-> KeyOf(i)]
         /\ delta \in SUBSET Rows /\ delta \in Block
         /\ used \in [a : Nat, g0 : Nat, g1 : Nat]
<1>1. TypeOK /\ BaseOT /\ Delta \subseteq Block BY Parts, OTAssumption
<1> QED BY <1>1, ConstantFacts DEF TypeOK, BaseOT, Extending

(* What ALICE takes from the stream *)
LEMMA SendFacts ==
  ASSUME IInv, NEW n \in Nat, SendPreBlock(n)
  PROVE  /\ net' = [net EXCEPT !["ALICE"] = SubSeq(@, Width * n + 1, Len(@))]
         /\ net' \in [Party -> Seq(Stuff)] /\ net'["BOB"] = net["BOB"]
         /\ Len(net["ALICE"]) >= Width * n
         /\ used'.g0 = used.g0 /\ used'.g1 = used.g1 /\ used'.a = used.a + n
         /\ used' \in [a : Nat, g0 : Nat, g1 : Nat]
<1>1. /\ used \in [a : Nat, g0 : Nat, g1 : Nat] /\ net \in [Party -> Seq(Stuff)]
      /\ "ALICE" \in Party /\ "BOB" \in Party /\ "ALICE" # "BOB" /\ net["ALICE"] \in Seq(Stuff)
  BY Parts, TwoParties DEF TypeOK, Parties
<1>2. net' = [net EXCEPT !["ALICE"] = SubSeq(@, Width * n + 1, Len(@))] /\ Len(net["ALICE"]) >= Width * n
  BY DEF SendPreBlock, Takes, Arrived
<1>3. PICK x \in Nat : x = Width * n BY ConstantFacts
<1>4. SubSeq(net["ALICE"], Width * n + 1, Len(net["ALICE"])) \in Seq(Stuff)
  <2>1. Len(net["ALICE"]) \in Nat /\ Len(net["ALICE"]) >= x BY <1>1, <1>2, <1>3
  <2> QED BY <1>1, <1>3, <2>1, SubSeqProperties
<1>5. PICK y \in Nat : y = used.a + n BY <1>1
<1>6. used' = [used EXCEPT !.a = y] BY <1>5 DEF SendPreBlock
<1>7. used'.g0 = used.g0 /\ used'.g1 = used.g1 /\ used'.a = y /\ used' \in [a : Nat, g0 : Nat, g1 : Nat]
  BY ONLY <1>1, <1>6
<1> QED BY <1>1, <1>2, <1>4, <1>5, <1>7

(* Her blocks are BOB's, xored with delta where he chose. *)
LEMMA AliceExtendsInv == ASSUME IInv, AliceExtends
  PROVE  IInv'
<1>1. /\ TypeOK /\ Positions /\ Places /\ ToAlice /\ Columned /\ Correlates
      /\ "ALICE" \in Party /\ "BOB" \in Party
  BY Parts, TwoParties DEF Parties
<1>2. /\ pc["ALICE"] = "extend" /\ Extending("ALICE")
      /\ SendPreBlock(Cols("ALICE"))
      /\ Extended("ALICE", Columns(AliceRows(Cols("ALICE")), Now("ALICE")))
      /\ step' = step + 1
  BY DEF AliceExtends, Extending
<1>3. /\ malicious' = malicious /\ delta' = delta /\ secret' = secret /\ keys' = keys /\ script' = script
      /\ place' = place /\ gid' = gid /\ start' = start /\ local' = local
  BY DEF AliceExtends, base
<1>4. /\ Now("ALICE") \in Nat \ {0} /\ Cols("ALICE") = Wide(Now("ALICE")) /\ Cols("ALICE") \in Nat \ {0}
      /\ data["ALICE"] \in Seq(Block) /\ Len(data["ALICE"]) \in Nat /\ Length("ALICE") \in Nat
      /\ Len(data["ALICE"]) + Now("ALICE") <= Length("ALICE")
      /\ at["ALICE"] \in 1 .. Len(script) /\ Call("ALICE") = script[at["ALICE"]]
      /\ Length("ALICE") = Len(script[at["ALICE"]].r)
  BY <1>1, <1>2, NowFacts
<1>5. PICK n \in Nat \ {0}, w \in Nat \ {0} : n = Now("ALICE") /\ w = Cols("ALICE") /\ w = Wide(n)
  BY <1>4
<1>6. /\ net' = [net EXCEPT !["ALICE"] = SubSeq(@, Width * w + 1, Len(@))]
      /\ net' \in [Party -> Seq(Stuff)] /\ net'["BOB"] = net["BOB"]
      /\ Len(net["ALICE"]) >= Width * w
      /\ used'.g0 = used.g0 /\ used'.g1 = used.g1 /\ used'.a = used.a + w
      /\ used' \in [a : Nat, g0 : Nat, g1 : Nat]
  BY <1>2, <1>5, SendFacts
<1>7. PICK m, e : Turn(m, e)
  <2>1. Width * w >= 1 BY ConstantFacts
  <2>2. Len(net["ALICE"]) >= 1
    <3>1. PICK x \in Nat : x = Width * w /\ x >= 1 BY <2>1, ConstantFacts
    <3>2. Len(net["ALICE"]) \in Nat BY <1>1, PartyFacts
    <3> QED BY <1>6, <3>1, <3>2
  <2> QED BY <1>2, <2>2, AliceTurn
<1>8. /\ step \in 1 .. Len(place) - 1 /\ step \in Nat /\ m = place[step] /\ e = place[step + 1]
      /\ m \in Place /\ e \in Place /\ Follows(m, e) /\ Carried(step)
      /\ IsAt("ALICE", m) /\ m.k = at["ALICE"] /\ used.a = m.from
      /\ \A x \in Int : Sent(step, x) = net["ALICE"][x]
      /\ m.from \in Nat /\ m.done \in Nat /\ m.k \in Nat \ {0} /\ m.pos \in Nat /\ e.pos \in Nat
  BY <1>7 DEF Turn, Place
<1>9. m.phase = "extend" /\ m.done = Len(data["ALICE"]) /\ New(m) = n
  BY <1>1, <1>2, <1>5, <1>8, NowFacts
<1>10. PICK k \in Nat \ {0}, done \in Nat, from \in Nat : k = m.k /\ done = m.done /\ from = m.from
  BY <1>8
<1>11. k = at["ALICE"] /\ k \in 1 .. Len(script) /\ done = Len(data["ALICE"]) /\ done + n <= Len(script[k].r)
  BY <1>4, <1>5, <1>8, <1>9, <1>10
<1> DEFINE B == [j \in 1 .. w |-> ChosenBits(k, done, j)]
<1>12. \A i \in Rows : \A j \in 1 .. w : net["ALICE"][i * w + j] = XOR(Given(from, i, j), B[j])
  <2> SUFFICES ASSUME NEW i \in Rows, NEW j \in 1 .. w
               PROVE  net["ALICE"][i * w + j] = XOR(Given(from, i, j), B[j])
    OBVIOUS
  <2>1. Wide(New(place[step])) = w /\ place[step].phase = "extend" /\ place[step] = m
    BY <1>5, <1>8, <1>9
  <2>2. Sent(step, i * w + j) = XOR(Given(m.from, i, j), ChosenBits(m.k, m.done, j))
    BY <1>8, <2>1 DEF Carried
  <2>3. i * w + j \in Int BY ConstantFacts
  <2> QED BY <1>8, <1>10, <2>2, <2>3
<1>13. PICK cols \in Seq(Block) : cols = Columns(AliceRows(w), n) /\ Len(cols) = n
  BY ColumnsTyped
<1>14. ASSUME NEW c \in 1 .. n
       PROVE  cols[c] = Active(Col(from, c), script[k].r[done + c], delta)
  <2>1. PICK r : r = script[k].r[done + c] OBVIOUS
  <2>2. /\ r \in BOOLEAN
        /\ r <=> ((c - 1) % Width) \in ChosenBits(k, done, ((c - 1) \div Width) + 1)
    BY <1>1, <1>11, <2>1, ChosenThere
  <2>3. ((c - 1) \div Width) + 1 \in 1 .. w BY <1>5, WideFacts
  <2>4. Chooses(r, B, c) BY <2>2, <2>3 DEF Chooses
  <2>5. Brought(w, from, B)
    <3> HIDE DEF B
    <3> QED BY <1>2, <1>8, <1>10, <1>12, AliceKeys DEF Brought
  <2> HIDE DEF B
  <2>6. Columns(AliceRows(w), n)[c] = Active(Col(from, c), r, delta)
    BY <1>5, <2>4, <2>5, AliceColumn
  <2> QED BY <1>13, <2>1, <2>6
<1> HIDE DEF B
<1>15. Extended("ALICE", cols) BY <1>2, <1>5, <1>13
<1>16. PICK all : all = data["ALICE"] \o cols OBVIOUS
<1>17. /\ Advances("ALICE", all)
       /\ Len(all) = done + n
       /\ \A c \in 1 .. n : all[done + c] = cols[c]
  <2>1. Len(cols) = Now("ALICE") BY <1>5, <1>13
  <2>2. /\ Advances("ALICE", all)
        /\ Len(all) = Len(data["ALICE"]) + Now("ALICE")
        /\ \A c \in 1 .. Now("ALICE") : all[Len(data["ALICE"]) + c] = cols[c]
    <3>1. "ALICE" \in Party /\ pc["ALICE"] = "extend" /\ script' = script /\ malicious' = malicious
      BY <1>1, <1>2, <1>3
    <3> QED BY <1>15, <1>16, <2>1, <3>1, ExtendedAdvances, Zenon
  <2> QED BY <1>5, <1>11, <2>2, Zenon
<1>18. Meets(e, all)
  <2>1. malicious /\ Len(all) = Length("ALICE") => pc'["ALICE"] = "extra"
    <3>1. data["ALICE"] \o cols = all /\ pc \in [Party -> {"setup", "points", "keys", "idle", "extend", "extra", "check",
                                                           "start", "hash", "error"}]
      BY <1>1, <1>16, PartyFacts
    <3> QED BY <1>1, <1>15, <3>1 DEF Extended, Goes
  <2>2. ~malicious => pc'["ALICE"] # "extra" BY <1>1, <1>2, <1>17, AdvancesWays
  <2>3. PICK L \in Nat : L = Length("ALICE") /\ L = Len(script[m.k].r)
    BY <1>4, <1>8
  <2>4. PICK d \in Nat : d = m.done + New(m) /\ d = Len(all)
    BY <1>9, <1>10, <1>17
  <2>5. /\ d < L => e.k = m.k /\ e.phase = "extend" /\ e.done = d
        /\ (d = L /\ malicious) => e.k = m.k /\ e.phase = "extra" /\ e.done = L
        /\ (d = L /\ ~malicious) => e.k = m.k + 1 /\ e.phase = "extend" /\ e.done = 0
    BY <1>8, <1>9, <2>3, <2>4 DEF Follows
  <2> QED BY <1>8, <2>1, <2>2, <2>3, <2>4, <2>5 DEF Meets
<1>19. Met(e, k, all) BY <1>11, <1>17, <1>18, AliceAdvancesPlace
<1>20. e.from = m.from + w /\ e.pos = m.pos + Width * w
  BY <1>5, <1>8, <1>9 DEF Follows
<1>21. AliceMoves(m, e)
  <2>1. e.pos - m.pos = Width * w
    <3>1. PICK x \in Nat : x = Width * w BY ConstantFacts
    <3> QED BY <1>8, <1>20, <3>1
  <2>2. step < Len(place) BY <1>1, <1>8, AtPlace
  <2>3. used'.a = e.from BY <1>6, <1>8, <1>20
  <2>4. net' = [net EXCEPT !["ALICE"] = SubSeq(@, e.pos - m.pos + 1, Len(@))]
    BY <1>6, <2>1
  <2> QED BY <1>2, <1>3, <1>6, <1>8, <1>19, <2>2, <2>3, <2>4 DEF AliceMoves, Met
<1>22. Correlates'
  <2>1. /\ done + n <= Len(Taken(k))
        /\ \A c \in 1 .. n : Taken(k)[done + c] = Col(from, c)
    <3>1. m = place[step] /\ m.phase = "extend" BY <1>8, <1>9
    <3>2. m.done + New(m) <= Len(Taken(m.k)) /\ \A c \in 1 .. New(m) : Taken(m.k)[m.done + c] = Col(m.from, c)
      BY <1>1, <1>8, <3>1 DEF Columned
    <3> QED BY <1>9, <1>10, <3>2, Zenon
  <2>2. Have("ALICE", k)' = all /\ Have("ALICE", k) = data["ALICE"] /\ pc'["ALICE"] # "check"
    BY <1>19 DEF Met
  <2>3. ASSUME NEW i \in 1 .. Len(all)
        PROVE  all[i] = Active(Taken(k)[i], script[k].r[i], delta)
    <3>1. CASE i <= done
      <4>1. i \in 1 .. Len(data["ALICE"]) BY <1>11, <3>1
      <4>2. Prolongs(data["ALICE"], all) BY <1>17 DEF Advances
      <4>3. data["ALICE"][i] = Active(Taken(k)[i], script[k].r[i], delta)
        <5>1. \A x \in 1 .. Len(Have("ALICE", k)) :
                 Have("ALICE", k)[x] = Active(Taken(k)[x], script[k].r[x], delta)
          BY <1>1, <1>11 DEF Correlates
        <5> QED BY <2>2, <4>1, <5>1
      <4> QED BY <4>1, <4>2, <4>3 DEF Prolongs
    <3>2. CASE i > done
      <4>1. PICK c \in 1 .. n : i = done + c
        <5>1. i - done \in 1 .. n /\ i = done + (i - done) BY <1>17, <3>2
        <5> QED BY <5>1
      <4> QED BY <1>14, <1>17, <2>1, <4>1
    <3> QED BY <3>1, <3>2
  <2>4. Len(all) <= Len(Taken(k)) BY <1>17, <2>1
  <2>5. \A j \in Nat \ {0} : j # k => Have("ALICE", j)' = Have("ALICE", j)
    BY <1>19 DEF Met
  <2>6. /\ Len(Have("ALICE", k)') <= Len(Taken(k))
        /\ \A i \in 1 .. Len(Have("ALICE", k)') :
             Have("ALICE", k)'[i] = Active(Taken(k)[i], script[k].r[i], delta)
    BY <2>2, <2>3, <2>4
  <2> QED BY <1>1, <1>11, <1>21, <2>2, <2>5, <2>6, AliceCorrelates
<1>23. Positions' BY <1>1, <1>17, AdvancesPositions
<1>24. TypeOK'
  <2>1. step' \in Nat /\ place' \in Seq(Place) /\ local' \in [ALICE : Blocks, BOB : Blocks, r : Bits]
    BY <1>1, <1>2, <1>3 DEF TypeOK
  <2> QED BY <1>1, <1>3, <1>6, <1>17, <2>1, AdvanceTypeOK
<1>25. InTurn' /\ ToBob' /\ Resulted'
  <2>1. Len(cot'["ALICE"]) <= Len(cot'["BOB"]) BY <1>22 DEF Correlates
  <2> QED BY <1>1, <1>3, <1>6, <1>17, <2>1, AdvancesHashes DEF Aside
<1> QED BY <1>3, <1>21, <1>22, <1>23, <1>24, <1>25, AliceStepInv

-----------------------------------------------------------------------------
(* The OTs made for ALICE's check *)

(* A choice bit of those OTs is the one BOB's message is of. *)
LEMMA ExtraThere ==
  ASSUME NEW r \in Chosen, NEW c \in 1 .. 2 * Width
  PROVE  /\ r[c] \in BOOLEAN
         /\ r[c] <=> ((c - 1) % Width) \in ExtraBits(r, ((c - 1) \div Width) + 1)
<1>1. /\ Width \in Nat \ {0} /\ 2 * Width \in Nat \ {0}
      /\ ((c - 1) \div Width) \in Nat /\ (c - 1) % Width \in Rows
      /\ c - 1 = ((c - 1) \div Width) * Width + ((c - 1) % Width)
  BY WideFacts, ConstantFacts
<1>2. PICK q \in Nat, b \in Rows : q = (c - 1) \div Width /\ b = (c - 1) % Width
  BY <1>1
<1>3. ((q + 1) - 1) * Width + b + 1 = c
  <2>1. PICK y \in Nat : y = q * Width BY <1>1
  <2>2. c - 1 = y + b /\ b \in Nat BY <1>1, <1>2, <2>1 DEF Rows
  <2>3. ((q + 1) - 1) * Width = y BY <2>1
  <2> QED BY <2>2, <2>3
<1>4. b \in ExtraBits(r, q + 1) <=> r[c] BY <1>3 DEF ExtraBits
<1>5. r[c] \in BOOLEAN
  <2>1. Chosen \subseteq [1 .. 2 * Width -> BOOLEAN] BY OTAssumption
  <2> QED BY <2>1
<1> QED BY <1>2, <1>4, <1>5

(* They are what ALICE has next. *)
LEMMA AliceExtraInv == ASSUME IInv, AliceExtra
  PROVE  IInv'
<1>1. /\ TypeOK /\ Positions /\ Places /\ ToAlice /\ Columned /\ Correlates /\ InTurn /\ ToBob
      /\ "ALICE" \in Party /\ "BOB" \in Party /\ "ALICE" # "BOB"
  BY Parts, TwoParties DEF Parties
<1>2. /\ pc["ALICE"] = "extra" /\ Extending("ALICE")
      /\ SendPreBlock(2)
      /\ local' = [local EXCEPT !.ALICE = Columns(AliceRows(2), 2 * Width)]
      /\ Goes("ALICE", "check")
      /\ step' = step + 1
  BY DEF AliceExtra, Extending
<1>3. /\ malicious' = malicious /\ delta' = delta /\ secret' = secret /\ keys' = keys /\ script' = script
      /\ place' = place /\ gid' = gid /\ start' = start /\ at' = at /\ data' = data /\ cot' = cot /\ out' = out
  BY DEF AliceExtra, base
<1>4. /\ pc \in [Party -> {"setup", "points", "keys", "idle", "extend", "extra", "check", "start", "hash", "error"}]
      /\ at["ALICE"] \in Nat \ {0} /\ cot \in [Party -> Seq(Blocks)] /\ cot["ALICE"] \in Seq(Blocks)
      /\ script \in Seq(Calls) /\ Len(script) \in Nat
  BY <1>1, PartyFacts
<1>5. pc' = [pc EXCEPT !["ALICE"] = "check"] /\ pc'["ALICE"] = "check" /\ pc'["BOB"] = pc["BOB"]
  BY <1>1, <1>2, <1>4 DEF Goes
<1>6. /\ net' = [net EXCEPT !["ALICE"] = SubSeq(@, Width * 2 + 1, Len(@))]
      /\ net' \in [Party -> Seq(Stuff)] /\ net'["BOB"] = net["BOB"]
      /\ Len(net["ALICE"]) >= Width * 2
      /\ used'.g0 = used.g0 /\ used'.g1 = used.g1 /\ used'.a = used.a + 2
      /\ used' \in [a : Nat, g0 : Nat, g1 : Nat]
  BY <1>2, SendFacts
<1>7. PICK m, e : Turn(m, e)
  <2>1. Len(net["ALICE"]) >= 1
    <3>1. Len(net["ALICE"]) \in Nat BY <1>1, PartyFacts
    <3> QED BY <1>6, <3>1, ConstantFacts
  <2> QED BY <1>2, <2>1, AliceTurn
<1>8. /\ step \in 1 .. Len(place) - 1 /\ step \in Nat /\ m = place[step] /\ e = place[step + 1]
      /\ m \in Place /\ e \in Place /\ Follows(m, e) /\ Carried(step)
      /\ IsAt("ALICE", m) /\ m.k = at["ALICE"] /\ used.a = m.from
      /\ \A x \in Int : Sent(step, x) = net["ALICE"][x]
      /\ m.from \in Nat /\ m.done \in Nat /\ m.k \in Nat \ {0} /\ m.pos \in Nat /\ e.pos \in Nat
  BY <1>7 DEF Turn, Place
<1>9. m.phase = "extra" /\ m.done = Len(data["ALICE"]) /\ m.k = Len(cot["ALICE"]) + 1
  BY <1>2, <1>8 DEF IsAt, Phase, OTs
<1>10. /\ e.k = m.k /\ e.phase = "check" /\ e.done = m.done /\ e.from = m.from + 2 /\ e.pos = m.pos + 2 * Width
       /\ e.r \in Chosen
  BY <1>8, <1>9 DEF Follows
<1>11. PICK from \in Nat : from = m.from BY <1>8
<1> DEFINE B == [j \in 1 .. 2 |-> ExtraBits(e.r, j)]
<1>12. \A i \in Rows : \A j \in 1 .. 2 : net["ALICE"][i * 2 + j] = XOR(Given(from, i, j), B[j])
  <2> SUFFICES ASSUME NEW i \in Rows, NEW j \in 1 .. 2
               PROVE  net["ALICE"][i * 2 + j] = XOR(Given(from, i, j), B[j])
    OBVIOUS
  <2>1. Sent(step, i * 2 + j) = XOR(Given(m.from, i, j), ExtraBits(e.r, j))
    BY <1>8, <1>9 DEF Carried
  <2>2. i * 2 + j \in Int BY ConstantFacts
  <2> QED BY <1>8, <1>11, <2>1, <2>2
<1>13. PICK cols \in Seq(Block) : cols = Columns(AliceRows(2), 2 * Width) /\ Len(cols) = 2 * Width
  BY WideTwice, ColumnsTyped
<1>14. ASSUME NEW c \in 1 .. 2 * Width
       PROVE  cols[c] = Active(Col(from, c), e.r[c], delta)
  <2>1. PICK r : r = e.r[c] OBVIOUS
  <2>2. /\ r \in BOOLEAN
        /\ r <=> ((c - 1) % Width) \in ExtraBits(e.r, ((c - 1) \div Width) + 1)
    BY <1>10, <2>1, ExtraThere
  <2>3. ((c - 1) \div Width) + 1 \in 1 .. 2 BY WideTwice, WideFacts
  <2>4. Chooses(r, B, c) BY <2>2, <2>3 DEF Chooses
  <2>5. Brought(2, from, B)
    <3> HIDE DEF B
    <3> QED BY <1>2, <1>8, <1>11, <1>12, AliceKeys DEF Brought
  <2> HIDE DEF B
  <2>6. Columns(AliceRows(2), 2 * Width)[c] = Active(Col(from, c), r, delta)
    BY WideTwice, <2>4, <2>5, AliceColumn
  <2> QED BY <1>13, <2>1, <2>6
<1> HIDE DEF B
<1>15. /\ local'.ALICE = cols /\ local'.BOB = local.BOB /\ local'.r = local.r
       /\ local' \in [ALICE : Blocks, BOB : Blocks, r : Bits]
  <2>1. local \in [ALICE : Blocks, BOB : Blocks, r : Bits] /\ cols \in Blocks
    BY <1>1 DEF TypeOK, Blocks
  <2>2. local' = [local EXCEPT !.ALICE = cols] BY <1>2, <1>13
  <2> QED BY ONLY <2>1, <2>2
<1>16. (IsAt("ALICE", e))'
  BY <1>2, <1>3, <1>5, <1>9, <1>10 DEF IsAt, Phase, OTs, Extending
<1>17. AliceMoves(m, e)
  <2>1. e.pos - m.pos = Width * 2
    <3>1. PICK x \in Nat : x = Width * 2 /\ x = 2 * Width BY ConstantFacts
    <3> QED BY <1>8, <1>10, <3>1
  <2>2. step < Len(place) BY <1>1, <1>8, AtPlace
  <2>3. used'.a = e.from BY <1>6, <1>8, <1>10
  <2>4. net' = [net EXCEPT !["ALICE"] = SubSeq(@, e.pos - m.pos + 1, Len(@))]
    BY <1>6, <2>1
  <2>5. cot' \in [Party -> Seq(Blocks)] /\ cot'["BOB"] = cot["BOB"] /\ pc'["ALICE"] \notin {"setup", "keys"}
    BY <1>3, <1>4, <1>5
  <2> QED
    BY <1>2, <1>3, <1>5, <1>6, <1>8, <1>15, <1>16, <2>2, <2>3, <2>4, <2>5 DEF AliceMoves
<1>18. Correlates'
  <2>1. \A k \in Nat \ {0} : Have("ALICE", k)' = Have("ALICE", k)
    BY <1>2, <1>3, <1>5 DEF Have, Extending
  <2>2. PICK k \in Nat \ {0} : k = at["ALICE"] BY <1>4
  <2>3. k \in 1 .. Len(script) =>
          /\ Len(Have("ALICE", k)') <= Len(Taken(k))
          /\ \A i \in 1 .. Len(Have("ALICE", k)') :
               Have("ALICE", k)'[i] = Active(Taken(k)[i], script[k].r[i], delta)
    BY <1>1, <2>1 DEF Correlates
  <2>4. e.from - 2 = from BY <1>10, <1>11
  <2>5. /\ Len(local'.ALICE) = 2 * Width
        /\ \A i \in 1 .. 2 * Width : local'.ALICE[i] = Active(Col(e.from - 2, i), e.r[i], delta)
    BY <1>13, <1>14, <1>15, <2>4
  <2> QED BY <1>1, <1>17, <2>1, <2>2, <2>3, <2>5, AliceCorrelates
<1>19. Positions'
  <2>1. Prolongs(script, script') /\ Len(script') \in Nat
    BY <1>3, <1>4, ProlongsSelf
  <2>2. PositionOf("BOB")' BY <1>1, <1>3, <1>5, <2>1, OtherStays
  <2>3. PositionOf("ALICE")'
    BY <1>1, <1>2, <1>3, <1>5 DEF Positions, PositionOf, Hashing, Extending, Length, Call
  <2>4. Together' BY <1>1, <1>2, <1>5 DEF Positions, Together
  <2> QED BY <2>2, <2>3, <2>4, TwoParties DEF Positions, Parties
<1>20. TypeOK'
  <2>1. step' \in Nat /\ place' \in Seq(Place)
    <3>1. step \in Nat /\ place \in Seq(Place) BY <1>1 DEF TypeOK
    <3> QED BY <1>2, <1>3, <3>1
  <2>2. pc' \in [Party -> {"setup", "points", "keys", "idle", "extend", "extra", "check", "start", "hash", "error"}]
    BY <1>4, <1>5
  <2>3. /\ \A p \in Party : Extending(p)' => data'[p] \in Blocks
        /\ pc'["ALICE"] = "hash" => data'["ALICE"] \in Seq(Pair)
        /\ pc'["BOB"] = "hash" => data'["BOB"] \in Seq(Plain \cup Pad)
        /\ \A p \in Party : ~Extending(p)' /\ pc'[p] # "hash" /\ pc'[p] # "error" => data'[p] = <<>>
    <3>1. \A p \in Party : p = "ALICE" \/ p = "BOB" BY TwoParties DEF Parties
    <3> QED BY <1>1, <1>2, <1>3, <1>5, <3>1 DEF TypeOK, Extending
  <2> QED BY <1>1, <1>3, <1>6, <1>15, <2>1, <2>2, <2>3 DEF TypeOK
<1>21. InTurn' /\ ToBob' /\ Resulted'
  <2>1. script' \in Seq(Calls) /\ Prolongs(script, script')
    BY <1>3, <1>4, ProlongsSelf
  <2>2. \A p \in Party : /\ Prolongs(cot[p], cot'[p])
                         /\ pc'[p] = "hash" <=> pc[p] = "hash"
                         /\ pc[p] = "hash" => data'[p] = data[p]
    <3> SUFFICES ASSUME NEW p \in Party
                 PROVE  /\ Prolongs(cot[p], cot'[p])
                        /\ pc'[p] = "hash" <=> pc[p] = "hash"
                        /\ pc[p] = "hash" => data'[p] = data[p]
      OBVIOUS
    <3>1. Prolongs(cot[p], cot'[p]) BY <1>3, <1>4, ProlongsSelf
    <3>2. p = "ALICE" \/ p = "BOB" BY TwoParties DEF Parties
    <3> QED BY <1>2, <1>3, <1>5, <3>1, <3>2
  <2>3. (~Hashing("BOB") /\ ~(pc'["BOB"] = "points" /\ pc'["ALICE"] = "keys")) => net'["BOB"] = <<>>
    BY <1>1, <1>2, <1>6 DEF ToBob
  <2>4. /\ pc'["BOB"] = "start" <=> pc["BOB"] = "start"
        /\ Past => pc'["ALICE"] # "start"
        /\ Hashing("BOB") => net'["BOB"] = net["BOB"]
        /\ cot' \in [Party -> Seq(Blocks)]
    BY <1>3, <1>4, <1>5, <1>6
  <2>5. Resting BY <1>3, <2>1, <2>2, <2>3, <2>4 DEF Resting
  <2> QED BY <2>5, RestingHashes
<1> QED BY <1>3, <1>17, <1>18, <1>19, <1>20, <1>21, AliceStepInv

-----------------------------------------------------------------------------
(* The check passes *)

(* The coefficients of a call of L OTs *)
LEMMA CoeffsTyped ==
  ASSUME NEW seed \in Block, NEW L \in Nat, NEW c, c = Coeffs(L, seed)
  PROVE  c \in Seq(Block) /\ Len(c) = L + 2 * Width
<1>1. PICK chi \in [1 .. Longest -> Block] : chi = Chi(seed) BY ChiTyped
<1>2. Longest \in Nat /\ BlockSize \in Nat \ {0} /\ 2 * Width \in Nat /\ Longest = BlockSize + 2 * Width
  BY LongestFacts DEF Longest
<1> DEFINE u == [i \in 1 .. L |-> chi[((i - 1) % BlockSize) + 1]]
           v == [i \in 1 .. 2 * Width |-> chi[i]]
<1>3. u \in [1 .. L -> Block]
  <2> SUFFICES ASSUME NEW i \in 1 .. L PROVE chi[((i - 1) % BlockSize) + 1] \in Block
    OBVIOUS
  <2>1. (i - 1) % BlockSize \in 0 .. BlockSize - 1
    <3>1. PICK j \in Int : j = i - 1 OBVIOUS
    <3>2. j % BlockSize \in 0 .. BlockSize - 1 BY <1>2, ByRemainder
    <3> QED BY <3>1, <3>2
  <2>2. ((i - 1) % BlockSize) + 1 \in 1 .. Longest BY <1>2, <2>1
  <2> QED BY <2>2
<1>4. v \in [1 .. 2 * Width -> Block]
  <2>1. \A i \in 1 .. 2 * Width : i \in 1 .. Longest BY <1>2
  <2> QED BY <2>1
<1>5. c = u \o v BY <1>1 DEF Coeffs
<1> HIDE DEF u, v
<1>6. u \in Seq(Block) /\ Len(u) = L /\ v \in Seq(Block) /\ Len(v) = 2 * Width
  BY <1>2, <1>3, <1>4, FunSeq
<1> QED BY <1>5, <1>6, ConcatFacts

(* Its elements are those of the one and then those of the other. *)
LEMMA Joined ==
  ASSUME NEW S, NEW s, NEW t, NEW a, NEW b, NEW u, Halved(S, s, t, a, b, u)
  PROVE  Whole2(S, s, t, a, b, u)
<1>1. /\ u \in Seq(S) /\ Len(u) = a + b
      /\ \A i \in 1 .. a : u[i] = s[i]
      /\ \A i \in 1 .. b : u[a + i] = t[i]
  <2>1. s \in Seq(S) /\ t \in Seq(S) BY DEF Halved
  <2>2. /\ s \o t \in Seq(S)
        /\ Len(s \o t) = Len(s) + Len(t)
        /\ \A i \in 1 .. Len(s) : (s \o t)[i] = s[i]
        /\ \A i \in 1 .. Len(t) : (s \o t)[Len(s) + i] = t[i]
    BY <2>1, ConcatFacts
  <2> QED BY <2>2 DEF Halved
<1>2. u \in [1 .. Len(u) -> S] BY <1>1, LenProperties
<1> QED BY <1>1, <1>2 DEF Whole2

(* Taking the same away again *)
LEMMA Undone == ASSUME NEW a, NEW b PROVE XOR(XOR(a, b), b) = a
  BY DEF XOR

(* A place at the check has the choice bits of the OTs made for it. *)
LEMMA ChosenAtCheck ==
  ASSUME TypeOK, Places, NEW n \in 1 .. Len(place), place[n].phase = "check"
  PROVE  place[n].r \in Chosen
<1>1. Len(place) \in Nat \ {0} /\ n # 1 BY AtPlace DEF Places, First
<1>2. PICK l \in 1 .. Len(place) - 1 : n = l + 1
  <2>1. n - 1 \in 1 .. Len(place) - 1 /\ n = (n - 1) + 1 BY <1>1
  <2> QED BY <2>1
<1>3. /\ Follows(place[l], place[n]) /\ New(place[l]) \in Nat
      /\ place[l].phase = "extend" => place[l].done + New(place[l]) <= Len(script[place[l].k].r)
  BY <1>2, StepFacts
<1>4. /\ place[l].phase \in {"extend", "extra", "check"} /\ place[l].done \in Nat
      /\ malicious \in BOOLEAN
  <2>1. malicious \in Modes BY <1>1 DEF TypeOK
  <2>2. Modes \subseteq BOOLEAN BY OTAssumption
  <2>3. l \in 1 .. Len(place) BY <1>1, <1>2, StepFacts
  <2> QED BY <1>1, <2>1, <2>2, <2>3, PlaceFacts
<1>5. place[l].phase # "check" BY <1>3 DEF Follows
<1>6. place[l].phase # "extend"
  <2> SUFFICES ASSUME place[l].phase = "extend" PROVE FALSE OBVIOUS
  <2>1. PICK m : m = place[l] OBVIOUS
  <2>2. PICK d \in Nat : d = m.done + New(m) BY <1>3, <1>4, <2>1
  <2>3. PICK L \in Nat : L = Len(script[m.k].r)
    <3>1. m.k \in 1 .. Len(script) BY <1>3, <2>1 DEF Follows
    <3> QED BY <3>1, ScriptFacts
  <2>4. d <= L BY <1>3, <2>1, <2>2, <2>3
  <2>5. /\ d < L => place[n].phase = "extend"
        /\ (d = L /\ malicious) => place[n].phase = "extra"
        /\ (d = L /\ ~malicious) => place[n].phase = "extend"
    BY <1>3, <2>1, <2>2, <2>3 DEF Follows
  <2> QED BY <2>4, <2>5
<1> QED BY <1>3, <1>4, <1>5, <1>6 DEF Follows

(* ALICE's sum of products is the one BOB sent, with delta times his combination of choice bits. *)
LEMMA CheckPasses ==
  ASSUME IInv, pc["ALICE"] = "check", NEW m, NEW e, Turn(m, e),
         NEW c, c = Coefficients("ALICE", net["ALICE"][1]), NEW x, x = net["ALICE"][2],
         NEW q, q = XOR(InnerProduct(c, data["ALICE"] \o local.ALICE), InnerProduct(<<x>>, <<delta>>))
  PROVE  net["ALICE"][3] = Low(q) /\ net["ALICE"][4] = High(q)
<1>1. /\ TypeOK /\ Positions /\ Places /\ Correlates /\ Extending("ALICE") /\ "ALICE" \in Party /\ "BOB" \in Party
  BY Parts, TwoParties DEF Parties, Extending
<1>2. /\ step \in 1 .. Len(place) - 1 /\ step \in 1 .. Len(place) /\ m = place[step]
      /\ m \in Place /\ Follows(m, e) /\ Carried(step)
      /\ IsAt("ALICE", m) /\ m.k = at["ALICE"]
      /\ \A i \in Int : Sent(step, i) = net["ALICE"][i]
  <2>1. Len(place) \in Nat BY <1>1, AtPlace
  <2> QED BY <2>1 DEF Turn
<1>3. m.phase = "check" /\ m.done = Len(data["ALICE"])
  BY <1>1, <1>2 DEF IsAt, Phase, OTs
<1>4. PICK k \in 1 .. Len(script), L \in Nat : k = m.k /\ L = Len(script[k].r)
  <2>1. m.k \in 1 .. Len(script) BY <1>2 DEF Follows
  <2> QED BY <1>1, <2>1, ScriptFacts
<1>5. k = at["ALICE"] /\ Len(data["ALICE"]) = L /\ data["ALICE"] \in Seq(Block) /\ Length("ALICE") = L /\ k \in Nat \ {0}
  <2>1. m.done = Len(script[m.k].r) BY <1>2, <1>3 DEF Follows
  <2>2. data["ALICE"] \in Seq(Block) BY <1>1 DEF TypeOK, Blocks
  <2>3. k \in Nat \ {0} BY <1>1, ScriptFacts
  <2> QED BY <1>2, <1>3, <1>4, <2>1, <2>2, <2>3 DEF Length, Call
<1>6. PICK seed \in Block : seed = net["ALICE"][1]
  <2>1. Sent(step, 1) \in Combiners BY <1>2, <1>3 DEF Carried
  <2> QED BY <1>2, <2>1, OTAssumption
<1>7. c = Coeffs(L, seed) BY <1>5, <1>6, CoefficientsAre
<1>8. PICK n \in Nat, v \in Nat : n = L + v /\ v = 2 * Width BY ConstantFacts
<1>9. c \in [1 .. n -> Block] /\ DOMAIN c = 1 .. n
  <2>1. c \in Seq(Block) /\ Len(c) = n BY <1>7, <1>8, CoeffsTyped
  <2> QED BY <2>1, LenProperties
<1>10. /\ k <= Len(cot["BOB"])
       /\ cot["BOB"][k] \in Seq(Block) /\ Len(cot["BOB"][k]) = L /\ Taken(k) = cot["BOB"][k]
  <2>1. k <= Len(cot["BOB"]) BY <1>2, <1>3, <1>4 DEF Carried
  <2>2. cot["BOB"] \in Seq(Blocks) /\ Len(cot["BOB"]) \in Nat
    BY <1>1, PartyFacts
  <2>3. k \in 1 .. Len(cot["BOB"]) BY <1>5, <2>1, <2>2
  <2>4. cot["BOB"][k] \in Blocks BY <2>2, <2>3, SeqAt
  <2>5. Len(cot["BOB"][k]) = L BY <1>1, <1>4, <2>3 DEF Positions, PositionOf
  <2> QED BY <2>1, <2>4, <2>5 DEF Taken, Have, Blocks
<1>11. m.r \in Seq(BOOLEAN) /\ Len(m.r) = 2 * Width /\ script[k].r \in Seq(BOOLEAN)
  <2>1. m.r \in Chosen BY <1>1, <1>2, <1>3, ChosenAtCheck
  <2>2. m.r \in [1 .. 2 * Width -> BOOLEAN]
    <3>1. Chosen \subseteq [1 .. 2 * Width -> BOOLEAN] BY OTAssumption
    <3> QED BY <2>1, <3>1
  <2>3. m.r \in Seq(BOOLEAN) /\ Len(m.r) = 2 * Width
    <3>1. v \in Nat /\ m.r \in [1 .. v -> BOOLEAN] BY <1>8, <2>2
    <3>2. m.r \in Seq(BOOLEAN) /\ Len(m.r) = v BY <3>1, FunSeq
    <3> QED BY <1>8, <3>2
  <2>4. script[k].r \in Seq(BOOLEAN) BY <1>1, <1>5, ScriptFacts
  <2> QED BY <2>3, <2>4
<1>12. PICK d \in Block : d = delta BY <1>1, OTAssumption DEF TypeOK
<1>13. /\ local.ALICE \in Seq(Block) /\ Len(local.ALICE) = 2 * Width
       /\ \A i \in 1 .. 2 * Width : local.ALICE[i] = Active(Col(m.from - 2, i), m.r[i], d)
  BY <1>1, <1>2, <1>12 DEF TypeOK, Blocks, Correlates
<1>14. PICK cols \in Seq(Block) : /\ cols = Columns2(m.from - 2) /\ Len(cols) = 2 * Width
                                  /\ \A i \in 1 .. 2 * Width : cols[i] = Col(m.from - 2, i)
  BY Columns2Typed
<1>15. \A i \in 1 .. L : data["ALICE"][i] = Active(cot["BOB"][k][i], script[k].r[i], d)
  <2>1. Have("ALICE", k) = data["ALICE"]
    <3>1. Len(cot["ALICE"]) = at["ALICE"] - 1
      BY <1>1 DEF Positions, PositionOf, Extending, Hashing
    <3> QED BY <1>1, <1>5, <3>1 DEF Have
  <2>2. Len(data["ALICE"]) = L BY <1>1, <1>5
  <2>3. k \in 1 .. Len(script) BY <1>1, <1>5
  <2>4. \A i \in 1 .. Len(Have("ALICE", k)) :
          Have("ALICE", k)[i] = Active(Taken(k)[i], script[k].r[i], delta)
    BY <1>1, <2>3 DEF Correlates
  <2> QED BY <1>10, <1>12, <2>1, <2>2, <2>4
<1>16. PICK t : t = cot["BOB"][k] \o cols OBVIOUS
<1>17. PICK a : a = data["ALICE"] \o local.ALICE OBVIOUS
<1>18. PICK r : r = script[k].r \o m.r OBVIOUS
<1>19. /\ t \in [1 .. n -> Block]
       /\ \A i \in 1 .. L : t[i] = cot["BOB"][k][i]
       /\ \A i \in 1 .. 2 * Width : t[L + i] = cols[i]
  <2>1. Halved(Block, cot["BOB"][k], cols, L, v, t)
    BY <1>8, <1>10, <1>14, <1>16 DEF Halved
  <2>2. Whole2(Block, cot["BOB"][k], cols, L, v, t) BY <2>1, Joined
  <2> QED BY <1>8, <2>2 DEF Whole2
<1>20. /\ a \in [1 .. n -> Block]
       /\ \A i \in 1 .. L : a[i] = data["ALICE"][i]
       /\ \A i \in 1 .. 2 * Width : a[L + i] = local.ALICE[i]
  <2>1. Halved(Block, data["ALICE"], local.ALICE, L, v, a)
    BY <1>5, <1>8, <1>13, <1>17 DEF Halved
  <2>2. Whole2(Block, data["ALICE"], local.ALICE, L, v, a) BY <2>1, Joined
  <2> QED BY <1>8, <2>2 DEF Whole2
<1>21. /\ r \in [1 .. n -> BOOLEAN] /\ DOMAIN r = 1 .. n
       /\ \A i \in 1 .. L : r[i] = script[k].r[i]
       /\ \A i \in 1 .. 2 * Width : r[L + i] = m.r[i]
  <2>1. Halved(BOOLEAN, script[k].r, m.r, L, v, r)
    BY <1>4, <1>8, <1>11, <1>18 DEF Halved
  <2>2. Whole2(BOOLEAN, script[k].r, m.r, L, v, r) BY <2>1, Joined
  <2> QED BY <1>8, <2>2 DEF Whole2
<1>22. ASSUME NEW i \in 1 .. n PROVE a[i] = Active(t[i], r[i], d)
  <2>1. CASE i <= L
    <3>1. i \in 1 .. L BY <2>1
    <3> QED BY <1>15, <1>19, <1>20, <1>21, <3>1
  <2>2. CASE i > L
    <3>1. PICK j \in 1 .. 2 * Width : i = L + j
      <4>1. i - L \in 1 .. v /\ i = L + (i - L) BY <1>8, <2>2
      <4> QED BY <1>8, <4>1
    <3> QED BY <1>13, <1>14, <1>19, <1>20, <1>21, <3>1
  <2> QED BY <2>1, <2>2
<1>23. x = Summed(n, c, r)
  <2>1. Sent(step, 2) = Combined(Coeffs(Len(script[m.k].r), Sent(step, 1)), script[m.k].r \o m.r)
    BY <1>2, <1>3 DEF Carried
  <2>2. Sent(step, 1) = seed /\ Sent(step, 2) = x BY <1>2, <1>6
  <2>3. x = Combined(c, r) BY <1>4, <1>7, <1>18, <2>1, <2>2
  <2> QED BY <1>21, <2>3 DEF Combined, Summed
<1>24. InnerProduct(c, a) = XOR(InnerProduct(c, t), InnerProduct(<<x>>, <<d>>))
  <2>1. Flips(n, r, d, t, a) BY <1>19, <1>20, <1>21, <1>22 DEF Flips
  <2> QED BY <1>9, <1>23, <2>1, HonestSum
<1>25. q = InnerProduct(c, t) BY <1>12, <1>17, <1>24, Undone
<1>26. Sent(step, 3) = Low(InnerProduct(c, t)) /\ Sent(step, 4) = High(InnerProduct(c, t))
  <2>1. Sent(step, 1) = seed /\ place[step] = m BY <1>2, <1>6
  <2>2. /\ Sent(step, 3) = Low(InnerProduct(Coeffs(Len(script[m.k].r), Sent(step, 1)), cot["BOB"][m.k] \o Columns2(m.from - 2)))
        /\ Sent(step, 4) = High(InnerProduct(Coeffs(Len(script[m.k].r), Sent(step, 1)), cot["BOB"][m.k] \o Columns2(m.from - 2)))
    BY <1>2, <1>3 DEF Carried
  <2> QED BY <1>4, <1>7, <1>14, <1>16, <2>1, <2>2, Zenon
<1> QED BY <1>2, <1>25, <1>26

(* So ALICE goes on. *)
LEMMA AliceChecksInv == ASSUME IInv, AliceChecks
  PROVE  IInv'
<1>1. /\ TypeOK /\ Positions /\ Places /\ Correlates
      /\ "ALICE" \in Party /\ "BOB" \in Party /\ "ALICE" # "BOB"
  BY Parts, TwoParties DEF Parties
<1>2. PICK c : c = Coefficients("ALICE", net["ALICE"][1]) OBVIOUS
<1>3. PICK x : x = net["ALICE"][2] OBVIOUS
<1>4. PICK q : q = XOR(InnerProduct(c, data["ALICE"] \o local.ALICE), InnerProduct(<<x>>, <<delta>>))
  OBVIOUS
<1>5. /\ pc["ALICE"] = "check" /\ Extending("ALICE") /\ Arrived("ALICE", 4) /\ Takes("ALICE", 4)
      /\ local' = [local EXCEPT !.ALICE = <<>>]
      /\ IF net["ALICE"][3] = Low(q) /\ net["ALICE"][4] = High(q)
         THEN Returns("ALICE", data["ALICE"])
         ELSE Goes("ALICE", "error") /\ UNCHANGED <<at, data, cot, out>>
      /\ step' = step + 1
  BY <1>2, <1>3, <1>4 DEF AliceChecks, Extending
<1>6. /\ malicious' = malicious /\ delta' = delta /\ secret' = secret /\ keys' = keys /\ script' = script
      /\ place' = place /\ gid' = gid /\ start' = start /\ used' = used
  BY DEF AliceChecks, base
<1>7. /\ net \in [Party -> Seq(Stuff)] /\ net["ALICE"] \in Seq(Stuff) /\ Len(net["ALICE"]) \in Nat
      /\ at["ALICE"] \in Nat \ {0} /\ Len(script) \in Nat /\ cot["ALICE"] \in Seq(Blocks)
  BY <1>1, PartyFacts
<1>8. PICK m, e : Turn(m, e)
  <2>1. Len(net["ALICE"]) >= 1 BY <1>5, <1>7 DEF Arrived
  <2> QED BY <1>5, <2>1, AliceTurn
<1>9. /\ step \in 1 .. Len(place) - 1 /\ step \in Nat /\ m = place[step] /\ e = place[step + 1]
      /\ m \in Place /\ e \in Place /\ Follows(m, e)
      /\ IsAt("ALICE", m) /\ m.k = at["ALICE"] /\ used.a = m.from
      /\ m.from \in Nat /\ m.done \in Nat /\ m.k \in Nat \ {0} /\ m.pos \in Nat /\ e.pos \in Nat
  BY <1>8 DEF Turn, Place
<1>10. Returns("ALICE", data["ALICE"])
  <2>1. net["ALICE"][3] = Low(q) /\ net["ALICE"][4] = High(q)
    BY <1>2, <1>3, <1>4, <1>5, <1>8, CheckPasses
  <2> QED BY <1>5, <2>1
<1>11. /\ Len(data["ALICE"]) = Length("ALICE") /\ data["ALICE"] \in Seq(Block) /\ Len(data["ALICE"]) \in Nat
       /\ at["ALICE"] \in 1 .. Len(script) /\ Len(cot["ALICE"]) = at["ALICE"] - 1
  <2>1. PositionOf("ALICE") /\ data["ALICE"] \in Seq(Block) /\ Len(data["ALICE"]) \in Nat
    BY <1>1, <1>5, LenProperties DEF Positions, TypeOK, Blocks
  <2> QED BY <1>5, <1>7, <2>1 DEF PositionOf, Hashing, Extending
<1>12. Advances("ALICE", data["ALICE"])
  <2>1. Prolongs(data["ALICE"], data["ALICE"]) BY <1>11, ProlongsSelf
  <2> QED BY <1>5, <1>6, <1>10, <1>11, <2>1 DEF Advances
<1>13. m.phase = "check" /\ m.done = Len(data["ALICE"])
  BY <1>5, <1>9 DEF IsAt, Phase, OTs
<1>14. e.k = m.k + 1 /\ e.phase = "extend" /\ e.done = 0 /\ e.from = m.from /\ e.pos = m.pos + 4
  BY <1>9, <1>13 DEF Follows
<1>15. Meets(e, data["ALICE"])
  <2>1. pc'["ALICE"] # "extra"
    <3>1. pc["ALICE"] # "extend" BY <1>5
    <3> QED BY <1>1, <1>12, <3>1, AdvancesWays
  <2> QED BY <1>9, <1>11, <1>14, <2>1 DEF Meets
<1>16. PICK k \in Nat \ {0} : k = at["ALICE"] BY <1>7
<1>17. Met(e, k, data["ALICE"]) BY <1>12, <1>15, <1>16, AliceAdvancesPlace
<1>18. /\ local' \in [ALICE : Blocks, BOB : Blocks, r : Bits]
       /\ local'.BOB = local.BOB /\ local'.r = local.r
  <2>1. local \in [ALICE : Blocks, BOB : Blocks, r : Bits] /\ <<>> \in Blocks
    BY <1>1 DEF TypeOK, Blocks
  <2> QED BY ONLY <1>5, <2>1
<1>19. net' = [net EXCEPT !["ALICE"] = SubSeq(@, 4 + 1, Len(@))]
  BY <1>5 DEF Takes
<1>20. net' \in [Party -> Seq(Stuff)] /\ net'["BOB"] = net["BOB"]
  <2>1. SubSeq(net["ALICE"], 4 + 1, Len(net["ALICE"])) \in Seq(Stuff)
    BY <1>7, SubSeqProperties
  <2> QED BY <1>1, <1>7, <1>19, <2>1
<1>21. AliceMoves(m, e)
  <2>1. e.pos - m.pos = 4 BY <1>9, <1>14
  <2>2. step < Len(place) BY <1>1, <1>9, AtPlace
  <2>3. used'.g0 = used.g0 /\ used'.g1 = used.g1 /\ used'.a = e.from
    BY <1>6, <1>9, <1>14
  <2>4. net' = [net EXCEPT !["ALICE"] = SubSeq(@, e.pos - m.pos + 1, Len(@))]
    BY <1>19, <2>1
  <2> QED
    BY <1>5, <1>6, <1>9, <1>17, <1>18, <2>2, <2>3, <2>4 DEF AliceMoves, Met
<1>22. Correlates'
  <2>1. Have("ALICE", k)' = Have("ALICE", k) /\ pc'["ALICE"] # "check"
    BY <1>17 DEF Met
  <2>2. \A j \in Nat \ {0} : j # k => Have("ALICE", j)' = Have("ALICE", j)
    BY <1>17 DEF Met
  <2>3. k \in 1 .. Len(script) =>
          /\ Len(Have("ALICE", k)') <= Len(Taken(k))
          /\ \A i \in 1 .. Len(Have("ALICE", k)') :
               Have("ALICE", k)'[i] = Active(Taken(k)[i], script[k].r[i], delta)
    BY <1>1, <2>1 DEF Correlates
  <2> QED BY <1>1, <1>16, <1>21, <2>1, <2>2, <2>3, AliceCorrelates
<1>23. Positions' BY <1>1, <1>12, AdvancesPositions
<1>24. TypeOK'
  <2>1. step' \in Nat /\ place' \in Seq(Place) /\ used' \in [a : Nat, g0 : Nat, g1 : Nat]
    <3>1. step \in Nat /\ place \in Seq(Place) /\ used \in [a : Nat, g0 : Nat, g1 : Nat]
      BY <1>1 DEF TypeOK
    <3> QED BY <1>5, <1>6, <3>1
  <2> QED BY <1>1, <1>6, <1>12, <1>18, <1>20, <2>1, AdvanceTypeOK
<1>25. InTurn' /\ ToBob' /\ Resulted'
  <2>1. Len(cot'["ALICE"]) <= Len(cot'["BOB"]) BY <1>22 DEF Correlates
  <2> QED BY <1>1, <1>6, <1>12, <1>20, <2>1, AdvancesHashes DEF Aside
<1> QED BY <1>6, <1>21, <1>22, <1>23, <1>24, <1>25, AliceStepInv

-----------------------------------------------------------------------------
(* A step of the hashing *)

(* The variables have their types. *)
LEMMA HashTyped == ASSUME TypeOK, NEW p \in Party, NEW all, HashStep(p, all)
  PROVE  TypeOK'
<1>1. Parties /\ "ALICE" # "BOB" BY TwoParties
<1>2. <<>> \in Seq(Pair) /\ <<>> \in Seq(Plain \cup Pad) /\ <<>> \in Blocks
  BY EmptySeq DEF Blocks
<1>3. /\ Hashing(p) /\ all \in Seq(Kept(p))
      /\ \A q \in Party : q # p => pc'[q] = pc[q] /\ data'[q] = data[q] /\ out'[q] = out[q]
      /\ \/ pc'[p] = "hash" /\ data'[p] = all /\ out'[p] = out[p]
         \/ pc'[p] = "idle" /\ data'[p] = <<>> /\ out'[p] = Append(out[p], all)
  BY DEF HashStep
<1>4. \A q \in Party : Extending(q)' => data'[q] \in Blocks
  <2>1. \A q \in Party : Extending(q) => data[q] \in Blocks BY DEF TypeOK
  <2>2. \A q \in Party : Extending(q)' => q # p /\ Extending(q)
    BY <1>3 DEF Extending
  <2> QED BY <1>3, <2>1, <2>2
<1>5. \A q \in Party : ~Extending(q)' /\ pc'[q] # "hash" /\ pc'[q] # "error" => data'[q] = <<>>
  <2>1. \A q \in Party : ~Extending(q) /\ pc[q] # "hash" /\ pc[q] # "error" => data[q] = <<>>
    BY DEF TypeOK
  <2>2. \A q \in Party : q # p => (Extending(q)' <=> Extending(q))
    BY <1>3 DEF Extending
  <2> QED BY <1>3, <2>1, <2>2
<1>6. pc'["ALICE"] = "hash" => data'["ALICE"] \in Seq(Pair)
  <2>1. pc["ALICE"] = "hash" => data["ALICE"] \in Seq(Pair) BY DEF TypeOK
  <2>2. CASE p = "ALICE"
    <3>1. all \in Seq(Pair) BY <1>1, <1>3, <2>2 DEF Kept
    <3>2. pc'["ALICE"] = "hash" => data'["ALICE"] = all BY <1>3, <2>2
    <3> QED BY <3>1, <3>2
  <2>3. CASE p # "ALICE"
    <3>1. pc'["ALICE"] = pc["ALICE"] /\ data'["ALICE"] = data["ALICE"]
      BY <1>1, <1>3, <2>3 DEF Parties
    <3> QED BY <2>1, <3>1
  <2> QED BY <2>2, <2>3
<1>7. pc'["BOB"] = "hash" => data'["BOB"] \in Seq(Plain \cup Pad)
  <2>1. pc["BOB"] = "hash" => data["BOB"] \in Seq(Plain \cup Pad) BY DEF TypeOK
  <2>2. CASE p = "BOB"
    <3>1. all \in Seq(Plain \cup Pad) BY <1>1, <1>3, <2>2 DEF Kept
    <3>2. pc'["BOB"] = "hash" => data'["BOB"] = all BY <1>3, <2>2
    <3> QED BY <3>1, <3>2
  <2>3. CASE p # "BOB"
    <3>1. pc'["BOB"] = pc["BOB"] /\ data'["BOB"] = data["BOB"]
      BY <1>1, <1>3, <2>3 DEF Parties
    <3> QED BY <2>1, <3>1
  <2> QED BY <2>2, <2>3
<1>8. out'["ALICE"] \in Seq(Seq(Pair))
  <2>1. out["ALICE"] \in Seq(Seq(Pair)) BY DEF TypeOK
  <2>2. CASE p = "ALICE"
    <3>1. all \in Seq(Pair) BY <1>3, <2>2 DEF Kept
    <3>2. Append(out["ALICE"], all) \in Seq(Seq(Pair))
      BY <2>1, <3>1, AppendFacts
    <3> QED BY <1>3, <2>1, <2>2, <3>2
  <2> QED BY <1>1, <1>3, <2>1, <2>2 DEF Parties
<1>9. out'["BOB"] \in Seq(Seq(Plain \cup Pad))
  <2>1. out["BOB"] \in Seq(Seq(Plain \cup Pad)) BY DEF TypeOK
  <2>2. CASE p = "BOB"
    <3>1. all \in Seq(Plain \cup Pad) BY <1>1, <1>3, <2>2 DEF Kept
    <3>2. Append(out["BOB"], all) \in Seq(Seq(Plain \cup Pad))
      BY <2>1, <3>1, AppendFacts
    <3> QED BY <1>3, <2>1, <2>2, <3>2
  <2> QED BY <1>1, <1>3, <2>1, <2>2 DEF Parties
<1>10. /\ malicious' \in Modes
       /\ delta' \in Delta
       /\ secret' \in [Party -> {<<>>} \cup {<<a>> : a \in get_rand_bn} \cup [Rows -> get_rand_bn]]
       /\ keys' \in [a : {<<>>} \cup [Rows -> Seed], k0 : {<<>>} \cup Seeds, k1 : {<<>>} \cup Seeds]
       /\ script' \in Seq(Calls)
       /\ used' \in [a : Nat, g0 : Nat, g1 : Nat]
       /\ place' \in Seq(Place)
       /\ step' \in Nat
       /\ local' \in [ALICE : Blocks, BOB : Blocks, r : Bits]
       /\ cot' \in [Party -> Seq(Blocks)]
  BY DEF TypeOK, HashStep
<1>11. /\ net' \in [Party -> Seq(Stuff)] /\ gid' \in [Party -> Nat] /\ start' \in [Party -> StartPoint]
       /\ at' \in [Party -> Nat \ {0}]
       /\ pc' \in [Party -> {"setup", "points", "keys", "idle", "extend", "extra",
                             "check", "start", "hash", "error"}]
       /\ DOMAIN data' = Party /\ DOMAIN out' = Party
  BY DEF HashStep
<1> QED BY ONLY <1>4, <1>5, <1>6, <1>7, <1>8, <1>9, <1>10, <1>11 DEF TypeOK

(* Each party is where it should be. *)
LEMMA HashPositions == ASSUME TypeOK, Positions, NEW p \in Party, NEW all, HashStep(p, all)
  PROVE  Positions'
<1>1. Parties /\ "ALICE" # "BOB" BY TwoParties
<1>2. /\ at[p] \in 1 .. Len(script) /\ Call(p).kind # "cot" /\ Len(cot[p]) = at[p]
      /\ Length(p) \in Nat \ {0}
  BY HashFacts DEF HashStep
<1>3. /\ Len(out[p]) = at[p] - 1 /\ \A k \in 1 .. Len(cot[p]) : Len(cot[p][k]) = Len(script[k].r)
  BY DEF Positions, PositionOf
<1>4. at[p] \in Nat \ {0} /\ Len(script) \in Nat BY PartyFacts
<1>5. PositionOf(p)'
  <2>1. script' = script /\ cot' = cot BY DEF HashStep
  <2>2. CASE Len(all) < Length(p) /\ pc'[p] = "hash" /\ data'[p] = all /\ at'[p] = at[p] /\ out'[p] = out[p]
    <3>1. Call(p)' = Call(p) /\ Length(p)' = Length(p)
      BY <2>1, <2>2 DEF Call, Length
    <3>2. Hashing(p)' /\ ~Extending(p)' /\ pc'[p] = "hash"
      BY <2>2 DEF Hashing, Extending
    <3> QED BY <1>2, <1>3, <1>4, <2>1, <2>2, <3>1, <3>2 DEF PositionOf
  <2>3. CASE /\ Len(all) = Length(p) /\ pc'[p] = "idle" /\ data'[p] = <<>> /\ at'[p] = at[p] + 1
             /\ out'[p] = Append(out[p], all)
    <3>1. Len(out'[p]) = at'[p] - 1
      <4>1. PICK S : out[p] \in Seq(S) /\ all \in S
        <5>1. out["ALICE"] \in Seq(Seq(Pair)) /\ out["BOB"] \in Seq(Seq(Plain \cup Pad))
          BY DEF TypeOK
        <5>2. all \in Seq(Kept(p)) BY DEF HashStep
        <5> QED BY <1>1, <5>1, <5>2 DEF Kept, Parties
      <4>2. Len(Append(out[p], all)) = Len(out[p]) + 1 BY <4>1, AppendFacts
      <4> QED BY <1>3, <1>4, <2>3, <4>2
    <3>2. ~Hashing(p)' /\ ~Extending(p)' /\ pc'[p] = "idle"
      BY <2>3 DEF Hashing, Extending
    <3> QED BY <1>2, <1>3, <1>4, <2>1, <2>3, <3>1, <3>2 DEF PositionOf
  <2> QED BY <2>2, <2>3 DEF HashStep
<1>6. ASSUME NEW q \in Party, q # p
      PROVE  PositionOf(q)'
  <2>1. /\ at'[q] = at[q] /\ pc'[q] = pc[q] /\ data'[q] = data[q] /\ out'[q] = out[q]
        /\ cot'[q] = cot[q] /\ malicious' = malicious /\ script' = script
    BY <1>6 DEF HashStep
  <2>2. Prolongs(script, script') /\ Len(script') \in Nat
    <3>1. script \in Seq(Calls) BY PartyFacts
    <3> QED BY <2>1, <3>1, <1>4, ProlongsSelf
  <2> QED BY <2>1, <2>2, OtherStays
<1>7. Together'
  <2>1. pc'[p] \in {"hash", "idle"} /\ Hashing(p) /\ \A q \in Party : q # p => pc'[q] = pc[q]
    BY DEF HashStep
  <2> QED BY <1>1, <2>1 DEF Positions, Together, Hashing, Parties
<1> QED BY <1>5, <1>6, <1>7 DEF Positions

(* What is of the base OTs and the extensions stays. *)
LEMMA HashExtensions == ASSUME IInv, NEW p \in Party, NEW all, HashStep(p, all)
  PROVE  BaseOT' /\ Places' /\ ToAlice' /\ Columned' /\ Correlates'
<1>1. /\ TypeOK /\ Positions /\ "ALICE" \in Party /\ "BOB" \in Party /\ "ALICE" # "BOB"
      /\ \A q \in Party : q = "ALICE" \/ q = "BOB"
  BY Parts, TwoParties DEF Parties
<1>2. /\ malicious' = malicious /\ delta' = delta /\ secret' = secret /\ keys' = keys /\ script' = script
      /\ used' = used /\ place' = place /\ step' = step /\ local' = local /\ cot' = cot
      /\ net'["ALICE"] = net["ALICE"]
      /\ \A q \in Party : q # p => at'[q] = at[q] /\ pc'[q] = pc[q] /\ data'[q] = data[q]
      /\ pc[p] \in {"start", "hash"} /\ pc'[p] \in {"hash", "idle"}
  BY DEF HashStep, Hashing
<1>3. BaseOT'
  <2>1. \A q \in Party : pc'[q] = pc[q] \/ {pc[q], pc'[q]} \cap {"setup", "keys", "points"} = {}
    BY <1>2
  <2>2. pc["BOB"] \notin {"setup", "points"}
    BY <1>1, <1>2 DEF Positions, Together
  <2> QED BY <1>2, <2>1, <2>2, BaseStays
<1>4. Quiet
  <2>1. Before' = Before BY <1>1, <1>2 DEF Before
  <2>2. Before \in Nat /\ Len(net["ALICE"]) \in Nat
    BY <1>1, ConstantFacts, PartyFacts DEF Before
  <2>3. \A n, x : Sent(n, x)' = Sent(n, x) BY <1>2, <2>1 DEF Sent
  <2>4. \A q \in Party : Still(q) BY <1>2 DEF Still, Extending
  <2>5. Len(net'["ALICE"]) = Before' + (Len(net["ALICE"]) - Before)
    BY <1>2, <2>1, <2>2
  <2>6. script' \in Seq(Calls) /\ Prolongs(script, script')
    <3>1. script \in Seq(Calls) BY <1>1, PartyFacts
    <3> QED BY <1>2, <3>1, ProlongsSelf
  <2> QED BY <1>2, <2>1, <2>2, <2>3, <2>4, <2>5, <2>6 DEF Quiet
<1> QED BY <1>3, <1>4, QuietExtensions

(* So what is left to show is of the hashing. *)
LEMMA HashInv == ASSUME IInv, NEW p \in Party, NEW all, HashStep(p, all), InTurn', ToBob', Resulted'
  PROVE  IInv'
<1>1. TypeOK /\ Positions BY Parts
<1> QED BY <1>1, HashTyped, HashPositions, HashExtensions DEF IInv

(* What the party has of the call is all of it; of another, what it had. *)
LEMMA HashResults ==
  ASSUME TypeOK, Positions, NEW p \in Party, NEW all, HashStep(p, all), NEW q \in Party, NEW k \in Nat \ {0}
  PROVE  /\ Results(q, k)' = IF q = p /\ k = at[p] THEN all ELSE Results(q, k)
         /\ Results(p, at[p]) = IF pc[p] = "hash" THEN data[p] ELSE <<>>
<1>1. at[p] \in Nat \ {0} /\ at[q] \in Nat \ {0} BY PartyFacts
<1>2. Results(p, at[p]) = IF pc[p] = "hash" THEN data[p] ELSE <<>>
  BY <1>1 DEF Results
<1>3. CASE q # p
  <2>1. at'[q] = at[q] /\ pc'[q] = pc[q] /\ data'[q] = data[q] /\ out'[q] = out[q]
    BY <1>3 DEF HashStep
  <2> QED BY <1>2, <1>3, <2>1 DEF Results
<1>4. CASE q = p
  <2>1. CASE Len(all) < Length(p) /\ pc'[p] = "hash" /\ data'[p] = all /\ at'[p] = at[p] /\ out'[p] = out[p]
    BY <1>1, <1>2, <1>4, <2>1 DEF Results
  <2>2. CASE /\ Len(all) = Length(p) /\ pc'[p] = "idle" /\ data'[p] = <<>> /\ at'[p] = at[p] + 1
             /\ out'[p] = Append(out[p], all)
    <3>1. PICK S : out[p] \in Seq(S) /\ all \in S
      <4>1. out["ALICE"] \in Seq(Seq(Pair)) /\ out["BOB"] \in Seq(Seq(Plain \cup Pad))
        BY DEF TypeOK
      <4>2. all \in Seq(Kept(p)) BY DEF HashStep
      <4> QED BY TwoParties, <4>1, <4>2 DEF Kept, Parties
    <3>2. Len(out[p]) = at[p] - 1 BY DEF Positions, PositionOf
    <3>3. PICK u : /\ u = out'[p]
                   /\ u[at[p]] = all /\ \A i \in 1 .. at[p] - 1 : u[i] = out[p][i]
      <4>1. Append(out[p], all)[Len(out[p]) + 1] = all /\ \A i \in 1 .. Len(out[p]) : Append(out[p], all)[i] = out[p][i]
        BY <3>1, AppendFacts
      <4>2. Len(out[p]) + 1 = at[p] BY <1>1, <3>2
      <4> QED BY <2>2, <3>2, <4>1, <4>2, Zenon
    <3>4. CASE k < at[p]
      <4>1. out'[p][k] = out[p][k] /\ k < at'[p]
        <5>1. k \in 1 .. at[p] - 1 /\ k < at[p] + 1 BY <1>1, <3>4
        <5> QED BY ONLY <2>2, <3>3, <5>1, Zenon
      <4>2. Results(p, k)' = out[p][k] /\ Results(p, k) = out[p][k]
        BY <3>4, <4>1 DEF Results
      <4>3. k # at[p] BY <1>1, <3>4
      <4> QED BY <1>2, <1>4, <4>2, <4>3
    <3>5. CASE k = at[p]
      <4>1. out'[p][k] = all /\ k < at'[p]
        <5>1. k < at[p] + 1 BY <1>1, <3>5
        <5> QED BY ONLY <2>2, <3>3, <3>5, <5>1, Zenon
      <4>2. Results(p, k)' = all BY <4>1 DEF Results
      <4> QED BY <1>2, <1>4, <3>5, <4>2
    <3>6. CASE k > at[p] BY <1>1, <1>4, <2>2, <3>6 DEF Results
    <3> QED BY <1>1, <3>4, <3>5, <3>6
  <2> QED BY <2>1, <2>2 DEF HashStep
<1> QED BY <1>3, <1>4

-----------------------------------------------------------------------------
(* The start point *)

(* ALICE comes to a call's hashing with BOB about to, and nothing on its way to him. *)
LEMMA StartsTogether == ASSUME IInv, pc["ALICE"] = "start"
  PROVE  /\ at["ALICE"] = at["BOB"] /\ pc["BOB"] = "start" /\ net["BOB"] = <<>>
         /\ ~Past /\ start["ALICE"] = start["BOB"]
<1>1. /\ TypeOK /\ Positions /\ InTurn /\ ToBob /\ Correlates
      /\ "ALICE" \in Party /\ "BOB" \in Party
  BY Parts, TwoParties DEF Parties
<1>2. /\ at["ALICE"] \in Nat \ {0} /\ at["BOB"] \in Nat \ {0} /\ Len(net["BOB"]) \in Nat
      /\ net["BOB"] \in Seq(Stuff) /\ Len(cot["BOB"]) \in Nat
  BY <1>1, PartyFacts
<1>3. Hashing("ALICE") /\ ~Past BY <1>1 DEF Hashing, InTurn
<1>4. Call("ALICE").kind # "cot" /\ Len(cot["ALICE"]) = at["ALICE"]
  BY <1>1, <1>3, HashFacts DEF Positions, PositionOf
<1>5. at["ALICE"] = at["BOB"]
  <2>1. at["ALICE"] <= at["BOB"] BY <1>1, <1>2, <1>3 DEF InTurn, Past
  <2>2. ~(at["ALICE"] < at["BOB"])
    <3> SUFFICES ASSUME at["ALICE"] < at["BOB"]
                 PROVE  FALSE
      OBVIOUS
    <3>1. at["ALICE"] \in at["ALICE"] .. at["BOB"] - 1 BY <1>2
    <3>2. script[at["ALICE"]].kind = "cot" \/ pc["ALICE"] = "hash"
      BY <1>1, <3>1 DEF InTurn
    <3> QED BY <1>4, <3>2 DEF Call
  <2> QED BY <1>2, <2>1, <2>2
<1>6. Hashing("BOB")
  <2>1. Len(cot["ALICE"]) <= Len(cot["BOB"]) BY <1>1 DEF Correlates
  <2>2. Len(cot["BOB"]) = IF Hashing("BOB") THEN at["BOB"] ELSE at["BOB"] - 1
    BY <1>1 DEF Positions, PositionOf
  <2> QED BY <1>2, <1>4, <1>5, <2>1, <2>2
<1>7. pc["BOB"] = "start" BY <1>1, <1>5, <1>6 DEF InTurn, Hashing
<1>8. Greets = 0 /\ Made = 0 /\ Done("BOB") = 0
  BY <1>3, <1>5, <1>7 DEF Greets, Begun, Made, Done
<1>9. net["BOB"] = <<>>
  <2>1. Len(net["BOB"]) = 0 BY <1>1, <1>6, <1>8 DEF ToBob
  <2> QED BY <1>2, <2>1, EmptySeq
<1> QED BY <1>1, <1>3, <1>5, <1>7, <1>8, <1>9 DEF InTurn

(* No OTs are a whole number of batches. *)
LEMMA WholeNone == Whole(0)
  BY ConstantFacts DEF Whole

(* A party that starts has results of nothing. *)
LEMMA StartsStep ==
  ASSUME IInv, NEW p \in Party, pc[p] = "start", pc' = [pc EXCEPT ![p] = "hash"],
         UNCHANGED <<base, script, at, prg, gid, data, local, cot, out>>,
         net' \in [Party -> Seq(Stuff)], net'["ALICE"] = net["ALICE"], start' \in [Party -> StartPoint]
  PROVE  /\ HashStep(p, <<>>)
         /\ \A q \in Party : Done(q)' = Done(q) /\ Gid0(q)' = Gid0(q)
         /\ pc'[p] = "hash" /\ \A q \in Party : q # p => pc'[q] = pc[q]
         /\ Done(p) = 0
<1>1. TypeOK /\ Positions BY Parts
<1>2. /\ malicious' = malicious /\ delta' = delta /\ secret' = secret /\ keys' = keys /\ at' = at /\ script' = script
      /\ used' = used /\ place' = place /\ step' = step /\ gid' = gid /\ data' = data
      /\ local' = local /\ cot' = cot /\ out' = out
  BY DEF base, prg
<1>3. pc \in [Party -> {"setup", "points", "keys", "idle", "extend", "extra", "check", "start", "hash", "error"}]
  BY <1>1, PartyFacts
<1>4. Hashing(p) /\ data[p] = <<>> BY <1>1 DEF TypeOK, Hashing, Extending
<1>5. /\ pc' \in [Party -> {"setup", "points", "keys", "idle", "extend", "extra", "check", "start", "hash", "error"}]
      /\ pc'[p] = "hash" /\ \A q \in Party : q # p => pc'[q] = pc[q]
  BY <1>3
<1>6. <<>> \in Seq(Kept(p)) /\ Len(<<>>) = 0 BY EmptySeq
<1>7. Length(p) \in Nat \ {0} BY <1>1, <1>4, HashFacts
<1>8. gid' \in [Party -> Nat] /\ at' \in [Party -> Nat \ {0}] /\ DOMAIN data' = Party /\ DOMAIN out' = Party
  BY <1>1, <1>2, PartyFacts
<1>9. HashStep(p, <<>>) BY <1>2, <1>4, <1>5, <1>6, <1>7, <1>8 DEF HashStep
<1>10. \A q \in Party : Done(q)' = Done(q) BY <1>2, <1>4, <1>5, <1>6 DEF Done
<1> QED BY <1>2, <1>5, <1>9, <1>10 DEF Gid0, Done

(* What was hashed is as it was. *)
LEMMA StartsResults ==
  ASSUME TypeOK, Positions, NEW p \in Party, pc[p] = "start", HashStep(p, <<>>), NEW q \in Party, NEW k \in Nat \ {0}
  PROVE  Results(q, k)' = Results(q, k)
<1>1. Results(q, k)' = IF q = p /\ k = at[p] THEN <<>> ELSE Results(q, k)
  BY HashResults
<1>2. Results(p, at[p]) = <<>>
  <2>1. at[p] \in Nat \ {0} BY PartyFacts
  <2> QED BY <2>1 DEF Results
<1> QED BY <1>1, <1>2

(* ALICE's start point finds BOB waiting for it. *)
LEMMA AliceStartsInv == ASSUME IInv, AliceStarts
  PROVE  IInv'
<1>1. /\ TypeOK /\ Positions /\ InTurn /\ ToBob /\ Resulted
      /\ "ALICE" \in Party /\ "BOB" \in Party /\ "ALICE" # "BOB" /\ Peer("ALICE") = "BOB"
      /\ \A q \in Party : q = "ALICE" \/ q = "BOB"
  BY Parts, TwoParties, PeerFacts DEF Parties
<1>2. PICK s \in Starts :
        /\ pc["ALICE"] = "start"
        /\ start' = [start EXCEPT !["ALICE"] = s]
        /\ net' = [net EXCEPT !["BOB"] = @ \o <<s>>]
        /\ pc' = [pc EXCEPT !["ALICE"] = "hash"]
        /\ UNCHANGED <<base, script, at, prg, gid, data, local, cot, out>>
  BY <1>1 DEF AliceStarts, Sends, Goes
<1>3. /\ at["ALICE"] = at["BOB"] /\ pc["BOB"] = "start" /\ net["BOB"] = <<>>
      /\ ~Past /\ start["ALICE"] = start["BOB"]
  BY <1>2, StartsTogether
<1>4. /\ net \in [Party -> Seq(Stuff)] /\ net["BOB"] \in Seq(Stuff)
      /\ start \in [Party -> StartPoint]
      /\ at["ALICE"] \in Nat \ {0} /\ at["BOB"] \in Nat \ {0}
      /\ gid["ALICE"] \in Nat /\ gid["BOB"] \in Nat
  BY <1>1, PartyFacts
<1>5. start' \in [Party -> StartPoint] /\ start'["ALICE"] = s
  <2>1. s \in StartPoint BY DEF StartPoint
  <2> QED BY <1>1, <1>2, <1>4, <2>1
<1>6. /\ net' \in [Party -> Seq(Stuff)] /\ net'["ALICE"] = net["ALICE"] /\ net'["BOB"] = <<s>>
      /\ Len(net'["BOB"]) = 1 /\ net'["BOB"][1] = s
  <2>1. s \in Stuff BY DEF Stuff, StartPoint
  <2>2. <<s>> \in Seq(Stuff) /\ Len(<<s>>) = 1 /\ <<s>>[1] = s BY <2>1, OneFacts
  <2>3. net["BOB"] \o <<s>> = <<s>> BY <1>3, <2>2, ConcatEmptySeq
  <2> QED BY <1>1, <1>2, <1>4, <2>2, <2>3
<1>7. /\ HashStep("ALICE", <<>>)
      /\ \A q \in Party : Done(q)' = Done(q) /\ Gid0(q)' = Gid0(q)
      /\ pc'["ALICE"] = "hash" /\ pc'["BOB"] = "start"
      /\ Done("ALICE") = 0
  BY <1>1, <1>2, <1>3, <1>5, <1>6, StartsStep
<1>8. at' = at /\ gid' = gid /\ script' = script /\ delta' = delta /\ cot' = cot /\ out' = out
  BY <1>2 DEF base
<1>9. ~Past' /\ Begun' /\ Greets' = 1 /\ Made' = 0 /\ Hashing("BOB")'
  BY <1>1, <1>3, <1>7, <1>8 DEF Past, Begun, Greets, Made, Hashing
<1>10. Done("BOB") = 0 BY <1>3 DEF Done
<1>11. InTurn'
  <2>1. \A p \in Party : gid'[p] >= Done(p)' /\ Whole(Done(p)')
    BY <1>1, <1>7, <1>8 DEF InTurn
  <2>2. at'["ALICE"] = at'["BOB"] /\ at'["ALICE"] <= at'["BOB"] + 1 /\ ~(at'["ALICE"] < at'["BOB"])
    BY <1>3, <1>4, <1>8
  <2>3. Gid0("ALICE")' = Gid0("BOB")' BY <1>1, <1>3, <1>7 DEF InTurn
  <2>4. /\ Greets' = 1 => net'["BOB"][1] = start'["ALICE"]
        /\ Greets' = 0 => start'["ALICE"] = start'["BOB"]
    BY <1>5, <1>6, <1>9
  <2> QED BY <1>7, <1>9, <2>1, <2>2, <2>3, <2>4 DEF InTurn, Whole
<1>12. ToBob'
  <2>1. Done("BOB")' = 0 BY <1>1, <1>7, <1>10
  <2>2. Len(net'["BOB"]) = Greets' + IF (Call("BOB").kind = "ot")' THEN 2 * (Made' - Done("BOB")') ELSE 0
    BY <1>6, <1>9, <2>1
  <2>3. Made' >= Done("BOB")' /\ Done("BOB")' + 1 .. Made' = {} BY <1>9, <2>1
  <2> QED BY <1>9, <2>2, <2>3 DEF ToBob
<1>13. Resulted'
  <2>1. \A p \in Party : \A k \in Nat \ {0} : Results(p, k)' = Results(p, k)
    BY <1>1, <1>2, <1>7, StartsResults
  <2>2. Results("ALICE", at["BOB"]) = <<>> /\ Results("BOB", at["ALICE"]) = <<>>
    BY <1>2, <1>3, <1>4 DEF Results
  <2>3. script' \in Seq(Calls) /\ Prolongs(script, script') /\ \A p \in Party : Prolongs(cot[p], cot'[p])
    BY <1>1, <1>8, PartyFacts, ProlongsSelf
  <2>4. at' \in [Party -> Nat \ {0}] BY <1>1, <1>8, PartyFacts
  <2>5. \A p \in Party : \A k \in 1 .. at'[p] - 1 :
          Len(out'[p][k]) = IF script'[k].kind = "cot" THEN 0 ELSE Len(script'[k].r)
    BY <1>1, <1>8 DEF Resulted
  <2>6. SameResults BY <1>8, <2>1, <2>2, <2>3, <2>4, <2>5 DEF SameResults
  <2> QED BY <1>1, <2>6, ResultsStay
<1> QED BY <1>1, <1>7, <1>11, <1>12, <1>13, HashInv

(* What BOB takes is ALICE's start point, of the call both are at. *)
LEMMA BobStartsInv == ASSUME IInv, BobStarts
  PROVE  IInv'
<1>1. /\ TypeOK /\ Positions /\ InTurn /\ ToBob /\ Resulted
      /\ "ALICE" \in Party /\ "BOB" \in Party /\ "ALICE" # "BOB"
      /\ \A q \in Party : q = "ALICE" \/ q = "BOB"
  BY Parts, TwoParties DEF Parties
<1>2. /\ pc["BOB"] = "start"
      /\ Len(net["BOB"]) >= 1
      /\ start' = [start EXCEPT !["BOB"] = net["BOB"][1]]
      /\ net' = [net EXCEPT !["BOB"] = SubSeq(@, 1 + 1, Len(@))]
      /\ pc' = [pc EXCEPT !["BOB"] = "hash"]
      /\ UNCHANGED <<base, script, at, prg, gid, data, local, cot, out>>
  BY <1>1 DEF BobStarts, Takes, Goes, Arrived
<1>3. Hashing("BOB") /\ Done("BOB") = 0 BY <1>2 DEF Hashing, Done
<1>4. /\ net \in [Party -> Seq(Stuff)] /\ net["BOB"] \in Seq(Stuff) /\ Len(net["BOB"]) \in Nat
      /\ start \in [Party -> StartPoint]
      /\ at["ALICE"] \in Nat \ {0} /\ at["BOB"] \in Nat \ {0}
      /\ gid["ALICE"] \in Nat /\ gid["BOB"] \in Nat
  BY <1>1, PartyFacts
<1>5. Begun
  <2> SUFFICES ASSUME ~Begun
               PROVE  FALSE
    OBVIOUS
  <2>1. Greets = 0 /\ Made = 0 BY DEF Begun, Greets, Made, Done
  <2>2. Len(net["BOB"]) = 0 BY <1>1, <1>3, <2>1 DEF ToBob
  <2> QED BY <1>2, <2>2
<1>6. Greets = 1 /\ net["BOB"][1] = start["ALICE"]
  BY <1>1, <1>2, <1>5 DEF InTurn, Greets
<1>7. start' \in [Party -> StartPoint] /\ start'["BOB"] = start["ALICE"] /\ start'["ALICE"] = start["ALICE"]
  BY <1>1, <1>2, <1>4, <1>6
<1>8. /\ net' \in [Party -> Seq(Stuff)] /\ net'["ALICE"] = net["ALICE"]
      /\ Len(net'["BOB"]) = Len(net["BOB"]) - 1
      /\ \A x \in 1 .. Len(net["BOB"]) - 1 : net'["BOB"][x] = net["BOB"][x + 1]
  <2>1. PICK u : u = SubSeq(net["BOB"], 1 + 1, Len(net["BOB"])) OBVIOUS
  <2>2. PICK n : n = Len(net["BOB"]) - 1 OBVIOUS
  <2>3. n \in Nat /\ 1 + n = Len(net["BOB"]) BY ONLY <1>2, <1>4, <2>2
  <2>4. \A i \in 1 + 1 .. 1 + n : net["BOB"][i] \in Stuff
    <3>1. \A i \in 1 .. Len(net["BOB"]) : net["BOB"][i] \in Stuff BY <1>4, SeqAt
    <3> QED BY <2>3, <3>1
  <2>5. u \in Seq(Stuff) /\ Len(u) = n /\ \A i \in 1 .. n : u[i] = net["BOB"][1 + i]
    BY <2>1, <2>3, <2>4, SubSeqFacts
  <2>6. \A i \in 1 .. n : 1 + i = i + 1 OBVIOUS
  <2>7. net' \in [Party -> Seq(Stuff)] /\ net'["ALICE"] = net["ALICE"] /\ net'["BOB"] = u
    BY <1>1, <1>2, <1>4, <2>1, <2>5
  <2> QED BY <2>2, <2>5, <2>6, <2>7
<1>9. /\ HashStep("BOB", <<>>)
      /\ \A q \in Party : Done(q)' = Done(q) /\ Gid0(q)' = Gid0(q)
      /\ pc'["BOB"] = "hash" /\ pc'["ALICE"] = pc["ALICE"]
  BY <1>1, <1>2, <1>7, <1>8, StartsStep
<1>10. at' = at /\ gid' = gid /\ script' = script /\ delta' = delta /\ cot' = cot /\ out' = out
  BY <1>2 DEF base
<1>11. /\ Past' = Past /\ Made' = Made /\ Greets' = 0 /\ Hashing("BOB")'
       /\ (Hashing("ALICE")' <=> Hashing("ALICE")) /\ Call("BOB")' = Call("BOB") /\ Length("BOB")' = Length("BOB")
       /\ Call("ALICE")' = Call("ALICE") /\ Length("ALICE")' = Length("ALICE")
  <2>1. Length("BOB")' = Length("BOB") /\ Call("BOB")' = Call("BOB")
        /\ Call("ALICE")' = Call("ALICE") /\ Length("ALICE")' = Length("ALICE")
    BY <1>10 DEF Length, Call
  <2>2. Past' = Past BY <1>10 DEF Past
  <2>3. Made' = Made BY <1>1, <1>9, <1>10, <2>1, <2>2 DEF Made
  <2>4. Greets' = 0 /\ Hashing("BOB")' /\ (Hashing("ALICE")' <=> Hashing("ALICE"))
    BY <1>9 DEF Greets, Hashing
  <2> QED BY <2>1, <2>2, <2>3, <2>4
<1>12. /\ at["ALICE"] >= at["BOB"]
       /\ at["ALICE"] = at["BOB"] => pc["ALICE"] = "hash"
  BY <1>4, <1>5 DEF Begun, Past
<1>13. InTurn'
  <2>1. \A p \in Party : gid'[p] >= Done(p)' /\ Whole(Done(p)')
    BY <1>1, <1>9, <1>10 DEF InTurn
  <2>2. at'["ALICE"] <= at'["BOB"] + 1 /\ ~(at'["ALICE"] < at'["BOB"])
    BY <1>1, <1>4, <1>10, <1>12 DEF InTurn
  <2>3. at'["ALICE"] = at'["BOB"] => Gid0("ALICE")' = Gid0("BOB")'
    BY <1>1, <1>9, <1>10 DEF InTurn
  <2>4. /\ Greets' = 1 => net'["BOB"][1] = start'["ALICE"]
        /\ Greets' = 0 => start'["ALICE"] = start'["BOB"]
    BY <1>7, <1>11
  <2>5. (at'["ALICE"] = at'["BOB"] /\ pc'["BOB"] = "hash") => pc'["ALICE"] = "hash"
    BY <1>9, <1>10, <1>12
  <2>6. Past' => /\ Hashing("BOB")' /\ gid'["ALICE"] >= Gid0("BOB")'
                 /\ Rounded(Length("BOB")', gid'["ALICE"] - Gid0("BOB")') /\ ~Hashing("ALICE")'
    <3>1. Past => /\ gid["ALICE"] >= Gid0("BOB")
                  /\ Rounded(Length("BOB"), gid["ALICE"] - Gid0("BOB")) /\ ~Hashing("ALICE")
      BY <1>1 DEF InTurn
    <3> QED BY <1>1, <1>9, <1>10, <1>11, <3>1
  <2> QED
    BY <1>9, <1>11, <2>1, <2>2, <2>3, <2>4, <2>5, <2>6 DEF InTurn, Whole, Rounded
<1>14. ToBob'
  <2>1. Done("BOB")' = 0 /\ Gid0("BOB")' = Gid0("BOB") BY <1>1, <1>3, <1>9
  <2>2. Made \in Nat
    <3>1. Length("BOB") \in Nat BY <1>1, <1>3, HashFacts
    <3>2. Done("ALICE") \in Nat BY <1>1, DoneFacts
    <3> QED BY <3>1, <3>2 DEF Made
  <2>3. Len(net["BOB"]) = 1 + IF Call("BOB").kind = "ot" THEN 2 * Made ELSE 0
    <3>1. Len(net["BOB"]) = Greets + IF Call("BOB").kind = "ot" THEN 2 * (Made - Done("BOB")) ELSE 0
      BY <1>1, <1>3 DEF ToBob
    <3> QED BY <1>3, <1>6, <2>2, <3>1
  <2>4. Len(net'["BOB"]) = Greets' + IF Call("BOB")'.kind = "ot" THEN 2 * (Made' - Done("BOB")') ELSE 0
    BY <1>8, <1>11, <2>1, <2>2, <2>3
  <2>5. ASSUME Call("BOB").kind = "ot", NEW i \in 1 .. Made, NEW b \in BOOLEAN
        PROVE  net'["BOB"][2 * i - IF b THEN 0 ELSE 1] = Sealing(i, b)
    <3>1. PICK x : x = 2 * i - IF b THEN 0 ELSE 1 OBVIOUS
    <3>2. x \in Nat /\ x \in 1 .. Len(net["BOB"]) - 1 BY <2>2, <2>3, <2>5, <3>1
    <3>3. net["BOB"][Greets + 2 * (i - Done("BOB")) - IF b THEN 0 ELSE 1] = Sealing(i, b)
      <4>1. i \in Done("BOB") + 1 .. Made BY <1>3, <2>2
      <4> QED BY <1>1, <1>3, <2>5, <4>1 DEF ToBob
    <3>4. Greets + 2 * (i - Done("BOB")) - (IF b THEN 0 ELSE 1) = x + 1
      BY <1>3, <1>6, <2>2, <3>1
    <3>5. net["BOB"][x + 1] = Sealing(i, b) BY <3>3, <3>4
    <3> QED BY <1>8, <3>1, <3>2, <3>5
  <2>6. \A i : \A b : Sealing(i, b)' = Sealing(i, b)
    BY <1>7, <1>10, <2>1 DEF Sealing
  <2>7. Call("BOB").kind = "ot" => \A i \in 1 .. Made : \A b \in BOOLEAN :
          net'["BOB"][Greets' + 2 * (i - Done("BOB")') - IF b THEN 0 ELSE 1] = Sealing(i, b)'
    <3> SUFFICES ASSUME Call("BOB").kind = "ot", NEW i \in 1 .. Made, NEW b \in BOOLEAN
                 PROVE  net'["BOB"][Greets' + 2 * (i - Done("BOB")') - IF b THEN 0 ELSE 1] = Sealing(i, b)'
      OBVIOUS
    <3>1. Greets' + 2 * (i - Done("BOB")') - (IF b THEN 0 ELSE 1) = 2 * i - IF b THEN 0 ELSE 1
      BY <1>11, <2>1, <2>2
    <3>2. net'["BOB"][2 * i - IF b THEN 0 ELSE 1] = Sealing(i, b) BY <2>5
    <3> QED BY <2>6, <3>1, <3>2
  <2>8. Done("BOB")' + 1 .. Made' = 1 .. Made /\ Made' >= Done("BOB")'
    BY <1>11, <2>1, <2>2
  <2> QED BY <1>11, <2>4, <2>7, <2>8 DEF ToBob
<1>15. Resulted'
  <2>1. \A p \in Party : \A k \in Nat \ {0} : Results(p, k)' = Results(p, k)
    BY <1>1, <1>2, <1>9, StartsResults
  <2>3. script' \in Seq(Calls) /\ Prolongs(script, script') /\ \A p \in Party : Prolongs(cot[p], cot'[p])
    BY <1>1, <1>10, PartyFacts, ProlongsSelf
  <2>4. at' \in [Party -> Nat \ {0}] BY <1>1, <1>10, PartyFacts
  <2>5. \A p \in Party : \A k \in 1 .. at'[p] - 1 :
          Len(out'[p][k]) = IF script'[k].kind = "cot" THEN 0 ELSE Len(script'[k].r)
    BY <1>1, <1>10 DEF Resulted
  <2>6. SameResults
    BY <1>1, <1>3, <1>7, <1>9, <1>10, <2>1, <2>3, <2>4, <2>5 DEF SameResults
  <2> QED BY <1>1, <2>6, ResultsStay
<1> QED BY <1>1, <1>9, <1>13, <1>14, <1>15, HashInv

-----------------------------------------------------------------------------
(* A batch of OTs is hashed *)

(* One batch more is a whole number of batches, *)
LEMMA WholeMore == ASSUME NEW d \in Nat, Whole(d)
  PROVE  Whole(d + OTBatch)
<1>1. PICK m \in Nat : d = m * OTBatch BY DEF Whole
<1>2. OTBatch \in Nat \ {0} BY ConstantFacts
<1>3. (m + 1) * OTBatch = m * OTBatch + OTBatch /\ m + 1 \in Nat BY <1>2
<1> QED BY <1>1, <1>3 DEF Whole

(* and the first that is enough, when it was short. *)
LEMMA RoundedMore == ASSUME NEW d \in Nat, Whole(d), NEW n \in Nat \ {0}, n <= OTBatch
  PROVE  Rounded(d + n, d + OTBatch)
<1>1. PICK m \in Nat : d + OTBatch = m * OTBatch BY WholeMore DEF Whole
<1>2. OTBatch \in Nat \ {0} BY ConstantFacts
<1>3. d + n <= d + OTBatch /\ d + OTBatch < d + n + OTBatch BY <1>2
<1> QED BY <1>1, <1>3 DEF Rounded

(* There is only one. *)
LEMMA RoundedOnce == ASSUME NEW n \in Nat, NEW g \in Int, NEW h \in Int, Rounded(n, g), Rounded(n, h)
  PROVE  g = h
<1>1. PICK a \in Nat : g = a * OTBatch /\ n <= g /\ g < n + OTBatch
  BY DEF Rounded
<1>2. PICK b \in Nat : h = b * OTBatch /\ n <= h /\ h < n + OTBatch
  BY DEF Rounded
<1>3. OTBatch \in Nat \ {0} BY ConstantFacts
<1>4. (a - b) * OTBatch = g - h BY <1>1, <1>2, <1>3
<1>5. (a - b) * OTBatch < OTBatch /\ -OTBatch < (a - b) * OTBatch
  BY <1>1, <1>2, <1>3, <1>4
<1>6. a - b = 0 BY <1>3, <1>5, SmallMultiple
<1> QED BY <1>1, <1>2, <1>6

(* Flipped twice for the same bit, a block is what it was. *)
LEMMA FlippedBack == ASSUME NEW x \in Block, NEW b \in BOOLEAN, NEW d \in Block
  PROVE  Active(Active(x, b, d), b, d) = x
<1>1. Mask(b, d) \in Block BY MaskBlock
<1>2. PICK y \in Block : y = Mask(b, d) BY <1>1
<1>3. XOR(XOR(x, y), y) = x BY DEF XOR, Block
<1> QED BY <1>2, <1>3 DEF Active

(* What ALICE hashed of is what BOB has, flipped where he chose. *)
LEMMA CotFacts == ASSUME IInv, NEW k \in 1 .. Len(cot["ALICE"])
  PROVE  /\ k \in 1 .. Len(cot["BOB"]) /\ k \in 1 .. Len(script)
         /\ cot["ALICE"][k] \in Seq(Block) /\ cot["BOB"][k] \in Seq(Block)
         /\ Len(cot["ALICE"][k]) = Len(script[k].r) /\ Len(cot["BOB"][k]) = Len(script[k].r)
         /\ \A i \in 1 .. Len(script[k].r) :
              cot["ALICE"][k][i] = Active(cot["BOB"][k][i], script[k].r[i], delta)
<1>1. TypeOK /\ Positions /\ Correlates /\ "ALICE" \in Party /\ "BOB" \in Party
  BY Parts, TwoParties DEF Parties
<1>2. /\ cot["ALICE"] \in Seq(Blocks) /\ cot["BOB"] \in Seq(Blocks)
      /\ Len(cot["ALICE"]) \in Nat /\ Len(cot["BOB"]) \in Nat /\ Len(script) \in Nat
      /\ at["ALICE"] \in Nat \ {0}
  BY <1>1, PartyFacts
<1>3. /\ Len(cot["ALICE"]) <= Len(cot["BOB"])
      /\ Len(cot["ALICE"]) <= Len(script)
      /\ \A j \in 1 .. Len(cot["ALICE"]) : Len(cot["ALICE"][j]) = Len(script[j].r)
      /\ \A j \in 1 .. Len(cot["BOB"]) : Len(cot["BOB"][j]) = Len(script[j].r)
  <2>1. PositionOf("ALICE") /\ PositionOf("BOB") BY <1>1 DEF Positions
  <2>2. Len(cot["ALICE"]) <= Len(script) BY <1>2, <2>1 DEF PositionOf
  <2> QED BY <1>1, <2>1, <2>2 DEF Correlates, PositionOf
<1>4. k \in 1 .. Len(cot["BOB"]) /\ k \in 1 .. Len(script) BY <1>2, <1>3
<1>5. Have("ALICE", k) = cot["ALICE"][k] /\ Taken(k) = cot["BOB"][k]
  BY <1>4 DEF Have, Taken
<1>6. \A i \in 1 .. Len(Have("ALICE", k)) :
            Have("ALICE", k)[i] = Active(Taken(k)[i], script[k].r[i], delta)
  BY <1>1, <1>4 DEF Correlates
<1>7. cot["ALICE"][k] \in Blocks /\ cot["BOB"][k] \in Blocks
  BY <1>2, <1>4, SeqAt
<1> QED BY <1>3, <1>4, <1>5, <1>6, <1>7 DEF Blocks

(* The next n OTs of the call are hashed, all with them. *)
(* They are at most a batch, and no more than are left. *)
LEMMA BatchFacts == ASSUME IInv, NEW p \in Party, pc[p] = "hash"
  PROVE  /\ Batch(p) \in Nat \ {0} /\ Batch(p) <= OTBatch
         /\ Done(p) = Len(data[p]) /\ Done(p) \in Nat /\ data[p] \in Seq(Kept(p))
         /\ Done(p) + Batch(p) <= Length(p) /\ Length(p) \in Nat
         /\ Done(p) + Batch(p) < Length(p) => Batch(p) = OTBatch
<1>1. TypeOK /\ Positions /\ Parties /\ "ALICE" # "BOB" BY Parts, TwoParties
<1>2. Hashing(p) BY DEF Hashing
<1>3. Done(p) \in Nat /\ Done(p) < Length(p) /\ Length(p) \in Nat \ {0} /\ Done(p) = Len(data[p])
  BY <1>1, <1>2, HashFacts DEF Done
<1>4. data[p] \in Seq(Kept(p)) BY <1>1 DEF TypeOK, Kept, Parties
<1>5. OTBatch \in Nat \ {0} BY ConstantFacts
<1>6. PICK l \in Int : l = Length(p) - Done(p) BY <1>3
<1>7. Batch(p) = AtMost(OTBatch, l) BY <1>3, <1>6 DEF Batch, Left
<1> QED BY <1>3, <1>4, <1>5, <1>6, <1>7 DEF AtMost

(* Its results are those before it and the batch's. *)
LEMMA BatchStep ==
  ASSUME IInv, NEW p \in Party, NEW n, NEW f, NEW all, Batches(p, n, f, all)
  PROVE  /\ Batched(p, n, all)
         /\ \A j \in 1 .. n : all[Done(p) + j] = f[j]
<1> USE DEF Batches
<1>1. TypeOK /\ Positions BY Parts
<1>2. /\ malicious' = malicious /\ delta' = delta /\ secret' = secret /\ keys' = keys /\ script' = script
      /\ used' = used /\ place' = place /\ step' = step /\ start' = start /\ local' = local /\ cot' = cot
  BY DEF base, prg
<1>3. /\ n \in Nat \ {0} /\ n <= OTBatch
      /\ Done(p) = Len(data[p]) /\ Done(p) \in Nat /\ data[p] \in Seq(Kept(p))
      /\ Done(p) + n <= Length(p) /\ Length(p) \in Nat
      /\ Done(p) + n < Length(p) => n = OTBatch
  BY BatchFacts
<1>4. /\ all \in Seq(Kept(p)) /\ Len(all) = Len(data[p]) + n
      /\ \A i \in 1 .. Len(data[p]) : all[i] = data[p][i]
      /\ \A j \in 1 .. n : all[Len(data[p]) + j] = f[j]
  <2>1. Halved(Kept(p), data[p], f, Len(data[p]), n, all) BY <1>3 DEF Halved
  <2>2. Whole2(Kept(p), data[p], f, Len(data[p]), n, all) BY <2>1, Joined
  <2>3. /\ all \in [1 .. Len(data[p]) + n -> Kept(p)]
        /\ \A i \in 1 .. Len(data[p]) : all[i] = data[p][i]
        /\ \A i \in 1 .. n : all[Len(data[p]) + i] = f[i]
    BY <2>2 DEF Whole2
  <2>4. Len(data[p]) + n \in Nat BY <1>3
  <2>5. all \in Seq(Kept(p)) /\ Len(all) = Len(data[p]) + n
    BY <2>3, <2>4, FunSeq
  <2> QED BY <2>3, <2>5
<1>5. Len(all) = Done(p) + n BY <1>3, <1>4
<1>6. /\ pc \in [Party -> {"setup", "points", "keys", "idle", "extend", "extra", "check", "start", "hash", "error"}]
      /\ at \in [Party -> Nat \ {0}] /\ at[p] \in Nat \ {0} /\ gid \in [Party -> Nat] /\ gid[p] \in Nat
      /\ start \in [Party -> StartPoint] /\ DOMAIN data = Party /\ DOMAIN out = Party
  BY <1>1, PartyFacts
<1>7. /\ gid' \in [Party -> Nat] /\ gid'[p] = gid[p] + OTBatch /\ \A q \in Party : q # p => gid'[q] = gid[q]
  <2>1. gid[p] + OTBatch \in Nat BY <1>6, ConstantFacts
  <2> QED BY <1>6, <2>1 DEF Renewed
<1>8. /\ at' \in [Party -> Nat \ {0}]
      /\ pc' \in [Party -> {"setup", "points", "keys", "idle", "extend", "extra", "check", "start", "hash", "error"}]
      /\ DOMAIN data' = Party /\ DOMAIN out' = Party
      /\ \A q \in Party : q # p => at'[q] = at[q] /\ pc'[q] = pc[q] /\ data'[q] = data[q] /\ out'[q] = out[q]
      /\ \/ /\ Len(all) < Length(p) /\ pc'[p] = "hash" /\ data'[p] = all /\ at'[p] = at[p] /\ out'[p] = out[p]
         \/ /\ Len(all) = Length(p) /\ pc'[p] = "idle" /\ data'[p] = <<>> /\ at'[p] = at[p] + 1
            /\ out'[p] = Append(out[p], all)
  <2>1. CASE Len(all) < Length(p)
    <3>1. data' = [data EXCEPT ![p] = all] /\ UNCHANGED <<pc, at, out>>
      BY <2>1 DEF Hashed
    <3> QED BY <1>6, <2>1, <3>1
  <2>2. CASE ~(Len(all) < Length(p))
    <3>1. /\ out' = [out EXCEPT ![p] = Append(@, all)] /\ data' = [data EXCEPT ![p] = <<>>]
          /\ pc' = [pc EXCEPT ![p] = "idle"] /\ at' = [at EXCEPT ![p] = @ + 1]
      BY <2>2 DEF Hashed, Goes
    <3>2. Len(all) = Length(p) BY <1>3, <1>5, <2>2
    <3>3. at[p] + 1 \in Nat \ {0} BY <1>6
    <3> QED BY <1>6, <3>1, <3>2, <3>3
  <2> QED BY <2>1, <2>2
<1>9. HashStep(p, all) BY <1>2, <1>4, <1>6, <1>7, <1>8 DEF HashStep, Hashing
<1>10. \A i \in 1 .. Done(p) : all[i] = data[p][i] BY <1>3, <1>4
<1> QED BY <1>2, <1>3, <1>4, <1>5, <1>7, <1>9, <1>10 DEF Batched

(* One or the other holds after any batch. *)
LEMMA BatchWays == ASSUME IInv, NEW p \in Party, NEW n, NEW all, Batched(p, n, all)
  PROVE  /\ Goon(p, all) \/ Through(p, all)
         /\ gid'[p] >= (Done(p))' /\ Whole((Done(p))')
<1>1. TypeOK /\ Positions /\ InTurn BY Parts
<1>2. /\ Done(p) \in Nat /\ gid[p] \in Nat /\ Gid0(p) \in Nat /\ gid[p] = Gid0(p) + Done(p) /\ Whole(Done(p))
  BY <1>1, DoneFacts DEF InTurn
<1>3. /\ n \in Nat \ {0} /\ n <= OTBatch /\ Len(all) = Done(p) + n /\ (Len(all) < Length(p) => n = OTBatch)
      /\ gid'[p] = gid[p] + OTBatch
  BY DEF Batched
<1>4. OTBatch \in Nat \ {0} BY ConstantFacts
<1>5. CASE Len(all) < Length(p) /\ pc'[p] = "hash" /\ data'[p] = all /\ at'[p] = at[p] /\ out'[p] = out[p]
  <2>1. (Done(p))' = Len(all) /\ Len(all) = Done(p) + OTBatch
    BY <1>3, <1>5 DEF Done
  <2>2. (Gid0(p))' = gid'[p] - (Done(p) + OTBatch) BY <2>1 DEF Gid0
  <2>3. gid'[p] - (Done(p) + OTBatch) = Gid0(p) /\ gid'[p] >= Done(p) + OTBatch
    BY <1>2, <1>3, <1>4
  <2>4. Whole(Done(p) + OTBatch) BY <1>2, WholeMore
  <2> QED BY <1>5, <2>1, <2>2, <2>3, <2>4 DEF Goon
<1>6. CASE /\ Len(all) = Length(p) /\ pc'[p] = "idle" /\ data'[p] = <<>> /\ at'[p] = at[p] + 1
           /\ out'[p] = Append(out[p], all)
  <2>1. (Done(p))' = 0 BY <1>6 DEF Done
  <2>2. (Gid0(p))' = gid'[p] - (Done(p))' BY DEF Gid0
  <2>3. gid'[p] >= 0 /\ (Gid0(p))' = gid'[p] /\ gid'[p] >= Gid0(p) /\ gid'[p] - Gid0(p) = Done(p) + OTBatch
    BY <1>2, <1>3, <1>4, <2>1, <2>2
  <2>4. Rounded(Done(p) + n, Done(p) + OTBatch) BY <1>2, <1>3, RoundedMore
  <2>5. Rounded(Length(p), gid'[p] - Gid0(p)) BY <1>3, <1>6, <2>3, <2>4
  <2> QED BY <1>6, <2>1, <2>3, <2>5, WholeNone DEF Through
<1> QED BY <1>5, <1>6 DEF Batched, HashStep

(* The other party is where it was. *)
LEMMA BatchOther ==
  ASSUME NEW p \in Party, NEW n, NEW all, Batched(p, n, all), NEW q \in Party, q # p
  PROVE  /\ at'[q] = at[q] /\ pc'[q] = pc[q] /\ gid'[q] = gid[q]
         /\ (Done(q))' = Done(q) /\ (Gid0(q))' = Gid0(q) /\ (Hashing(q))' = Hashing(q)
         /\ (Length(q))' = Length(q) /\ (Call(q))' = Call(q)
  BY DEF Batched, HashStep, Done, Gid0, Hashing, Length, Call

-----------------------------------------------------------------------------
(* ALICE hashes a batch *)

(* BOB hashes the call with ALICE, is about to, or is past it. *)
LEMMA AliceWhere == ASSUME IInv, pc["ALICE"] = "hash"
  PROVE  /\ ~Past /\ (Level \/ Behind)
         /\ at["ALICE"] \in Nat \ {0} /\ at["BOB"] \in Nat \ {0} /\ at["ALICE"] <= at["BOB"]
         /\ at["ALICE"] \in 1 .. Len(cot["ALICE"])
<1>1. /\ TypeOK /\ Positions /\ InTurn /\ Correlates
      /\ "ALICE" \in Party /\ "BOB" \in Party
  BY Parts, TwoParties DEF Parties
<1>2. at["ALICE"] \in Nat \ {0} /\ at["BOB"] \in Nat \ {0} /\ Len(cot["BOB"]) \in Nat
  BY <1>1, PartyFacts
<1>3. Hashing("ALICE") /\ ~Past BY <1>1 DEF Hashing, InTurn
<1>4. at["ALICE"] <= at["BOB"] BY <1>1, <1>2, <1>3 DEF InTurn, Past
<1>5. Len(cot["ALICE"]) = at["ALICE"] /\ Call("ALICE").kind \in {"ot", "rot"}
  BY <1>1, <1>3, HashFacts
<1>6. CASE at["ALICE"] = at["BOB"]
  <2>1. Len(cot["ALICE"]) <= Len(cot["BOB"]) BY <1>1 DEF Correlates
  <2>2. Len(cot["BOB"]) = IF Hashing("BOB") THEN at["BOB"] ELSE at["BOB"] - 1
    BY <1>1 DEF Positions, PositionOf
  <2>3. Hashing("BOB") BY <1>2, <1>5, <1>6, <2>1, <2>2
  <2> QED BY <1>1, <1>2, <1>3, <1>5, <1>6, <2>3 DEF InTurn, Level
<1>7. CASE at["ALICE"] < at["BOB"]
  <2>1. at["ALICE"] \in at["ALICE"] .. at["BOB"] - 1 BY <1>2, <1>7
  <2>2. script[at["ALICE"]].kind = "cot" \/ script[at["ALICE"]].kind = "rot"
    BY <1>1, <1>7, <2>1 DEF InTurn
  <2>3. Call("ALICE").kind = "rot" BY <1>5, <2>2 DEF Call
  <2> QED BY <1>1, <1>2, <1>3, <1>4, <1>5, <1>7, <2>3 DEF InTurn, Behind
<1> QED BY <1>2, <1>4, <1>6, <1>7

(* What BOB has received of the call is no more than ALICE has sent. *)
LEMMA GreetsFirst == ASSUME IInv, Greets = 1
  PROVE  Len(net["BOB"]) \in Nat /\ 1 \in 1 .. Len(net["BOB"])
<1>1. /\ TypeOK /\ Positions /\ ToBob /\ InTurn /\ "ALICE" \in Party /\ "BOB" \in Party
  BY Parts, TwoParties DEF Parties
<1>2. Hashing("BOB") /\ Len(net["BOB"]) \in Nat
  BY <1>1, PartyFacts DEF Greets, Hashing
<1>3. Length("BOB") \in Nat /\ Done("ALICE") \in Nat /\ Done("BOB") \in Nat
  BY <1>1, <1>2, HashFacts, DoneFacts
<1>4. Made \in Nat BY <1>3 DEF Made
<1>5. Len(net["BOB"]) = 1 + IF Call("BOB").kind = "ot" THEN 2 * (Made - Done("BOB")) ELSE 0
  BY <1>1, <1>2 DEF ToBob
<1>6. Call("BOB").kind = "ot" => Made >= Done("BOB") BY <1>1, <1>2 DEF ToBob
<1> QED BY <1>2, <1>3, <1>4, <1>5, <1>6

(* After it what is made for BOB is all she has of his call, and he is greeted as before. *)
LEMMA AliceMade == ASSUME IInv, NEW n, NEW all, Batched("ALICE", n, all)
  PROVE  /\ Greets' = Greets
         /\ Level => Made' = Len(all) /\ Made = Done("ALICE") /\ Begun
         /\ Behind => Made' = 0 /\ Made = 0 /\ Done("BOB") = 0
         /\ Len(all) = Done("ALICE") + n
<1>1. /\ TypeOK /\ Positions /\ InTurn /\ "ALICE" \in Party /\ "BOB" \in Party /\ "ALICE" # "BOB"
  BY Parts, TwoParties DEF Parties
<1>2. pc["ALICE"] = "hash" /\ Len(all) = Done("ALICE") + n BY DEF Batched
<1>3. /\ ~Past /\ (Level \/ Behind)
      /\ at["ALICE"] \in Nat \ {0} /\ at["BOB"] \in Nat \ {0} /\ at["ALICE"] <= at["BOB"]
  BY <1>2, AliceWhere
<1>4. Goon("ALICE", all) \/ Through("ALICE", all) BY <1>1, BatchWays
<1>5. at'["BOB"] = at["BOB"] /\ pc'["BOB"] = pc["BOB"] /\ Length("BOB")' = Length("BOB")
  BY <1>1, BatchOther
<1>6. CASE Level
  <2>1. Length("BOB") = Length("ALICE") BY <1>6 DEF Level, Length, Call
  <2>2. Begun' /\ Begun
    BY <1>2, <1>3, <1>4, <1>5, <1>6 DEF Begun, Past, Level, Goon, Through
  <2>3. Greets' = Greets BY <1>5, <2>2 DEF Greets
  <2>4. Made = Done("ALICE") BY <1>3, <1>6 DEF Made, Level
  <2>5. CASE Goon("ALICE", all)
    <3>1. ~Past' /\ at'["ALICE"] = at'["BOB"] /\ Done("ALICE")' = Len(all)
      BY <1>3, <1>5, <1>6, <2>5 DEF Goon, Past, Level
    <3> QED BY <2>2, <2>3, <2>4, <1>2, <1>3, <1>6, <3>1 DEF Made, Behind, Level
  <2>6. CASE Through("ALICE", all)
    <3>1. Past' /\ Len(all) = Length("BOB")
      BY <1>3, <1>5, <1>6, <2>1, <2>6 DEF Through, Past, Level
    <3> QED
      BY <1>2, <1>3, <1>5, <1>6, <2>2, <2>3, <2>4, <3>1 DEF Made, Behind, Level
  <2> QED BY <1>4, <2>5, <2>6
<1>7. CASE Behind
  <2>1. ~Begun /\ ~Begun'
    BY <1>3, <1>4, <1>5, <1>7 DEF Begun, Past, Behind, Goon, Through
  <2>2. Greets' = 0 /\ Greets = 0 BY <2>1 DEF Greets
  <2>3. Made = 0 BY <1>3, <1>7 DEF Made, Behind
  <2>4. Made' = 0
    <3>1. ~Past' /\ (at'["ALICE"] = at'["BOB"] => Done("ALICE")' = 0)
      BY <1>3, <1>4, <1>5, <1>7 DEF Past, Behind, Goon, Through
    <3> QED BY <3>1 DEF Made
  <2>5. Done("BOB") = 0 BY <1>7 DEF Behind, Done
  <2> QED BY <1>2, <1>3, <1>7, <2>2, <2>3, <2>4, <2>5 DEF Behind, Level
<1> QED BY <1>3, <1>6, <1>7

(* The turns are as they should be. *)
LEMMA AliceTurns ==
  ASSUME IInv, NEW n, NEW all, Batched("ALICE", n, all), Greets = 1 => net'["BOB"][1] = net["BOB"][1]
  PROVE  InTurn'
<1>1. /\ TypeOK /\ Positions /\ InTurn /\ "ALICE" \in Party /\ "BOB" \in Party /\ "ALICE" # "BOB"
      /\ \A q \in Party : q = "ALICE" \/ q = "BOB"
  BY Parts, TwoParties DEF Parties
<1>2. pc["ALICE"] = "hash" /\ start' = start /\ script' = script
  BY DEF Batched, HashStep
<1>3. /\ ~Past /\ (Level \/ Behind)
      /\ at["ALICE"] \in Nat \ {0} /\ at["BOB"] \in Nat \ {0} /\ at["ALICE"] <= at["BOB"]
  BY <1>2, AliceWhere
<1>4. /\ Goon("ALICE", all) \/ Through("ALICE", all)
      /\ gid'["ALICE"] >= Done("ALICE")' /\ Whole(Done("ALICE")')
  BY <1>1, BatchWays
<1>5. /\ at'["BOB"] = at["BOB"] /\ pc'["BOB"] = pc["BOB"] /\ gid'["BOB"] = gid["BOB"]
      /\ Done("BOB")' = Done("BOB") /\ Gid0("BOB")' = Gid0("BOB") /\ Hashing("BOB")' = Hashing("BOB")
      /\ Length("BOB")' = Length("BOB") /\ Call("BOB")' = Call("BOB")
  BY <1>1, BatchOther
<1>6. \A p \in Party : gid'[p] >= Done(p)' /\ Whole(Done(p)')
  BY <1>1, <1>4, <1>5 DEF InTurn
<1>7. /\ Greets' = 1 => net'["BOB"][1] = start'["ALICE"]
      /\ Greets' = 0 => start'["ALICE"] = start'["BOB"]
  BY <1>1, <1>2, AliceMade DEF InTurn
<1>8. at'["ALICE"] <= at'["BOB"] + 1 BY <1>3, <1>4, <1>5 DEF Goon, Through
<1>9. Gid0("ALICE") \in Nat /\ Gid0("BOB") \in Nat /\ gid["BOB"] \in Nat /\ Length("ALICE") \in Nat
  BY <1>1, <1>2, DoneFacts, HashFacts DEF Hashing
<1>10. CASE Goon("ALICE", all)
  <2>1. /\ pc'["ALICE"] = "hash" /\ at'["ALICE"] = at["ALICE"] /\ Gid0("ALICE")' = Gid0("ALICE")
        /\ Length("ALICE")' = Length("ALICE") /\ Call("ALICE")' = Call("ALICE")
    BY <1>2, <1>10 DEF Goon, Length, Call
  <2>2. ~Past' BY <1>3, <1>5, <2>1 DEF Past
  <2>3. at'["ALICE"] = at'["BOB"] => Gid0("ALICE")' = Gid0("BOB")'
    BY <1>1, <1>5, <2>1 DEF InTurn
  <2>4. at'["ALICE"] < at'["BOB"] =>
          /\ pc'["BOB"] # "hash"
          /\ \A k \in at'["ALICE"] .. at'["BOB"] - 1 :
               \/ script'[k].kind = "cot"
               \/ k = at'["ALICE"] /\ script'[k].kind = "rot" /\ pc'["ALICE"] = "hash"
          /\ gid'["BOB"] >= Gid0("ALICE")' /\ Rounded(Length("ALICE")', gid'["BOB"] - Gid0("ALICE")')
    BY <1>1, <1>2, <1>5, <2>1 DEF InTurn
  <2> QED BY <1>6, <1>7, <1>8, <2>1, <2>2, <2>3, <2>4 DEF InTurn, Whole, Rounded
<1>11. CASE Through("ALICE", all)
  <2>1. /\ pc'["ALICE"] = "idle" /\ at'["ALICE"] = at["ALICE"] + 1 /\ ~Hashing("ALICE")'
        /\ Gid0("ALICE")' = gid'["ALICE"]
        /\ gid'["ALICE"] >= Gid0("ALICE") /\ Rounded(Length("ALICE"), gid'["ALICE"] - Gid0("ALICE"))
    BY <1>11 DEF Through, Hashing
  <2>2. CASE Level
    <3>1. at'["ALICE"] = at'["BOB"] + 1 /\ Length("ALICE") = Length("BOB") /\ Gid0("ALICE") = Gid0("BOB") /\ Hashing("BOB")
      BY <1>5, <2>1, <2>2 DEF Level, Length, Call
    <3>2. ~(at'["ALICE"] = at'["BOB"]) /\ ~(at'["ALICE"] < at'["BOB"])
      BY <1>3, <1>5, <3>1
    <3>3. /\ Hashing("BOB")' /\ gid'["ALICE"] >= Gid0("BOB")'
          /\ Rounded(Length("BOB")', gid'["ALICE"] - Gid0("BOB")')
      BY <1>5, <2>1, <3>1
    <3> QED BY <1>6, <1>7, <1>8, <2>1, <3>2, <3>3 DEF InTurn, Whole, Rounded
  <2>3. CASE Behind
    <3>1. ~Past' BY <1>3, <1>5, <2>1, <2>3 DEF Past, Behind
    <3>2. gid["BOB"] = gid'["ALICE"]
      <4>1. gid'["ALICE"] \in Nat BY <1>1 DEF Batched, HashStep
      <4>2. PICK g \in Int : g = gid["BOB"] - Gid0("ALICE") BY <1>9
      <4>3. PICK h \in Int : h = gid'["ALICE"] - Gid0("ALICE") BY <1>9, <4>1
      <4>4. g = h BY <1>9, <2>1, <2>3, <4>2, <4>3, RoundedOnce DEF Behind
      <4> QED BY <1>9, <4>1, <4>2, <4>3, <4>4
    <3>3. pc'["BOB"] # "hash" /\ Gid0("BOB") = gid["BOB"]
      BY <1>1, <1>5, <2>3, DoneFacts DEF Behind
    <3>4. Gid0("ALICE")' = Gid0("BOB")' BY <1>5, <2>1, <3>2, <3>3
    <3>5. \A k \in at'["ALICE"] .. at'["BOB"] - 1 : script'[k].kind = "cot"
      <4> SUFFICES ASSUME NEW k \in at["ALICE"] + 1 .. at["BOB"] - 1
                   PROVE  script[k].kind = "cot"
        BY <1>2, <1>5, <2>1
      <4>1. k \in at["ALICE"] .. at["BOB"] - 1 /\ k # at["ALICE"] BY <1>3
      <4> QED BY <1>1, <2>3, <4>1 DEF InTurn, Behind
    <3> QED
      BY <1>5, <1>6, <1>7, <1>8, <2>1, <3>1, <3>2, <3>3, <3>4, <3>5 DEF InTurn, Whole, Rounded
  <2> QED BY <1>3, <2>2, <2>3
<1> QED BY <1>4, <1>10, <1>11

-----------------------------------------------------------------------------
(* What ALICE sends of a batch, and what she keeps *)

(* A longer stream has the ciphertexts there were where they were, and then the new ones. *)
LEMMA StreamGrows ==
  ASSUME NEW s \in Seq(Stuff), NEW t \in Seq(Stuff), NEW u, u = s \o t
  PROVE  /\ u \in Seq(Stuff) /\ Len(u) = Len(s) + Len(t)
         /\ \A i \in 1 .. Len(s) : u[i] = s[i]
         /\ \A i \in 1 .. Len(t) : u[Len(s) + i] = t[i]
  BY ConcatIs DEF Prolongs

(* So what is on its way to BOB are the ciphertexts he has not opened. *)
LEMMA AliceToBob ==
  ASSUME IInv, NEW n, NEW all, Batched("ALICE", n, all), NEW msgs, SealsAfter(n, msgs)
  PROVE  ToBob' /\ (Greets = 1 => net'["BOB"][1] = net["BOB"][1])
<1>1. /\ TypeOK /\ Positions /\ InTurn /\ ToBob /\ "ALICE" \in Party /\ "BOB" \in Party /\ "ALICE" # "BOB"
  BY Parts, TwoParties DEF Parties
<1>2. /\ pc["ALICE"] = "hash" /\ start' = start /\ script' = script /\ delta' = delta /\ cot' = cot
      /\ n \in Nat \ {0}
  BY DEF Batched, HashStep
<1>3. /\ ~Past /\ (Level \/ Behind)
      /\ at["ALICE"] \in Nat \ {0} /\ at["BOB"] \in Nat \ {0} /\ at["ALICE"] <= at["BOB"]
  BY <1>2, AliceWhere
<1>4. /\ at'["BOB"] = at["BOB"] /\ pc'["BOB"] = pc["BOB"] /\ gid'["BOB"] = gid["BOB"]
      /\ Done("BOB")' = Done("BOB") /\ Gid0("BOB")' = Gid0("BOB") /\ Hashing("BOB")' = Hashing("BOB")
      /\ Length("BOB")' = Length("BOB") /\ Call("BOB")' = Call("BOB")
  BY <1>1, BatchOther
<1>5. /\ Greets' = Greets
      /\ Level => Made' = Len(all) /\ Made = Done("ALICE")
      /\ Behind => Made' = 0 /\ Made = 0 /\ Done("BOB") = 0
      /\ Len(all) = Done("ALICE") + n
  BY AliceMade
<1>6. pc'["ALICE"] # "keys"
  <2>1. Goon("ALICE", all) \/ Through("ALICE", all) BY <1>1, BatchWays
  <2> QED BY <2>1 DEF Goon, Through
<1>7. \A i, b : Sealing(i, b)' = Sealing(i, b) BY <1>2, <1>4 DEF Sealing
<1>8. CASE net' = net /\ Call("ALICE").kind = "rot"
  <2>1. (~Hashing("BOB") /\ ~(pc["BOB"] = "points" /\ pc["ALICE"] = "keys")) => net["BOB"] = <<>>
    BY <1>1 DEF ToBob
  <2>2. (~Hashing("BOB")' /\ ~(pc'["BOB"] = "points" /\ pc'["ALICE"] = "keys")) => net'["BOB"] = <<>>
    BY <1>2, <1>4, <1>8, <2>1
  <2>3. CASE Level
    <3>1. Call("BOB").kind = "rot" /\ Hashing("BOB")
      BY <1>8, <2>3 DEF Level, Call
    <3>2. Len(net["BOB"]) = Greets + 0 BY <1>1, <3>1 DEF ToBob
    <3> QED BY <1>4, <1>5, <1>8, <2>2, <3>1, <3>2 DEF ToBob
  <2>4. CASE Behind
    <3>1. Done("BOB")' + 1 .. Made' = {} /\ Made' >= Done("BOB")' /\ Made' - Done("BOB")' = Made - Done("BOB")
      BY <1>4, <1>5, <2>4
    <3>2. Hashing("BOB") =>
            Len(net["BOB"]) = Greets + IF Call("BOB").kind = "ot" THEN 2 * (Made - Done("BOB")) ELSE 0
      BY <1>1 DEF ToBob
    <3>3. Hashing("BOB")' =>
            Len(net'["BOB"]) = Greets' + IF Call("BOB")'.kind = "ot" THEN 2 * (Made' - Done("BOB")') ELSE 0
      BY <1>4, <1>5, <1>8, <3>1, <3>2
    <3>4. (Hashing("BOB")' /\ Call("BOB")'.kind = "ot") => \A i \in Done("BOB")' + 1 .. Made' : \A b \in BOOLEAN :
             net'["BOB"][Greets' + 2 * (i - Done("BOB")') - IF b THEN 0 ELSE 1] = Sealing(i, b)'
      BY <3>1
    <3> QED BY <1>8, <2>2, <3>1, <3>3, <3>4 DEF ToBob
  <2> QED BY <1>3, <1>8, <2>3, <2>4
<1>9. CASE Call("ALICE").kind = "ot" /\ Seals(n, msgs) /\ net'["BOB"] = net["BOB"] \o msgs
  <2>1. Level BY <1>3, <1>9 DEF Behind
  <2>2. Hashing("BOB") /\ Call("BOB").kind = "ot" /\ at["ALICE"] = at["BOB"] /\ Gid0("ALICE") = Gid0("BOB")
    BY <1>9, <2>1 DEF Level, Call
  <2>3. PICK g \in Nat : g = Greets BY DEF Greets
  <2>4. PICK d \in Nat : d = Done("ALICE") BY <1>1, DoneFacts
  <2>5. PICK e \in Nat : e = Done("BOB") BY <1>1, DoneFacts
  <2>6. PICK l \in Nat : l = Len(net["BOB"]) BY <1>1, PartyFacts
  <2>7. PICK h \in Nat : h = Gid0("BOB") BY <1>1, DoneFacts
  <2>8. gid["ALICE"] = h + d BY <1>1, <2>2, <2>4, <2>7, DoneFacts
  <2>9. l = g + 2 * (d - e) /\ d >= e /\ Made = d /\ Made' = d + n
    BY <1>1, <1>5, <2>1, <2>2, <2>3, <2>4, <2>5, <2>6 DEF ToBob
  <2>10. /\ net'["BOB"] \in Seq(Stuff) /\ Len(net'["BOB"]) = l + 2 * n
         /\ \A i \in 1 .. l : net'["BOB"][i] = net["BOB"][i]
         /\ \A i \in 1 .. 2 * n : net'["BOB"][l + i] = msgs[i]
    <3>1. net["BOB"] \in Seq(Stuff) /\ msgs \in Seq(Stuff) /\ Len(msgs) = 2 * n
      BY <1>1, <1>9, PartyFacts DEF Seals
    <3>2. PICK u : u = net'["BOB"] OBVIOUS
    <3>3. /\ u \in Seq(Stuff) /\ Len(u) = Len(net["BOB"]) + Len(msgs)
          /\ \A i \in 1 .. Len(net["BOB"]) : u[i] = net["BOB"][i]
          /\ \A i \in 1 .. Len(msgs) : u[Len(net["BOB"]) + i] = msgs[i]
      BY <1>9, <3>1, <3>2, StreamGrows
    <3> QED BY <2>6, <3>1, <3>2, <3>3
  <2>11. ASSUME NEW i \in e + 1 .. d + n, NEW b \in BOOLEAN
         PROVE  net'["BOB"][g + 2 * (i - e) - IF b THEN 0 ELSE 1] = Sealing(i, b)
    <3>1. PICK x : x = g + 2 * (i - e) - IF b THEN 0 ELSE 1 OBVIOUS
    <3>2. CASE i <= d
      <4>1. net["BOB"][Greets + 2 * (i - Done("BOB")) - IF b THEN 0 ELSE 1] = Sealing(i, b)
        BY <1>1, <2>2, <2>5, <2>9, <3>2 DEF ToBob
      <4>2. x \in 1 .. l BY <1>2, <2>9, <3>1, <3>2
      <4>3. net["BOB"][x] = Sealing(i, b) BY <2>3, <2>5, <3>1, <4>1
      <4> QED BY <2>10, <3>1, <4>2, <4>3
    <3>3. CASE ~(i <= d)
      <4>1. PICK j : j = i - d OBVIOUS
      <4>2. j \in 1 .. n /\ i = d + j BY <1>2, <2>9, <3>3, <4>1
      <4>3. PICK y : y = 2 * j - IF b THEN 0 ELSE 1 OBVIOUS
      <4>4. y \in 1 .. 2 * n /\ x = l + y BY <1>2, <2>9, <3>1, <4>2, <4>3
      <4>5. msgs[y] = Sealed(<<start["ALICE"], gid["ALICE"] + j - 1,
                               Active(cot["ALICE"][at["ALICE"]][d + j], b, delta)>>,
                             Message(at["ALICE"], d + j, b))
        BY <1>9, <2>4, <4>2, <4>3 DEF Seals
      <4>6. gid["ALICE"] + j - 1 = h + i - 1 BY <2>8, <4>2
      <4>7. msgs[y] = Sealing(i, b) BY <2>2, <2>7, <4>2, <4>5, <4>6 DEF Sealing
      <4> QED BY <2>10, <3>1, <4>4, <4>7
    <3> QED BY <3>2, <3>3
  <2>12. ToBob'
    <3>1. Len(net'["BOB"]) = Greets' + 2 * (Made' - Done("BOB")')
      <4>1. Greets' = g /\ Made' = d + n /\ Done("BOB")' = e
        BY <1>4, <1>5, <2>3, <2>5, <2>9
      <4>2. Len(net'["BOB"]) = g + 2 * ((d + n) - e) BY <1>2, <2>9, <2>10
      <4> QED BY <4>1, <4>2, Zenon
    <3>2. Made' >= Done("BOB")' BY <1>2, <1>4, <2>5, <2>9
    <3>3. Done("BOB")' + 1 .. Made' = e + 1 .. d + n /\ Greets' = g /\ Done("BOB")' = e
      BY <1>4, <1>5, <2>3, <2>5, <2>9
    <3>4. \A i \in Done("BOB")' + 1 .. Made' : \A b \in BOOLEAN :
            net'["BOB"][Greets' + 2 * (i - Done("BOB")') - IF b THEN 0 ELSE 1] = Sealing(i, b)'
      BY <1>7, <2>11, <3>3
    <3> QED BY <1>4, <2>2, <3>1, <3>2, <3>4 DEF ToBob
  <2>13. Greets = 1 => net'["BOB"][1] = net["BOB"][1]
    BY <2>6, <2>10, GreetsFirst
  <2> QED BY <2>12, <2>13
<1> QED BY <1>8, <1>9 DEF SealsAfter

(* What a call gave has its length. *)
LEMMA HashLengths == ASSUME TypeOK, Positions, Resulted, NEW p \in Party, NEW all, HashStep(p, all),
                            NEW q \in Party, NEW k \in 1 .. at'[q] - 1
  PROVE  Len(out'[q][k]) = IF script'[k].kind = "cot" THEN 0 ELSE Len(script'[k].r)
<1>1. at[p] \in Nat \ {0} /\ at[q] \in Nat \ {0} /\ at'[q] \in Nat \ {0}
  BY PartyFacts DEF HashStep
<1>2. \A j \in 1 .. at[q] - 1 : Len(out[q][j]) = IF script[j].kind = "cot" THEN 0 ELSE Len(script[j].r)
  BY DEF Resulted
<1>3. script' = script BY DEF HashStep
<1>4. Results(q, k)' = out'[q][k] BY <1>1 DEF Results
<1>5. Results(q, k)' = IF q = p /\ k = at[p] THEN all ELSE Results(q, k)
  BY <1>1, HashResults
<1>6. CASE q = p /\ k = at[p]
  <2>1. Len(all) = Length(p) BY <1>1, <1>6 DEF HashStep
  <2>2. Call(p).kind \in {"ot", "rot"} BY HashFacts DEF HashStep
  <2> QED BY <1>3, <1>4, <1>5, <1>6, <2>1, <2>2 DEF Length, Call
<1>7. CASE ~(q = p /\ k = at[p])
  <2>1. k \in 1 .. at[q] - 1
    <3>1. at'[q] = at[q] \/ (q = p /\ at'[p] = at[p] + 1) BY DEF HashStep
    <3> QED BY <1>1, <1>7, <3>1
  <2>2. Results(q, k) = out[q][k] BY <1>1, <2>1 DEF Results
  <2> QED BY <1>2, <1>3, <1>4, <1>5, <1>7, <2>1, <2>2
<1> QED BY <1>6, <1>7

(* What hashing gave is a sequence. *)
LEMMA ResultsTyped == ASSUME TypeOK, Positions, NEW p \in Party, NEW k \in Nat \ {0}
  PROVE  Results(p, k) \in Seq(Kept(p)) /\ Len(Results(p, k)) \in Nat
<1>1. Parties /\ "ALICE" # "BOB" /\ at[p] \in Nat \ {0}
  BY TwoParties, PartyFacts
<1>2. Len(out[p]) = at[p] - 1 BY DEF Positions, PositionOf
<1>3. out[p] \in Seq(Seq(Kept(p))) BY <1>1 DEF TypeOK, Kept, Parties
<1>4. pc[p] = "hash" => data[p] \in Seq(Kept(p))
  BY <1>1 DEF TypeOK, Kept, Parties
<1>5. k < at[p] => out[p][k] \in Seq(Kept(p)) BY <1>1, <1>2, <1>3, SeqAt
<1>6. <<>> \in Seq(Kept(p)) BY EmptySeq
<1>7. Results(p, k) \in Seq(Kept(p)) BY <1>4, <1>5, <1>6 DEF Results
<1> QED BY <1>7, LenProperties

(* Of each pair that both have, BOB's is the one he chose. *)
LEMMA AliceResults ==
  ASSUME IInv, NEW n, NEW all, Batched("ALICE", n, all), Pads(n, all)
  PROVE  Resulted'
<1>1. /\ TypeOK /\ Positions /\ InTurn /\ Resulted /\ "ALICE" \in Party /\ "BOB" \in Party /\ "ALICE" # "BOB"
      /\ \A q \in Party : q = "ALICE" \/ q = "BOB"
  BY Parts, TwoParties DEF Parties
<1>2. /\ pc["ALICE"] = "hash" /\ start' = start /\ script' = script /\ delta' = delta /\ cot' = cot
      /\ HashStep("ALICE", all) /\ n \in Nat \ {0} /\ Len(all) = Done("ALICE") + n
      /\ \A i \in 1 .. Done("ALICE") : all[i] = data["ALICE"][i]
  BY DEF Batched, HashStep
<1>3. PICK a \in Nat \ {0}, c \in Nat \ {0} : a = at["ALICE"] /\ c = at["BOB"]
  BY <1>1, PartyFacts
<1>4. PICK d \in Nat : d = Done("ALICE") /\ d = Len(data["ALICE"])
  BY <1>1, <1>2, BatchFacts
<1>5. PICK h \in Nat : h = Gid0("ALICE") /\ gid["ALICE"] = h + d
  BY <1>1, <1>4, DoneFacts
<1>6. /\ ~Past /\ (Level \/ Behind) /\ at["BOB"] \in Nat \ {0} /\ a \in 1 .. Len(cot["ALICE"])
  BY <1>2, <1>3, AliceWhere
<1>7. /\ a \in 1 .. Len(script) /\ cot["ALICE"][a] \in Seq(Block) /\ cot["BOB"][a] \in Seq(Block)
      /\ Len(cot["ALICE"][a]) = Len(script[a].r) /\ Len(cot["BOB"][a]) = Len(script[a].r)
      /\ \A i \in 1 .. Len(script[a].r) :
           cot["ALICE"][a][i] = Active(cot["BOB"][a][i], script[a].r[i], delta)
  BY <1>6, CotFacts
<1>8. /\ at'["BOB"] = at["BOB"] /\ pc'["BOB"] = pc["BOB"] /\ Gid0("BOB")' = Gid0("BOB")
      /\ Hashing("BOB")' = Hashing("BOB") /\ Call("BOB")' = Call("BOB")
  BY <1>1, BatchOther
<1>9. ASSUME NEW k \in Nat \ {0}
      PROVE  /\ Results("ALICE", k)' = IF k = a THEN all ELSE Results("ALICE", k)
             /\ Results("BOB", k)' = Results("BOB", k)
  BY <1>1, <1>2, <1>3, HashResults
<1>10. Results("ALICE", a) = data["ALICE"] BY <1>1, <1>2, <1>3, HashResults
<1>11. Len(all) \in Nat /\ Len(all) = d + n BY <1>2, <1>4
<1>12. Call("ALICE") = script[a] BY <1>3 DEF Call
<1>13. ASSUME NEW i \in d + 1 .. Len(all), NEW b \in BOOLEAN
       PROVE  all[i][b] = IF script[a].kind = "ot" THEN Message(a, i, b)
                          ELSE <<start["ALICE"], h + i - 1, Active(cot["ALICE"][a][i], b, delta)>>
  <2>1. PICK j : j = i - d OBVIOUS
  <2>2. j \in 1 .. n /\ i = d + j BY <1>2, <1>11, <2>1
  <2>3. all[d + j][b] = IF script[a].kind = "ot" THEN Message(a, d + j, b)
                        ELSE <<start["ALICE"], gid["ALICE"] + j - 1, Active(cot["ALICE"][a][d + j], b, delta)>>
    BY <1>3, <1>4, <1>12, <2>2 DEF Pads
  <2>4. gid["ALICE"] + j - 1 = h + i - 1 BY <1>5, <2>2
  <2> QED BY <2>2, <2>3, <2>4
<1>14. \A q \in Party : \A k \in 1 .. at'[q] - 1 :
         Len(out'[q][k]) = IF script'[k].kind = "cot" THEN 0 ELSE Len(script'[k].r)
  BY <1>1, <1>2, HashLengths
<1>15. ASSUME NEW k \in 1 .. Len(script), script[k].kind = "ot"
       PROVE  /\ \A i \in 1 .. Len(Results("ALICE", k)') : \A b \in BOOLEAN :
                   Results("ALICE", k)'[i][b] = Message(k, i, b)
              /\ \A i \in 1 .. Len(Results("BOB", k)') :
                   Results("BOB", k)'[i] = Message(k, i, script[k].r[i])
  <2>1. k \in Nat \ {0} BY <1>1, PartyFacts
  <2>2. /\ \A i \in 1 .. Len(Results("ALICE", k)) : \A b \in BOOLEAN :
              Results("ALICE", k)[i][b] = Message(k, i, b)
        /\ \A i \in 1 .. Len(Results("BOB", k)) :
              Results("BOB", k)[i] = Message(k, i, script[k].r[i])
    BY <1>1, <1>15 DEF Resulted
  <2>3. CASE k = a
    <3>1. ASSUME NEW i \in 1 .. Len(all), NEW b \in BOOLEAN
          PROVE  all[i][b] = Message(k, i, b)
      <4>1. CASE i <= d BY <1>2, <1>4, <1>10, <1>11, <2>2, <2>3, <4>1
      <4>2. CASE ~(i <= d)
        <5>1. i \in d + 1 .. Len(all) BY <1>11, <4>2
        <5> QED BY <1>13, <1>15, <2>3, <5>1
      <4> QED BY <4>1, <4>2
    <3> QED BY <1>9, <2>1, <2>2, <2>3, <3>1
  <2>4. CASE k # a BY <1>9, <2>1, <2>2, <2>4
  <2> QED BY <2>3, <2>4
<1>16. ASSUME Hashing("BOB"), script[c].kind = "rot", NEW i \in 1 .. Len(Results("ALICE", c)'), NEW b \in BOOLEAN
       PROVE  Results("ALICE", c)'[i][b] =
                <<start["ALICE"], Gid0("BOB") + i - 1, Active(cot["ALICE"][c][i], b, delta)>>
  <2>1. \A j \in 1 .. Len(Results("ALICE", c)) : \A v \in BOOLEAN :
            Results("ALICE", c)[j][v] =
              <<start["ALICE"], Gid0("BOB") + j - 1, Active(cot["ALICE"][c][j], v, delta)>>
    BY <1>1, <1>3, <1>16 DEF Resulted, Call
  <2>2. CASE Level
    <3>1. c = a /\ Gid0("BOB") = h /\ script[a].kind # "ot"
      BY <1>3, <1>5, <1>16, <2>2 DEF Level
    <3>2. i \in 1 .. Len(all) /\ Results("ALICE", c)' = all BY <1>9, <1>16, <3>1
    <3>3. CASE i <= d
      <4>1. i \in 1 .. d /\ Results("ALICE", c) = data["ALICE"] /\ i \in 1 .. Len(Results("ALICE", c))
        BY <1>4, <1>10, <1>11, <3>1, <3>2, <3>3
      <4>2. all[i] = data["ALICE"][i] BY <1>2, <1>4, <4>1
      <4> QED BY <2>1, <3>2, <4>1, <4>2
    <3>4. CASE ~(i <= d)
      <4>1. i \in d + 1 .. Len(all) BY <1>11, <3>2, <3>4
      <4> QED BY <1>13, <3>1, <3>2, <4>1
    <3> QED BY <3>3, <3>4
  <2>3. CASE Behind
    <3>1. c # a BY <1>3, <1>6, <2>3 DEF Behind
    <3>2. Results("ALICE", c)' = Results("ALICE", c) BY <1>9, <3>1
    <3> QED BY <1>16, <2>1, <3>2
  <2> QED BY <1>6, <2>2, <2>3
<1>17. ASSUME script[a].kind = "rot", NEW i \in 1 .. Len(Results("BOB", a))
       PROVE  Results("BOB", a)[i] = <<start["ALICE"], h + i - 1, cot["BOB"][a][i]>>
  BY <1>1, <1>2, <1>3, <1>5, <1>12, <1>17 DEF Resulted
<1>18. ASSUME NEW k \in 1 .. Len(script), script[k].kind = "rot",
              NEW i \in 1 .. AtMost(Len(Results("ALICE", k)'), Len(Results("BOB", k)'))
       PROVE  Results("BOB", k)'[i] = Results("ALICE", k)'[i][script[k].r[i]]
  <2>1. k \in Nat \ {0} BY <1>1, PartyFacts
  <2>2. \A j \in 1 .. AtMost(Len(Results("ALICE", k)), Len(Results("BOB", k))) :
          Results("BOB", k)[j] = Results("ALICE", k)[j][script[k].r[j]]
    BY <1>1, <1>18 DEF Resulted
  <2>3. CASE k # a BY <1>9, <1>18, <2>1, <2>2, <2>3
  <2>4. CASE k = a
    <3>1. Results("ALICE", k)' = all /\ Results("BOB", k)' = Results("BOB", a) /\ Results("ALICE", k) = data["ALICE"]
      BY <1>9, <1>10, <2>1, <2>4
    <3>2. PICK l : l = Len(Results("BOB", a)) OBVIOUS
    <3>3. l \in Nat
      <4>1. Results("BOB", a) \in Seq(Plain \cup Pad)
        BY <1>1, <1>3, ResultsTyped DEF Kept
      <4> QED BY <3>2, <4>1, LenProperties
    <3>4. i \in 1 .. l /\ i \in 1 .. Len(all)
      BY <1>11, <1>18, <3>1, <3>2, <3>3 DEF AtMost
    <3>5. CASE i <= d
      <4>1. i \in 1 .. AtMost(Len(Results("ALICE", k)), Len(Results("BOB", k)))
        BY <1>4, <2>4, <3>1, <3>2, <3>3, <3>4, <3>5 DEF AtMost
      <4>2. all[i] = data["ALICE"][i] BY <1>2, <1>4, <3>4, <3>5
      <4> QED BY <2>2, <2>4, <3>1, <4>1, <4>2
    <3>6. CASE ~(i <= d)
      <4>1. i \in d + 1 .. Len(all) BY <1>11, <3>4, <3>6
      <4>2. i \in 1 .. Len(script[a].r) /\ script[a].r[i] \in BOOLEAN
        <5>1. Len(all) <= Length("ALICE") /\ Length("ALICE") = Len(script[a].r)
          <6>1. Length("ALICE") \in Nat /\ Length("ALICE") = Len(script[a].r)
            BY <1>1, <1>2, <1>12, BatchFacts DEF Length
          <6>2. Len(all) < Length("ALICE") \/ Len(all) = Length("ALICE")
            BY <1>2 DEF HashStep
          <6> QED BY <1>11, <6>1, <6>2
        <5>2. Len(script[a].r) \in Nat \ {0} /\ \A j \in 1 .. Len(script[a].r) : script[a].r[j] \in BOOLEAN
          BY <1>1, <1>7, ScriptFacts
        <5> QED BY <1>11, <3>4, <5>1, <5>2
      <4>3. PICK v \in BOOLEAN : v = script[a].r[i] BY <4>2
      <4>4. all[i][v] = <<start["ALICE"], h + i - 1, Active(cot["ALICE"][a][i], v, delta)>>
        BY <1>13, <1>18, <2>4, <4>1
      <4>5. Active(cot["ALICE"][a][i], v, delta) = cot["BOB"][a][i]
        <5>1. cot["BOB"][a][i] \in Block /\ delta \in Block
          BY <1>1, <1>7, <4>2, SeqAt, OTAssumption DEF TypeOK
        <5>2. cot["ALICE"][a][i] = Active(cot["BOB"][a][i], v, delta)
          BY <1>7, <4>2, <4>3
        <5> QED BY <5>1, <5>2, FlippedBack
      <4>6. Results("BOB", a)[i] = <<start["ALICE"], h + i - 1, cot["BOB"][a][i]>>
        BY <1>17, <1>18, <2>4, <3>2, <3>4
      <4> QED BY <2>4, <3>1, <4>3, <4>4, <4>5, <4>6
    <3> QED BY <3>5, <3>6
  <2> QED BY <2>3, <2>4
<1>19. /\ (Results("ALICE", at["BOB"]))' = Results("ALICE", c)'
       /\ (Hashing("BOB") /\ Call("BOB").kind = "rot")' => Hashing("BOB") /\ script[c].kind = "rot"
       /\ at'["BOB"] = c
  <2>1. at'["BOB"] = c BY <1>3, <1>8
  <2>2. Call("BOB") = script[c] BY <1>3 DEF Call
  <2> QED BY <1>8, <2>1, <2>2 DEF Results
<1>20. ((Hashing("BOB") /\ Call("BOB").kind = "rot") =>
         \A i \in 1 .. Len(Results("ALICE", at["BOB"])) : \A b \in BOOLEAN :
            Results("ALICE", at["BOB"])[i][b] =
              <<start["ALICE"], Gid0("BOB") + i - 1, Active(cot["ALICE"][at["BOB"]][i], b, delta)>>)'
  BY <1>2, <1>8, <1>16, <1>19
<1>21. pc'["ALICE"] = "hash" => /\ at'["ALICE"] = a /\ Gid0("ALICE")' = h
                                /\ (Results("BOB", at["ALICE"]))' = Results("BOB", a)
                                /\ (Call("ALICE"))' = script[a]
  <2> SUFFICES ASSUME pc'["ALICE"] = "hash"
               PROVE  /\ at'["ALICE"] = a /\ Gid0("ALICE")' = h
                      /\ (Results("BOB", at["ALICE"]))' = Results("BOB", a)
                      /\ (Call("ALICE"))' = script[a]
    OBVIOUS
  <2>1. Goon("ALICE", all)
    <3>1. Goon("ALICE", all) \/ Through("ALICE", all) BY <1>1, BatchWays
    <3> QED BY <3>1 DEF Through
  <2>2. at'["ALICE"] = a /\ Gid0("ALICE")' = h BY <1>3, <1>5, <2>1 DEF Goon
  <2>3. (Results("BOB", at["ALICE"]))' = Results("BOB", a)' BY <2>2 DEF Results
  <2>4. (Call("ALICE"))' = script[a] BY <1>2, <2>2 DEF Call
  <2> QED BY <1>9, <2>2, <2>3, <2>4
<1>22. ((pc["ALICE"] = "hash" /\ Call("ALICE").kind = "rot") =>
         \A i \in 1 .. Len(Results("BOB", at["ALICE"])) :
            Results("BOB", at["ALICE"])[i] =
              <<start["ALICE"], Gid0("ALICE") + i - 1, cot["BOB"][at["ALICE"]][i]>>)'
  BY <1>2, <1>17, <1>21
<1>23. (\A k \in 1 .. Len(script) : script[k].kind = "ot" =>
         /\ \A i \in 1 .. Len(Results("ALICE", k)) : \A b \in BOOLEAN :
                Results("ALICE", k)[i][b] = Message(k, i, b)
         /\ \A i \in 1 .. Len(Results("BOB", k)) :
                Results("BOB", k)[i] = Message(k, i, script[k].r[i]))'
  BY <1>2, <1>15 DEF Message
<1>24. (\A k \in 1 .. Len(script) : script[k].kind = "rot" =>
         \A i \in 1 .. AtMost(Len(Results("ALICE", k)), Len(Results("BOB", k))) :
           Results("BOB", k)[i] = Results("ALICE", k)[i][script[k].r[i]])'
  BY <1>2, <1>18 DEF AtMost
<1>25. (\A p \in Party : \A k \in 1 .. at[p] - 1 :
          Len(out[p][k]) = IF script[k].kind = "cot" THEN 0 ELSE Len(script[k].r))'
  BY <1>14
<1> QED BY <1>20, <1>22, <1>23, <1>24, <1>25 DEF Resulted

(* They are a pad and a message. *)
LEMMA AtTyped == ASSUME IInv, pc["ALICE"] = "hash", NEW j \in 1 .. Batch("ALICE"), NEW b \in BOOLEAN
  PROVE  PadAt(j, b) \in Pad /\ MessageAt(j, b) \in Plain
<1>1. TypeOK /\ Positions /\ InTurn /\ "ALICE" \in Party /\ "BOB" \in Party
  BY Parts, TwoParties DEF Parties
<1>2. /\ Batch("ALICE") \in Nat \ {0} /\ Done("ALICE") = Len(data["ALICE"]) /\ Done("ALICE") \in Nat
      /\ Done("ALICE") + Batch("ALICE") <= Length("ALICE") /\ Length("ALICE") \in Nat
  BY <1>1, BatchFacts
<1>3. PICK a : a = at["ALICE"] OBVIOUS
<1>4. a \in Nat /\ gid["ALICE"] \in Nat /\ start["ALICE"] \in StartPoint
  BY <1>1, <1>3, PartyFacts
<1>5. a \in 1 .. Len(cot["ALICE"]) BY <1>3, AliceWhere
<1>6. cot["ALICE"][a] \in Seq(Block) /\ Len(cot["ALICE"][a]) = Length("ALICE")
  BY <1>3, <1>5, CotFacts DEF Length, Call
<1>7. PICK i : i = Len(data["ALICE"]) + j OBVIOUS
<1>8. i \in 1 .. Len(cot["ALICE"][a]) /\ i \in Nat BY <1>2, <1>6, <1>7
<1>9. Active(cot["ALICE"][a][i], b, delta) \in Block
  <2>1. cot["ALICE"][a][i] \in Block BY <1>6, <1>8, SeqAt
  <2>2. delta \in Block BY <1>1, OTAssumption DEF TypeOK
  <2> QED BY <2>1, <2>2, ActiveBlock
<1>10. gid["ALICE"] + j - 1 \in Nat BY <1>2, <1>4
<1>11. PadAt(j, b) \in StartPoint \X Nat \X Block
  BY <1>3, <1>4, <1>7, <1>9, <1>10 DEF PadAt
<1>12. MessageAt(j, b) \in Nat \X Nat \X BOOLEAN
  BY <1>3, <1>4, <1>7, <1>8 DEF MessageAt, Message
<1> QED BY <1>11, <1>12 DEF Pad, Plain

(* What ALICE sends of a batch are the ciphertexts. *)
LEMMA SealsSent ==
  ASSUME IInv, pc["ALICE"] = "hash", NEW n, n = Batch("ALICE"), NEW msgs,
         msgs = [x \in 1 .. 2 * n |-> Sealed(PadAt((x + 1) \div 2, x % 2 = 0), MessageAt((x + 1) \div 2, x % 2 = 0))]
  PROVE  Seals(n, msgs)
<1>1. TypeOK /\ Positions /\ InTurn /\ "ALICE" \in Party /\ "BOB" \in Party
  BY Parts, TwoParties DEF Parties
<1>2. n \in Nat \ {0} /\ 2 * n \in Nat /\ Done("ALICE") = Len(data["ALICE"])
  BY <1>1, BatchFacts
<1>3. ASSUME NEW x \in 1 .. 2 * n
      PROVE  msgs[x] \in Stuff
  <2>1. (x + 1) \div 2 \in 1 .. n /\ (x % 2 = 0) \in BOOLEAN BY <1>2
  <2>2. PICK j, b : j = (x + 1) \div 2 /\ b = (x % 2 = 0) OBVIOUS
  <2>3. PadAt(j, b) \in Pad /\ MessageAt(j, b) \in Plain BY <2>1, <2>2, AtTyped
  <2>4. Sealed(PadAt(j, b), MessageAt(j, b)) \in [pad : Pad, m : Plain]
    BY <2>3 DEF Sealed
  <2>5. msgs[x] = Sealed(PadAt(j, b), MessageAt(j, b)) BY <2>2, Zenon
  <2> QED BY <2>4, <2>5 DEF Stuff
<1>4. msgs \in [1 .. 2 * n -> Stuff] BY <1>3
<1>5. msgs \in Seq(Stuff) /\ Len(msgs) = 2 * n
  <2>1. PICK w \in Nat : w = 2 * n BY <1>2
  <2>2. msgs \in [1 .. w -> Stuff] BY <1>4, <2>1
  <2>3. msgs \in Seq(Stuff) /\ Len(msgs) = w BY <2>2, FunSeq
  <2> QED BY <2>1, <2>3
<1>6. ASSUME NEW j \in 1 .. n, NEW b \in BOOLEAN
      PROVE  msgs[2 * j - IF b THEN 0 ELSE 1] = Sealed(PadAt(j, b), MessageAt(j, b))
  <2>1. PICK x : x = 2 * j - IF b THEN 0 ELSE 1 OBVIOUS
  <2>2. x \in 1 .. 2 * n /\ (x + 1) \div 2 = j /\ (x % 2 = 0) = b
    <3>1. CASE b = TRUE
      <4>1. x = 2 * j /\ x \in 1 .. 2 * n /\ j \in Int /\ x + 1 = j * 2 + 1
        BY ONLY <1>2, <2>1, <3>1
      <4>2. (x + 1) \div 2 = j BY <4>1, Division
      <4>3. x % 2 = 0 BY ONLY <4>1
      <4>4. (x % 2 = 0) = TRUE BY ONLY <4>3, Zenon
      <4> QED BY ONLY <3>1, <4>1, <4>2, <4>4, Zenon
    <3>2. CASE b = FALSE BY ONLY <1>2, <2>1, <3>2
    <3> QED BY ONLY <3>1, <3>2
  <2>3. msgs[x] = Sealed(PadAt((x + 1) \div 2, x % 2 = 0), MessageAt((x + 1) \div 2, x % 2 = 0))
    BY <2>2
  <2> QED BY <2>1, <2>2, <2>3
<1>7. \A j \in 1 .. n : \A b \in BOOLEAN :
        msgs[2 * j - IF b THEN 0 ELSE 1] =
          Sealed(<<start["ALICE"], gid["ALICE"] + j - 1,
                   Active(cot["ALICE"][at["ALICE"]][Done("ALICE") + j], b, delta)>>,
                 Message(at["ALICE"], Done("ALICE") + j, b))
  <2> SUFFICES ASSUME NEW j \in 1 .. n, NEW b \in BOOLEAN
               PROVE  msgs[2 * j - IF b THEN 0 ELSE 1] =
                        Sealed(<<start["ALICE"], gid["ALICE"] + j - 1,
                                 Active(cot["ALICE"][at["ALICE"]][Done("ALICE") + j], b, delta)>>,
                               Message(at["ALICE"], Done("ALICE") + j, b))
    OBVIOUS
  <2>1. /\ PadAt(j, b) = <<start["ALICE"], gid["ALICE"] + j - 1,
                           Active(cot["ALICE"][at["ALICE"]][Done("ALICE") + j], b, delta)>>
        /\ MessageAt(j, b) = Message(at["ALICE"], Done("ALICE") + j, b)
    BY <1>2 DEF PadAt, MessageAt
  <2> QED BY <1>6, <2>1
<1> QED BY ONLY <1>5, <1>7 DEF Seals

(* ALICE's batch leaves BOB's where it was, and its ciphertexts behind    *)
(* those he has.                                                          *)
LEMMA AliceHashesInv == ASSUME IInv, AliceHashes
  PROVE  IInv'
<1>1. TypeOK /\ Positions /\ InTurn /\ "ALICE" \in Party /\ "BOB" \in Party /\ "ALICE" # "BOB" /\ Peer("ALICE") = "BOB"
  BY Parts, TwoParties, PeerFacts DEF Parties
<1>2. PICK n : n = Batch("ALICE") OBVIOUS
<1>3. /\ pc["ALICE"] = "hash"
      /\ Renewed("ALICE", n)
      /\ UNCHANGED <<base, script, prg, start, local, cot>>
      /\ \/ /\ Call("ALICE").kind = "ot"
            /\ Sends("ALICE", [x \in 1 .. 2 * n |->
                 Sealed(PadAt((x + 1) \div 2, x % 2 = 0), MessageAt((x + 1) \div 2, x % 2 = 0))])
            /\ Hashed("ALICE", [j \in 1 .. n |-> [b \in BOOLEAN |-> MessageAt(j, b)]])
         \/ /\ Call("ALICE").kind # "ot"
            /\ Hashed("ALICE", [j \in 1 .. n |-> [b \in BOOLEAN |-> PadAt(j, b)]])
            /\ net' = net
  BY <1>2 DEF AliceHashes, PadAt, MessageAt, Hash, Correlated
<1>4. PICK msgs : msgs = [x \in 1 .. 2 * n |->
                           Sealed(PadAt((x + 1) \div 2, x % 2 = 0), MessageAt((x + 1) \div 2, x % 2 = 0))]
  OBVIOUS
<1>5. PICK f : f = [j \in 1 .. n |-> [b \in BOOLEAN |->
                      IF Call("ALICE").kind = "ot" THEN MessageAt(j, b) ELSE PadAt(j, b)]]
  OBVIOUS
<1>6. /\ Hashed("ALICE", f)
      /\ \/ Call("ALICE").kind = "ot" /\ Sends("ALICE", msgs)
         \/ Call("ALICE").kind # "ot" /\ net' = net
  <2>1. CASE Call("ALICE").kind = "ot"
    <3>1. f = [j \in 1 .. n |-> [b \in BOOLEAN |-> MessageAt(j, b)]]
      BY <1>5, <2>1
    <3> QED BY <1>3, <1>4, <2>1, <3>1
  <2>2. CASE Call("ALICE").kind # "ot"
    <3>1. f = [j \in 1 .. n |-> [b \in BOOLEAN |-> PadAt(j, b)]] BY <1>5, <2>2
    <3> QED BY <1>3, <2>2, <3>1
  <2> QED BY <2>1, <2>2
<1>7. n \in Nat \ {0} /\ Done("ALICE") = Len(data["ALICE"]) /\ data["ALICE"] \in Seq(Pair)
  BY <1>1, <1>2, <1>3, BatchFacts DEF Kept
<1>8. f \in Seq(Pair) /\ Len(f) = n /\ \A j \in 1 .. n : \A b \in BOOLEAN :
        f[j][b] = IF Call("ALICE").kind = "ot" THEN MessageAt(j, b) ELSE PadAt(j, b)
  <2>1. ASSUME NEW j \in 1 .. n
        PROVE  f[j] \in Pair
    <3>1. \A b \in BOOLEAN : PadAt(j, b) \in Plain \cup Pad /\ MessageAt(j, b) \in Plain \cup Pad
      BY <1>2, <1>3, AtTyped
    <3>2. f[j] = [b \in BOOLEAN |-> IF Call("ALICE").kind = "ot" THEN MessageAt(j, b) ELSE PadAt(j, b)]
      BY <1>5
    <3> QED BY <3>1, <3>2 DEF Pair
  <2>2. f \in [1 .. n -> Pair] BY <1>5, <2>1
  <2>3. f \in Seq(Pair) /\ Len(f) = n BY <1>7, <2>2, FunSeq
  <2> QED BY <1>5, <2>3
<1>9. net \in [Party -> Seq(Stuff)] /\ net["BOB"] \in Seq(Stuff)
  BY <1>1, PartyFacts
<1>10. Seals(n, msgs) BY <1>2, <1>3, <1>4, SealsSent
<1>11. /\ net' \in [Party -> Seq(Stuff)] /\ net'["ALICE"] = net["ALICE"]
       /\ Call("ALICE").kind = "ot" => net'["BOB"] = net["BOB"] \o msgs
  <2>1. CASE Call("ALICE").kind = "ot" /\ Sends("ALICE", msgs)
    <3>1. net["BOB"] \o msgs \in Seq(Stuff)
      <4>1. msgs \in Seq(Stuff) BY <1>10 DEF Seals
      <4> QED BY <1>9, <4>1, ConcatProperties
    <3>2. net' = [net EXCEPT !["BOB"] = @ \o msgs] BY <1>1, <2>1 DEF Sends
    <3> QED BY <1>1, <1>9, <3>1, <3>2
  <2>2. CASE Call("ALICE").kind # "ot" /\ net' = net BY <1>9, <2>2
  <2> QED BY <1>6, <2>1, <2>2
<1>12. PICK all : all = data["ALICE"] \o f OBVIOUS
<1>13. Batched("ALICE", n, all) /\ \A j \in 1 .. n : all[Done("ALICE") + j] = f[j]
  <2>1. f \in Seq(Kept("ALICE")) BY <1>8 DEF Kept
  <2>2. Batches("ALICE", n, f, all)
    BY <1>2, <1>3, <1>6, <1>8, <1>11, <1>12, <2>1 DEF Batches
  <2> QED BY <1>1, <2>2, BatchStep
<1>14. SealsAfter(n, msgs)
  <2>1. Call("ALICE").kind \in {"ot", "rot"}
    BY <1>1, <1>3, HashFacts DEF Hashing
  <2> QED BY <1>6, <1>10, <1>11, <2>1 DEF SealsAfter
<1>15. Pads(n, all)
  <2> SUFFICES ASSUME NEW j \in 1 .. n, NEW b \in BOOLEAN
               PROVE  all[Done("ALICE") + j][b] =
                        IF Call("ALICE").kind = "ot" THEN Message(at["ALICE"], Done("ALICE") + j, b)
                        ELSE <<start["ALICE"], gid["ALICE"] + j - 1,
                               Active(cot["ALICE"][at["ALICE"]][Done("ALICE") + j], b, delta)>>
    BY DEF Pads
  <2>1. all[Done("ALICE") + j][b] = IF Call("ALICE").kind = "ot" THEN MessageAt(j, b) ELSE PadAt(j, b)
    BY <1>8, <1>13
  <2> QED BY <1>7, <2>1 DEF MessageAt, PadAt
<1>16. ToBob' /\ (Greets = 1 => net'["BOB"][1] = net["BOB"][1])
  BY <1>13, <1>14, AliceToBob
<1>17. InTurn' BY <1>13, <1>16, AliceTurns
<1>18. Resulted' BY <1>13, <1>15, AliceResults
<1>19. HashStep("ALICE", all) BY <1>13 DEF Batched
<1> QED BY <1>1, <1>16, <1>17, <1>18, <1>19, HashInv

-----------------------------------------------------------------------------
(* BOB hashes a batch *)

(* One of the two holds, and ALICE has hashed as much. *)
LEMMA BobWhere == ASSUME IInv, pc["BOB"] = "hash"
  PROVE  /\ Even \/ Past
         /\ Even => Made = Done("ALICE") /\ Done("ALICE") < Length("BOB") /\ ~Past
         /\ Past => Made = Length("BOB") /\ ~Hashing("ALICE") /\ ~Even
         /\ Made \in Nat /\ Length("BOB") \in Nat /\ Made <= Length("BOB")
         /\ Greets = 0 /\ start["ALICE"] = start["BOB"]
         /\ at["BOB"] \in 1 .. Len(cot["ALICE"])
<1>1. /\ TypeOK /\ Positions /\ InTurn /\ Correlates
      /\ "ALICE" \in Party /\ "BOB" \in Party
  BY Parts, TwoParties DEF Parties
<1>2. /\ at["ALICE"] \in Nat \ {0} /\ at["BOB"] \in Nat \ {0} /\ Len(cot["ALICE"]) \in Nat
      /\ Len(cot["ALICE"]) = IF Hashing("ALICE") THEN at["ALICE"] ELSE at["ALICE"] - 1
  BY <1>1, PartyFacts DEF Positions, PositionOf
<1>3. Hashing("BOB") /\ Length("BOB") \in Nat BY <1>1, HashFacts DEF Hashing
<1>4. Greets = 0 /\ start["ALICE"] = start["BOB"] BY <1>1 DEF InTurn, Greets
<1>5. at["ALICE"] = at["BOB"] \/ Past BY <1>1, <1>2 DEF InTurn, Past
<1>6. CASE at["ALICE"] = at["BOB"]
  <2>1. Even /\ ~Past BY <1>1, <1>2, <1>6 DEF InTurn, Even, Past
  <2>2. Hashing("ALICE") /\ Length("ALICE") = Length("BOB")
    BY <1>6, <2>1 DEF Even, Hashing, Length, Call
  <2>3. Made = Done("ALICE") /\ Done("ALICE") < Length("BOB") /\ Done("ALICE") \in Nat
    BY <1>1, <1>6, <2>1, <2>2, HashFacts DEF Made
  <2> QED BY <1>2, <1>3, <1>4, <1>6, <2>1, <2>2, <2>3
<1>7. CASE Past
  <2>1. ~Hashing("ALICE") /\ ~Even BY <1>1, <1>2, <1>7 DEF InTurn, Past, Even
  <2>2. Made = Length("BOB") BY <1>7 DEF Made
  <2> QED BY <1>2, <1>3, <1>4, <1>7, <2>1, <2>2 DEF Past
<1> QED BY <1>5, <1>6, <1>7

(* The turns are as they should be. *)
LEMMA BobTurns ==
  ASSUME IInv, NEW n, NEW all, Batched("BOB", n, all), Call("BOB").kind = "ot" => Made >= Done("BOB") + n
  PROVE  InTurn'
<1>1. /\ TypeOK /\ Positions /\ InTurn /\ "ALICE" \in Party /\ "BOB" \in Party /\ "ALICE" # "BOB"
      /\ \A q \in Party : q = "ALICE" \/ q = "BOB"
  BY Parts, TwoParties DEF Parties
<1>2. pc["BOB"] = "hash" /\ start' = start /\ script' = script /\ n \in Nat \ {0} /\ Len(all) = Done("BOB") + n
  BY DEF Batched, HashStep
<1>3. /\ Even \/ Past
      /\ Even => Made = Done("ALICE") /\ Done("ALICE") < Length("BOB") /\ ~Past
      /\ Past => ~Hashing("ALICE")
      /\ Greets = 0 /\ start["ALICE"] = start["BOB"]
  BY <1>2, BobWhere
<1>4. /\ Goon("BOB", all) \/ Through("BOB", all)
      /\ gid'["BOB"] >= Done("BOB")' /\ Whole(Done("BOB")')
  BY <1>1, BatchWays
<1>5. /\ at'["ALICE"] = at["ALICE"] /\ pc'["ALICE"] = pc["ALICE"] /\ gid'["ALICE"] = gid["ALICE"]
      /\ Done("ALICE")' = Done("ALICE") /\ Gid0("ALICE")' = Gid0("ALICE") /\ Hashing("ALICE")' = Hashing("ALICE")
      /\ Length("ALICE")' = Length("ALICE") /\ Call("ALICE")' = Call("ALICE")
  BY <1>1, BatchOther
<1>6. \A p \in Party : gid'[p] >= Done(p)' /\ Whole(Done(p)')
  BY <1>1, <1>4, <1>5 DEF InTurn
<1>7. Greets' = 0 /\ start'["ALICE"] = start'["BOB"]
  BY <1>2, <1>3, <1>4 DEF Greets, Goon, Through
<1>8. at["ALICE"] \in Nat \ {0} /\ at["BOB"] \in Nat \ {0} BY <1>1, PartyFacts
<1>9. Gid0("ALICE") \in Nat /\ Gid0("BOB") \in Nat /\ gid["ALICE"] \in Nat /\ Length("BOB") \in Nat
      /\ Done("ALICE") \in Nat /\ Done("BOB") \in Nat
  BY <1>1, <1>2, DoneFacts, HashFacts DEF Hashing
<1>10. CASE Goon("BOB", all)
  <2>1. /\ pc'["BOB"] = "hash" /\ at'["BOB"] = at["BOB"] /\ Gid0("BOB")' = Gid0("BOB") /\ Hashing("BOB")'
        /\ Length("BOB")' = Length("BOB")
    BY <1>2, <1>10 DEF Goon, Length, Call, Hashing
  <2>2. Past' = Past BY <1>5, <2>1 DEF Past
  <2>3. Past => gid["ALICE"] >= Gid0("BOB") /\ Rounded(Length("BOB"), gid["ALICE"] - Gid0("BOB"))
    BY <1>1 DEF InTurn
  <2>4. ~(at'["ALICE"] < at'["BOB"]) /\ at'["ALICE"] <= at'["BOB"] + 1
    BY <1>3, <1>5, <1>8, <2>1 DEF Even, Past
  <2>5. at'["ALICE"] = at'["BOB"] => pc'["ALICE"] = "hash" /\ Gid0("ALICE")' = Gid0("BOB")'
    BY <1>3, <1>5, <1>8, <2>1 DEF Even, Past
  <2> QED
    BY <1>3, <1>5, <1>6, <1>7, <2>1, <2>2, <2>3, <2>4, <2>5 DEF InTurn, Whole, Rounded
<1>11. CASE Through("BOB", all)
  <2>1. /\ pc'["BOB"] = "idle" /\ at'["BOB"] = at["BOB"] + 1 /\ Len(all) = Length("BOB")
        /\ Gid0("BOB")' = gid'["BOB"]
        /\ gid'["BOB"] >= Gid0("BOB") /\ Rounded(Length("BOB"), gid'["BOB"] - Gid0("BOB"))
    BY <1>11 DEF Through
  <2>2. CASE Past
    <3>1. at'["ALICE"] = at'["BOB"] /\ ~Past' BY <1>5, <1>8, <2>1, <2>2 DEF Past
    <3>2. gid["ALICE"] = gid'["BOB"]
      <4>1. gid'["BOB"] \in Nat BY <1>1 DEF Batched, HashStep
      <4>2. PICK g \in Int : g = gid["ALICE"] - Gid0("BOB") BY <1>9
      <4>3. PICK h \in Int : h = gid'["BOB"] - Gid0("BOB") BY <1>9, <4>1
      <4>4. Rounded(Length("BOB"), g) BY <1>1, <2>2, <4>2 DEF InTurn
      <4>5. g = h BY <1>9, <2>1, <4>3, <4>4, RoundedOnce
      <4> QED BY <1>9, <4>1, <4>2, <4>3, <4>5
    <3>3. Gid0("ALICE")' = gid["ALICE"]
      <4>1. pc["ALICE"] # "hash" BY <1>3, <2>2 DEF Hashing
      <4> QED BY <1>1, <1>5, <4>1, DoneFacts
    <3>4. ~(at'["ALICE"] < at'["BOB"]) /\ at'["ALICE"] <= at'["BOB"] + 1
      BY <1>5, <1>8, <3>1
    <3> QED
      BY <1>6, <1>7, <2>1, <3>1, <3>2, <3>3, <3>4 DEF InTurn, Whole, Rounded
  <2>3. CASE Even
    <3>1. Call("BOB").kind = "rot"
      <4>1. Call("BOB").kind \in {"ot", "rot"}
        BY <1>1, <1>2, HashFacts DEF Hashing
      <4>2. Call("BOB").kind # "ot" BY <1>2, <1>3, <1>9, <2>1, <2>3
      <4> QED BY <4>1, <4>2
    <3>2. /\ at["ALICE"] = at["BOB"] /\ pc["ALICE"] = "hash" /\ Gid0("ALICE") = Gid0("BOB")
          /\ Length("ALICE") = Length("BOB") /\ script[at["ALICE"]].kind = "rot"
      BY <2>3, <3>1 DEF Even, Length, Call
    <3>3. ~Past' /\ at'["ALICE"] < at'["BOB"] /\ at'["ALICE"] # at'["BOB"] /\ at'["ALICE"] <= at'["BOB"] + 1
      BY <1>5, <1>8, <2>1, <3>2 DEF Past
    <3>4. \A k \in at'["ALICE"] .. at'["BOB"] - 1 :
             k = at'["ALICE"] /\ script'[k].kind = "rot" /\ pc'["ALICE"] = "hash"
      BY <1>2, <1>5, <1>8, <2>1, <3>2
    <3>5. gid'["BOB"] >= Gid0("ALICE")' /\ Rounded(Length("ALICE")', gid'["BOB"] - Gid0("ALICE")')
      BY <1>5, <2>1, <3>2
    <3>6. pc'["BOB"] # "hash" /\ pc'["ALICE"] = "hash" BY <1>5, <2>1, <3>2
    <3> QED BY <1>6, <1>7, <3>3, <3>4, <3>5, <3>6 DEF InTurn, Whole, Rounded
  <2> QED BY <1>3, <2>2, <2>3
<1> QED BY <1>4, <1>10, <1>11

(* There is nothing else in the stream but the ciphertexts of the call. *)
LEMMA BobNet == ASSUME IInv, pc["BOB"] = "hash", Call("BOB").kind = "ot"
  PROVE  /\ Len(net["BOB"]) = 2 * (Made - Done("BOB")) /\ Made >= Done("BOB")
         /\ \A i \in Done("BOB") + 1 .. Made : \A b \in BOOLEAN :
              net["BOB"][2 * (i - Done("BOB")) - IF b THEN 0 ELSE 1] = Sealing(i, b)
<1>1. TypeOK /\ Positions /\ ToBob /\ Hashing("BOB") /\ "BOB" \in Party
  BY Parts, TwoParties DEF Hashing, Parties
<1>2. Greets = 0 /\ Made \in Nat BY BobWhere
<1>3. Done("BOB") \in Nat BY <1>1, HashFacts
<1>4. Len(net["BOB"]) = 0 + 2 * (Made - Done("BOB")) /\ Made >= Done("BOB")
  BY <1>1, <1>2 DEF ToBob
<1>5. ASSUME NEW i \in Done("BOB") + 1 .. Made, NEW b \in BOOLEAN
      PROVE  net["BOB"][2 * (i - Done("BOB")) - IF b THEN 0 ELSE 1] = Sealing(i, b)
  <2>1. net["BOB"][0 + 2 * (i - Done("BOB")) - IF b THEN 0 ELSE 1] = Sealing(i, b)
    BY <1>1, <1>2 DEF ToBob
  <2>2. 0 + 2 * (i - Done("BOB")) - (IF b THEN 0 ELSE 1) = 2 * (i - Done("BOB")) - IF b THEN 0 ELSE 1
    BY <1>2, <1>3
  <2> QED BY <2>1, <2>2
<1> QED BY <1>2, <1>3, <1>4, <1>5

(* So they are there, and the rest of the stream is the rest of the call's. *)
LEMMA BobToBob ==
  ASSUME IInv, NEW n, NEW all, Batched("BOB", n, all), TakesBatch(n), net' \in [Party -> Seq(Stuff)]
  PROVE  ToBob' /\ (Call("BOB").kind = "ot" => Made >= Done("BOB") + n)
<1>1. /\ TypeOK /\ Positions /\ InTurn /\ ToBob /\ "ALICE" \in Party /\ "BOB" \in Party /\ "ALICE" # "BOB"
  BY Parts, TwoParties DEF Parties
<1>2. /\ pc["BOB"] = "hash" /\ start' = start /\ script' = script /\ delta' = delta /\ cot' = cot
      /\ n \in Nat \ {0} /\ Len(all) = Done("BOB") + n
  BY DEF Batched, HashStep
<1>3. /\ Even \/ Past
      /\ Made \in Nat /\ Length("BOB") \in Nat /\ Made <= Length("BOB")
      /\ Greets = 0
  BY <1>2, BobWhere
<1>4. /\ Goon("BOB", all) \/ Through("BOB", all) BY <1>1, BatchWays
<1>5. /\ at'["ALICE"] = at["ALICE"] /\ pc'["ALICE"] = pc["ALICE"] /\ Done("ALICE")' = Done("ALICE")
  BY <1>1, BatchOther
<1>6. Done("BOB") \in Nat /\ Hashing("BOB") /\ Call("BOB").kind \in {"ot", "rot"}
  BY <1>1, <1>2, HashFacts DEF Hashing
<1>7. Greets' = 0 BY <1>4 DEF Greets, Goon, Through
<1>8. Call("BOB").kind = "ot" => Made >= Done("BOB") + n
  <2> SUFFICES ASSUME Call("BOB").kind = "ot"
               PROVE  Made >= Done("BOB") + n
    OBVIOUS
  <2>1. Len(net["BOB"]) = 2 * (Made - Done("BOB")) /\ Len(net["BOB"]) >= 2 * n
    BY <1>2, BobNet DEF TakesBatch
  <2> QED BY <1>2, <1>3, <1>6, <2>1
<1>9. CASE Goon("BOB", all)
  <2>1. /\ pc'["BOB"] = "hash" /\ at'["BOB"] = at["BOB"] /\ Gid0("BOB")' = Gid0("BOB") /\ Hashing("BOB")'
        /\ Length("BOB")' = Length("BOB") /\ Call("BOB")' = Call("BOB") /\ Done("BOB")' = Done("BOB") + n
    BY <1>2, <1>9 DEF Goon, Length, Call, Hashing
  <2>2. Made' = Made BY <1>5, <2>1 DEF Made, Past
  <2>3. \A i, b : Sealing(i, b)' = Sealing(i, b) BY <1>2, <2>1 DEF Sealing
  <2>4. CASE Call("BOB").kind = "rot"
    <3>1. Len(net'["BOB"]) = 0 BY <1>1, <1>3, <1>6, <2>4 DEF ToBob, TakesBatch
    <3> QED BY <1>7, <2>1, <2>4, <3>1 DEF ToBob
  <2>5. CASE Call("BOB").kind = "ot"
    <3>1. /\ Len(net["BOB"]) = 2 * (Made - Done("BOB"))
          /\ \A i \in Done("BOB") + 1 .. Made : \A b \in BOOLEAN :
               net["BOB"][2 * (i - Done("BOB")) - IF b THEN 0 ELSE 1] = Sealing(i, b)
      BY <1>2, <2>5, BobNet
    <3>2. PICK d \in Nat : d = Done("BOB") BY <1>6
    <3>3. PICK m \in Nat : m = Made BY <1>3
    <3>4. m >= d + n BY <1>8, <2>5, <3>2, <3>3
    <3>5. PICK u : u = net'["BOB"] OBVIOUS
    <3>6. PICK s : s = net["BOB"] OBVIOUS
    <3>7. PICK l : l = 2 * (m - d) - 2 * n OBVIOUS
    <3>8. PICK w : w = 2 * n OBVIOUS
    <3>9. l \in Nat /\ w \in Nat /\ w + l = 2 * (m - d)
      BY <1>2, <3>4, <3>7, <3>8
    <3>10. /\ Len(u) = l
           /\ \A i \in 1 .. l : u[i] = s[w + i]
      <4>1. s \in Seq(Stuff) /\ Len(s) = w + l
        BY <1>1, <3>1, <3>2, <3>3, <3>6, <3>9, PartyFacts
      <4>2. \A i \in w + 1 .. w + l : s[i] \in Stuff BY <3>9, <4>1, SeqAt
      <4>3. u = SubSeq(s, w + 1, w + l)
        BY <2>5, <3>5, <3>6, <3>8, <4>1 DEF TakesBatch
      <4> QED BY <3>9, <4>2, <4>3, SubSeqFacts
    <3>11. ASSUME NEW i \in d + n + 1 .. m, NEW b \in BOOLEAN
           PROVE  u[2 * (i - (d + n)) - IF b THEN 0 ELSE 1] = Sealing(i, b)
      <4>1. PICK x : x = 2 * (i - (d + n)) - IF b THEN 0 ELSE 1 OBVIOUS
      <4>2. x \in 1 .. l /\ w + x = 2 * (i - d) - IF b THEN 0 ELSE 1
        BY <1>2, <3>4, <3>7, <3>8, <4>1
      <4>3. i \in d + 1 .. m BY <1>2
      <4>4. s[2 * (i - d) - IF b THEN 0 ELSE 1] = Sealing(i, b)
        BY <3>1, <3>2, <3>3, <3>6, <4>3
      <4> QED BY <3>10, <4>1, <4>2, <4>4
    <3>12. Len(net'["BOB"]) = Greets' + 2 * (Made' - Done("BOB")') /\ Made' >= Done("BOB")'
      <4>1. Made' - Done("BOB")' = m - (d + n) /\ Made' = m /\ Done("BOB")' = d + n
        BY <2>1, <2>2, <3>2, <3>3
      <4>2. l = 0 + 2 * (m - (d + n)) BY <1>2, <3>7
      <4> QED BY <1>7, <3>4, <3>5, <3>10, <4>1, <4>2
    <3>13. \A i \in Done("BOB")' + 1 .. Made' : \A b \in BOOLEAN :
             net'["BOB"][Greets' + 2 * (i - Done("BOB")') - IF b THEN 0 ELSE 1] = Sealing(i, b)'
      <4> SUFFICES ASSUME NEW i \in d + n + 1 .. m, NEW b \in BOOLEAN
                   PROVE  u[0 + 2 * (i - (d + n)) - IF b THEN 0 ELSE 1] = Sealing(i, b)
        BY <1>7, <2>1, <2>2, <2>3, <3>2, <3>3, <3>5
      <4>1. 0 + 2 * (i - (d + n)) - (IF b THEN 0 ELSE 1) = 2 * (i - (d + n)) - IF b THEN 0 ELSE 1
        BY <1>2
      <4> QED BY <3>11, <4>1
    <3> QED BY <1>8, <2>1, <2>5, <3>12, <3>13 DEF ToBob
  <2> QED BY <1>6, <1>8, <2>4, <2>5
<1>10. CASE Through("BOB", all)
  <2>1. ~Hashing("BOB")' /\ Len(all) = Length("BOB")
    BY <1>10 DEF Through, Hashing
  <2>2. net'["BOB"] = <<>>
    <3>1. net["BOB"] \in Seq(Stuff) /\ net'["BOB"] \in Seq(Stuff) /\ Len(net["BOB"]) \in Nat
      BY <1>1, PartyFacts
    <3>2. CASE Call("BOB").kind = "rot"
      <4>1. Len(net["BOB"]) = 0 /\ net' = net
        BY <1>1, <1>3, <1>6, <3>2 DEF ToBob, TakesBatch
      <4> QED BY <3>1, <4>1, EmptySeq
    <3>3. CASE Call("BOB").kind = "ot"
      <4>1. Len(net["BOB"]) = 2 * (Made - Done("BOB")) BY <1>2, <3>3, BobNet
      <4>2. Made = Done("BOB") + n BY <1>2, <1>3, <1>6, <1>8, <2>1, <3>3
      <4>3. Len(net["BOB"]) = 2 * n BY <1>2, <1>6, <4>1, <4>2
      <4>4. PICK w \in Nat : w = 2 * n BY <1>2
      <4>5. net'["BOB"] = SubSeq(net["BOB"], w + 1, w)
        BY <3>3, <4>3, <4>4 DEF TakesBatch
      <4>6. Len(net'["BOB"]) = 0 BY <3>1, <4>4, <4>5, SubSeqProperties
      <4> QED BY <3>1, <4>6, EmptySeq
    <3> QED BY <1>6, <3>2, <3>3
  <2> QED BY <1>8, <2>1, <2>2 DEF ToBob
<1> QED BY <1>4, <1>9, <1>10

(* Of each pair that both have, his is the one he chose. *)
LEMMA BobResults ==
  ASSUME IInv, NEW n, NEW all, Batched("BOB", n, all), Chosens(n, all)
  PROVE  Resulted'
<1>1. /\ TypeOK /\ Positions /\ InTurn /\ Resulted /\ "ALICE" \in Party /\ "BOB" \in Party /\ "ALICE" # "BOB"
      /\ \A q \in Party : q = "ALICE" \/ q = "BOB"
  BY Parts, TwoParties DEF Parties
<1>2. /\ pc["BOB"] = "hash" /\ start' = start /\ script' = script /\ delta' = delta /\ cot' = cot
      /\ HashStep("BOB", all) /\ n \in Nat \ {0} /\ Len(all) = Done("BOB") + n
      /\ \A i \in 1 .. Done("BOB") : all[i] = data["BOB"][i]
  BY DEF Batched, HashStep
<1>3. PICK a \in Nat \ {0}, c \in Nat \ {0} : a = at["ALICE"] /\ c = at["BOB"]
  BY <1>1, PartyFacts
<1>4. PICK d \in Nat : d = Done("BOB") /\ d = Len(data["BOB"])
  BY <1>1, <1>2, BatchFacts
<1>5. PICK h \in Nat : h = Gid0("BOB") /\ gid["BOB"] = h + d
  BY <1>1, <1>4, DoneFacts
<1>6. /\ Even \/ Past
      /\ start["ALICE"] = start["BOB"] /\ c \in 1 .. Len(cot["ALICE"])
      /\ Past => ~Hashing("ALICE")
  BY <1>2, <1>3, BobWhere
<1>7. /\ c \in 1 .. Len(script) /\ cot["ALICE"][c] \in Seq(Block) /\ cot["BOB"][c] \in Seq(Block)
      /\ Len(cot["ALICE"][c]) = Len(script[c].r) /\ Len(cot["BOB"][c]) = Len(script[c].r)
      /\ \A i \in 1 .. Len(script[c].r) :
           cot["ALICE"][c][i] = Active(cot["BOB"][c][i], script[c].r[i], delta)
  BY <1>6, CotFacts
<1>8. /\ at'["ALICE"] = a /\ pc'["ALICE"] = pc["ALICE"] /\ Gid0("ALICE")' = Gid0("ALICE")
      /\ Call("ALICE")' = Call("ALICE")
  BY <1>1, <1>3, BatchOther
<1>9. ASSUME NEW k \in Nat \ {0}
      PROVE  /\ Results("BOB", k)' = IF k = c THEN all ELSE Results("BOB", k)
             /\ Results("ALICE", k)' = Results("ALICE", k)
  BY <1>1, <1>2, <1>3, HashResults
<1>10. Results("BOB", c) = data["BOB"] BY <1>1, <1>2, <1>3, HashResults
<1>11. Len(all) \in Nat /\ Len(all) = d + n BY <1>2, <1>4
<1>12. Call("BOB") = script[c] BY <1>3 DEF Call
<1>13. ASSUME NEW i \in d + 1 .. Len(all)
       PROVE  all[i] = IF script[c].kind = "ot" THEN Message(c, i, script[c].r[i])
                       ELSE <<start["ALICE"], h + i - 1, cot["BOB"][c][i]>>
  <2>1. PICK j : j = i - d OBVIOUS
  <2>2. j \in 1 .. n /\ i = d + j BY <1>2, <1>11, <2>1
  <2>3. all[d + j] = IF script[c].kind = "ot" THEN Message(c, d + j, script[c].r[d + j])
                     ELSE <<start["BOB"], gid["BOB"] + j - 1, cot["BOB"][c][d + j]>>
    BY <1>3, <1>4, <1>12, <2>2 DEF Chosens
  <2>4. gid["BOB"] + j - 1 = h + i - 1 BY <1>5, <2>2
  <2> QED BY <1>6, <2>2, <2>3, <2>4
<1>14. \A q \in Party : \A k \in 1 .. at'[q] - 1 :
         Len(out'[q][k]) = IF script'[k].kind = "cot" THEN 0 ELSE Len(script'[k].r)
  BY <1>1, <1>2, HashLengths
<1>15. ASSUME NEW k \in 1 .. Len(script), script[k].kind = "ot"
       PROVE  /\ \A i \in 1 .. Len(Results("ALICE", k)') : \A b \in BOOLEAN :
                   Results("ALICE", k)'[i][b] = Message(k, i, b)
              /\ \A i \in 1 .. Len(Results("BOB", k)') :
                   Results("BOB", k)'[i] = Message(k, i, script[k].r[i])
  <2>1. k \in Nat \ {0} BY <1>1, PartyFacts
  <2>2. /\ \A i \in 1 .. Len(Results("ALICE", k)) : \A b \in BOOLEAN :
              Results("ALICE", k)[i][b] = Message(k, i, b)
        /\ \A i \in 1 .. Len(Results("BOB", k)) :
              Results("BOB", k)[i] = Message(k, i, script[k].r[i])
    BY <1>1, <1>15 DEF Resulted
  <2>3. CASE k = c
    <3>1. ASSUME NEW i \in 1 .. Len(all)
          PROVE  all[i] = Message(k, i, script[k].r[i])
      <4>1. CASE i <= d
        <5>1. i \in 1 .. d /\ Results("BOB", k) = data["BOB"] /\ i \in 1 .. Len(Results("BOB", k))
          BY <1>4, <1>10, <1>11, <2>3, <4>1
        <5> QED BY <1>2, <1>4, <2>2, <5>1
      <4>2. CASE ~(i <= d)
        <5>1. i \in d + 1 .. Len(all) BY <1>11, <4>2
        <5> QED BY <1>13, <1>15, <2>3, <5>1
      <4> QED BY <4>1, <4>2
    <3> QED BY <1>9, <2>1, <2>2, <2>3, <3>1
  <2>4. CASE k # c BY <1>9, <2>1, <2>2, <2>4
  <2> QED BY <2>3, <2>4
<1>16. ASSUME pc["ALICE"] = "hash", script[a].kind = "rot", NEW i \in 1 .. Len(Results("BOB", a)')
       PROVE  Results("BOB", a)'[i] = <<start["ALICE"], Gid0("ALICE") + i - 1, cot["BOB"][a][i]>>
  <2>1. \A j \in 1 .. Len(Results("BOB", a)) :
            Results("BOB", a)[j] = <<start["ALICE"], Gid0("ALICE") + j - 1, cot["BOB"][a][j]>>
    BY <1>1, <1>3, <1>16 DEF Resulted, Call
  <2>2. a = c /\ Gid0("ALICE") = h BY <1>3, <1>5, <1>6, <1>16 DEF Even, Hashing
  <2>3. i \in 1 .. Len(all) /\ Results("BOB", a)' = all BY <1>9, <1>16, <2>2
  <2>4. CASE i <= d
    <3>1. i \in 1 .. d /\ Results("BOB", a) = data["BOB"] /\ i \in 1 .. Len(Results("BOB", a))
      BY <1>4, <1>10, <1>11, <2>2, <2>3, <2>4
    <3>2. all[i] = data["BOB"][i] BY <1>2, <1>4, <3>1
    <3> QED BY <2>1, <2>3, <3>1, <3>2
  <2>5. CASE ~(i <= d)
    <3>1. i \in d + 1 .. Len(all) BY <1>11, <2>3, <2>5
    <3> QED BY <1>13, <1>16, <2>2, <2>3, <3>1
  <2> QED BY <2>4, <2>5
<1>17. ASSUME script[c].kind = "rot", NEW i \in 1 .. Len(Results("ALICE", c)), NEW b \in BOOLEAN
       PROVE  Results("ALICE", c)[i][b] = <<start["ALICE"], h + i - 1, Active(cot["ALICE"][c][i], b, delta)>>
  <2>1. Hashing("BOB") /\ Call("BOB").kind = "rot"
    BY <1>2, <1>12, <1>17 DEF Hashing
  <2>2. \A j \in 1 .. Len(Results("ALICE", c)) : \A v \in BOOLEAN :
            Results("ALICE", c)[j][v] =
              <<start["ALICE"], Gid0("BOB") + j - 1, Active(cot["ALICE"][c][j], v, delta)>>
    BY <1>1, <1>3, <2>1 DEF Resulted
  <2> QED BY <1>5, <2>2
<1>18. ASSUME NEW k \in 1 .. Len(script), script[k].kind = "rot",
              NEW i \in 1 .. AtMost(Len(Results("ALICE", k)'), Len(Results("BOB", k)'))
       PROVE  Results("BOB", k)'[i] = Results("ALICE", k)'[i][script[k].r[i]]
  <2>1. k \in Nat \ {0} BY <1>1, PartyFacts
  <2>2. \A j \in 1 .. AtMost(Len(Results("ALICE", k)), Len(Results("BOB", k))) :
          Results("BOB", k)[j] = Results("ALICE", k)[j][script[k].r[j]]
    BY <1>1, <1>18 DEF Resulted
  <2>3. CASE k # c BY <1>9, <1>18, <2>1, <2>2, <2>3
  <2>4. CASE k = c
    <3>1. Results("BOB", k)' = all /\ Results("ALICE", k)' = Results("ALICE", c) /\ Results("BOB", k) = data["BOB"]
      BY <1>9, <1>10, <2>1, <2>4
    <3>2. PICK l \in Nat : l = Len(Results("ALICE", c))
      BY <1>1, <1>3, ResultsTyped
    <3>3. i \in 1 .. l /\ i \in 1 .. Len(all)
      BY <1>11, <1>18, <3>1, <3>2 DEF AtMost
    <3>4. CASE i <= d
      <4>1. i \in 1 .. AtMost(Len(Results("ALICE", k)), Len(Results("BOB", k)))
        BY <1>4, <2>4, <3>1, <3>2, <3>3, <3>4 DEF AtMost
      <4>2. all[i] = data["BOB"][i] BY <1>2, <1>4, <3>3, <3>4
      <4> QED BY <2>2, <2>4, <3>1, <4>1, <4>2
    <3>5. CASE ~(i <= d)
      <4>1. i \in d + 1 .. Len(all) BY <1>11, <3>3, <3>5
      <4>2. i \in 1 .. Len(script[c].r) /\ script[c].r[i] \in BOOLEAN
        <5>1. Len(all) <= Len(script[c].r)
          <6>1. Length("BOB") \in Nat /\ Length("BOB") = Len(script[c].r)
            BY <1>1, <1>2, <1>12, BatchFacts DEF Length
          <6>2. Len(all) < Length("BOB") \/ Len(all) = Length("BOB")
            BY <1>2 DEF HashStep
          <6> QED BY <1>11, <6>1, <6>2
        <5>2. Len(script[c].r) \in Nat \ {0} /\ \A j \in 1 .. Len(script[c].r) : script[c].r[j] \in BOOLEAN
          BY <1>1, <1>7, ScriptFacts
        <5> QED BY <1>11, <3>3, <5>1, <5>2
      <4>3. PICK v \in BOOLEAN : v = script[c].r[i] BY <4>2
      <4>4. all[i] = <<start["ALICE"], h + i - 1, cot["BOB"][c][i]>>
        BY <1>13, <1>18, <2>4, <4>1
      <4>5. Active(cot["ALICE"][c][i], v, delta) = cot["BOB"][c][i]
        <5>1. cot["BOB"][c][i] \in Block /\ delta \in Block
          BY <1>1, <1>7, <4>2, SeqAt, OTAssumption DEF TypeOK
        <5>2. cot["ALICE"][c][i] = Active(cot["BOB"][c][i], v, delta)
          BY <1>7, <4>2, <4>3
        <5> QED BY <5>1, <5>2, FlippedBack
      <4>6. Results("ALICE", c)[i][v] = <<start["ALICE"], h + i - 1, Active(cot["ALICE"][c][i], v, delta)>>
        BY <1>17, <1>18, <2>4, <3>2, <3>3
      <4> QED BY <2>4, <3>1, <4>3, <4>4, <4>5, <4>6
    <3> QED BY <3>4, <3>5
  <2> QED BY <2>3, <2>4
<1>19. /\ (Results("BOB", at["ALICE"]))' = Results("BOB", a)'
       /\ (Call("ALICE"))' = script[a] /\ at'["ALICE"] = a
  BY <1>3, <1>8 DEF Results, Call
<1>20. ((pc["ALICE"] = "hash" /\ Call("ALICE").kind = "rot") =>
         \A i \in 1 .. Len(Results("BOB", at["ALICE"])) :
            Results("BOB", at["ALICE"])[i] =
              <<start["ALICE"], Gid0("ALICE") + i - 1, cot["BOB"][at["ALICE"]][i]>>)'
  BY <1>2, <1>8, <1>16, <1>19
<1>21. (Hashing("BOB"))' => /\ at'["BOB"] = c /\ Gid0("BOB")' = h
                            /\ (Results("ALICE", at["BOB"]))' = Results("ALICE", c)
                            /\ (Call("BOB"))' = script[c]
  <2> SUFFICES ASSUME (Hashing("BOB"))'
               PROVE  /\ at'["BOB"] = c /\ Gid0("BOB")' = h
                      /\ (Results("ALICE", at["BOB"]))' = Results("ALICE", c)
                      /\ (Call("BOB"))' = script[c]
    OBVIOUS
  <2>1. Goon("BOB", all)
    <3>1. Goon("BOB", all) \/ Through("BOB", all) BY <1>1, BatchWays
    <3> QED BY <3>1 DEF Through, Hashing
  <2>2. at'["BOB"] = c /\ Gid0("BOB")' = h BY <1>3, <1>5, <2>1 DEF Goon
  <2>3. (Results("ALICE", at["BOB"]))' = Results("ALICE", c)'
    BY <2>2 DEF Results
  <2>4. (Call("BOB"))' = script[c] BY <1>2, <2>2 DEF Call
  <2> QED BY <1>9, <2>2, <2>3, <2>4
<1>22. ((Hashing("BOB") /\ Call("BOB").kind = "rot") =>
         \A i \in 1 .. Len(Results("ALICE", at["BOB"])) : \A b \in BOOLEAN :
            Results("ALICE", at["BOB"])[i][b] =
              <<start["ALICE"], Gid0("BOB") + i - 1, Active(cot["ALICE"][at["BOB"]][i], b, delta)>>)'
  BY <1>2, <1>17, <1>21
<1>23. (\A k \in 1 .. Len(script) : script[k].kind = "ot" =>
         /\ \A i \in 1 .. Len(Results("ALICE", k)) : \A b \in BOOLEAN :
                Results("ALICE", k)[i][b] = Message(k, i, b)
         /\ \A i \in 1 .. Len(Results("BOB", k)) :
                Results("BOB", k)[i] = Message(k, i, script[k].r[i]))'
  BY <1>2, <1>15 DEF Message
<1>24. (\A k \in 1 .. Len(script) : script[k].kind = "rot" =>
         \A i \in 1 .. AtMost(Len(Results("ALICE", k)), Len(Results("BOB", k))) :
           Results("BOB", k)[i] = Results("ALICE", k)[i][script[k].r[i]])'
  BY <1>2, <1>18 DEF AtMost
<1>25. (\A p \in Party : \A k \in 1 .. at[p] - 1 :
          Len(out[p][k]) = IF script[k].kind = "cot" THEN 0 ELSE Len(script[k].r))'
  BY <1>14
<1> QED BY <1>20, <1>22, <1>23, <1>24, <1>25 DEF Resulted

(* The pad is ALICE's for the message he chose, so that message it is. *)
LEMMA OpensChosen ==
  ASSUME IInv, pc["BOB"] = "hash", NEW n, n = Batch("BOB"), NEW j \in 1 .. n
  PROVE  /\ PadOf(j) \in Pad
         /\ (Call("BOB").kind = "ot" /\ Made >= Done("BOB") + n) =>
              /\ OpenedAt(j) = Message(at["BOB"], Done("BOB") + j, Call("BOB").r[Done("BOB") + j])
              /\ OpenedAt(j) \in Plain
<1>1. TypeOK /\ Positions /\ InTurn /\ "ALICE" \in Party /\ "BOB" \in Party
  BY Parts, TwoParties DEF Parties
<1>2. /\ n \in Nat \ {0} /\ Done("BOB") = Len(data["BOB"]) /\ Done("BOB") \in Nat
      /\ Done("BOB") + n <= Length("BOB") /\ Length("BOB") \in Nat
  BY <1>1, BatchFacts
<1>3. PICK c \in Nat : c = at["BOB"] BY <1>1, PartyFacts
<1>4. /\ c \in 1 .. Len(cot["ALICE"]) /\ start["ALICE"] = start["BOB"] /\ Made \in Nat
      /\ gid["BOB"] \in Nat /\ start["BOB"] \in StartPoint
  BY <1>1, <1>3, BobWhere, PartyFacts
<1>5. /\ c \in 1 .. Len(script) /\ cot["BOB"][c] \in Seq(Block)
      /\ Len(cot["BOB"][c]) = Length("BOB") /\ Length("BOB") = Len(script[c].r) /\ Call("BOB") = script[c]
      /\ \A i \in 1 .. Length("BOB") :
           cot["ALICE"][c][i] = Active(cot["BOB"][c][i], script[c].r[i], delta)
  BY <1>3, <1>4, CotFacts DEF Length, Call
<1>6. PICK i : i = Done("BOB") + j OBVIOUS
<1>7. i \in 1 .. Length("BOB") /\ i \in Nat /\ i = Len(data["BOB"]) + j
  BY <1>2, <1>6
<1>8. cot["BOB"][c][i] \in Block /\ delta \in Block
  BY <1>1, <1>5, <1>7, SeqAt, OTAssumption DEF TypeOK
<1>9. gid["BOB"] + j - 1 \in Nat BY <1>2, <1>4
<1>10. PadOf(j) = <<start["BOB"], gid["BOB"] + j - 1, cot["BOB"][c][i]>>
  BY <1>3, <1>7 DEF PadOf
<1>11. PadOf(j) \in StartPoint \X Nat \X Block BY <1>4, <1>8, <1>9, <1>10
<1>12. ASSUME Call("BOB").kind = "ot", Made >= Done("BOB") + n
       PROVE  /\ OpenedAt(j) = Message(c, i, script[c].r[i])
              /\ OpenedAt(j) \in Plain
  <2>1. PICK v \in BOOLEAN : v = script[c].r[i] BY <1>1, <1>5, <1>7, ScriptFacts
  <2>2. i \in Done("BOB") + 1 .. Made /\ i - Done("BOB") = j
    BY <1>2, <1>4, <1>6, <1>12
  <2>3. net["BOB"][2 * (i - Done("BOB")) - IF v THEN 0 ELSE 1] = Sealing(i, v)
    BY <1>12, <2>2, BobNet
  <2>4. 2 * (i - Done("BOB")) - (IF v THEN 0 ELSE 1) = IF v THEN 2 * j ELSE 2 * j - 1
    BY <1>2, <2>2
  <2>5. net["BOB"][IF v THEN 2 * j ELSE 2 * j - 1] = Sealing(i, v) BY <2>3, <2>4
  <2>6. OpenedAt(j) = Opened(Sealing(i, v), PadOf(j))
    BY <1>5, <1>7, <2>1, <2>5 DEF OpenedAt, PadOf
  <2>7. Active(cot["ALICE"][c][i], v, delta) = cot["BOB"][c][i]
    <3>1. cot["ALICE"][c][i] = Active(cot["BOB"][c][i], v, delta)
      BY <1>5, <1>7, <2>1
    <3> QED BY <1>8, <3>1, FlippedBack
  <2>8. Gid0("BOB") + i - 1 = gid["BOB"] + j - 1
    <3>1. Gid0("BOB") \in Nat /\ gid["BOB"] = Gid0("BOB") + Done("BOB")
      BY <1>1, DoneFacts
    <3> QED BY <1>2, <1>6, <3>1
  <2>9. Sealing(i, v) = Sealed(PadOf(j), Message(c, i, v))
    BY <1>3, <1>4, <1>10, <2>7, <2>8 DEF Sealing
  <2>10. OpenedAt(j) = Message(c, i, v) BY <2>6, <2>9 DEF Opened, Sealed
  <2>11. Message(c, i, v) \in Nat \X Nat \X BOOLEAN BY <1>3, <1>7 DEF Message
  <2> QED BY <2>1, <2>10, <2>11 DEF Plain
<1> QED BY <1>3, <1>5, <1>6, <1>11, <1>12 DEF Pad

(* BOB's batch of a call of messages or of random blocks *)
LEMMA BobHashesInv == ASSUME IInv, BobHashes
  PROVE  IInv'
<1>1. TypeOK /\ Positions /\ InTurn /\ "ALICE" \in Party /\ "BOB" \in Party /\ "ALICE" # "BOB"
  BY Parts, TwoParties, PeerFacts DEF Parties
<1>2. PICK n : n = Batch("BOB") OBVIOUS
<1>3. /\ pc["BOB"] = "hash"
      /\ Renewed("BOB", n)
      /\ UNCHANGED <<base, script, prg, start, local, cot>>
      /\ \/ /\ Call("BOB").kind = "ot" /\ Len(net["BOB"]) >= 2 * n /\ Takes("BOB", 2 * n)
            /\ Hashed("BOB", [j \in 1 .. n |-> OpenedAt(j)])
         \/ /\ Call("BOB").kind # "ot" /\ net' = net
            /\ Hashed("BOB", [j \in 1 .. n |-> PadOf(j)])
  BY <1>2 DEF BobHashes, OpenedAt, PadOf, Hash, Correlated, Arrived
<1>4. PICK f : f = [j \in 1 .. n |-> IF Call("BOB").kind = "ot" THEN OpenedAt(j) ELSE PadOf(j)]
  OBVIOUS
<1>5. /\ Hashed("BOB", f)
      /\ \/ Call("BOB").kind = "ot" /\ Len(net["BOB"]) >= 2 * n /\ Takes("BOB", 2 * n)
         \/ Call("BOB").kind # "ot" /\ net' = net
  <2>1. CASE Call("BOB").kind = "ot"
    <3>1. f = [j \in 1 .. n |-> OpenedAt(j)] BY <1>4, <2>1
    <3> QED BY <1>3, <2>1, <3>1
  <2>2. CASE Call("BOB").kind # "ot"
    <3>1. f = [j \in 1 .. n |-> PadOf(j)] BY <1>4, <2>2
    <3> QED BY <1>3, <2>2, <3>1
  <2> QED BY <2>1, <2>2
<1>6. /\ n \in Nat \ {0} /\ Done("BOB") = Len(data["BOB"]) /\ Done("BOB") \in Nat
      /\ data["BOB"] \in Seq(Plain \cup Pad) /\ Made \in Nat
  BY <1>1, <1>2, <1>3, BatchFacts, BobWhere DEF Kept
<1>7. Call("BOB").kind = "ot" => Made >= Done("BOB") + n
  <2> SUFFICES ASSUME Call("BOB").kind = "ot"
               PROVE  Made >= Done("BOB") + n
    OBVIOUS
  <2>1. Len(net["BOB"]) = 2 * (Made - Done("BOB")) BY <1>3, BobNet
  <2>2. Len(net["BOB"]) >= 2 * n BY <1>5
  <2> QED BY <1>6, <2>1, <2>2
<1>8. /\ f \in Seq(Plain \cup Pad) /\ Len(f) = n
      /\ \A j \in 1 .. n : f[j] = IF Call("BOB").kind = "ot"
                                  THEN Message(at["BOB"], Done("BOB") + j, Call("BOB").r[Done("BOB") + j])
                                  ELSE PadOf(j)
  <2>1. ASSUME NEW j \in 1 .. n
        PROVE  /\ f[j] \in Plain \cup Pad
               /\ f[j] = IF Call("BOB").kind = "ot"
                         THEN Message(at["BOB"], Done("BOB") + j, Call("BOB").r[Done("BOB") + j])
                         ELSE PadOf(j)
    <3>1. f[j] = IF Call("BOB").kind = "ot" THEN OpenedAt(j) ELSE PadOf(j)
      BY <1>4
    <3>2. /\ PadOf(j) \in Pad
          /\ Call("BOB").kind = "ot" =>
               /\ OpenedAt(j) = Message(at["BOB"], Done("BOB") + j, Call("BOB").r[Done("BOB") + j])
               /\ OpenedAt(j) \in Plain
      BY <1>2, <1>3, <1>7, OpensChosen
    <3> QED BY <3>1, <3>2
  <2>2. f \in [1 .. n -> Plain \cup Pad] BY <1>4, <2>1
  <2>3. f \in Seq(Plain \cup Pad) /\ Len(f) = n BY <1>6, <2>2, FunSeq
  <2> QED BY <2>1, <2>3
<1>9. net \in [Party -> Seq(Stuff)] /\ net["BOB"] \in Seq(Stuff)
  BY <1>1, PartyFacts
<1>10. /\ net' \in [Party -> Seq(Stuff)] /\ net'["ALICE"] = net["ALICE"]
       /\ Call("BOB").kind = "ot" => net'["BOB"] = SubSeq(net["BOB"], 2 * n + 1, Len(net["BOB"]))
  <2>1. CASE Call("BOB").kind = "ot" /\ Len(net["BOB"]) >= 2 * n /\ Takes("BOB", 2 * n)
    <3>1. SubSeq(net["BOB"], 2 * n + 1, Len(net["BOB"])) \in Seq(Stuff)
      <4>1. PICK u : u = net["BOB"] OBVIOUS
      <4>2. PICK w \in Nat : w = 2 * n BY <1>6
      <4>3. u \in Seq(Stuff) /\ Len(u) \in Int /\ w + 1 \in Int
        BY <1>9, <4>1, <4>2
      <4>4. \A i \in w + 1 .. Len(u) : u[i] \in Stuff
        <5> SUFFICES ASSUME NEW i \in w + 1 .. Len(u)
                     PROVE  u[i] \in Stuff
          OBVIOUS
        <5>1. i \in 1 .. Len(u) BY <4>2, <4>3
        <5> QED BY <4>3, <5>1, SeqAt
      <4>5. SubSeq(u, w + 1, Len(u)) \in Seq(Stuff)
        BY <4>3, <4>4, SubSeqProperties
      <4> QED BY <4>1, <4>2, <4>5
    <3>2. net' = [net EXCEPT !["BOB"] = SubSeq(@, 2 * n + 1, Len(@))]
      BY <2>1 DEF Takes
    <3> QED BY <1>1, <1>9, <3>1, <3>2
  <2>2. CASE Call("BOB").kind # "ot" /\ net' = net BY <1>9, <2>2
  <2> QED BY <1>5, <2>1, <2>2
<1>11. PICK all : all = data["BOB"] \o f OBVIOUS
<1>12. Batched("BOB", n, all) /\ \A j \in 1 .. n : all[Done("BOB") + j] = f[j]
  <2>1. f \in Seq(Kept("BOB")) BY <1>1, <1>8 DEF Kept
  <2>2. Batches("BOB", n, f, all)
    BY <1>2, <1>3, <1>5, <1>8, <1>10, <1>11, <2>1 DEF Batches
  <2> QED BY <1>1, <2>2, BatchStep
<1>13. TakesBatch(n)
  <2>1. Call("BOB").kind \in {"ot", "rot"} BY <1>1, <1>3, HashFacts DEF Hashing
  <2> QED BY <1>5, <1>10, <2>1 DEF TakesBatch
<1>14. Chosens(n, all)
  <2> SUFFICES ASSUME NEW j \in 1 .. n
               PROVE  all[Done("BOB") + j] =
                        IF Call("BOB").kind = "ot"
                        THEN Message(at["BOB"], Done("BOB") + j, Call("BOB").r[Done("BOB") + j])
                        ELSE <<start["BOB"], gid["BOB"] + j - 1, cot["BOB"][at["BOB"]][Done("BOB") + j]>>
    BY DEF Chosens
  <2>1. all[Done("BOB") + j] = f[j] BY <1>12
  <2>2. PadOf(j) = <<start["BOB"], gid["BOB"] + j - 1, cot["BOB"][at["BOB"]][Done("BOB") + j]>>
    BY <1>6 DEF PadOf
  <2> QED BY <1>8, <2>1, <2>2
<1>15. ToBob' BY <1>10, <1>12, <1>13, BobToBob
<1>16. InTurn' BY <1>7, <1>12, BobTurns
<1>17. Resulted' BY <1>12, <1>14, BobResults
<1>18. HashStep("BOB", all) BY <1>12 DEF Batched
<1> QED BY <1>1, <1>15, <1>16, <1>17, <1>18, HashInv

-----------------------------------------------------------------------------
(* The initial states *)

(* Each variable begins with a value of its type. *)
LEMMA InitTyped == ASSUME Init
  PROVE  TypeOK
<1>1. /\ malicious \in Modes /\ delta \in Delta
      /\ secret = [p \in Party |-> <<>>] /\ keys = [a |-> <<>>, k0 |-> <<>>, k1 |-> <<>>]
      /\ script = <<>> /\ at = [p \in Party |-> 1] /\ pc = [p \in Party |-> "setup"]
      /\ net = [p \in Party |-> <<>>] /\ used = [a |-> 0, g0 |-> 0, g1 |-> 0]
      /\ step = 1 /\ gid = [p \in Party |-> 0] /\ start = [p \in Party |-> 0]
      /\ data = [p \in Party |-> <<>>] /\ local = [ALICE |-> <<>>, BOB |-> <<>>, r |-> <<>>]
      /\ cot = [p \in Party |-> <<>>] /\ out = [p \in Party |-> <<>>]
  BY DEF Init
<1>2. \A S : <<>> \in Seq(S) BY EmptySeq
<1>3. /\ secret \in [Party -> {<<>>} \cup {<<a>> : a \in get_rand_bn} \cup [Rows -> get_rand_bn]]
      /\ keys \in [a : {<<>>} \cup [Rows -> Seed], k0 : {<<>>} \cup Seeds, k1 : {<<>>} \cup Seeds]
      /\ script \in Seq(Calls)
      /\ at \in [Party -> Nat \ {0}]
      /\ pc \in [Party -> {"setup", "points", "keys", "idle", "extend", "extra", "check",
                           "start", "hash", "error"}]
      /\ net \in [Party -> Seq(Stuff)]
  BY <1>1, <1>2
<1>4. /\ used \in [a : Nat, g0 : Nat, g1 : Nat] /\ step \in Nat
      /\ gid \in [Party -> Nat] /\ start \in [Party -> StartPoint]
      /\ cot \in [Party -> Seq(Blocks)]
  BY <1>1, <1>2 DEF StartPoint
<1>5. local \in [ALICE : Blocks, BOB : Blocks, r : Bits]
  BY <1>1, <1>2 DEF Blocks, Bits
<1>6. place \in Seq(Place)
  <2>1. First \in Place BY <1>2 DEF First, Place
  <2>2. place = <<First>> BY DEF Init, First
  <2> QED BY <2>1, <2>2, OneFacts
<1>7. /\ DOMAIN data = Party /\ DOMAIN out = Party
      /\ \A p \in Party : data[p] = <<>> /\ ~Extending(p) /\ pc[p] # "hash"
  BY <1>1 DEF Extending
<1>8. "ALICE" \in Party /\ "BOB" \in Party BY TwoParties DEF Parties
<1>9. out["ALICE"] \in Seq(Seq(Pair)) /\ out["BOB"] \in Seq(Seq(Plain \cup Pad))
  BY <1>1, <1>2, <1>8
<1> QED BY <1>1, <1>3, <1>4, <1>5, <1>6, <1>7, <1>8, <1>9 DEF TypeOK

(* Nothing has been sent, extended or hashed. *)
LEMMA InitInv == ASSUME Init
  PROVE  IInv
<1>1. /\ keys = [a |-> <<>>, k0 |-> <<>>, k1 |-> <<>>]
      /\ script = <<>> /\ step = 1 /\ used = [a |-> 0, g0 |-> 0, g1 |-> 0]
      /\ local = [ALICE |-> <<>>, BOB |-> <<>>, r |-> <<>>]
      /\ place = <<First>>
  BY DEF Init, First
<1>2. ASSUME NEW p \in Party
      PROVE  /\ at[p] = 1 /\ pc[p] = "setup" /\ net[p] = <<>> /\ gid[p] = 0 /\ start[p] = 0
             /\ data[p] = <<>> /\ cot[p] = <<>> /\ out[p] = <<>>
  BY DEF Init
<1>3. TypeOK BY InitTyped
<1>4. "ALICE" \in Party /\ "BOB" \in Party BY TwoParties DEF Parties
<1>5. ASSUME NEW p \in Party
      PROVE  ~Extending(p) /\ ~Hashing(p) /\ Done(p) = 0 /\ Gid0(p) = 0
  BY <1>2 DEF Extending, Hashing, Done, Gid0
<1>6. /\ Len(script) = 0 /\ \A p \in Party : Len(cot[p]) = 0 /\ Len(out[p]) = 0
  BY <1>1, <1>2
<1>7. Positions
  <2>1. \A p \in Party : PositionOf(p) BY <1>2, <1>5, <1>6 DEF PositionOf
  <2>2. Together BY <1>2, <1>4 DEF Together
  <2> QED BY <2>1, <2>2 DEF Positions
<1>8. BaseOT BY <1>2, <1>4 DEF BaseOT
<1>9. Len(place) = 1 /\ place[1] = First /\ Last = First /\ place[step] = First
  BY <1>1 DEF Last
<1>10. Places
  <2>1. IsAt("BOB", Last) /\ IsAt("ALICE", place[step])
    BY <1>2, <1>4, <1>5, <1>6, <1>9 DEF IsAt, First, Phase, OTs
  <2>2. /\ used.g0 = Last.from /\ used.g1 = Last.from /\ used.a = place[step].from
        /\ pc["BOB"] # "check" /\ local.r = <<>>
    BY <1>1, <1>2, <1>4, <1>9 DEF First
  <2>3. /\ \A n \in 1 .. Len(place) - 1 : Follows(place[n], place[n + 1])
        /\ \A m, n \in 1 .. Len(place) : m < n => Earlier(place[m], place[n])
    BY <1>9
  <2> QED BY <1>1, <1>9, <2>1, <2>2, <2>3 DEF Places
<1>11. ToAlice
  <2>1. Before = 0 BY <1>2, <1>4 DEF Before
  <2>2. Len(net["ALICE"]) = 0 BY <1>2, <1>4
  <2>3. Last.pos = 0 /\ place[step].pos = 0 BY <1>9 DEF First
  <2>4. \A n \in step .. Len(place) - 1 : Carried(n) BY <1>1, <1>9
  <2> QED BY <2>1, <2>2, <2>3, <2>4 DEF ToAlice
<1>12. Columned BY <1>2, <1>4, <1>9 DEF Columned
<1>13. Correlates BY <1>2, <1>4, <1>6 DEF Correlates
<1>14. Greets = 0 /\ ~Past BY <1>2, <1>4 DEF Greets, Past
<1>15. InTurn
  <2>1. Whole(0) BY WholeNone
  <2> QED BY <1>2, <1>4, <1>5, <1>14, <2>1 DEF InTurn
<1>16. ToBob BY <1>2, <1>4, <1>5 DEF ToBob
<1>17. Resulted BY <1>2, <1>4, <1>5, <1>6 DEF Resulted
<1> QED
  BY <1>3, <1>7, <1>8, <1>10, <1>11, <1>12, <1>13, <1>15, <1>16, <1>17 DEF IInv

-----------------------------------------------------------------------------
(* Every step *)

(* So it is when nothing happens. *)
LEMMA StutterInv == ASSUME IInv, UNCHANGED vars
  PROVE  IInv'
<1>1. /\ TypeOK /\ Positions
      /\ "ALICE" \in Party /\ "BOB" \in Party
  BY Parts, TwoParties DEF Parties
<1>2. /\ malicious' = malicious /\ delta' = delta /\ secret' = secret /\ keys' = keys /\ at' = at /\ net' = net
      /\ used' = used /\ place' = place /\ step' = step /\ gid' = gid /\ start' = start /\ data' = data
      /\ local' = local /\ cot' = cot /\ out' = out /\ pc' = pc /\ script' = script
  BY DEF vars, base, prg
<1>3. script \in Seq(Calls) /\ Len(script) \in Nat /\ Prolongs(script, script')
  BY <1>1, <1>2, PartyFacts, ProlongsSelf
<1>4. TypeOK' BY <1>1, <1>2 DEF TypeOK, Extending
<1>5. Positions'
  <2>1. \A p \in Party : PositionOf(p)' BY <1>1, <1>2, <1>3, OtherStays
  <2>2. Together' BY <1>1, <1>2 DEF Positions, Together
  <2> QED BY <2>1, <2>2 DEF Positions
<1>6. BaseOT' BY <1>2, BaseStays
<1>7. Quiet
  <2>1. Before' = Before BY <1>2 DEF Before
  <2>2. Before \in Nat /\ Len(net["ALICE"]) \in Nat
    BY <1>1, ConstantFacts, PartyFacts DEF Before
  <2>3. \A n, x : Sent(n, x)' = Sent(n, x) BY <1>2, <2>1 DEF Sent
  <2>4. \A q \in Party : Still(q) BY <1>2 DEF Still
  <2>5. Len(net'["ALICE"]) = Before' + (Len(net["ALICE"]) - Before)
    BY <1>2, <2>1, <2>2
  <2> QED BY <1>2, <1>3, <2>1, <2>2, <2>3, <2>4, <2>5 DEF Quiet
<1>8. Resting
  <2>1. \A q \in Party : Prolongs(cot[q], cot'[q])
    BY <1>1, <1>2, PartyFacts, ProlongsSelf
  <2>2. (~Hashing("BOB") /\ ~(pc'["BOB"] = "points" /\ pc'["ALICE"] = "keys")) => net'["BOB"] = <<>>
    BY <1>2, Parts DEF ToBob
  <2>3. cot' \in [Party -> Seq(Blocks)] BY <1>1, <1>2, PartyFacts
  <2>4. Past => pc'["ALICE"] # "start" BY <1>2, Parts DEF InTurn, Hashing
  <2> QED BY <1>2, <1>3, <2>1, <2>2, <2>3, <2>4 DEF Resting
<1> QED BY <1>4, <1>5, <1>6, <1>7, <1>8, QuietExtensions, RestingHashes DEF IInv

(* The steps of each party, one by one *)
LEMMA NextInv == ASSUME IInv, [Next]_vars
  PROVE  IInv'
<1>1. ASSUME NEW p \in Party, PartyStep(p)
      PROVE  IInv'
  <2>1. CASE Begin(p) BY <2>1, BeginInv
  <2>2. CASE AliceStep
    BY <2>2, AliceChoosesInv, AliceOpensInv, AliceExtendsInv, AliceExtraInv, AliceChecksInv,
       AliceStartsInv, AliceHashesInv DEF AliceStep
  <2>3. CASE BobStep
    BY <2>3, BobOffersInv, BobSealsInv, BobExtendsInv, BobExtraInv, BobProvesInv,
       BobStartsInv, BobHashesInv DEF BobStep
  <2> QED BY <1>1, <2>1, <2>2, <2>3 DEF PartyStep
<1>2. CASE Terminated \/ UNCHANGED vars BY <1>2, StutterInv DEF Terminated
<1> QED BY <1>1, <1>2 DEF Next

-----------------------------------------------------------------------------
(* What the invariant says of the outputs and the counters *)

(* What both have of a call of OTs is of all of it, and BOB's is chosen.   *)
LEMMA InvTransferred == ASSUME IInv
  PROVE  Transferred
<1>1. TypeOK /\ Positions /\ Resulted /\ "ALICE" \in Party /\ "BOB" \in Party
  BY Parts, TwoParties DEF Parties
<1> SUFFICES ASSUME NEW k \in 1 .. AtMost(Len(out["ALICE"]), Len(out["BOB"])), script[k].kind # "cot",
                    NEW i \in DOMAIN script[k].r
             PROVE  out["BOB"][k][i] = out["ALICE"][k][i][script[k].r[i]]
  BY DEF Transferred
<1>2. ASSUME NEW p \in Party
      PROVE  Len(out[p]) = at[p] - 1 /\ at[p] \in Nat \ {0} /\ at[p] <= Len(script) + 1 /\ Len(script) \in Nat
  BY <1>1, PartyFacts DEF Positions, PositionOf
<1>3. k \in Nat \ {0} /\ k < at["ALICE"] /\ k < at["BOB"]
  BY <1>1, <1>2 DEF AtMost
<1>4. k \in 1 .. Len(script) /\ k \in 1 .. at["ALICE"] - 1 /\ k \in 1 .. at["BOB"] - 1
  BY <1>1, <1>2, <1>3
<1>5. /\ Results("ALICE", k) = out["ALICE"][k] /\ Results("BOB", k) = out["BOB"][k]
      /\ Len(out["ALICE"][k]) = Len(script[k].r) /\ Len(out["BOB"][k]) = Len(script[k].r)
  BY <1>1, <1>3, <1>4 DEF Results, Resulted
<1>6. /\ script[k].kind \in {"ot", "rot"} /\ Len(script[k].r) \in Nat
      /\ i \in 1 .. Len(script[k].r) /\ script[k].r[i] \in BOOLEAN
  <2>1. /\ script[k].kind \in {"cot", "ot", "rot"} /\ script[k].r \in Seq(BOOLEAN) /\ Len(script[k].r) \in Nat
        /\ \A j \in 1 .. Len(script[k].r) : script[k].r[j] \in BOOLEAN
    BY <1>1, <1>4, ScriptFacts
  <2>2. i \in 1 .. Len(script[k].r) BY <2>1, LenProperties
  <2> QED BY <2>1, <2>2
<1>7. CASE script[k].kind = "ot"
  <2>1. /\ \A j \in 1 .. Len(Results("ALICE", k)) : \A b \in BOOLEAN : Results("ALICE", k)[j][b] = Message(k, j, b)
        /\ \A j \in 1 .. Len(Results("BOB", k)) : Results("BOB", k)[j] = Message(k, j, script[k].r[j])
    BY <1>1, <1>4, <1>7 DEF Resulted
  <2> QED BY <1>5, <1>6, <2>1
<1>8. CASE script[k].kind = "rot"
  <2>1. \A j \in 1 .. AtMost(Len(Results("ALICE", k)), Len(Results("BOB", k))) :
          Results("BOB", k)[j] = Results("ALICE", k)[j][script[k].r[j]]
    BY <1>1, <1>4, <1>8 DEF Resulted
  <2>2. AtMost(Len(Results("ALICE", k)), Len(Results("BOB", k))) = Len(script[k].r)
    BY <1>5, <1>6 DEF AtMost
  <2> QED BY <1>5, <1>6, <2>1, <2>2
<1> QED BY <1>6, <1>7, <1>8

(* Parties that rest at the same call are at the same place.               *)
LEMMA InvInStep == ASSUME IInv
  PROVE  InStep
<1>1. TypeOK /\ Positions /\ Places /\ ToAlice /\ InTurn /\ ToBob /\ "ALICE" \in Party /\ "BOB" \in Party
  BY Parts, TwoParties DEF Parties
<1> SUFFICES ASSUME at["ALICE"] = at["BOB"], \A p \in Party : pc[p] = "idle"
             PROVE  /\ used.a = used.g0 /\ used.g0 = used.g1
                    /\ gid["ALICE"] = gid["BOB"] /\ start["ALICE"] = start["BOB"]
                    /\ \A p \in Party : net[p] = <<>>
  BY DEF InStep
<1>2. ASSUME NEW p \in Party
      PROVE  /\ Len(cot[p]) = at[p] - 1 /\ Phase(p) = "extend" /\ OTs(p) = 0 /\ ~Hashing(p)
             /\ gid[p] = Gid0(p)
  <2>1. pc[p] = "idle" OBVIOUS
  <2>2. PositionOf(p) /\ ~Hashing(p) BY <1>1, <2>1 DEF Positions, Hashing
  <2> QED BY <1>1, <2>1, <2>2, DoneFacts DEF PositionOf, Phase, OTs, Extending
<1>3. place[step] = Last
  <2>1. /\ Len(place) \in Nat \ {0} /\ Len(place) \in 1 .. Len(place)
        /\ step \in 1 .. Len(place) /\ step \in Nat /\ place[Len(place)] = Last
    BY <1>1, AtPlace
  <2>2. IsAt("BOB", Last) /\ IsAt("ALICE", place[step]) BY <1>1 DEF Places
  <2>3. place[step].k = Last.k /\ place[step].phase = Last.phase /\ place[step].done = Last.done
    BY <1>1, <1>2, <2>2 DEF IsAt
  <2>4. ASSUME step < Len(place)
        PROVE  FALSE
    <3>1. Earlier(place[step], Last) BY <1>1, <2>1, <2>4 DEF Places
    <3>2. /\ Last.k \in Nat /\ Last.done \in Nat
          /\ Rank(place[step]) = Rank(Last) /\ Rank(Last) \in Nat
      BY <1>1, <2>1, <2>3, PlaceFacts DEF Rank
    <3> QED BY <2>3, <3>1, <3>2 DEF Earlier
  <2> QED BY <2>1, <2>4
<1>4. used.a = used.g0 /\ used.g0 = used.g1 BY <1>1, <1>3 DEF Places
<1>5. gid["ALICE"] = gid["BOB"] BY <1>1, <1>2 DEF InTurn
<1>6. start["ALICE"] = start["BOB"] BY <1>1 DEF InTurn, Greets
<1>7. net["ALICE"] = <<>>
  <2>1. Before = 0 BY <1>1 DEF Before
  <2>2. Last.pos \in Nat BY <1>1, AtPlace, PlaceFacts
  <2>3. Len(net["ALICE"]) = 0 + (Last.pos - Last.pos)
    BY <1>1, <1>3, <2>1 DEF ToAlice
  <2>4. Len(net["ALICE"]) = 0 /\ net["ALICE"] \in Seq(Stuff)
    BY <1>1, <2>2, <2>3, PartyFacts
  <2> QED BY <2>4, EmptySeq
<1>8. net["BOB"] = <<>> BY <1>1, <1>2 DEF ToBob
<1> QED BY <1>4, <1>5, <1>6, <1>7, <1>8, TwoParties DEF Parties

-----------------------------------------------------------------------------
(* The calls of send_cot and recv_cot are those of CorrelatedOT *)

(* Every step does one or the other, and what the calls are stays. *)
LEMMA StepGives == ASSUME IInv, [Next]_vars
  PROVE  /\ delta' = delta /\ script' \in Seq(Calls) /\ Prolongs(script, script')
         /\ cot' = cot \/ \E p \in Party : GivesMore(p)
<1>1. TypeOK /\ "ALICE" \in Party /\ "BOB" \in Party
  BY Parts, TwoParties DEF Parties
<1>2. script \in Seq(Calls) /\ Prolongs(script, script)
  BY <1>1, PartyFacts, ProlongsSelf
<1>3. CASE \E p \in Party : Begin(p) BY <1>1, <1>3, BeginScript DEF Begin, base
<1>4. CASE \/ BobOffers \/ AliceChooses \/ BobSeals \/ AliceOpens
  BY <1>2, <1>4 DEF BobOffers, AliceChooses, BobSeals, AliceOpens, Setup
<1>5. ASSUME NEW p \in Party, NEW blocks, Extended(p, blocks)
      PROVE  cot' = cot \/ \E all : cot' = [cot EXCEPT ![p] = Append(@, all)]
  BY <1>5 DEF Extended, Returns
<1>6. CASE BobExtends BY <1>1, <1>2, <1>5, <1>6 DEF BobExtends, GivesMore, base
<1>7. CASE AliceExtends
  BY <1>1, <1>2, <1>5, <1>7 DEF AliceExtends, GivesMore, base
<1>8. CASE BobExtra \/ AliceExtra BY <1>2, <1>8 DEF BobExtra, AliceExtra, base
<1>9. CASE BobProves BY <1>1, <1>2, <1>9 DEF BobProves, Returns, GivesMore, base
<1>10. CASE AliceChecks
  BY <1>1, <1>2, <1>10 DEF AliceChecks, Returns, GivesMore, base
<1>11. CASE AliceStarts \/ BobStarts \/ AliceHashes \/ BobHashes
  BY <1>2, <1>11 DEF AliceStarts, BobStarts, AliceHashes, BobHashes, base
<1>12. CASE Terminated \/ UNCHANGED vars
  BY <1>2, <1>12 DEF Terminated, vars, base
<1> QED
  BY <1>3, <1>4, <1>6, <1>7, <1>8, <1>9, <1>10, <1>11, <1>12 DEF Next, PartyStep, AliceStep, BobStep

(* What BOB's calls are: as many as he has returned from, each with the    *)
(* bits of the script.                                                     *)
LEMMA RecvdFacts == ASSUME TypeOK, Positions
  PROVE  /\ cot["BOB"] \in Seq(Blocks) /\ Len(cot["BOB"]) \in Nat /\ Len(cot["BOB"]) <= Len(script)
         /\ Len(script) \in Nat
         /\ DOMAIN Recvd = 1 .. Len(cot["BOB"])
         /\ \A k \in 1 .. Len(cot["BOB"]) : Recvd[k] = [r |-> script[k].r, t |-> cot["BOB"][k]]
         /\ Recvd \in Seq([r : Bits, t : Blocks]) /\ Len(Recvd) = Len(cot["BOB"])
<1>1. "BOB" \in Party BY TwoParties DEF Parties
<1>2. cot["BOB"] \in Seq(Blocks) /\ Len(cot["BOB"]) \in Nat /\ Len(script) \in Nat /\ at["BOB"] \in Nat
  BY <1>1, PartyFacts
<1>3. Len(cot["BOB"]) <= Len(script)
  <2>1. PositionOf("BOB") BY <1>1 DEF Positions
  <2> QED BY <1>2, <2>1 DEF PositionOf
<1>4. DOMAIN cot["BOB"] = 1 .. Len(cot["BOB"]) BY <1>2, LenProperties
<1>5. \A k \in 1 .. Len(cot["BOB"]) : Recvd[k] = [r |-> script[k].r, t |-> cot["BOB"][k]]
  BY <1>4 DEF Recvd
<1>6. ASSUME NEW k \in 1 .. Len(cot["BOB"])
      PROVE  Recvd[k] \in [r : Bits, t : Blocks]
  <2>1. cot["BOB"][k] \in Blocks BY <1>2, SeqAt
  <2>2. k \in 1 .. Len(script) BY <1>2, <1>3
  <2>3. script[k].r \in Bits BY <2>2, ScriptFacts DEF Bits
  <2>4. [r |-> script[k].r, t |-> cot["BOB"][k]] \in [r : Bits, t : Blocks]
    BY <2>1, <2>3
  <2>5. Recvd[k] = [r |-> script[k].r, t |-> cot["BOB"][k]] BY <1>5
  <2> QED BY <2>4, <2>5, Zenon
<1>7. Recvd \in [1 .. Len(cot["BOB"]) -> [r : Bits, t : Blocks]]
  BY <1>4, <1>6 DEF Recvd
<1> QED BY <1>2, <1>3, <1>4, <1>5, <1>7, FunSeq

(* As long as BOB's calls are the same, so is what the specification has   *)
(* of them.                                                                *)
LEMMA RecvdStays == ASSUME TypeOK, Positions, Prolongs(script, script'), cot'["BOB"] = cot["BOB"]
  PROVE  Recvd' = Recvd
<1>1. /\ Len(cot["BOB"]) \in Nat /\ Len(cot["BOB"]) <= Len(script) /\ Len(script) \in Nat
      /\ DOMAIN cot["BOB"] = 1 .. Len(cot["BOB"])
  BY RecvdFacts, LenProperties
<1>2. \A k \in DOMAIN cot["BOB"] : script'[k] = script[k] BY <1>1 DEF Prolongs
<1>3. Recvd' = [k \in DOMAIN cot["BOB"] |-> [r |-> script'[k].r, t |-> cot["BOB"][k]]]
  BY DEF Recvd
<1> QED BY <1>2, <1>3 DEF Recvd

(* Append, as the function it gives *)
LEMMA AppendIs == ASSUME NEW S, NEW s \in Seq(S), NEW e, NEW n, n = Len(s)
  PROVE  Append(s, e) = [k \in 1 .. n + 1 |-> IF k = n + 1 THEN e ELSE s[k]]
<1>1. s \in Seq(S \cup {e}) /\ n \in Nat
  <2>1. n \in Nat /\ s \in [1 .. n -> S \cup {e}] BY LenProperties
  <2> QED BY <2>1, FunSeq
<1>2. /\ Append(s, e) \in Seq(S \cup {e}) /\ Len(Append(s, e)) = n + 1
      /\ Append(s, e)[n + 1] = e /\ \A k \in 1 .. n : Append(s, e)[k] = s[k]
  BY <1>1, AppendFacts
<1>3. PICK u : u = Append(s, e) OBVIOUS
<1>4. u \in Seq(S \cup {e}) /\ Len(u) = n + 1 BY <1>2, <1>3
<1>5. u = [k \in 1 .. n + 1 |-> u[k]] BY <1>4, LenProperties
<1>6. \A k \in 1 .. n + 1 : u[k] = IF k = n + 1 THEN e ELSE s[k]
  BY <1>1, <1>2, <1>3
<1> QED BY <1>3, <1>5, <1>6

(* BOB's next call is a Take. *)
LEMMA BobTakes == ASSUME IInv, IInv', GivesMore("BOB"), delta' = delta
  PROVE  Ideal!Next
<1>1. TypeOK /\ Positions /\ "ALICE" \in Party /\ "BOB" \in Party /\ "ALICE" # "BOB"
  BY Parts, TwoParties DEF Parties
<1>2. PICK all : cot' = [cot EXCEPT !["BOB"] = Append(@, all)] BY DEF GivesMore
<1>3. PICK s, s2 : s = cot["BOB"] /\ s2 = cot'["BOB"] OBVIOUS
<1>4. PICK n : n = Len(s) OBVIOUS
<1>5. /\ cot'["ALICE"] = cot["ALICE"] /\ s2 = Append(s, all) /\ script' = script
      /\ s \in Seq(Blocks) /\ n \in Nat
  BY <1>1, <1>2, <1>3, <1>4, PartyFacts DEF GivesMore
<1>6. /\ TypeOK' /\ Positions' BY DEF IInv
<1>7. /\ s2 \in Seq(Blocks) /\ Len(s2) \in Nat /\ Len(s2) <= Len(script) /\ DOMAIN s2 = 1 .. Len(s2)
  <2>1. cot' \in [Party -> Seq(Blocks)] BY <1>6 DEF TypeOK
  <2>2. s2 \in Seq(Blocks) /\ Len(s2) \in Nat /\ DOMAIN s2 = 1 .. Len(s2)
    BY <1>1, <1>3, <2>1, LenProperties
  <2>3. PositionOf("BOB")' BY <1>1, <1>6 DEF Positions
  <2>4. Len(script) \in Nat BY <1>1, PartyFacts
  <2>5. at'["BOB"] \in Nat BY <1>1, <1>6 DEF TypeOK
  <2> QED BY <1>3, <1>5, <2>2, <2>3, <2>4, <2>5 DEF PositionOf
<1>8. Len(s2) = n + 1 /\ s2[n + 1] = all /\ (\A i \in 1 .. n : s2[i] = s[i])
  BY <1>4, <1>5, AppendProperties
<1>9. PICK c : c = [r |-> script[n + 1].r, t |-> all] OBVIOUS
<1>10. Recvd' = Append(Recvd, c) /\ Len(Recvd) = n
  <2>1. /\ DOMAIN s = 1 .. n /\ Recvd \in Seq([r : Bits, t : Blocks]) /\ Len(Recvd) = n
        /\ \A k \in 1 .. n : Recvd[k] = [r |-> script[k].r, t |-> s[k]]
    BY <1>1, <1>3, <1>4, <1>5, RecvdFacts, LenProperties
  <2>2. Recvd' = [k \in 1 .. n + 1 |-> [r |-> script[k].r, t |-> s2[k]]]
    BY <1>3, <1>5, <1>7, <1>8 DEF Recvd
  <2>3. \A k \in 1 .. n + 1 : [r |-> script[k].r, t |-> s2[k]] = IF k = n + 1 THEN c ELSE Recvd[k]
    BY <1>5, <1>8, <1>9, <2>1
  <2>4. Append(Recvd, c) = [k \in 1 .. n + 1 |-> IF k = n + 1 THEN c ELSE Recvd[k]]
    BY <2>1, AppendIs
  <2> QED BY <2>1, <2>2, <2>3, <2>4
<1>11. c.r \in Seq(BOOLEAN) /\ c.t \in [DOMAIN c.r -> Block]
  <2>1. n + 1 \in 1 .. Len(script) BY <1>1, <1>5, <1>7, <1>8, PartyFacts
  <2>2. c.r = script[n + 1].r /\ c.t = all BY <1>9
  <2>3. script[n + 1].r \in Seq(BOOLEAN) BY <1>1, <2>1, ScriptFacts
  <2>4. all \in Seq(Block)
    <3>1. n + 1 \in 1 .. Len(s2) BY <1>5, <1>8
    <3> QED BY <1>7, <1>8, <3>1, SeqAt DEF Blocks
  <2>5. Len(all) = Len(script[n + 1].r)
    <3>1. PositionOf("BOB")' BY <1>1, <1>6 DEF Positions
    <3>2. \A k \in 1 .. Len(s2) : Len(s2[k]) = Len(script[k].r)
      BY <1>3, <1>5, <3>1 DEF PositionOf
    <3> QED BY <1>5, <1>8, <3>2
  <2>6. DOMAIN script[n + 1].r = 1 .. Len(script[n + 1].r) /\ all \in [1 .. Len(all) -> Block]
    BY <2>3, <2>4, LenProperties
  <2> QED BY <2>2, <2>3, <2>5, <2>6
<1>12. Recvd' # Recvd /\ Recvd'[Len(Recvd) + 1] = c
  <2>1. Recvd \in Seq([r : Bits, t : Blocks]) /\ Len(Recvd) \in Nat
    BY <1>1, <1>5, <1>10, RecvdFacts
  <2>2. PICK u : u = Append(Recvd, c) OBVIOUS
  <2>3. Len(u) = Len(Recvd) + 1 /\ u[Len(Recvd) + 1] = c
    <3>1. Recvd \in Seq([r : Bits, t : Blocks] \cup {c})
      <4>1. Recvd \in [1 .. Len(Recvd) -> [r : Bits, t : Blocks] \cup {c}]
        BY <2>1, LenProperties
      <4> QED BY <2>1, <4>1, FunSeq
    <3> QED BY <2>2, <3>1, AppendProperties
  <2>4. u # Recvd BY <2>1, <2>3
  <2> QED BY <1>10, <2>2, <2>3, <2>4
<1>13. Ideal!Take(c) BY <1>5, <1>10, <1>11 DEF Ideal!Take, Ideal!Block, Block
<1> QED
  <2>1. Ideal!Take(Recvd'[Len(Recvd) + 1]) BY <1>12, <1>13, Zenon
  <2> QED BY <1>12, <2>1, Zenon DEF Ideal!Next

(* ALICE's next call is a Give: she has what Correlates says, of a call    *)
(* BOB has returned from.                                                  *)
LEMMA AliceGives == ASSUME IInv, IInv', GivesMore("ALICE"), delta' = delta
  PROVE  Ideal!Next
<1>1. TypeOK /\ Positions /\ "ALICE" \in Party /\ "BOB" \in Party /\ "ALICE" # "BOB"
  BY Parts, TwoParties DEF Parties
<1>2. PICK all : cot' = [cot EXCEPT !["ALICE"] = Append(@, all)]
  BY DEF GivesMore
<1>3. PICK s, s2 : s = cot["ALICE"] /\ s2 = cot'["ALICE"] OBVIOUS
<1>4. PICK n : n = Len(s) OBVIOUS
<1>5. /\ cot'["BOB"] = cot["BOB"] /\ s2 = Append(s, all) /\ script' = script
      /\ s \in Seq(Blocks) /\ n \in Nat
  BY <1>1, <1>2, <1>3, <1>4, PartyFacts DEF GivesMore
<1>6. TypeOK' /\ Positions' /\ Correlates' BY DEF IInv
<1>7. s2 \in Seq(Blocks) BY <1>1, <1>3, <1>6 DEF TypeOK
<1>8. Len(s2) = n + 1 /\ s2[n + 1] = all BY <1>4, <1>5, AppendProperties
<1>9. /\ Len(cot["BOB"]) \in Nat /\ Len(cot["BOB"]) <= Len(script) /\ Len(script) \in Nat /\ Len(Recvd) = Len(cot["BOB"])
      /\ \A k \in 1 .. Len(cot["BOB"]) : Recvd[k] = [r |-> script[k].r, t |-> cot["BOB"][k]]
  BY <1>1, RecvdFacts
<1>10. n < Len(cot["BOB"]) /\ n + 1 \in 1 .. Len(cot["BOB"]) /\ n + 1 \in 1 .. Len(script)
  <2>1. Len(s2) <= Len(cot["BOB"]) BY <1>3, <1>5, <1>6 DEF Correlates
  <2> QED BY <1>5, <1>8, <1>9, <2>1
<1>11. PICK k \in Nat \ {0} : k = n + 1 BY <1>5
<1>12. /\ Have("ALICE", k)' = all /\ Taken(k)' = cot["BOB"][k]
  BY <1>3, <1>5, <1>8, <1>9, <1>10, <1>11 DEF Have, Taken
<1>13. \A i \in 1 .. Len(all) : all[i] = Active(cot["BOB"][k][i], script[k].r[i], delta)
  <2>1. \A i \in 1 .. Len(Have("ALICE", k)') :
          Have("ALICE", k)'[i] = Active(Taken(k)'[i], script[k].r[i], delta)
    BY <1>5, <1>6, <1>10, <1>11 DEF Correlates
  <2> QED BY <1>12, <2>1, Zenon
<1>14. all \in Seq(Block) /\ Len(all) = Len(script[k].r)
  <2>1. k \in 1 .. Len(s2) BY <1>8, <1>11
  <2>2. PositionOf("ALICE")' BY <1>1, <1>6 DEF Positions
  <2>3. \A j \in 1 .. Len(s2) : Len(s2[j]) = Len(script[j].r)
    BY <1>3, <1>5, <2>2 DEF PositionOf
  <2> QED BY <1>7, <1>8, <1>11, <2>1, <2>3, SeqAt DEF Blocks
<1>15. PICK c : c = Recvd[k] OBVIOUS
<1>16. c.r = script[k].r /\ c.t = cot["BOB"][k]
  <2>1. k \in 1 .. Len(cot["BOB"]) BY <1>10, <1>11
  <2>2. c = [r |-> script[k].r, t |-> cot["BOB"][k]] BY <1>9, <1>15, <2>1, Zenon
  <2> QED BY <2>2
<1>17. all = [i \in DOMAIN c.r |-> Active(c.t[i], c.r[i], delta)]
  <2>1. script[k].r \in Seq(BOOLEAN) BY <1>1, <1>10, <1>11, ScriptFacts
  <2>2. DOMAIN script[k].r = 1 .. Len(script[k].r) /\ all \in [1 .. Len(all) -> Block]
    BY <1>14, <2>1, LenProperties
  <2>3. all = [i \in 1 .. Len(all) |-> all[i]] BY <2>2
  <2> QED BY <1>13, <1>14, <1>16, <2>2, <2>3
<1>18. Recvd' = Recvd
  <2>1. Prolongs(script, script') BY <1>1, <1>5, PartyFacts, ProlongsSelf
  <2> QED BY <1>1, <1>5, <2>1, RecvdStays
<1>19. /\ Len(cot["ALICE"]) < Len(Recvd)
       /\ cot'["ALICE"] = Append(cot["ALICE"], [i \in DOMAIN Recvd[Len(cot["ALICE"]) + 1].r |->
            Active(Recvd[Len(cot["ALICE"]) + 1].t[i], Recvd[Len(cot["ALICE"]) + 1].r[i], delta)])
  BY <1>3, <1>4, <1>5, <1>9, <1>10, <1>11, <1>15, <1>17
<1>20. Ideal!Give
  BY <1>18, <1>19, Zenon DEF Ideal!Give, Ideal!Active, Ideal!XOR, Ideal!Mask, Active, XOR, Mask
<1> QED BY <1>20 DEF Ideal!Next

(* A step is a call's, or changes nothing the specification sees.          *)
LEMMA StepRefines == ASSUME IInv, [Next]_vars
  PROVE  Ideal!Next \/ (delta' = delta /\ Recvd' = Recvd /\ cot'["ALICE"] = cot["ALICE"])
<1>1. TypeOK /\ Positions /\ "ALICE" \in Party /\ "BOB" \in Party
  BY Parts, TwoParties DEF Parties
<1>2. IInv' BY NextInv
<1>3. /\ delta' = delta /\ script' \in Seq(Calls) /\ Prolongs(script, script')
      /\ cot' = cot \/ \E p \in Party : GivesMore(p)
  BY StepGives
<1>4. CASE cot' = cot BY <1>1, <1>3, <1>4, RecvdStays
<1>5. CASE GivesMore("BOB") BY <1>2, <1>3, <1>5, BobTakes
<1>6. CASE GivesMore("ALICE") BY <1>2, <1>3, <1>6, AliceGives
<1> QED BY <1>3, <1>4, <1>5, <1>6, TwoParties DEF Parties

-----------------------------------------------------------------------------
(* The theorems, for every width of a block, size of the batches, order of *)
(* the group, PRG and field multiplication, and every program of calls.    *)

(* The invariant holds whatever the calls and however the steps of ALICE   *)
(* and BOB interleave.                                                     *)
THEOREM Invariance == Spec => []IInv
<1>1. Init => IInv BY InitInv
<1>2. IInv /\ [Next]_vars => IInv' BY NextInv
<1> QED BY <1>1, <1>2, PTL DEF Spec

(* The variables have their types: of a counter, a natural number, of a    *)
(* stream, a sequence of points, ciphertexts and blocks.                   *)
THEOREM TypeCorrect == Spec => []TypeOK
<1>1. IInv => TypeOK BY Parts
<1> QED BY <1>1, Invariance, PTL

(* IKNP's check of a malicious receiver passes when he is honest: ALICE    *)
(* never reaches the error of AliceChecks.                                 *)
THEOREM ChecksPass == Spec => []HonestPasses
<1>1. IInv => HonestPasses BY Parts DEF HonestPasses, Positions, Together
<1> QED BY <1>1, Invariance, PTL

(* What recv and recv_rot give BOB of a pair is the one he chose.          *)
THEOREM Transfers == Spec => []Transferred
<1>1. IInv => Transferred BY InvTransferred
<1> QED BY <1>1, Invariance, PTL

(* Between calls the PRGs' counters and MITCCRH's are equal, and the       *)
(* streams empty.                                                          *)
THEOREM StaysInStep == Spec => []InStep
<1>1. IInv => InStep BY InvInStep
<1> QED BY <1>1, Invariance, PTL

(* send_cot and recv_cot, with their base OTs, rows, columns and check,    *)
(* are the correlated OTs of CorrelatedOT.                                 *)
THEOREM ExtensionImplementsCorrelatedOT == Spec => ImplementsCorrelatedOT
<1>1. Init => Ideal!Init
  <2> SUFFICES ASSUME Init
               PROVE  Ideal!Init
    OBVIOUS
  <2>1. delta \in Delta /\ cot["BOB"] = <<>> /\ cot["ALICE"] = <<>>
    BY TwoParties DEF Init, Parties
  <2>2. Recvd = <<>> BY <2>1 DEF Recvd
  <2> QED BY <2>1, <2>2 DEF Ideal!Init
<1>2. IInv /\ [Next]_vars => [Ideal!Next]_<<delta, Recvd, cot["ALICE"]>>
  BY StepRefines
<1>3. Spec => Ideal!Init /\ [][Ideal!Next]_<<delta, Recvd, cot["ALICE"]>>
  BY <1>1, <1>2, Invariance, PTL DEF Spec
<1> QED BY <1>3 DEF ImplementsCorrelatedOT, Ideal!Spec, Ideal!vars

==============================================================================
