-------------------------- MODULE IntegerCircuits --------------------------
(***************************************************************************)
(* The circuits of Integer<n> (emp-tool/circuits/integer.h, bit.h), in the *)
(* clear: SemiHonest shows that the gates give the labels of these values. *)
(* An Integer is the sequence of its bits, the least significant first.    *)
(* Each is built gate by gate as in the code; what it is to compute is     *)
(* said in arithmetic, for every pair of operands of the Widths.           *)
(*                                                                         *)
(* An operator named Bad... is the one after it with a seeded fault; it is *)
(* used nowhere, and shows that the properties notice such a fault.        *)
(***************************************************************************)
EXTENDS Integers, Sequences

CONSTANT Widths     \* bound: the values of nbits

ASSUME WidthsAssumption == Widths \subseteq Nat \ {0}

Bits(n) == [1 .. n -> BOOLEAN]
High(a, i) == SubSeq(a, i, Len(a))         \* the pointer a + i - 1
Below(a, i) == SubSeq(a, 1, i - 1)
Msb(a) == a[Len(a)]
Xor(a, b) == [i \in DOMAIN a |-> a[i] # b[i]]

-----------------------------------------------------------------------------
(* The circuits *)

(* The carry into each place is what the addition of the places below left.*)
BadCarry(a, b) ==
  LET c[i \in 1 .. Len(a)] == i > 1 /\ a[i - 1] /\ b[i - 1] IN c
Carry(a, b) ==
  LET c[i \in 1 .. Len(a)] ==
        IF i = 1 THEN FALSE
        ELSE LET k == c[i - 1] IN k # ((a[i - 1] # k) /\ (b[i - 1] # k))
  IN c
add_full(a, b) == LET c == Carry(a, b) IN [i \in DOMAIN a |-> a[i] # (b[i] # c[i])]

(* The borrow from each place; the first takes none. *)
Borrow(a, b) ==
  LET borrow[i \in 0 .. Len(a)] ==
        IF i = 0 THEN FALSE
        ELSE LET k == borrow[i - 1] IN k # ((a[i] # b[i]) /\ (k # b[i]))
  IN borrow
sub_full(a, b) == LET borrow == Borrow(a, b)
                  IN [diff |-> [i \in DOMAIN a |-> (a[i] # b[i]) # borrow[i - 1]],
                      borrow |-> borrow[Len(a)]]

(* The sum after each place of b: the place adds a, shifted to it. *)
Addend(a, b, i) == [k \in 1 .. Len(a) - i + 1 |-> a[k] /\ b[i]]
Sums(a, b) ==
  LET sum[i \in 0 .. Len(a)] ==
        IF i = 0 THEN [k \in DOMAIN a |-> FALSE]
        ELSE Below(sum[i - 1], i) \o add_full(High(sum[i - 1], i), Addend(a, b, i))
  IN sum
mul_full(a, b) == Sums(a, b)[Len(a)]

ifThenElse(tsrc, fsrc, cond) ==
  [i \in DOMAIN tsrc |-> (cond /\ (tsrc[i] # fsrc[i])) # fsrc[i]]

Ripple(cond, src) ==
  LET c[i \in 0 .. Len(src)] == IF i = 0 THEN cond ELSE c[i - 1] /\ (src[i] # cond) IN c
condNeg(cond, src) == [i \in DOMAIN src |-> (src[i] # cond) # Ripple(cond, src)[i - 1]]

(* Long division: at place i the divisor fits if nothing of it is beyond   *)
(* the top and the subtraction does not borrow.                            *)
Minus(rem, b, i) == sub_full(High(rem, i), SubSeq(b, 1, Len(b) - i + 1))
BadFits(rem, b, i) == ~Minus(rem, b, i).borrow
Fits(rem, b, i) == ~(Minus(rem, b, i).borrow \/ \E j \in Len(b) - i + 2 .. Len(b) : b[j])

(* What is left when a place is done, from the highest on. *)
Rem(a, b) ==
  LET rem[i \in 1 .. Len(a) + 1] ==
        IF i = Len(a) + 1 THEN a
        ELSE LET r == rem[i + 1]
             IN Below(r, i) \o ifThenElse(High(r, i), Minus(r, b, i).diff, ~Fits(r, b, i))
  IN rem
div_full(a, b) == LET rem == Rem(a, b)
                  IN [quot |-> [i \in DOMAIN a |-> Fits(rem[i + 1], b, i)], rem |-> rem[1]]

resize(a, n) == [i \in 1 .. n |-> IF i <= Len(a) THEN a[i] ELSE Msb(a)]
abs(a) == LET sign == [i \in DOMAIN a |-> Msb(a)] IN Xor(add_full(a, sign), sign)
Quotient(a, b) == condNeg(Msb(a) # Msb(b), div_full(abs(a), abs(b)).quot)
Remainder(a, b) == condNeg(Msb(a), div_full(abs(a), abs(b)).rem)

(* The extra bit: the difference may overflow. *)
Geq(a, b) == LET n == Len(a) + 1 IN ~Msb(sub_full(resize(a, n), resize(b, n)).diff)
Equal(a, b) == \A i \in DOMAIN a : ~(a[i] # b[i])

(* Bit::select and Integer::select: rhs if sel. *)
select(a, sel, rhs) == [i \in DOMAIN a |-> a[i] # ((a[i] # rhs[i]) /\ sel)]
Swapped(swap, o1, o2) ==
  LET o == Xor(select(o2, swap, o1), o2) IN <<Xor(o1, o), Xor(o2, o)>>

(* >> by a number, and by an Integer, of which only as many bits are used  *)
(* as a shift within the width needs.                                      *)
Shr(a, shamt) == [i \in DOMAIN a |-> i + shamt <= Len(a) /\ a[i + shamt]]
Log2Up(n) == CHOOSE k \in 0 .. n : 2 ^ k >= n /\ (k = 0 \/ 2 ^ (k - 1) < n)
Uses(n) == IF Log2Up(n) < n - 1 THEN Log2Up(n) ELSE n - 1
Shifted(a, shamt) ==
  LET out[i \in 0 .. Uses(Len(a))] ==
        IF i = 0 THEN a ELSE select(out[i - 1], shamt[i], Shr(out[i - 1], 2 ^ (i - 1)))
  IN out
ShrBy(a, shamt) == Shifted(a, shamt)[Uses(Len(a))]

-----------------------------------------------------------------------------
(* Every operation on every pair of operands. *)

VARIABLES op, x, y, res

vars == <<op, x, y, res>>

Init == /\ op = "integer"
        /\ \E n \in Widths : x \in Bits(n) /\ y \in Bits(n)
        /\ res = <<>>

Does(name, result) == /\ op = "integer"
                      /\ op' = name
                      /\ res' = result
                      /\ UNCHANGED <<x, y>>

Arithmetic == \/ Does("+", add_full(x, y))
              \/ Does("-", sub_full(x, y).diff)
              \/ Does("*", mul_full(x, y))
              \/ Does("/", Quotient(x, y))
              \/ Does("%", Remainder(x, y))
              \/ Does("abs", abs(x))

Comparison == \/ Does(">=", <<Geq(x, y)>>)
              \/ Does("<", <<~Geq(x, y)>>)
              \/ Does("<=", <<Geq(y, x)>>)
              \/ Does(">", <<~Geq(y, x)>>)
              \/ Does("==", <<Equal(x, y)>>)

Movement == \/ \E s \in BOOLEAN : Does(IF s THEN "swap" ELSE "keep", Swapped(s, x, y))
            \/ Does("resize", resize(x, 2 * Len(x)))
            \/ Does(">>", ShrBy(x, y))

Done == op # "integer" /\ UNCHANGED vars

Next == Arithmetic \/ Comparison \/ Movement \/ Done

Spec == Init /\ [][Next]_vars
-----------------------------------------------------------------------------
(* Properties *)

Mod == 2 ^ Len(x)
Weight(bit, i) == IF bit THEN 2 ^ (i - 1) ELSE 0
Values(a) ==     \* of the places up to each
  LET v[i \in 0 .. Len(a)] == IF i = 0 THEN 0 ELSE v[i - 1] + Weight(a[i], i) IN v
Value(a) == Values(a)[Len(a)]
Signed(a) == IF Msb(a) THEN Value(a) - 2 ^ Len(a) ELSE Value(a)
Magnitude(i) == IF i < 0 THEN -i ELSE i

(* +, - and * are those of the residues modulo 2^n, whatever signs the     *)
(* operands are read with; a shift by less than the width divides; a swap  *)
(* exchanges its operands if told to and else leaves them.                 *)
RingOfResidues ==
  /\ op = "+" => Value(res) = (Value(x) + Value(y)) % Mod
  /\ op = "-" => Value(res) = (Value(x) - Value(y)) % Mod
  /\ op = "*" => Value(res) = (Value(x) * Value(y)) % Mod
  /\ (op = ">>" /\ Value(y) < Len(x)) => Value(res) = Value(x) \div 2 ^ Value(y)
  /\ op = "swap" => res = <<y, x>>
  /\ op = "keep" => res = <<x, y>>

(* / and % are those of C: towards zero, the remainder with the sign of the*)
(* dividend; the comparisons order the Integers as signed numbers, also    *)
(* where their difference has no n bits; a wider Integer is the same       *)
(* number; and abs, read without a sign, is the absolute value.  All that  *)
(* includes the least number, which has no absolute value of n bits.       *)
SignedAsC ==
  LET a == Signed(x)
      b == Signed(y)
      q == Magnitude(a) \div Magnitude(b)
      r == Magnitude(a) % Magnitude(b)
  IN
  /\ (op = "/" /\ b # 0) => Value(res) = (IF Msb(x) = Msb(y) THEN q ELSE -q) % Mod
  /\ (op = "%" /\ b # 0) => Signed(res) = IF Msb(x) THEN -r ELSE r
  /\ op = ">=" => res[1] = (a >= b)
  /\ op = "<" => res[1] = (a < b)
  /\ op = "<=" => res[1] = (a <= b)
  /\ op = ">" => res[1] = (a > b)
  /\ op = "==" => res[1] = (x = y)
  /\ op = "resize" => Signed(res) = a
  /\ op = "abs" => Value(res) = Magnitude(a)
=============================================================================
