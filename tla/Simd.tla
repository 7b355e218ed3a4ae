-------------------------------- MODULE Simd --------------------------------
(***************************************************************************)
(* The operations on 128-bit registers that emp-tool's kernels are written *)
(* with, as utils/sse2neon.h gives them on ARM.  A register, a lane of one *)
(* and a machine word alike are the set of the positions of their one bits.*)
(***************************************************************************)
EXTENDS Integers, Sequences, FiniteSets

Bit == 0 .. 127

Ones(n) == 0 .. n - 1
BitsOf(n) == {k \in 0 .. 30 : (n \div 2 ^ k) % 2 = 1}
Lane(a, w, i) == {k \in Ones(w) : w * i + k \in a}       \* lane i of w bits
FromLanes(w, L(_)) == UNION {{w * i + k : k \in L(i)} : i \in 0 .. 128 \div w - 1}
Number(a) == LET v[k \in 0 .. 31] == IF k = 0 THEN 0
                                     ELSE v[k - 1] + IF k - 1 \in a THEN 2 ^ (k - 1) ELSE 0
             IN v[31]

mm_setzero_si128 == {}
mm_xor_si128(a, b) == (a \ b) \cup (b \ a)
mm_and_si128(a, b) == a \cap b
mm_andnot_si128(a, b) == b \ a
mm_testz_si128(a, b) == a \cap b = {}

(* Lanes are listed from the highest to the lowest, with setr from the     *)
(* lowest to the highest.                                                  *)
mm_set_epi8(l) == FromLanes(8, LAMBDA i : l[16 - i])
mm_set_epi16(l) == FromLanes(16, LAMBDA i : l[8 - i])
mm_set_epi32(l) == FromLanes(32, LAMBDA i : l[4 - i])
mm_set_epi64x(l) == FromLanes(64, LAMBDA i : l[2 - i])
mm_setr_epi32(l) == FromLanes(32, LAMBDA i : l[i + 1])

ShiftLeft(a, w, imm) == {k \in Bit : k % w >= imm /\ k - imm \in a}
ShiftRight(a, w, imm) == {k \in Bit : (k % w) + imm < w /\ k + imm \in a}
mm_slli_epi32(a, imm) == ShiftLeft(a, 32, imm)
mm_slli_epi64(a, imm) == ShiftLeft(a, 64, imm)
mm_srli_epi32(a, imm) == ShiftRight(a, 32, imm)
mm_slli_si128(a, imm) == ShiftLeft(a, 128, 8 * imm)      \* imm counts bytes
mm_srli_si128(a, imm) == ShiftRight(a, 128, 8 * imm)

Sel(imm, i) == (imm \div 4 ^ i) % 4          \* field i of an immediate
mm_shuffle_epi32(a, imm) == FromLanes(32, LAMBDA i : Lane(a, 32, Sel(imm, i)))
mm_shuffle_ps(a, b, imm) ==
  FromLanes(32, LAMBDA i : Lane(IF i < 2 THEN a ELSE b, 32, Sel(imm, i)))

(* Where the compiler has no shuffle of vectors, some immediates have a    *)
(* function of their own, made of the halves of the registers.             *)
MM_SHUFFLE(z, y, x, w) == 64 * z + 16 * y + 4 * x + w
vget_low(a) == <<Lane(a, 32, 0), Lane(a, 32, 1)>>
vget_high(a) == <<Lane(a, 32, 2), Lane(a, 32, 3)>>
rev64(h) == <<h[2], h[1]>>
dup(h, i) == <<h[i + 1], h[i + 1]>>
vextq(a, n) == [i \in 1 .. 4 |-> Lane(a, 32, (n + i - 1) % 4)]
generic_shuffle_epi32(a, imm) == mm_setr_epi32(
  CASE imm = MM_SHUFFLE(1, 0, 3, 2) -> vget_high(a) \o vget_low(a)
    [] imm = MM_SHUFFLE(2, 3, 0, 1) -> rev64(vget_low(a)) \o rev64(vget_high(a))
    [] imm = MM_SHUFFLE(0, 3, 2, 1) -> vextq(a, 1)
    [] imm = MM_SHUFFLE(2, 1, 0, 3) -> vextq(a, 3)
    [] imm = MM_SHUFFLE(1, 0, 1, 0) -> vget_low(a) \o vget_low(a)
    [] imm = MM_SHUFFLE(1, 0, 0, 1) -> rev64(vget_low(a)) \o vget_low(a)
    [] imm = MM_SHUFFLE(0, 1, 0, 1) -> rev64(vget_low(a)) \o rev64(vget_low(a))
    [] imm = MM_SHUFFLE(2, 2, 1, 1) -> dup(vget_low(a), 1) \o dup(vget_high(a), 0)
    [] imm = MM_SHUFFLE(0, 1, 2, 2) -> dup(vget_high(a), 0) \o rev64(vget_low(a))
    [] imm = MM_SHUFFLE(3, 3, 3, 2) -> vget_high(a) \o dup(vget_high(a), 1)
    [] OTHER -> [i \in 1 .. 4 |-> Lane(a, 32, Sel(imm, i - 1))])
generic_shuffle_ps(a, b, imm) == mm_setr_epi32(
  CASE imm = MM_SHUFFLE(1, 0, 3, 2) -> vget_high(a) \o vget_low(b)
    [] imm = MM_SHUFFLE(2, 3, 0, 1) -> rev64(vget_low(a)) \o rev64(vget_high(b))
    [] imm = MM_SHUFFLE(0, 3, 2, 1) -> SubSeq(vextq(a, 3), 3, 4) \o SubSeq(vextq(b, 3), 1, 2)
    [] imm = MM_SHUFFLE(2, 1, 0, 3) -> SubSeq(vextq(a, 3), 1, 2) \o SubSeq(vextq(b, 3), 3, 4)
    [] imm = MM_SHUFFLE(1, 0, 1, 0) -> vget_low(a) \o vget_low(b)
    [] imm = MM_SHUFFLE(1, 0, 0, 1) -> rev64(vget_low(a)) \o vget_low(b)
    [] imm = MM_SHUFFLE(0, 1, 0, 1) -> rev64(vget_low(a)) \o rev64(vget_low(b))
    [] imm = MM_SHUFFLE(3, 2, 1, 0) -> vget_low(a) \o vget_high(b)
    [] imm = MM_SHUFFLE(0, 0, 1, 1) -> dup(vget_low(a), 1) \o dup(vget_low(b), 0)
    [] imm = MM_SHUFFLE(0, 0, 2, 2) -> dup(vget_high(a), 0) \o dup(vget_low(b), 0)
    [] imm = MM_SHUFFLE(2, 2, 0, 0) -> dup(vget_low(a), 0) \o dup(vget_high(b), 0)
    [] imm = MM_SHUFFLE(3, 2, 0, 2) -> <<vget_high(a)[1], vget_low(a)[1]>> \o vget_high(b)
    [] imm = MM_SHUFFLE(3, 2, 3, 2) -> vget_high(a) \o vget_high(b)
    [] imm = MM_SHUFFLE(1, 1, 3, 3) -> dup(vget_high(a), 1) \o dup(vget_low(b), 1)
    [] imm = MM_SHUFFLE(2, 0, 1, 0) -> vget_low(a) \o <<vget_low(b)[1], vget_high(b)[1]>>
    [] imm = MM_SHUFFLE(2, 0, 0, 1) -> rev64(vget_low(a)) \o <<vget_low(b)[1], vget_high(b)[1]>>
    [] imm = MM_SHUFFLE(2, 0, 3, 2) -> vget_high(a) \o <<vget_low(b)[1], vget_high(b)[1]>>
    [] OTHER -> [i \in 1 .. 4 |-> Lane(IF i < 3 THEN a ELSE b, 32, Sel(imm, i - 1))])

mm_shuffle_epi8(a, b) ==      \* a lane of b names a byte of a, or none when its top bit is set
  FromLanes(8, LAMBDA i : LET idx == Lane(b, 8, i)
                          IN IF 7 \in idx THEN {} ELSE Lane(a, 8, Number(idx \cap Ones(4))))

-----------------------------------------------------------------------------
(* The byte mask of the sign bits: on ARMv8 every byte contributes a power *)
(* of two, on ARMv7 wider and wider shifted additions bring the bits       *)
(* together.  No addition there carries, or CASE would have no value.      *)

mm_movemask_epi8(a) == {i \in 0 .. 15 : 8 * i + 7 \in a}

vsraq_n(a, w, n) == LET b == ShiftRight(a, w, n)         \* a + (a >> n), by lanes
                    IN CASE a \cap b = {} -> a \cup b
movemask_armv7(a) ==
  LET high_bits == ShiftRight(a, 8, 7)
      paired16 == vsraq_n(high_bits, 16, 7)
      paired32 == vsraq_n(paired16, 32, 14)
      paired64 == vsraq_n(paired32, 64, 28)
  IN Lane(paired64, 8, 0) \cup {8 + k : k \in Lane(paired64, 8, 8)}

-----------------------------------------------------------------------------
(* Products of polynomials over GF(2): the instruction, and what ARMv7 has *)
(* instead, made of products of bytes.                                     *)

vmull(a, b) == {k \in Bit : Cardinality({i \in a : k - i \in b}) % 2 = 1}

vmull_p8(a, b) == FromLanes(16, LAMBDA i : vmull(Lane(a, 8, i), Lane(b, 8, i)))
vext(a, n) == {k \in Ones(64) : (k + 8 * n) % 64 \in a}      \* the bytes of a, from byte n
Pair(lo, hi) == lo \cup {64 + k : k \in hi}
Lo(a) == Lane(a, 64, 0)
Hi(a) == Lane(a, 64, 1)
RotateLeft(a, n) == {(k + 8 * n) % 128 : k \in a}

k48_32 == Pair(Ones(48), Ones(32))
BadK16_00 == Pair({}, Ones(16))          \* the halves swapped
k16_00 == Pair(Ones(16), {})
vmull_p64_armv7(a, b) ==
  LET d == vmull_p8(a, b)
      cross(n) == mm_xor_si128(vmull_p8(a, vext(b, n)), vmull_p8(vext(a, n), b))
      l == cross(1)
      m == cross(2)
      n == cross(3)
      k == vmull_p8(a, vext(b, 4))
      folded(x, y, mask) ==              \* the pair (x, y) with its halves zipped, folded and unzipped
        LET p0 == Pair(Lo(x), Lo(y))
            p1 == Pair(Hi(x), Hi(y))
            h == mm_and_si128(p1, mask)
            lo == mm_xor_si128(mm_xor_si128(p0, p1), h)
        IN <<Pair(Lo(lo), Lo(h)), Pair(Hi(lo), Hi(h))>>
      t01 == folded(l, m, k48_32)
      t23 == folded(n, k, k16_00)
      cross1 == mm_xor_si128(RotateLeft(t01[1], 1), RotateLeft(t01[2], 2))
      cross2 == mm_xor_si128(RotateLeft(t23[1], 3), RotateLeft(t23[2], 4))
  IN mm_xor_si128(mm_xor_si128(d, cross1), cross2)

mm_clmulepi64_si128(a, b, imm) ==
  vmull(IF imm % 2 = 1 THEN Hi(a) ELSE Lo(a), IF imm \div 16 = 1 THEN Hi(b) ELSE Lo(b))
=============================================================================
