----------------------------- MODULE GaloisField ----------------------------
(***************************************************************************)
(* utils/f2k.h: products in GF(2^128), a block being the polynomial of its *)
(* bits, and what is built on them; and the bit-matrix transpose and the   *)
(* helpers of utils/block.h.  Arrays of blocks are sequences.              *)
(***************************************************************************)
EXTENDS Simd, TLC

(* A loop of n turns that adds term(i) to what it has, from zero_block.    *)
Accumulate(n, term(_)) ==
  LET s[i \in 0 .. n] == IF i = 0 THEN mm_setzero_si128 ELSE mm_xor_si128(s[i - 1], term(i))
  IN s[n]

mul128(a, b) ==                 \* the product before reduction: its low and its high half
  LET middle == mm_xor_si128(mm_clmulepi64_si128(a, b, 16), mm_clmulepi64_si128(a, b, 1))
  IN <<mm_xor_si128(mm_clmulepi64_si128(a, b, 0), mm_slli_si128(middle, 8)),
       mm_xor_si128(mm_clmulepi64_si128(a, b, 17), mm_srli_si128(middle, 8))>>

BadCarried(t) ==                \* the bits that leave a lane stay in it
  mm_xor_si128(mm_srli_epi32(t, 31), mm_xor_si128(mm_srli_epi32(t, 30), mm_srli_epi32(t, 25)))
Carried(t) ==                   \* the bits that leave a lane when it is shifted by 1, 2 and 7
  LET tmp7 == mm_xor_si128(mm_srli_epi32(t, 31), mm_xor_si128(mm_srli_epi32(t, 30), mm_srli_epi32(t, 25)))
  IN mm_shuffle_epi32(tmp7, 147)
reduce(tmp3, tmp6) ==
  LET XMMMASK == mm_setr_epi32(<<Ones(32), {}, {}, {}>>)
      tmp8 == Carried(tmp6)
      low == mm_xor_si128(tmp3, mm_andnot_si128(XMMMASK, tmp8))
      high == mm_xor_si128(tmp6, mm_and_si128(XMMMASK, tmp8))
      by1 == mm_xor_si128(low, mm_slli_epi32(high, 1))
      by2 == mm_xor_si128(by1, mm_slli_epi32(high, 2))
      by7 == mm_xor_si128(by2, mm_slli_epi32(high, 7))
  IN mm_xor_si128(by7, high)
gfmul(a, b) == LET p == mul128(a, b) IN reduce(p[1], p[2])

vector_inn_prdt_sum_red(a, b) == Accumulate(Len(a), LAMBDA i : gfmul(a[i], b[i]))
vector_inn_prdt_sum_no_red(a, b) ==
  LET p == [i \in DOMAIN a |-> mul128(a[i], b[i])]
  IN <<Accumulate(Len(a), LAMBDA i : p[i][1]), Accumulate(Len(a), LAMBDA i : p[i][2])>>

(* coeff[i] is made from coeff[i - 1], in whole batches of four after the  *)
(* first from coeff[i - 4].                                                *)
BadCoeff(coeff, i, seed, sz) == IF i > 4 THEN gfmul(coeff[i - 4], coeff[4])
                                ELSE gfmul(coeff[i - 1], seed)
Coeff(coeff, i, seed, sz) ==
  IF i > 4 /\ i <= 4 * (sz \div 4) THEN gfmul(coeff[i - 4], coeff[4])
  ELSE gfmul(coeff[i - 1], seed)
uni_hash_coeff_gen(seed, sz) ==
  LET coeff[i \in 1 .. sz] == IF i = 1 THEN seed ELSE Coeff(coeff, i, seed, sz)
  IN [i \in 1 .. sz |-> coeff[i]]

base == [i \in 1 .. 128 |-> IF i <= 64 THEN mm_set_epi64x(<<{}, {i - 1}>>)
                            ELSE mm_set_epi64x(<<{i - 65}, {}>>)]
packing(data) == vector_inn_prdt_sum_red(data, base)

vector_self_xor(data) ==        \* in four sums, the rest after the last four into the first of them
  LET whole == 4 * (Len(data) \div 4)
      res(j) == LET main == Accumulate(whole \div 4, LAMBDA i : data[4 * i - 3 + j])
                IN IF whole + j < Len(data) THEN mm_xor_si128(main, data[whole + j + 1]) ELSE main
  IN mm_xor_si128(mm_xor_si128(res(0), res(1)), mm_xor_si128(res(2), res(3)))

-----------------------------------------------------------------------------
(* block.h                                                                 *)

makeBlock(high, low) == mm_set_epi64x(<<high, low>>)
sigma(a) == mm_xor_si128(mm_shuffle_epi32(a, 78), mm_and_si128(a, makeBlock(Ones(64), {})))
set_bit(a, i) == a \cup IF i < 64 THEN makeBlock({}, {i}) ELSE makeBlock({i - 64}, {})
xorBlocks_arr(x, y) == [i \in DOMAIN x |-> mm_xor_si128(x[i], y[i])]
cmpBlock(x, y) == \A i \in DOMAIN x : LET vcmp == mm_xor_si128(x[i], y[i])
                                      IN mm_testz_si128(vcmp, vcmp)

(* sse_trans: what it writes, as <<byte of out, value>>.  Rows go in       *)
(* sixteens, the last eight with columns in sixteens and a last block of   *)
(* 8 x 8.  A matrix of eight rows, or of eight columns when the rows are   *)
(* no multiple of sixteen, makes an unsigned bound wrap: not modelled.     *)
TransAssumption(nrows, ncols) == /\ nrows % 8 = 0 /\ nrows >= 16
                                 /\ ncols % 8 = 0 /\ (ncols >= 16 \/ nrows % 16 = 0)

INP(inp, ncols, x, y) == {k \in Ones(8) : 8 * ((x * ncols) \div 8 + y \div 8) + k \in inp}
OUT(nrows, x, y) == (y * nrows) \div 8 + x \div 8
Low8(h) == h \cap Ones(8)
High8(h) == {k \in Ones(8) : k + 8 \in h}
Column(vec, i) == mm_movemask_epi8(mm_slli_epi64(vec, 7 - i))     \* bit i of every byte

Trans16(inp, nrows, ncols, rr, cc) ==          \* 16 rows and 8 columns
  LET vec == mm_set_epi8([k \in 1 .. 16 |-> INP(inp, ncols, rr + 16 - k, cc)])
  IN UNION {{<<OUT(nrows, rr, cc + i), Low8(Column(vec, i))>>,
             <<OUT(nrows, rr, cc + i) + 1, High8(Column(vec, i))>>} : i \in 0 .. 7}
BadTransPair(inp, nrows, ncols, rr, cc) ==     \* the rest in the vector form of its other branch
  LET vec == FromLanes(8, LAMBDA k : INP(inp, ncols, rr + k \div 2, cc + 8 * (k % 2)))
  IN UNION {{<<OUT(nrows, rr, cc + i), Low8(Column(vec, i))>>,
             <<OUT(nrows, rr, cc + i + 8), High8(Column(vec, i))>>} : i \in 0 .. 7}
TransPair(inp, nrows, ncols, rr, cc) ==        \* the last 8 rows and 16 columns
  LET tmp == FromLanes(8, LAMBDA k : INP(inp, ncols, rr + (k % 8), cc + 8 * (k \div 8)))
  IN UNION {{<<OUT(nrows, rr, cc + i), Low8(Column(tmp, i))>>,
             <<OUT(nrows, rr, cc + i + 8), High8(Column(tmp, i))>>} : i \in 0 .. 7}
TransLast(inp, nrows, ncols, rr, cc) ==        \* the last 8 of both
  LET tmp == FromLanes(8, LAMBDA k : IF k < 8 THEN INP(inp, ncols, rr + k, cc) ELSE {})
  IN {<<OUT(nrows, rr, cc + i), Low8(Column(tmp, i))>> : i \in 0 .. 7}

sse_trans(inp, nrows, ncols) ==
  LET rr == 16 * (nrows \div 16)
      cc == 16 * (ncols \div 16)
  IN UNION {Trans16(inp, nrows, ncols, 16 * r, 8 * c) : r \in 0 .. nrows \div 16 - 1,
                                                        c \in 0 .. ncols \div 8 - 1}
     \cup IF rr = nrows THEN {}
          ELSE UNION {TransPair(inp, nrows, ncols, rr, 16 * c) : c \in 0 .. ncols \div 16 - 1}
               \cup IF cc = ncols THEN {} ELSE TransLast(inp, nrows, ncols, rr, cc)
=============================================================================
