--------------------------------- MODULE Aes --------------------------------
(***************************************************************************)
(* AES-128 as emp-tool computes it: the two key schedules (aes.h,          *)
(* aes_opt.h), encryption of many blocks under one key and under several,  *)
(* decryption, each as it is built on x86-64 and on ARM, down to the       *)
(* instructions ARM has to emulate (sse2neon.h, block.h).  FIPS 197 is     *)
(* beside them as the reference.                                           *)
(***************************************************************************)
EXTENDS Simd, TLC

Byte == SUBSET Ones(8)
Tabulated(f) == f @@ <<>>          \* f, for TLC to evaluate once

(* n rounds from s, step(x, r) being round r on x; the singleton makes TLC *)
(* evaluate a round before it goes on to the next.                         *)
Rounds(n, s, step(_, _)) ==
  LET x[r \in 0 .. n] == IF r = 0 THEN s
                         ELSE CHOOSE y \in {step(o, r) : o \in {x[r - 1]}} : TRUE
  IN x
Times2(p) == LET double == {k + 1 : k \in p}
             IN IF 8 \in double THEN mm_xor_si128(double, BitsOf(\h11b)) ELSE double

-----------------------------------------------------------------------------
(* FIPS 197: the rounds of the cipher and the expansion of its key.        *)

TimesB(p, q) == LET t[k \in 0 .. 7] == IF k = 0 THEN p ELSE Times2(t[k - 1])
                IN {b \in Ones(8) : Cardinality({k \in q : b \in t[k]}) % 2 = 1}
Square(p) == TimesB(p, p)
Inv == Tabulated([p \in Byte |->           \* p^254
         LET p3 == TimesB(Square(p), p)
             p7 == TimesB(Square(p3), p)
             p63 == TimesB(Square(Square(Square(p7))), p7)
         IN Square(TimesB(Square(p63), p))])
SubByte == Tabulated([p \in Byte |-> mm_xor_si128(BitsOf(\h63),
             {k \in Ones(8) : Cardinality({j \in Inv[p] : (k - j) % 8 < 5}) % 2 = 1})])
InvSubByte == Tabulated([p \in Byte |-> CHOOSE q \in Byte : SubByte[q] = p])

Bytes(a, F(_)) == FromLanes(8, LAMBDA i : F(Lane(a, 8, i)))
SubBytes(a) == Bytes(a, LAMBDA p : SubByte[p])
InvSubBytes(a) == Bytes(a, LAMBDA p : InvSubByte[p])
ShiftRows(a) == FromLanes(8, LAMBDA i : Lane(a, 8, (5 * i) % 16))
InvShiftRows(a) == FromLanes(8, LAMBDA i : Lane(a, 8, (13 * i) % 16))
Mix(a, row) ==                  \* row: what the four bytes of a column are multiplied by
  FromLanes(8, LAMBDA i :
    LET times(t) == TimesB(Lane(a, 8, 4 * (i \div 4) + ((i + t) % 4)), BitsOf(row[t + 1]))
    IN mm_xor_si128(mm_xor_si128(times(0), times(1)), mm_xor_si128(times(2), times(3))))
MixColumns(a) == Mix(a, <<2, 3, 1, 1>>)
InvMixColumns(a) == Mix(a, <<14, 11, 13, 9>>)

Rcon == <<1, 2, 4, 8, 16, 32, 64, 128, 27, 54>>
NextKey(old, r) ==              \* round key r, from the four words of the one before
  LET rot == {(k + 24) % 32 : k \in Lane(old, 32, 3)}
      temp == mm_xor_si128(SubBytes(rot) \cap Ones(32), BitsOf(Rcon[r]))
      w0 == mm_xor_si128(Lane(old, 32, 0), temp)
      w1 == mm_xor_si128(Lane(old, 32, 1), w0)
      w2 == mm_xor_si128(Lane(old, 32, 2), w1)
  IN mm_setr_epi32(<<w0, w1, w2, mm_xor_si128(Lane(old, 32, 3), w2)>>)
KeyExpansion(key) == Rounds(10, key, NextKey)

AddRoundKey(a, k) == mm_xor_si128(a, k)
Cipher(key, block) ==
  LET w == KeyExpansion(key)
      s == Rounds(9, AddRoundKey(block, w[0]),
                  LAMBDA x, r : AddRoundKey(MixColumns(ShiftRows(SubBytes(x))), w[r]))[9]
  IN AddRoundKey(ShiftRows(SubBytes(s)), w[10])

-----------------------------------------------------------------------------
(* The instructions of the two machines.                                   *)

vaeseq(a, k) == ShiftRows(SubBytes(mm_xor_si128(a, k)))
vaesmcq(a) == MixColumns(a)
vaesdq(a, k) == InvSubBytes(InvShiftRows(mm_xor_si128(a, k)))
vaesimcq(a) == InvMixColumns(a)

mm_aesenc_si128(a, k) == mm_xor_si128(MixColumns(ShiftRows(SubBytes(a))), k)
mm_aesenclast_si128(a, k) == mm_xor_si128(ShiftRows(SubBytes(a)), k)
mm_aesdec_si128(a, k) == mm_xor_si128(InvMixColumns(InvSubBytes(InvShiftRows(a))), k)
mm_aesdeclast_si128(a, k) == mm_xor_si128(InvSubBytes(InvShiftRows(a)), k)
mm_aeskeygenassist_si128(a, rcon) ==
  LET sub(i) == SubBytes(Lane(a, 32, i)) \cap Ones(32)
      rot(i) == mm_xor_si128({(k + 24) % 32 : k \in sub(i)}, BitsOf(rcon))
  IN mm_set_epi32(<<rot(3), sub(3), rot(1), sub(1)>>)

(* sse2neon.h with the crypto extension, block.h for decryption.           *)
arm_aesenc(a, k) == mm_xor_si128(vaesmcq(vaeseq(a, {})), k)
arm_aesenclast(a, k) == mm_xor_si128(vaeseq(a, {}), k)
arm_aesdec(a, k) == vaesimcq(mm_xor_si128(vaesdq(a, {}), k))
arm_aesdeclast(a, k) == mm_xor_si128(vaesdq(a, {}), k)
arm_aeskeygenassist(a, rcon) ==
  LET u8 == vaeseq(a, {})
      from == <<4, 1, 14, 11, 1, 14, 11, 4, 12, 9, 6, 3, 9, 6, 3, 12>>
      dest == FromLanes(8, LAMBDA i : Lane(u8, 8, from[i + 1]))
  IN mm_xor_si128(dest, mm_setr_epi32(<<{}, BitsOf(rcon), {}, BitsOf(rcon)>>))

(* sse2neon.h without it: the table, and the round in vectors (ARMv8) and  *)
(* in tables of words (ARMv7).                                             *)
SSE2NEON_AES_DATA ==
  <<\h63, \h7c, \h77, \h7b, \hf2, \h6b, \h6f, \hc5, \h30, \h01, \h67, \h2b, \hfe, \hd7, \hab, \h76,
    \hca, \h82, \hc9, \h7d, \hfa, \h59, \h47, \hf0, \had, \hd4, \ha2, \haf, \h9c, \ha4, \h72, \hc0,
    \hb7, \hfd, \h93, \h26, \h36, \h3f, \hf7, \hcc, \h34, \ha5, \he5, \hf1, \h71, \hd8, \h31, \h15,
    \h04, \hc7, \h23, \hc3, \h18, \h96, \h05, \h9a, \h07, \h12, \h80, \he2, \heb, \h27, \hb2, \h75,
    \h09, \h83, \h2c, \h1a, \h1b, \h6e, \h5a, \ha0, \h52, \h3b, \hd6, \hb3, \h29, \he3, \h2f, \h84,
    \h53, \hd1, \h00, \hed, \h20, \hfc, \hb1, \h5b, \h6a, \hcb, \hbe, \h39, \h4a, \h4c, \h58, \hcf,
    \hd0, \hef, \haa, \hfb, \h43, \h4d, \h33, \h85, \h45, \hf9, \h02, \h7f, \h50, \h3c, \h9f, \ha8,
    \h51, \ha3, \h40, \h8f, \h92, \h9d, \h38, \hf5, \hbc, \hb6, \hda, \h21, \h10, \hff, \hf3, \hd2,
    \hcd, \h0c, \h13, \hec, \h5f, \h97, \h44, \h17, \hc4, \ha7, \h7e, \h3d, \h64, \h5d, \h19, \h73,
    \h60, \h81, \h4f, \hdc, \h22, \h2a, \h90, \h88, \h46, \hee, \hb8, \h14, \hde, \h5e, \h0b, \hdb,
    \he0, \h32, \h3a, \h0a, \h49, \h06, \h24, \h5c, \hc2, \hd3, \hac, \h62, \h91, \h95, \he4, \h79,
    \he7, \hc8, \h37, \h6d, \h8d, \hd5, \h4e, \ha9, \h6c, \h56, \hf4, \hea, \h65, \h7a, \hae, \h08,
    \hba, \h78, \h25, \h2e, \h1c, \ha6, \hb4, \hc6, \he8, \hdd, \h74, \h1f, \h4b, \hbd, \h8b, \h8a,
    \h70, \h3e, \hb5, \h66, \h48, \h03, \hf6, \h0e, \h61, \h35, \h57, \hb9, \h86, \hc1, \h1d, \h9e,
    \he1, \hf8, \h98, \h11, \h69, \hd9, \h8e, \h94, \h9b, \h1e, \h87, \he9, \hce, \h55, \h28, \hdf,
    \h8c, \ha1, \h89, \h0d, \hbf, \he6, \h42, \h68, \h41, \h99, \h2d, \h0f, \hb0, \h54, \hbb, \h16>>
SSE2NEON_sbox == Tabulated([p \in Byte |-> BitsOf(SSE2NEON_AES_DATA[Number(p) + 1])])

neon_aesenc(a, k) ==
  LET w == FromLanes(8, LAMBDA i : Lane(a, 8, (5 * i) % 16))
      v == Bytes(w, LAMBDA p : SSE2NEON_sbox[p])
      x == mm_xor_si128(ShiftLeft(v, 8, 1), Bytes(v, LAMBDA p : IF 7 \in p THEN BitsOf(\h1b) ELSE {}))
      y == mm_xor_si128(x, FromLanes(16, LAMBDA i : Lane(v, 16, IF i % 2 = 0 THEN i + 1 ELSE i - 1)))
      vy == mm_xor_si128(v, y)
      ror32by8 == FromLanes(8, LAMBDA i : Lane(vy, 8, 4 * (i \div 4) + ((i + 1) % 4)))
  IN mm_xor_si128(mm_xor_si128(y, ror32by8), k)

aes_table(t, p) ==              \* U0 .. U3 of the byte p: a word, from its lowest byte
  LET s == SSE2NEON_sbox[p]
      f2 == Times2(s)
      f3 == mm_xor_si128(f2, s)
      b == <<f2, s, s, f3>>
  IN UNION {{8 * i + k : k \in b[((i - t) % 4) + 1]} : i \in 0 .. 3}
table_aesenc(a, k) ==
  LET look(j, t) == aes_table(t, Lane(Lane(a, 32, (j + t) % 4), 8, t))
      out(j) == mm_xor_si128(mm_xor_si128(look(j, 0), look(j, 1)),
                             mm_xor_si128(look(j, 2), look(j, 3)))
  IN mm_xor_si128(mm_set_epi32(<<out(3), out(2), out(1), out(0)>>), k)

soft_aesenclast(a, k) ==
  mm_xor_si128(FromLanes(8, LAMBDA i : SSE2NEON_sbox[Lane(a, 8, (5 * i) % 16)]), k)
soft_aeskeygenassist(a, rcon) ==
  LET X(i) == Bytes(Lane(a, 32, i), LAMBDA p : SSE2NEON_sbox[p]) \cap Ones(32)
      ror8(x) == {(k + 24) % 32 : k \in x}
  IN mm_set_epi32(<<mm_xor_si128(ror8(X(3)), BitsOf(rcon)), X(3),
                    mm_xor_si128(ror8(X(1)), BitsOf(rcon)), X(1)>>)

-----------------------------------------------------------------------------
(* The key schedules.                                                      *)

EXPAND_ASSIST(v1, v3, shuff_const, aes_const) ==       \* the new v1 and v3; v4 is v1
  LET v2 == mm_aeskeygenassist_si128(v1, aes_const)
      a3 == mm_shuffle_ps(v3, v1, 16)
      a1 == mm_xor_si128(v1, a3)
      b3 == mm_shuffle_ps(a3, a1, 140)
      b1 == mm_xor_si128(a1, b3)
  IN <<mm_xor_si128(b1, mm_shuffle_epi32(v2, shuff_const)), b3>>

AES_set_encrypt_key(userkey) ==
  LET x == Rounds(10, <<userkey, mm_setzero_si128>>,
                  LAMBDA v, r : EXPAND_ASSIST(v[1], v[2], 255, Rcon[r]))
  IN [r \in 0 .. 10 |-> x[r][1]]

ks_round(key, con, con3, mask) ==
  LET aux == mm_aesenclast_si128(mm_shuffle_epi8(key, mask), con)
      a == mm_xor_si128(mm_slli_epi64(key, 32), key)
      b == mm_xor_si128(mm_shuffle_epi8(a, con3), a)
  IN mm_xor_si128(aux, b)

AES_opt_key_schedule(user_key) ==
  LET all(x) == mm_set_epi32(<<x, x, x, x>>)
      ff == Ones(32)
      h0706 == BitsOf(\h07060504)
      con3 == mm_set_epi32(<<h0706, h0706, ff, ff>>)
      mask == all(BitsOf(\h0c0f0e0d))
      con(r) == IF r < 9 THEN mm_slli_epi32(all({0}), r - 1)
                ELSE mm_slli_epi32(all(BitsOf(\h1b)), r - 9)
  IN Rounds(10, user_key, LAMBDA key, r : ks_round(key, con(r), con3, mask))

AES_set_decrypt_key_fast(ekey) ==
  [i \in 0 .. 10 |-> IF i \in {0, 10} THEN ekey[10 - i] ELSE vaesimcq(ekey[10 - i])]

-----------------------------------------------------------------------------
(* Encryption of a sequence of blocks, and decryption.                     *)



AES_ecb_encrypt_blks(blks, key) ==
  [i \in DOMAIN blks |->
     LET full == Rounds(9, mm_xor_si128(blks[i], key[0]), LAMBDA x, r : mm_aesenc_si128(x, key[r]))[9]
     IN mm_aesenclast_si128(full, key[10])]

arm_encrypt(b, key, last) ==    \* nine rounds under keys 0 .. 8, then "last" before and after
  LET full == Rounds(9, b, LAMBDA x, r : vaesmcq(vaeseq(x, key[r - 1])))[9]
  IN mm_xor_si128(vaeseq(full, last), last)
arm_AES_ecb_encrypt_blks(blks, key) ==
  [i \in DOMAIN blks |-> arm_encrypt(blks[i], key, key[9])]

AES_ecb_decrypt_blks(blks, key) ==
  [i \in DOMAIN blks |->
     LET full == Rounds(9, mm_xor_si128(blks[i], key[0]), LAMBDA x, r : mm_aesdec_si128(x, key[r]))[9]
     IN mm_aesdeclast_si128(full, key[10])]

(* keys[i] encrypts the blocks i * numEncs .. i * numEncs + numEncs - 1.   *)
BadParaEnc(blks, keys, numEncs) ==         \* the keys are taken in turn
  [b \in DOMAIN blks |-> AES_ecb_encrypt_blks(<<blks[b]>>, keys[((b - 1) % Len(keys)) + 1])[1]]
ParaEnc(blks, keys, numEncs) ==
  [b \in DOMAIN blks |-> AES_ecb_encrypt_blks(<<blks[b]>>, keys[(b - 1) \div numEncs + 1])[1]]
arm_ParaEnc(blks, keys, numEncs) ==
  [b \in DOMAIN blks |-> LET key == keys[(b - 1) \div numEncs + 1]
                         IN arm_encrypt(blks[b], key, key[9])]
=============================================================================
