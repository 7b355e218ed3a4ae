------------------------------- MODULE Kernels ------------------------------
(***************************************************************************)
(* Every kernel of emp-tool on a set of inputs: the circuits of Integer,   *)
(* AES and the field, the transpose, and the classes that batch and        *)
(* buffer.  A behaviour takes one input and runs one kernel on it.         *)
(***************************************************************************)
EXTENDS IntegerCircuits, Streams

CONSTANTS Samples,       \* numbers of the blocks taken as inputs
          Positions,     \* bits whose products are taken with every bit
          Shapes,        \* <<rows, columns>> of the matrices
          MaxSize,       \* elements of an array
          MaxCalls,      \* calls on an object
          MaxIoCalls,    \* calls on a MemIO
          Lengths        \* lengths of a call, in blocks or bytes

ASSUME KernelsAssumption == /\ Positions \subseteq Bit
                            /\ \A s \in Shapes : TransAssumption(s[1], s[2])
                            /\ MaxSize \in Nat /\ MaxCalls \in Nat /\ MaxIoCalls \in Nat /\ Lengths \subseteq Nat

Sample(s) == {k \in Bit : (k * k * s + 7 * k + s * s * k) % 11 \in 0 .. 4}
Inputs == {Sample(s) : s \in Samples}
Arrays(S) == UNION {[1 .. n -> S] : n \in 0 .. MaxSize}
Scripts(S, max) == UNION {[1 .. n -> S] : n \in 0 .. max}
Calls(ops) == {[op |-> o, p |-> p, n |-> n] : o \in ops, p \in 0 .. BlockBytes - 1, n \in Lengths}
Pieces == {[op |-> "put", n |-> n] : n \in Lengths} \cup {[op |-> "put_block", n |-> n] : n \in 1 .. 2}
MemCalls == {[op |-> o, n |-> n] : o \in {"send", "recv", "load"}, n \in 1 .. 2}
              \cup {[op |-> "clear", n |-> 0]}
BoolArrays == UNION {[1 .. n -> BOOLEAN] : n \in 0 .. 3 * Align}

Key0 == Tabulated(KeyExpansion({}))

Take(family, a, b) == op = family /\ x = a /\ y = b /\ res = <<>>

KernelsInit ==
  \/ Init
  \/ \E a, b \in Inputs, family \in {"cipher", "instructions", "field"} : Take(family, a, b)
  \/ \E i \in Positions, j \in Bit : Take("field", {i}, {j})
  \/ \E i \in Positions, j \in Ones(64) : Take("instructions", {i}, {j})
  \/ \E s \in Shapes : \E k \in 0 .. s[1] * s[2] - 1 : Take("matrix", {k}, s)
  \/ \E n \in 0 .. MaxSize, s \in Samples : Take("blocks", [i \in 1 .. n |-> Sample(s + i)], s)
  \/ \E s \in Scripts(Calls({"block", "data", "unaligned"}), MaxCalls) : Take("prg", s, 0)
  \/ \E s \in Scripts(Pieces, MaxCalls) : Take("pieces", s, 0)
  \/ \E s \in Scripts(MemCalls, MaxIoCalls), cap \in {1, 4} : Take("memio", s, cap)
  \/ \E s, t \in Scripts({1, 2}, MaxCalls) : Take("fileio", s, t)
  \/ \E s \in BoolArrays, p, q \in 0 .. Align - 1 : Take("bools", s, <<p, q>>)

Runs(family, name, result) == /\ op = family
                              /\ op' = name
                              /\ res' = result
                              /\ UNCHANGED <<x, y>>

Cipher128 ==
  LET keyx == AES_set_encrypt_key(x)
      keyy == AES_opt_key_schedule(y)
      enc(k) == AES_ecb_encrypt_blks(<<y>>, k)
  IN \/ Runs("cipher", "set_encrypt_key", keyx)
     \/ Runs("cipher", "opt_key_schedule", AES_opt_key_schedule(x))
     \/ Runs("cipher", "encrypt", ParaEnc(<<y, x, x, y>>, <<keyx, keyy>>, 2))
     \/ Runs("cipher", "decrypt", AES_ecb_decrypt_blks(enc(keyx), AES_set_decrypt_key_fast(keyx)))
     \/ Runs("cipher", "arm encrypt", arm_AES_ecb_encrypt_blks(<<y>>, keyx))
     \/ Runs("cipher", "arm ParaEnc", arm_ParaEnc(<<y>>, <<keyx>>, 1))

Instructions ==
  \/ Runs("instructions", "aesenc", {neon_aesenc(x, y), table_aesenc(x, y), arm_aesenc(x, y)})
  \/ Runs("instructions", "aesenclast", {soft_aesenclast(x, y), arm_aesenclast(x, y)})
  \/ Runs("instructions", "keygenassist",
          {soft_aeskeygenassist(x, 27), arm_aeskeygenassist(x, 27)})
  \/ Runs("instructions", "aesdeclast", {arm_aesdeclast(x, y)})
  \/ Runs("instructions", "arm aesdec", {arm_aesdec(x, y)})
  \/ Runs("instructions", "movemask", movemask_armv7(x))
  \/ Runs("instructions", "vmull_p64", vmull_p64_armv7(Lo(x), Lo(y)))
  \/ op = "instructions" /\ x \in Inputs /\ \E imm \in 0 .. 255 :
       Runs("instructions", "shuffle", <<imm, generic_shuffle_epi32(x, imm), generic_shuffle_ps(x, y, imm)>>)

Field ==
  \/ Runs("field", "gfmul", gfmul(x, y))
  \/ /\ op = "field" /\ x \in Inputs /\ x = y
     /\ \E n \in 1 .. MaxSize : Runs("field", "coefficients", uni_hash_coeff_gen(x, n))
  \/ /\ op = "field" /\ x \in Inputs /\ y \in Inputs
     /\ \/ Runs("field", "inner product", LET no_red == vector_inn_prdt_sum_no_red(<<x, y>>, <<y, y>>)
                                          IN <<reduce(no_red[1], no_red[2]),
                                               vector_inn_prdt_sum_red(<<x, y>>, <<y, y>>)>>)
        \/ Runs("field", "packing", packing([i \in 1 .. 128 |-> IF i % 5 = 0 THEN x ELSE {}]))

Arrays128 ==
  \/ Runs("matrix", "sse_trans", sse_trans(x, y[1], y[2]))
  \/ Runs("blocks", "CRH", <<CRH_n(x, Key0), [i \in DOMAIN x |-> CRH(x[i], Key0)]>>)
  \/ Runs("blocks", "CCRH", <<CCRH_n(x, Key0), [i \in DOMAIN x |-> CCRH(x[i], Key0)]>>)
  \/ Runs("blocks", "TCCRH", <<TCCRH_n(x, y, Key0), [i \in DOMAIN x |-> TCCRH(x[i], y + i - 1, Key0)]>>)
  \/ Runs("blocks", "self_xor", vector_self_xor(x))
  \/ Runs("blocks", "words", [i \in DOMAIN x |-> bool_to_block(block_to_bool(x[i]))])
  \/ Runs("blocks", "cmpBlock", {i \in DOMAIN x : cmpBlock(<<x[i]>>, <<set_bit(x[i], i)>>)})

Objects ==
  \/ Runs("prg", "keystream", PRG(x))
  \/ Runs("pieces", "digest", Digest(x))
  \/ Runs("memio", "memory", Run(MemCall, MemIO(y), x))
  \/ Runs("fileio", "file", Run(FileCall, FileIO, [i \in DOMAIN x |-> [op |-> "send", n |-> x[i]]]
                              \o <<[op |-> "reset"]>> \o [i \in DOMAIN y |-> [op |-> "recv", n |-> y[i]]]))
  \/ LET wire == send_bool(x, y[1])
         read == RecvBytes(Len(x), y[2])
     IN Runs("bools", "sent", [sent |-> Len(wire), read |-> read,
                               got |-> IF read <= Len(wire) THEN recv_bool(wire, Len(x), y[2]) ELSE "waits"])
  \/ op = "bools" /\ y = <<0, 0>> /\ \E reverse, before, beyond \in BOOLEAN :
       LET n == Len(x)
           data == to_bool([d \in Ones(n) |-> before], bool_to_int(x, n), n, reverse)
           word == from_bool(data, beyond, Ones(n), n, reverse)
       IN Runs("bools", "word", [reverse |-> reverse, before |-> before, beyond |-> beyond,
                                 data |-> [i \in 1 .. n |-> data[i - 1]], word |-> int_to_bool(word, n)])

Families == {"integer", "cipher", "instructions", "field", "matrix", "blocks", "prg", "pieces",
             "memio", "fileio", "bools"}
Ran == op \notin Families /\ UNCHANGED vars

KernelsNext == \/ Arithmetic \/ Comparison \/ Movement
               \/ Cipher128 \/ Instructions \/ Field \/ Arrays128 \/ Objects
               \/ Ran

KernelsSpec == KernelsInit /\ [][KernelsNext]_vars
-----------------------------------------------------------------------------
(* Properties *)

(* Both key schedules are that of FIPS 197; blocks encrypted many at a time*)
(* under several keys are each AES under the key whose turn it is; and     *)
(* decryption under the reversed schedule gives the block back.            *)
AesIsFips ==
  /\ op \in {"set_encrypt_key", "opt_key_schedule"} => res = KeyExpansion(x)
  /\ op = "encrypt" => res = <<Cipher(x, y), Cipher(x, x), Cipher(y, x), Cipher(y, y)>>
  /\ op = "decrypt" => res = <<y>>

(* Encryption as built on ARM is AES too: a garbler on one machine and an  *)
(* evaluator on another expand a seed to the same blocks.                  *)
ArmIsAes == op \in {"arm encrypt", "arm ParaEnc"} => res = <<Cipher(x, y)>>

(* Each way in which ARM has to emulate an instruction of x86 gives what   *)
(* the instruction gives.                                                  *)
IntrinsicsAgree ==
  /\ op = "aesenc" => res = {mm_aesenc_si128(x, y)}
  /\ op = "aesenclast" => res = {mm_aesenclast_si128(x, y)}
  /\ op = "aesdeclast" => res = {mm_aesdeclast_si128(x, y)}
  /\ op = "keygenassist" => res = {mm_aeskeygenassist_si128(x, 27)}
  /\ op = "movemask" => res = mm_movemask_epi8(x)
  /\ op = "vmull_p64" => res = vmull(Lo(x), Lo(y))
  /\ op = "shuffle" => /\ res[2] = mm_shuffle_epi32(x, res[1])
                       /\ res[3] = mm_shuffle_ps(x, y, res[1])

(* gfmul is the product modulo x^128 + x^7 + x^2 + x + 1: Power[m] is x^m. *)
Power == LET p[m \in 0 .. 254] ==
               IF m < 128 THEN {m}
               ELSE mm_xor_si128(mm_xor_si128(p[m - 128], p[m - 127]),
                                 mm_xor_si128(p[m - 126], p[m - 121]))
         IN p @@ <<>>
Product(a, b) ==
  LET terms == {m \in 0 .. 254 : Cardinality({i \in a : m - i \in b}) % 2 = 1}
  IN {k \in Bit : Cardinality({m \in terms : k \in Power[m]}) % 2 = 1}
FieldProduct ==
  /\ op = "gfmul" => res = Product(x, y)
  /\ op = "coefficients" =>
       \A i \in DOMAIN res : res[i] = IF i = 1 THEN x ELSE Product(res[i - 1], x)
  /\ op = "inner product" => \A r \in {res[1], res[2]} :
                               r = mm_xor_si128(Product(x, y), Product(y, y))
  /\ op = "packing" =>
       res = {k \in Bit : Cardinality({i \in 1 .. 128 : i % 5 = 0 /\ k \in Product(x, {i - 1})}) % 2 = 1}

(* sse_trans writes every byte of its output once, and moves the bit of row*)
(* r and column c to row c and column r, whichever of its three kinds of   *)
(* tile the bit is in.                                                     *)
Transposes == op = "sse_trans" =>
  LET moved == {8 * w[1] + k : w \in {v \in res : v[2] # {}}, k \in Ones(8)}
      set == UNION {{8 * w[1] + k : k \in w[2]} : w \in res}
      size == (y[1] * y[2]) \div 8
  IN /\ {w[1] : w \in res} = Ones(size) /\ Cardinality(res) = size
     /\ set = {(b % y[2]) * y[1] + b \div y[2] : b \in x}
     /\ set \subseteq moved

(* Many blocks hashed at once, in batches and with a rest, are the blocks  *)
(* hashed one by one, each with its own tweak; sums in four lanes, blocks  *)
(* through bools and comparisons lose no block either.                     *)
HashesEach ==
  /\ op \in {"CRH", "CCRH", "TCCRH"} => res[1] = res[2]
  /\ op = "self_xor" => res = {k \in Bit : Cardinality({i \in DOMAIN x : k \in x[i]}) % 2 = 1}
  /\ op = "words" => res = x
  /\ op = "cmpBlock" => res = {i \in DOMAIN x : i \in x[i]}

(* However a PRG is called, whole blocks, bytes, and bytes at an unaligned *)
(* address mixed, it gives as much as is asked and never the same byte of  *)
(* the keystream twice.                                                    *)
KeystreamOnce == op = "keystream" =>
  /\ \A i \in DOMAIN x : Len(res[i]) = IF x[i].op = "block" THEN BlockBytes * x[i].n ELSE x[i].n
  /\ IsInjective(FlattenSeq(res))

(* A digest is over every byte put, once, but of blocks over the first half*)
(* only; and over the bytes in the order in which they were put, unless a  *)
(* piece longer than the buffer comes when there are bytes in it.          *)
Given(c) == IF c.op = "put" THEN c.n ELSE BlockBytes * c.n
Hashed(c) == IF c.op = "put" THEN c.n ELSE PointerBytes * c.n
Overtakes == \E i \in DOMAIN x : /\ Hashed(x[i]) > HASH_BUFFER_SIZE
                                 /\ \E j \in 1 .. i - 1 : Hashed(x[j]) \in 1 .. HASH_BUFFER_SIZE
Ascending(s) == \A i, j \in DOMAIN s : i < j => s[i] < s[j]
DigestOfStream == op = "digest" =>
  LET before(i) == FoldLeft(LAMBDA n, c : n + Given(c), 0, SubSeq(x, 1, i - 1))
  IN /\ IsInjective(res)
     /\ ToSet(res) = UNION {before(i) + 1 .. before(i) + Hashed(x[i]) : i \in DOMAIN x}
     /\ Overtakes \/ Ascending(res)

(* What is sent through bools, a buffer in memory or a file arrives.  Of   *)
(* bools the receiver reads as many bytes as were sent, and gets them, if  *)
(* both arrays are cut alike into single bools and whole groups, as arrays *)
(* at one alignment and those too short for a group are.  Words go through *)
(* bools and back; reversed, they do so but for the first bit, which goes  *)
(* past the end of the array and is read from there, and data[0] is left as*)
(* it was.  The bytes of FileIO arrive in order and none is left out; those*)
(* of MemIO arrive in order, each at most once, and of those sent since the*)
(* last clear or load just as many are left out as were received between   *)
(* the last load and that clear, so none after a load; a recv that there   *)
(* are bytes enough for gets them; and the buffer never outgrows its       *)
(* memory.                                                                 *)
Cut(n, p) == IF Fits1(p, Align, n) THEN Skip(p, Align) ELSE n
Latest(ops) == Max({0} \cup {i \in DOMAIN x : x[i].op \in ops})
Asked(ops, i) == FoldLeft(LAMBDA n, c : IF c.op \in ops THEN n + c.n ELSE n, 0, SubSeq(x, 1, i))
Received(i, j) == SelectSeq(SubSeq(res.out, Asked({"recv"}, i) + 1, Asked({"recv"}, j)),
                            LAMBDA b : b # NoByte)        \* by the calls after i, up to j
InMemory ==
  LET now == Len(x)
      emptied == Latest({"clear", "load"})
      gone == Asked({"send", "load"}, emptied - 1)
      skipped == Len(Received(Latest({"load"}), emptied))
      read == Received(emptied, now)
      enough(n) == gone + skipped + n <= Asked({"send", "load"}, now)
  IN /\ Len(res.buffer) <= res.cap
     /\ Ascending(Received(0, now))
     /\ read = Range1(gone + skipped + 1, Len(read))
     /\ now > 0 /\ x[now].op = "recv" =>
          LET before == Len(Received(emptied, now - 1))
          IN Len(read) - before = IF enough(before + x[now].n) THEN x[now].n ELSE 0
BytesArrive ==
  /\ op = "sent" /\ Cut(Len(x), y[1]) = Cut(Len(x), y[2]) => res.read = res.sent /\ res.got = x
  /\ op = "word" =>
       IF res.reverse /\ x # <<>>
       THEN res.data = <<res.before>> \o Reverse(Tail(x)) /\ res.word = <<res.beyond>> \o Tail(x)
       ELSE res.data = x /\ res.word = x
  /\ op = "memory" => InMemory
  /\ (op = "file" /\ ~res.hangs) => res.out = Range1(1, res.pos)
=============================================================================
