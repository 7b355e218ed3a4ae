------------------------------- MODULE Streams ------------------------------
(***************************************************************************)
(* The classes of emp-tool that cut what they are given into batches,      *)
(* buffers and bytes: PRG, the fixed-key hashes, Hash, MemIO and FileIO,   *)
(* and IOChannel's bools.  Addresses and lengths are kept; what a byte     *)
(* holds is reduced to where it comes from.                                *)
(***************************************************************************)
EXTENDS Aes, GaloisField, SequencesExt

CONSTANTS BlockBytes,         \* sizeof(block), 16
          PointerBytes,       \* sizeof(block*), 8
          AES_BATCH_SIZE,     \* 8
          HASH_BUFFER_SIZE,   \* 8192
          Align               \* alignof(uint64_t), the bools packed in a byte

ASSUME StreamsAssumption ==
  {BlockBytes, PointerBytes, AES_BATCH_SIZE, HASH_BUFFER_SIZE, Align} \subseteq Nat \ {0}

Range1(from, n) == [i \in 1 .. n |-> from + i - 1]         \* from, from + 1, ...
Run(step(_, _), start, script) == FoldLeft(step, start, script)

(* std::align(a, a, p, space): how many bytes it skips, if there is room.  *)
Skip(p, a) == (-p) % a
Fits1(p, a, space) == a + Skip(p, a) <= space

-----------------------------------------------------------------------------
(* PRG.  A block of the keystream is the counter it encrypts, a byte of it *)
(* <<counter, position>>.  A call is [op, p, n]: n blocks or bytes to p.   *)

BytesOf(blocks) == [i \in 1 .. BlockBytes * Len(blocks) |->
                      <<blocks[(i - 1) \div BlockBytes + 1], (i - 1) % BlockBytes>>]

BadRandomBlock(counter, n) ==       \* the rest begins where the batches did
  LET whole == n \div AES_BATCH_SIZE
  IN FlattenSeq([i \in 1 .. whole |-> Range1(counter + AES_BATCH_SIZE * (i - 1), AES_BATCH_SIZE)])
     \o Range1(counter, n % AES_BATCH_SIZE)
random_block(counter, n) ==         \* in batches, and the rest
  LET whole == n \div AES_BATCH_SIZE
  IN FlattenSeq([i \in 1 .. whole |-> Range1(counter + AES_BATCH_SIZE * (i - 1), AES_BATCH_SIZE)])
     \o Range1(counter + AES_BATCH_SIZE * whole, n % AES_BATCH_SIZE)
random_data(counter, n) ==
  LET whole == n \div BlockBytes
      extra == random_block(counter + whole, IF n % BlockBytes = 0 THEN 0 ELSE 1)
  IN BytesOf(random_block(counter, whole)) \o SubSeq(BytesOf(extra), 1, n % BlockBytes)
random_data_unaligned(counter, p, n) ==        \* the bytes before the aligned ones come last
  IF Fits1(p, BlockBytes, n)
  THEN LET chopped == Skip(p, BlockBytes)
           blocks == n - chopped + BlockBytes - 1
           tmp == random_block(counter + blocks \div BlockBytes, 1)
       IN SubSeq(BytesOf(tmp), 1, chopped) \o random_data(counter, n - chopped)
  ELSE SubSeq(BytesOf(random_block(counter, 2)), 1, n)
BlocksUsed(p, n) == IF Fits1(p, BlockBytes, n)
                    THEN (n - Skip(p, BlockBytes) + BlockBytes - 1) \div BlockBytes + 1 ELSE 2

PrgCall(s, c) ==
  CASE c.op = "block" -> [counter |-> s.counter + c.n,
                          out |-> Append(s.out, BytesOf(random_block(s.counter, c.n)))]
    [] c.op = "data" -> [counter |-> s.counter + (c.n + BlockBytes - 1) \div BlockBytes,
                         out |-> Append(s.out, random_data(s.counter, c.n))]
    [] c.op = "unaligned" -> [counter |-> s.counter + BlocksUsed(c.p, c.n),
                              out |-> Append(s.out, random_data_unaligned(s.counter, c.p, c.n))]
PRG(script) == Run(PrgCall, [counter |-> 0, out |-> <<>>], script).out

-----------------------------------------------------------------------------
(* The hashes over AES under a fixed key, one block at a time and many.    *)

permute_block(data, aes) ==
  LET n == Len(data)
      remain == n % AES_BATCH_SIZE
      enc(from, k) == AES_ecb_encrypt_blks(SubSeq(data, from, from + k - 1), aes)
  IN FlattenSeq([i \in 1 .. n \div AES_BATCH_SIZE |-> enc(AES_BATCH_SIZE * (i - 1) + 1, AES_BATCH_SIZE)])
     \o enc(n - remain + 1, remain)

CRH(in, aes) == mm_xor_si128(permute_block(<<in>>, aes)[1], in)
CRH_n(in, aes) == xorBlocks_arr(in, permute_block(in, aes))

CCRH(in, aes) == LET s == sigma(in) IN mm_xor_si128(permute_block(<<s>>, aes)[1], s)
CCRH_n(in, aes) == LET out == [i \in DOMAIN in |-> sigma(in[i])]
                   IN xorBlocks_arr(permute_block(out, aes), out)

TCCRH(in, i, aes) == LET a == permute_block(<<in>>, aes)[1]
                         t == mm_xor_si128(a, makeBlock({}, BitsOf(i)))
                     IN mm_xor_si128(permute_block(<<t>>, aes)[1], a)
BadTweak(id, i) == id                          \* one for all
Tweak(id, i) == id + i - 1                     \* id, id + 1, ...
TCCRH_n(in, id, aes) ==
  LET tmp == permute_block(in, aes)
      out == [i \in DOMAIN in |-> mm_xor_si128(tmp[i], makeBlock({}, BitsOf(Tweak(id, i))))]
  IN xorBlocks_arr(permute_block(out, aes), tmp)

-----------------------------------------------------------------------------
(* Hash: what SHA-256 has been fed, and the buffer before it.  The bytes   *)
(* of all the pieces put are numbered in order.  In put_block the name of  *)
(* the parameter hides the type: sizeof(block) is that of a pointer.       *)

BadPut(h, nbyte) ==                 \* a piece that just fits is taken for one that does not
  LET data == Range1(h.next, nbyte)
  IN IF Len(h.buffer) + nbyte < HASH_BUFFER_SIZE
     THEN [h EXCEPT !.buffer = @ \o data, !.next = @ + nbyte]
     ELSE [fed |-> h.fed \o h.buffer, buffer |-> SubSeq(data, 1, HASH_BUFFER_SIZE - 1),
           next |-> h.next + nbyte]
put(h, nbyte) ==
  LET data == Range1(h.next, nbyte)
  IN IF nbyte > HASH_BUFFER_SIZE
     THEN [h EXCEPT !.fed = @ \o data, !.next = @ + nbyte]       \* past what is in the buffer
     ELSE IF Len(h.buffer) + nbyte < HASH_BUFFER_SIZE
     THEN [h EXCEPT !.buffer = @ \o data, !.next = @ + nbyte]
     ELSE [fed |-> h.fed \o h.buffer, buffer |-> data, next |-> h.next + nbyte]
put_block(h, nblock) == [put(h, PointerBytes * nblock) EXCEPT !.next = h.next + BlockBytes * nblock]
HashCall(h, c) == IF c.op = "put" THEN put(h, c.n) ELSE put_block(h, c.n)
reset == [fed |-> <<>>, buffer |-> <<>>, next |-> 1]
digest(h) == h.fed \o h.buffer
Digest(pieces) == digest(Run(HashCall, reset, pieces))

-----------------------------------------------------------------------------
(* MemIO and FileIO.  A script is of [op, n]; the bytes sent are numbered. *)

NoByte == 0
MemCall(m, c) ==
  CASE c.op = "send" ->
         LET size == Len(m.buffer)
         IN [m EXCEPT !.cap = IF size + c.n >= @ THEN 2 * (@ + c.n) ELSE @,
                      !.buffer = @ \o Range1(m.next, c.n), !.next = @ + c.n]
    [] c.op = "recv" ->
         IF m.read_pos + c.n <= Len(m.buffer)
         THEN [m EXCEPT !.out = @ \o SubSeq(m.buffer, m.read_pos + 1, m.read_pos + c.n),
                        !.read_pos = @ + c.n]
         ELSE [m EXCEPT !.out = @ \o [i \in 1 .. c.n |-> NoByte]]       \* reported, nothing copied
    [] c.op = "clear" -> [m EXCEPT !.buffer = <<>>]
    [] c.op = "load" -> [m EXCEPT !.buffer = Range1(m.next, c.n), !.next = @ + c.n,
                                    !.cap = c.n, !.read_pos = 0]
MemIO(cap) == [buffer |-> <<>>, read_pos |-> 0, cap |-> cap, next |-> 1, out |-> <<>>]

FileCall(f, c) ==                   \* one position for reading and for writing
  CASE c.op = "send" ->
         [f EXCEPT !.file = SubSeq(@, 1, f.pos) \o Range1(f.next, c.n)
                              \o SubSeq(@, f.pos + c.n + 1, Len(@)),
                   !.pos = @ + c.n, !.next = @ + c.n]
    [] c.op = "reset" -> [f EXCEPT !.pos = 0]
    [] c.op = "recv" ->
         IF f.pos + c.n <= Len(f.file)
         THEN [f EXCEPT !.out = @ \o SubSeq(f.file, f.pos + 1, f.pos + c.n), !.pos = @ + c.n]
         ELSE [f EXCEPT !.hangs = TRUE]                                 \* fread gives 0 for ever
FileIO == [file |-> <<>>, pos |-> 0, next |-> 1, out |-> <<>>, hangs |-> FALSE]

-----------------------------------------------------------------------------
(* The bools of IOChannel, in memory at address p: bytes of one bool until *)
(* the address is aligned, then bytes of Align bools, and the rest again.  *)
(* A byte on the wire is the set of its one bits.                          *)

Raw(bools) == [i \in DOMAIN bools |-> IF bools[i] THEN {0} ELSE {}]
BadPacked(bools) == [i \in 1 .. (Len(bools) + Align - 1) \div Align |->
                       {b \in Ones(Align) : Align * (i - 1) + b < Len(bools)
                                            /\ bools[Align * (i - 1) + b + 1]}]
Packed(bools) == [i \in 1 .. Len(bools) \div Align |->
                    {b \in Ones(Align) : bools[Align * (i - 1) + b + 1]}]
send_bool_aligned(bools) ==
  Packed(bools) \o Raw(SubSeq(bools, Align * (Len(bools) \div Align) + 1, Len(bools)))
send_bool(bools, p) ==
  LET diff == Skip(p, Align)
  IN IF Fits1(p, Align, Len(bools))
     THEN Raw(SubSeq(bools, 1, diff)) \o send_bool_aligned(SubSeq(bools, diff + 1, Len(bools)))
     ELSE Raw(bools)

RecvBytes(n, p) ==                  \* how many bytes recv_bool reads
  LET diff == IF Fits1(p, Align, n) THEN Skip(p, Align) ELSE n
  IN diff + (n - diff) \div Align + ((n - diff) % Align)
recv_bool_aligned(wire, n) ==
  LET whole == n \div Align
  IN [i \in 1 .. n |-> IF i <= Align * whole THEN (i - 1) % Align \in wire[(i - 1) \div Align + 1]
                       ELSE 0 \in wire[whole + i - Align * whole]]
recv_bool(wire, n, p) ==
  LET diff == Skip(p, Align)
      raw(k) == [i \in 1 .. k |-> 0 \in wire[i]]
  IN IF Fits1(p, Align, n)
     THEN raw(diff) \o recv_bool_aligned(SubSeq(wire, diff + 1, Len(wire)), n - diff)
     ELSE raw(n)

(* utils.hpp: bools and the bits of a word, both ways.  data begins at     *)
(* data[0]; the reversed form of to_bool and from_bool goes from data[len] *)
(* down to data[1].  What is written past the end of an array is lost to   *)
(* it, and what is read there is whatever bool lies beyond it.             *)
bool_to_int(data, n) == {i \in Ones(n) : data[i + 1]}
int_to_bool(input, len) == [i \in 1 .. len |-> i - 1 \in input]
Place(i, len, reverse) == IF reverse THEN len - i ELSE i
to_bool(data, input, len, reverse) ==
  [d \in DOMAIN data |->
     IF \E i \in Ones(len) : Place(i, len, reverse) = d
     THEN \E i \in input \cap Ones(len) : Place(i, len, reverse) = d ELSE data[d]]
from_bool(data, beyond, output, len, reverse) ==
  LET read(d) == IF d \in DOMAIN data THEN data[d] ELSE beyond
  IN (output \ Ones(len)) \cup {i \in Ones(len) : read(Place(i, len, reverse))}
bool_to_block(data) == makeBlock(bool_to_int(SubSeq(data, 65, 128), 64), bool_to_int(data, 64))
block_to_bool(b) == int_to_bool(Lane(b, 64, 0), 64) \o int_to_bool(Lane(b, 64, 1), 64)
=============================================================================
