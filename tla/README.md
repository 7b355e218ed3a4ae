# Verification of osprey-emp-tool

The repository is a C++ toolkit for secure two-party computation: ALICE garbles a boolean
circuit, BOB evaluates it, and neither sees the other's input. `src/emp-tool/` is a
header library (a fork of EMP-toolkit), `src/emp_utils.cpp` seven database-like programs written
with it, compiled once with `PARTY 1` and once with `PARTY 2`, and `src/example_input.cpp`
the generator of their example inputs and expected outputs.

This directory holds TLA+ modules translated from that source, the TLC configurations that
check them on small instances, and TLAPS proofs for all values of the constants.

Contents: [1 Inventory](#1-inventory) · [2 Modules](#2-modules) · [3 Runs](#3-runs) ·
[4 Fairness](#4-fairness) · [5 Proofs](#5-proofs) · [6 Findings](#6-findings) ·
[7 Not modelled](#7-abstractions-and-what-is-not-modelled) · [8 Plan](#8-plan)

To check: `tlc -config X.cfg M.tla` for the pairs of section 3, `tlapm M_proofs.tla` for the
proofs. `PROJECT.json` ties every definition to the lines it translates, every
property to a mutant it must catch, and every hazard of the code to the properties that watch it.

## 1 Inventory

Paths are relative to `src/emp-tool/` unless they start with `src/`.

| component | state | operations | hard behaviour | what makes it correct |
|---|---|---|---|---|
| **HighSpeedNetIO** `io/highspeed_net_io_channel.h` | per direction: block buffer `buf`, `ptr`, `counter`, stdio FILE, socket; `FSM` | `send_data`, `recv_data`, `flush`, destructor | two unsynchronised processes, lazy flushing, padding that nobody announces, full pipes, end of file, SIGPIPE | bytes arrive in order; only padding is dropped; nobody waits with data in its buffers; closing leaves nobody behind |
| **Connection setup** `io/highspeed_net_io_channel.h:147-212`, `io/net_io_channel.h:33-76` | listeners, their queues, the sockets | listen, accept, connect with retry | the client may come before the server listens, or run ahead of it; a process is restarted | both sockets end up paired the right way round, and both parties get there |
| **IOChannel** `io/io_channel.h`, `utils/utils.hpp` | none | blocks, points, bools on top of bytes | bools before an aligned address and the last partial byte go unpacked | what is unpacked is what was packed |
| NetIO `io/net_io_channel.h` | one FILE, `has_sent` | the same interface; no program uses it | lazy flush | `sync` is a barrier |
| MemIO, FileIO `io/` | buffer, positions | the same interface; no program uses them | growing buffer, `clear`, end of file | bytes arrive in order, each once |
| **Half-gates** `execution/circuit_execution.h`, `utils/mh.h` | `delta`, labels of the constants, gate counter | `and_gate`, `xor_gate`, `not_gate`, `public_label` | the tweaks of both parties come from counters that nothing synchronises | the evaluator's output label is that of the plain value |
| **Semi-honest protocol** `execution/protocol_execution.h`, `emp-tool.h` | shared PRG, pool of correlated OTs `buf`/`buff`, `top` | constructors, `feed`, `reveal` | refill in the middle of a feed, three size cases, the round trip of a public reveal | labels encode values; results go to whom they are for; no message is taken for another |
| **Base OT** `ot/co.h` | exponents | `send`, `recv` | run with exchanged roles under IKNP | the receiver has exactly the chosen message |
| **IKNP, COT** `ot/iknp.h`, `ot/cot.h`, `utils/mitccrh.h` | seeds, PRG counters, hash key counter and start point | `setup`, `send_cot`/`recv_cot`, `send_check`/`recv_check`, `send`/`recv`, `send_rot`/`recv_rot` | remainders of batches, counters that must stay in step | blocks differ by delta where the choice bit is set; an honest run passes the check |
| **Integer, Bit** `circuits/integer.h`, `circuits/bit.h`, `circuits/swappable.h` | none (values) | arithmetic, comparison, select, swap, shifts | carries, overflow of comparison, division's edge cases | results of C's integers |
| **Sorting networks** `circuits/number.h` | rows being moved | `bitonic_sort`, `bitonic_merge`, `cmp_swap` | lengths that are no power of two; key and data move separately | sorted; rows whole |
| **AES, PRG, hashes** `utils/aes.h`, `aes_opt.h`, `prg.h`, `prp.h`, `crh.h`, `ccrh.h`, `tccrh.h`, `hash.h` | counters, buffers | key schedules, encryption of many blocks, `random_data`, `put`, ... | two key schedules and two platforms; batches with a rest; `Hash::put`'s buffer | AES is FIPS 197's; no keystream twice; many blocks are as one by one |
| **f2k, block** `utils/f2k.h`, `utils/block.h` | none | product and inner product in GF(2^128), transpose of bit matrices | reduction, lazily or not; tiles with rests | the product; every bit in its place |
| **ThreadPool** `utils/ThreadPool.h` | task queue, workers, `stop` | `enqueue`, destructor | stop against enqueue; lost wake-ups | accepted tasks run once, waiters return; never constructed here |
| **Programs** `src/emp_utils.cpp` | files, `output_data` | `encrypt_file`, the seven programs, `decrypt_file` | each party runs its own feed loop; record widths; batches | the answer to the query, at both parties |
| **Example generator** `src/example_input.cpp` | none | input and expected files | agreement with the programs | the programs' output is the expected file |
| sse2neon `utils/sse2neon.h` | none | SSE intrinsics on ARM | three builds for the same instruction | each gives what the instruction gives |
| Osprey headers, CMake | - | - | outside the repository, or without behaviour | - |

How they interact. `main` (`emp_utils.cpp:635`) opens a `HighSpeedNetIO` and calls
`setup_semi_honest`, which installs two globals per party: the circuit execution (half-gates) and the
protocol execution (feed, reveal). A program's `Integer` operations call the former gate by gate; a
garbled gate is one `send_data` of two blocks. `encrypt_file` and `decrypt_file` call the latter. A
feed of BOB's bits takes correlated OTs from the pool; a refill runs IKNP, which on
first use runs the base OTs. All of it goes through one channel, and **nothing on it says what a
message is or which call it belongs to**: both parties are the same straight-line program and
stay together because every counter (block position, gate number, PRG position, pool position, hash key) is advanced
alike at both. Most of the properties below say that it is.

The hazards, each at its line and with the properties that watch it, are listed in
`PROJECT.json`. They fall into these groups: deadlock by lazy flushing and by full pipes;
padding and block boundaries; connecting, restarts, death of a party and closing; counters that must stay in step; batches,
buffers and tiles with remainders; carries and overflows; sizes that are not powers of two; one instruction
on two platforms; threads that stop and wake; layouts written down in several places.

## 2 Modules

```
 ByteStream    <== implements ==  NetChannel  <-- NetChannel_proofs
 Connection <-- Connection_proofs              ThreadPool <-- ThreadPool_proofs
 ClearProgram  <== implements ==  SemiHonest
 Blocks <-- HalfGates <-- SemiHonest <-- SemiHonestMC
   |                          ^-- SemiHonest_invariant <-- SemiHonest_proofs
   +------- CorrelatedOT  <== implements ==  OTExtension <-- OTExtensionMC
                                                 ^-- OTExtension_invariant <-- OTExtension_steps <-- OTExtension_proofs
 BitonicSort <-- BitonicSort_proofs
 Words <-- Networks <-- Programs <-- EmpTool
   ^------ ExampleInput <--------------+
 Simd <-- Aes, GaloisField <-- Streams <-- Kernels <-- KernelsMC
  IntegerCircuits_proofs --> IntegerCircuits <-----+
```
(`<--` and `-->` are EXTENDS.)

**The justification runs bottom up.** Connection shows that two processes get connected the right way round, NetChannel that the channel is then two
byte streams. SemiHonest and OTExtension then take the stream as a sequence of messages.
OTExtension shows that IKNP implements CorrelatedOT; SemiHonest takes correlated OTs as that.
SemiHonest shows that labels encode what the plain circuit computes, and that all the parties see of it is ClearProgram, a plain
circuit; IntegerCircuits and EmpTool then compute in the clear. Kernels shows that what the protocols take as functions (AES, PRG, hashes, transpose, field product)
is computed as they take it. BitonicSort steps through the networks comparison by comparison; Networks has them as
functions for the programs.

### NetChannel, ByteStream

One process per party, with `send_data`, `recv_data`, `flush` and the destructor cut where they can block or where
the other process can act between: `fwrite` (`Push`: stdio keeps up to `StdioCap` bytes, the
kernels up to `WireCap`), `fread` (`Fread`: a whole block or end of file), a change of direction in
the middle of a call (`Turn`, `Turned`), the return of a call (`Return`). Bytes are their
ordinals, padding is `Junk`, so that any loss, repetition or reordering shows.

| TLA+ | code |
|---|---|
| `sbuf`, `out`, `pushed` | `schannel->buf` up to `ptr`; all that was passed to `fwrite` (its length is `counter`); how much of it stdio has written |
| `rbuf`, `rptr`, `want`, `taken` | `rchannel->buf`, `ptr`, what `recv_data` still has to deliver, what was `fread` |
| `fsm` | `FSM` |
| `Send`, `Recv`, `Turn`, `Turned` | `send_data_internal`, `recv_data_internal` and their branch on `FSM` |
| `Flush` | `flush()` and the destructor's flush, for ALICE sender first, for BOB receiver first |
| `Spin` | the loop of `recv_data_raw` at end of file (`fread` returns 0 for ever) |
| `BrokenPipe`, `Crash` | SIGPIPE on a write to a dead peer; a killed process |

`script` is the protocol: the k-th call of one party is the k-th of the other. Whoever is ahead
picks it, so that TLC tries every protocol of `MaxItems` calls. `pos` and `cnt` are auxiliary; they
record the stream offset each end *ought* to have before each call, and are what the proofs speak
about. ByteStream is what a program expects: two queues of bytes to append to and take from.

### Connection

The two constructors port by port (`Listen`, `Accept`, `CloseListener`; `Connect`, `Refused`, `Retry`) and a model of
one machine's network: a listener with a queue of `Backlog` and one more, as `listen(_, 1)` gives; a connect succeeds once there is room
in the queue, which may be before the `accept`; closing a listener drops what nobody accepted. `kind` chooses
HighSpeedNetIO, with a socket per direction, or NetIO, with one for both; for the latter `sync` is stepped through by
its calls (`SyncCalls`). A party that is not yet connected may be killed and started again (`Kill`).

### HalfGates, SemiHonest, ClearProgram

A block is the set of its one-bits (Blocks: `XOR`, `LSB`, `Mask`, `Active`). HalfGates has the
garbled tables and the evaluator's formula, with the hash as a parameter: for each tweak any
function from blocks to blocks. SemiHonest has one action for each operation of `HalfGateGen`,
`HalfGateEva`, `SemiHonestGen` and `SemiHonestEva` (`Gen...`, `Eva...`, and those where both do the
same). A feed of BOB's bits comes in the three ways of the code: within what is left of the
pool (`GenTake`/`EvaTake`), across a refill (`GenWrap`/`EvaWrap`), and longer than the pool
(`GenDirect`/`EvaDirect`); the garbler then waits for the corrections (`GenFlip`). A public reveal is
a round trip (`GenRevealPublic`, `EvaRevealPublic`, `GenRevealed`).

Three variables are history: `val` is the plain circuit; `mark[k]` what the program has done before its k-th call (gates, labels, bits fed by
BOB, pool refills, wires, reveals, messages to each party), computed from the calls alone; `stock` all OTs that were ever in the
evaluator's pool. No guard reads `mark` or `stock`; the proofs speak about them.

ClearProgram is what a user of both parties may rely on: calls decided by whichever party comes first, the values of the wires, how many
calls each party has completed (`done`), and what each has been given (`out`). It has no labels, tables, pools or messages. A party may
run ahead, but not with the result of a call that it cannot know without the other (`Second`): BOB's and gates, the feed of BOB's bits at ALICE,
a result it learns from its peer's permute bits.

### OTExtension, CorrelatedOT

The base OTs (`BobOffers`, `AliceChooses`, `BobSeals`, `AliceOpens`) over multiples of a
generator modulo `Order`; the extension block by block of `BlockSize` OTs with the last shorter
(`BobExtends`, `AliceExtends`), rows as blocks and `sse_trans` as `Columns`; then, for OTs of messages or
random blocks, the start point and the batches of `OTBatch` (`AliceStarts`, `BobStarts`, `AliceHashes`,
`BobHashes`) with MITCCRH's counter. In the malicious mode (`Modes`) each call is followed by 256 more OTs, the
combination of all by random coefficients, and the sender's comparison, with the field's product as a parameter (`GFMul`). CorrelatedOT is what the garbling protocol relies on: the
receiver gets any blocks, the sender the same with `delta` added where the choice bit is set.

`place` and `step` are history, for the proofs: where BOB was before each step of his extensions (`Noted`: the call, its phase, the OTs there were, the
PRGs' counter, the blocks sent, the choice bits of the OTs for the check), and which of these steps ALICE is at.

### Kernels: IntegerCircuits, Simd, Aes, GaloisField, Streams

Code without state between calls, or with a counter and a buffer, as operators over blocks of 128 bits; a behaviour of
Kernels takes one input (`op`, `x`, `y`) and runs one kernel on it (`res`).

- **IntegerCircuits.** `add_full`, `sub_full`, `mul_full`, `div_full`, `ifThenElse`, `condNeg` and the operators of
  `Integer` built from them, written gate by gate: what goes on from place to place is a recursive function of the place (`Carry`, `Borrow`, `Sums`, `Ripple`, `Rem`, `Shifted`),
  and the last carry is left out as in the code.
- **Simd.** What the vector instructions do, lane by lane, from how the code uses them, and sse2neon's way to do the same on ARM.
- **Aes.** FIPS 197 as the reference, next to `AES_set_encrypt_key`, `AES_opt_key_schedule`, `ParaEnc`, decryption, and
  the four ways in which an AES round is built: AES-NI, ARM with and without its AES instructions, and table look-ups.
- **GaloisField.** `mul128`, `reduce`, `gfmul`, the inner products, `uni_hash_coeff_gen`, packing; `sse_trans` as the set of the bytes it writes.
- **Streams.** PRG, whose keystream bytes are (counter, position); CRH, CCRH, TCCRH over AES; `Hash` as the order in which
  bytes reach SHA-256; MemIO, FileIO and the packing of bools, with the addresses and lengths that decide what is packed.

### ThreadPool

A section under the lock is one step: the predicate before each sleep (`Sleep`, `Take`), `enqueue` (`OwnerEnqueues`,
`TaskEnqueues`), the destructor (`Stops`). Notifications come after the lock is released and are steps of their own
(`NotifyOne`, `NotifiesAll`); sleepers may wake without one (`Spurious`). The owner may wait for a future.

### BitonicSort, Networks

`todo` is the call stack of `bitonic_sort`/`bitonic_merge`; `Descend` replaces a call by the calls of
its body, `CmpSwap` does one comparison and exchange. The copy for one-bit keys in `emp_utils.cpp` is
the comparison `cmp = "valid"`. Networks has the same two algorithms as functions from rows to rows.

### EmpTool, Programs, ExampleInput, Words

EmpTool is `main` at both parties: `Encrypt` one feed of a party's loop in `encrypt_file`, with the slot of
`output_data` it goes to; `Compute` the program; `DecryptBatch` one batch of `decrypt_file`. `job` is how the parties are
started: `"example"` and `"random"` on the generator's files, `"table"` on any small tables, `"mixed"` on files of other sizes
than the problem size. `Astray` ends a run in which one loop feeds what the other does not, or the vectors have two sizes: from there on a party
reads what was never meant so. Programs has the seven programs as functions of words, ExampleInput the generator's files.

Operators named `Bad...` are variants with a seeded fault. No specification uses them; each stands before the
operator it varies and serves to show that some property notices the fault.

## 3 Runs

| run | module, cfg | shows |
|---|---|---|
| `channel` | NetChannel_proofs, NetChannel.cfg | order, dropped padding, flushed waits, clean closing, refinement of ByteStream, termination, the proofs' invariant, and what becomes of the survivor of a crash |
| `connection` | Connection, Connection.cfg | sockets pair, sync is a barrier, both parties get connected; with restarts |
| `garbling` | SemiHonestMC, SemiHonest.cfg | gates, feeds below, at and above the OT pool, reveals; refinement of ClearProgram; programs of three and four calls |
| `ot_extension` | OTExtensionMC, OTExtension.cfg | base OTs, IKNP in both modes, COT; refinement of CorrelatedOT; termination |
| `kernels` | KernelsMC, Kernels.cfg | circuits of Integer, AES, field, transpose, hashes, PRG, buffers and packing against what they are to compute |
| `sorting` | BitonicSort, BitonicSort.cfg | both networks on all 0-1 inputs |
| `programs` | EmpTool, EmpTool.cfg | three programs on example and random files, and on files of sizes that do not agree; three on all small tables |
| `thread_pool` | ThreadPool, ThreadPool.cfg | tasks run once, nobody waits for ever |
| `merge_any_size`, `comorbidity`, `example_layout`, `arm_aes` | see section 6 | disagreements of code with comments and example files |

### Properties

- **NetChannel.** `InOrder`: received is sent, byte by byte. `DropsOnlyPadding` (action property): what a change of
  direction throws away is padding. `WaitsFlushed`: a party waiting in `fread` holds back nothing.
  `CloseIsClean`: a closed party has read all its peer writes and written all its peer reads.
  `ImplementsByteStream`. `Termination` (if nobody is killed). `IInv`: the inductive invariant of section 5, also with killed parties. `CrashFate`: after a crash the survivor
  ends, is killed by SIGPIPE, or spins in the read loop, and blocks nowhere else.
- **SemiHonest.** `LabelsMatch`: the two labels of each wire differ by delta exactly if its plain value is 1.
  `ImplementsClearProgram`: each reveal gives the plain value to whom it is for, nothing to the other, and shares to both
  for XOR, in the program's order, and nobody learns a value before the other party has come to that call. (`OutputsCorrect`, the part of it that is an invariant,
  is what the proof goes by.) `ReadsItsOwn`: a party that waits finds the message it waits for, of its length. `InStep`: at the
  same call all counters, the pool and the streams agree. `Termination`.
- **OTExtension.** `ImplementsCorrelatedOT`: blocks differ by delta where the choice bit is set. `Transferred`: the receiver opens
  what it chose and nothing else. `HonestPasses`: the malicious mode's check accepts an honest run. `InStep`: all counters and seeds
  agree between calls. `Termination`.
- **Connection.** `SocketsPair`: what one sends to, the other receives from; `SyncIsBarrier`; `Connects`.
- **ThreadPool.** `EachOnce`: accepted tasks run once, refused ones never; `Returns`: futures are got and the destructor returns.
- **Kernels.**
  - `RingOfResidues` (+, -, * and the moves); `SignedAsC` (/, %, comparisons: as C's integers, for every non-zero divisor, the least number included).
  - `AesIsFips`: both key schedules and encryption under several keys at a time are FIPS 197's, and decryption undoes it.
  - `IntrinsicsAgree`: each emulation of an instruction gives what the instruction gives.
  - `FieldProduct`: gfmul, coefficients, inner products (reduced at once or late) and packing against polynomials modulo x^128+x^7+x^2+x+1.
  - `Transposes`: every byte of the output is written once and every bit goes to its place.
  - `HashesEach`: many blocks at once are the blocks one by one.
  - `KeystreamOnce`: no byte of a PRG's keystream is given out twice, however calls are mixed.
  - `DigestOfStream`: every byte put is hashed once, but only the first half of blocks given to `put_block`, where
    `sizeof(block)` is that of the pointer parameter of this name (`hash.h:35-36`); in order, unless a piece longer than the buffer overtakes what is in it (`Overtakes`;
    `hash.h:24-25` feeds it to SHA-256 first).
  - `BytesArrive`: bools come out as they went in and the receiver reads as many bytes as were sent, if both arrays are cut alike (`Cut`), whatever
    their addresses. Words through bools come back; with `reverse` all but the first bit does, which is written and read past the end of the array
    (section 7). Bytes through FileIO arrive in order without a gap; through MemIO in order, each at most once, and with a gap of known length
    after a `clear`, which leaves `read_pos`: as many bytes as were received since the last load.
- **BitonicSort.** `Sorts`, `MergeSorts`, `RowsWhole`, `TypeOK` (no comparison leaves the array).
- **EmpTool.** `SameFeeds`: each feed is the same party's word at both; if the larger and the smaller of the two sizes each party goes by are the other's too
  (`Alike`), the loops never go astray, each word has one slot at both, and the programs find ALICE's words, zeros up to the larger size, and
  as many of BOB's words as the smaller; both files whole, if sizes and files agree (`Agreed`). BOB's file may have more words than he goes on with: the rest is fed and dropped.
  `MatchesExpected`: the example files' expected output; on random files the exact sums, which are the expected ones
  as far as 16 bits hold them, and just the users who match, in the places expected if the rows are a power of two. `AnswersQuery`: the query's answer, stated
  independently of the algorithm.

### Bounds, and why they are enough

- **Channel.** `B = 2`, lengths 0, 1, 2, 5: empty, less than a block, a block, more than two; each position within a block
  is reached by repetition. Three calls allow a change of direction with something before and after, and an explicit flush.
  `StdioCap = 1` and `WireCap = 2` are smaller than a message, so that a longer `fwrite` is cut by the peer's progress. Each party may be killed at
  any point. The proofs remove these bounds for safety.
- **Connection.** `Backlog = 1` is the code's. One restart of each party, two calls of sync: the barrier is about neighbouring calls.
- **Garbling.** Width 2: the permute bit and another one, so that delta may equal or exceed the permute bit. The gate
  hash is a fixed function of gate number and label that differs between gates; AndGateCorrect is
  for any. Pool of two with feeds of one to three: below, at and above the pool, at every position of `top`, with a
  refill before, in and after a feed. The eight shapes of programs have three feeds in a row, a gate on a gate's output, its reveal
  to each party, and a feed after two reveals.
- **OT extension.** Rows of two bits, extension blocks of four OTs, hash batches of two, lengths 1, 4 and 7: shorter than a row's
  block, exactly an extension block, a block and a remainder that neither divides. Two calls in any order of kinds, so that
  the second starts from any counters the first may leave. All deltas, every exponent of the offer, group of order 3, the field of
  four elements; with and without the check.
- **Kernels.** Integers: all operands up to five bits; the circuits treat all inner places alike, so the first, the last and the
  sign place with inner places between them are all there is. Five bits also make log2 of the width inexact for shifts. Blocks have
  their 128 bits. A product is linear in each factor: products of single bits (every bit with 0, 63, 64 and 127, the ends of
  the two halves) and of two dense blocks. Transpose: shapes that end in each of its three kinds of tiles, one bit at a time, as it
  is linear. AES, which is not: two dense blocks as key and text, in both orders. Batches of two, a hash buffer of three bytes, blocks of four
  bytes in Streams; all scripts of three calls with lengths 0, 1, 3, 9: none, less than, as much as and several times what a
  buffer, a block or a batch holds, at each misalignment. Scripts of MemIO have up to five calls: send, receive, clear, and again send and
  receive. Bools: all arrays of up to nine, which are three groups, at every pair of addresses modulo the group.
- **ThreadPool.** Two workers, so that one may take the other's wake-up; two tasks of the owner and one that a task
  enqueues, before or after the pool stops. The proofs are for any numbers.
- **Sorting.** A comparison network sorts all inputs if it sorts those of zeros and ones (0-1 principle), so keys {0, 1}
  do. Sizes 0 to 9 and merges up to 16.
- **Programs.** Words of eight bits stand for 32, `KTop = 2` for 10, `Ratio = 2`, batches of three words, which
  divides some results and not others. The eight bits of a random draw are two here and the 16 of an expected sum four: all draws are taken, for matrices
  of one and two rows (the sum of two products already exceeds four bits, as it does 16) and one to six users. Sizes that do not agree are one, two and four records at either party
  and in the problem size, in all combinations: loops of different lengths with either party ahead, vectors of two sizes after loops of one length, and
  loops that agree and drop words. Tables have one or two records from each party with keys out of four, in all
  combinations of keys and values: each table has a power of two of rows, because of the first finding below.

Deadlock is checked in every run but `connection` and `thread_pool`, where the code modelled simply ends; there `Connects` and
`Returns` say that it ends where it should. Elsewhere the end is an explicit `Terminated` (or `Done`, `Ran`) step.

## 4 Fairness

`FairSpec` is `Spec` with weak fairness of `PartyStep(p)` for each party. A party is a process with one thread that
the operating system keeps scheduling; whenever it can go on it does. Delivery
is part of it: a write that fits and a read that is served are steps of the process, and TCP neither loses nor
reorders. Nobody is made to crash (`Crash` has no fairness) and no choice of message is
favoured. A party that waits in `fread`, or in `fwrite` on a full pipe, has no step enabled, so fairness hides no deadlock.

Connection assumes the same of `Step(p)`: a process that is scheduled, with `Kill` left out. A refused client's sleep
and retry are steps of it. ThreadPool assumes weak fairness of each worker and of the owner (`Owns`): the
operating system runs every thread that is not asleep. `Spurious` has none, so no wait is ended by luck.

## 5 Proofs

| theorem | says, for all values of the constants |
|---|---|
| NetChannel_proofs `Invariance` | `Spec => []IInv` |
| `TypeCorrect`, `ChannelInOrder`, `ChannelWaitsFlushed`, `ChannelCloseIsClean`, `ChannelNoBrokenPipe`, `ChannelDropsOnlyPadding` | the safety properties of the same names |
| `ChannelImplementsByteStream` | `Spec => ByteStream!Spec` |
| SemiHonest_invariant `XorGateCorrect`, `AndGateCorrect` | a gate's output label encodes the plain output, for any width, hash, labels and values |
| SemiHonest_proofs `Invariance`, `TypeCorrect` | `[]IInv`, `[]TypeOK`, for any program of any length, any pool size, width, hash, PRG and OT outputs |
| `Matching`, `Computes` | `[]LabelsMatch`; `[]OutputsCorrect` |
| `StaysInStep`, `ReadsWhatIsMeant` | `[]InStep`; `[]ReadsItsOwn` |
| `ProtocolImplementsClearProgram` | `Spec => ClearProgram!Spec`, with `done` as the calls completed |
| OTExtension_proofs `Invariance`, `TypeCorrect` | `[]IInv`, `[]TypeOK`, for any calls, width, extension block that is a multiple of it, hash batch, group order, PRGs and field product |
| `ChecksPass`, `Transfers`, `StaysInStep` | `[]HonestPasses`; `[]Transferred`; `[]InStep` |
| `ExtensionImplementsCorrelatedOT` | `Spec => CorrelatedOT!Spec` under the refinement mapping of `Ideal` |
| Connection_proofs `Invariance`, `ConnectionsPair`, `SyncIsABarrier` | `[]IInv`; `[]SocketsPair`, `[]SyncIsBarrier`, for any backlog, number of syncs and of restarts |
| ThreadPool_proofs `Invariance`, `PoolRunsEachOnce` | `[]IInv`; `[]EachOnce`, for any workers and tasks |
| BitonicSort_proofs `TypeCorrect` | no comparison leaves the array, for any number of rows |
| `RowsStayWhole` | no row is torn, lost or doubled, for any keys and sizes |
| `SortsAnyInput` | `[]Sorts`: both networks sort, for any integer keys, any number of rows, either direction |
| `MergesPowersOfTwo` | `[]MergeSorts`, for any integer keys and any powers of two of rows |
| IntegerCircuits_proofs `CircuitsCompute`, `ComputesResidues`, `ComputesAsC` | `[]IInv`; `[]RingOfResidues`; `[]SignedAsC`, for Integers of any width |

**The channel.** Assumed is `ChannelAssumption` only: a block of at least one byte, a wire of at
least one byte, any stdio capacity, any message lengths, crashes or not. `InOrder` is not inductive: that what is read now is right depends on
both ends agreeing, without a word, on where in the stream the next message starts. `IInv` says so:

- `TypeOK`, and `Layout`: `pos` and `cnt` follow from the script by the rules of padding (`Offset`, `Count`);
- `Monotone`: offsets and counts grow along the script, so an end that is behind is behind in bytes;
- `CloseIsLast`: nothing is decided after the close;
- for each party: `AtItem` (pc, direction and call go together), `Sender` (what it has written ends at the offset of
  its call), `Content` (each byte of the stream is the ordinal or the padding the script gives at that offset),
  `Receiver` (`rbuf` is a copy of the block of the peer's stream that ends at `taken`, and the next byte to serve is the one at
  the offset of its call) and `Delivered` (the i-th byte it returned is the i-th its peer sent).

Each action has a lemma that preserves each of these. `ChannelDropsOnlyPadding` follows because between the count a receiver is
at and the next block boundary `Content` only has padding; `ChannelWaitsFlushed` and
`ChannelCloseIsClean` from `AtItem` and `Sender`; the refinement maps `Send` to an append, the
serving of `recv_data` to a take and all else to a stutter. `IInv` is also an invariant of the run `channel`.

**Half-gates.** The and gate is the xor of two half gates. For the garbler's half the evaluator's hash is one of the
two the row was made from, selected by its permute bit; likewise for the evaluator's half with the label xored in;
the last step regroups the xors. The periodic hashes of the run play no part: `Hashes` is arbitrary.

**Sorting networks.** `TypeOK` restricts the pending calls to those inside the array, so its invariance is that every body's calls stay in the
caller's range; for the merge this needs that a greatest power of two below n exists, which is proved by a
minimal counterexample over the well-founded order of the naturals. `RowsWhole` is inductive relative to it.

`Sorts` speaks of the end of a recursion, and what makes it inductive is what the calls still on the stack are for. `Keeps(c, k, l)` says what
the call c may make of the keys k: a sort puts its rows in order, a merge does so if they are `Mergeable`, a
comparison orders its two keys, and none touches a row outside its own. `PromiseKept`: every
sequence of keys in which each pending call keeps to that ends sorted. A step of `Descend` preserves it because the calls of a body do
together what the call is for (`SortKeeps`, `MergeKeeps`), one of `CmpSwap` because it does what a comparison may (`CmpSwapKeeps`; for the
one-bit network this needs that the keys stay 0 and 1, by `RowsWhole`).

That a merge's body merges is the 0-1 principle inside the proof: at a threshold t a set of rows is behind t, and rows are mergeable if at every
threshold this set is a `Valley` (both ends of the segment), or, for a power of two of rows, a valley or a `Hill` (the middle). The comparisons across m leave
the near part with a valley or a hill, for which m is a power of two, and the far part with a valley (from a hill: either, and it too has m rows);
and a single row behind t in the near part means that the whole far part is (`ValleyPulled`, `HillPulled`). Two halves sorted in opposite directions are a valley at
every threshold, for any n, so `bitonic_sort` needs no power of two. Keys that ascend and then descend are a hill, so the programs' single merge does. That twice a
power of two is one, which the solver does not know of `^`, is derived from the library's theorem on the number of subsets of a set.

`Covered` keeps the hypothesis on sizes out of the invariant: `MergesPowersOfTwo` assumes that all of `MergeSizes` are powers of two, as in the run `sorting`; the run
`merge_any_size` shows that it cannot do without. What a body's calls do together (`SortKeeps`, `MergeKeeps`) was checked by TLC for all calls on up to four rows before it was proved.

**Circuits.** The width is the only constant, and it is any positive number. Each circuit goes from place to place, so what is proved of it is an invariant of its places,
from the truth table of one place (`AddPlace`, `SubPlace`, `NegPlace`): the values of the places passed, and the carry at its weight, are what
has been added, subtracted or negated so far. A place of the multiplication adds what that place of b is worth of a, short of a multiple of 2^n (`AddedFacts`), so the
sums are congruent to the product of the places of b so far. A place of the division takes the divisor, shifted to it, if it fits (`FitsFacts`),
and leaves less than that (`RestFacts`); so when all places are done the rest is less than the divisor, and the quotient
is the one there is. A shift by the bits of a number divides place by place, and the places that it does not look at are 0 if the number is less than the width.
The signed operations follow from the unsigned ones and from where the top bit puts a number; the least number, whose `abs` is read without a sign, needs no
case of its own. Recursion over the places is brought under the provers by existence (`Recursion`, by a minimal counterexample): a function that meets
the equations of the definition exists, so the CHOOSE behind a recursive function gives one. `IInv` is no more than the operands' type and the two properties, since
each operation is one step from the operands.

**Connecting.** `SocketsPair` is about the end of both constructors; on the way there it is the queues that have to be known. `Paired`
says, as long as the client was never killed: a queue holds at most the client's own connection of that port, and only of a
port it is done with; the server's socket, where it has one, is the client's of the same port; and a server
that is past a port has a socket for it. `Placed` gives where both constructors can be, `Conserved` counts for NetIO: what is in a party's FILE, on the
wire and already read by its peer is no more than it has sent, so that what is read in the n-th sync was sent in an n-th.

**Thread pool.** `EachOnce` needs to know where an accepted task is: `Once` (no task is in two places: twice in the queue, at two
workers, or there and already run), `Placed` (an accepted task is in the queue, at a worker, or has run; no other is anywhere),
`Emptied` (a worker holds a task exactly while it runs it, and one that has left found the pool stopped and the queue
empty, which then stays so, since `enqueue` throws).

**The garbling protocol.** Assumed is `SemiHonestAssumption`: PRG and OT outputs are sequences of blocks that repeat, the pool holds
at least one OT, shapes are made of the operations. `LabelsMatch` alone is not inductive. That an and gate's
label is right depends on the table in the stream being the one garbled for this gate, with this number, from these labels; that a
label fed by BOB is right, on the correction that the garbler reads being the one for the OTs she takes from her pool. Either
party may be many calls ahead, as messages and nothing else keep them together. `SemiHonest_invariant!IInv` therefore says of each call what it has
done, whichever party has got to it:

- `Positions`, `Program`, `Monotone`: where the parties are; each mark follows from the one before it and the call; marks grow;
- `Counters`: each party's gate number, PRG and pool position and its wires are those of the mark of its call;
- `Queues`: how many messages to each party there have been and how many it has taken, from the marks;
- `Constants`, `Greetings`: the constructors, and what of theirs is still on the way;
- `Contents`: what each message on the way holds, from the call that sent it (`ToBob`, `ToAlice`);
- `Pool`: both pools are the same stretch of `stock`, the garbler's with delta added where the choice bit is set;
- `Labels`, `Outputs`: the labels of each wire and the bits of each reveal, at the party that has them.

Each action has a lemma for its step. A call that is complete in one step is handled by `Completes`: the
lemma of the action only shows that its messages, labels and outputs are those that the call is to make. `AndGateCorrect` gives the label of an and gate.
`LabelsMatch` and `OutputsCorrect` are then conjuncts of `IInv` at the calls that both parties have made, `InStep` is `Counters` and
`Pool` at one mark, and `ReadsItsOwn` follows from `Queues` and `Contents`.

For the refinement of ClearProgram, an action that completes a call is the abstract `Complete` of it; the garbler's first half of a feed or a public
reveal is `Begin`, if she is the first to come to that call, and otherwise a stutter; the constructors are stutters. The result that `Complete` gives is right by
`OutputsCorrect` of the next state. Its order is right because a party that finds a message is behind the sender (`FindsLater`): the
marks count the messages of each call, and the first one that has not been read is not of a call before that of the party (`Ahead`).

**Oblivious transfer.** Assumed is `OTAssumption`: types, positive sizes, an extension block that is a whole number of rows' blocks (2048 and 128 in the
code), seeds that the PRGs know, calls of at least one OT. Of `GFMul` only its type is assumed: the coefficients may be
anything as long as both parties compute the same. `OTExtension_invariant!IInv`:

- `Positions`: pc, call and results go together, and neither party is in the error state, which is `HonestPasses`;
- `BaseOT`: the offer, the points and the sealed seeds on the way, so that ALICE has of each pair of BOB's seeds the one that her bit of delta chooses;
- `Places`: each place follows from the one before it; the parties' PRG counters are those of their places;
- `ToAlice`: what the stream holds of each step that ALICE has not come to: rows with BOB's outputs and choice bits, or the four blocks of the check;
- `Columned`, `Correlates`: BOB's blocks are the columns of his PRGs' outputs, ALICE's are the same with delta added where the choice bit is set;
- `InTurn`: how far the parties may be apart while they hash, and that their counters then agree;
- `ToBob`, `Resulted`: the ciphertexts on the way, and what both have got of them.

`HonestPasses` needs most of it, since the check sees what all steps of the call have made. Its core is the
algebra of `InnerProduct`, a set of bit positions that an odd number of pairs hit: to flip one block by delta adds delta times its coefficient
(`Odd` of a symmetric difference, by cardinalities), and by induction over the blocks, here a minimal counterexample, ALICE's sum is BOB's plus delta times
his combination of choice bits. `Transferred` follows from `Resulted`, `InStep` from `Places`, `InTurn` and the
empty streams. For the refinement, the step that completes a BOB extension is the abstract `Take` of a call, ALICE's is the
`Give`, which by `Correlates` gives what CorrelatedOT allows; all else is a stutter.

The proof uses that most actions leave most of the invariant alone: `Quiet` steps change nothing of the extensions, `Resting` ones nothing of the
hashing, and one lemma each says what is kept. A step of an extension is a `BobMoves` or an `AliceMoves`, which keep `Places` and what
lies in the stream whatever was sent, and a step of hashing a `HashStep`.

Both inductive invariants were checked by TLC as invariants of the instances of `garbling` and `ot_extension` before they were proved. They are not among
the properties of these runs, as the theorems cover them and what follows from them is checked there.

**What stays with TLC**: `Termination` of all modules, `Connects`, `Returns` and `CrashFate` (liveness, ENABLED); the other properties
of Kernels, about fixed tables and bit patterns (AES, the field, the transpose) or folds over scripts of calls;
all of EmpTool, whose programs are recursive functions of their files.

## 6 Findings

1. **`merge_any_size`** (BitonicMerge.cfg). `aspirin`, `password`, `merge_sorted` and `comorbidity` sort ALICE's ascending and BOB's
   descending rows by one `bitonic_merge`; the comment at `src/emp_utils.cpp:306-307` says that this sorts. It does so if the number
   of rows is a power of two. Otherwise the merge, which halves at the greatest power of two below n, sorts a valley
   but not a hill; six rows suffice. `comorbidity`'s 1001·M rows are never a power of two. On the generator's random files for `password`
   the users shown are the right ones but not in the places the expected file has them: three users with hashes 0, 0, 1 give 1, 0, 0, 0, 2 where
   it says 1, 0, 2, 0, 0 (`MatchesExpected` of `programs` says what holds).
2. **`comorbidity`** (EmpToolComorbidity.cfg). The program takes the first of two adjacent rows with one patient for ALICE's, because
   "cmp_swap is stable" (`src/emp_utils.cpp:534-535`). A comparison network over distances is not stable, and BOB's row, whose
   diagnosis is the placeholder 0, may come first. The expected counts of `example_input` are missed; with the constants of the
   code the same happens at M = 66.
3. **`example_layout`** (EmpToolLayout.cfg). `merge_sorted`, `full_sort` and `loop_join` step by four words, the files of
   `example_input` have records of five (`full_sort`: sixteen). None of the three yields its expected file.
4. **`arm_aes`** (KernelsArm.cfg). ARM's `vaeseq_u8` adds its key before the substitution, so the last round must add one key more after it. On aarch64 both
   `AES_ecb_encrypt_blks` (`src/emp-tool/utils/aes.h:130-132`) and `ParaEnc` (`aes_opt.h:115-117`) add round key 9 there and never use round key
   10. What PRG, CRH and the garbling hash compute on ARM is not the AES that `crh.h:11` and `src/README.md:23` speak of, and a
   party on ARM and one on x86 expand a seed to different blocks. Of the same kind is `_mm_aesdec_si128` for ARM (`block.h:11-14`), which adds the key
   before the columns are mixed; nothing decrypts.

## 7 Abstractions, and what is not modelled

- **NetChannel.** `WireCap` stands for both kernels' buffers and for the reading side's FILE buffer. Padding has no value, so
  that the sender reads it from beyond `buf` (`highspeed_net_io_channel.h:63`) has no effect here. The mode that talks to
  /dev/null is left out, as it talks to nobody.
- **Connection.** The 2 ms between the server's two ports are any time. What is killed is a party that is not yet connected; afterwards that is
  NetChannel's. With a killed client nothing is claimed of the pairing: the server may accept what the dead client left in a queue, and the code does not notice.
- **SemiHonest.** The net has one element for each `send_data`. PRG and OT outputs are periodic sequences of blocks: no property
  depends on their secrecy. The base OTs and the first refill come first even where the code would be lazy. `set_batch_size` is
  not called by anything; `setup_semi_honest` ignores its `batch_size`.
- **Secrecy** is not a property of these models; they are about correctness and agreement of the parties.
- **OTExtension.** Hashes and key derivation are records of their input; a wrong key opens `Junk`. The rows of one extension
  block, sent one by one, are sent in one step. Both parties follow the protocol: the check of the malicious mode is modelled for
  what it does to an honest run, not for what it detects.
- **Kernels.** SHA-256 and the elliptic curve are OpenSSL's. `to_bool` and `from_bool` with `reverse` go from `data[len]` down to `data[1]`
  (`utils.hpp:60`, `72`), while their comments speak of "the first len bools" (`utils.hpp:54`, `64`). The model gives them an array of just `len` bools: what is
  written past its end is lost to it, what is read there is any bool. So of a reversed word the first bit does not come back and `data[0]` is not set, which
  BytesArrive states. No caller in the repository passes `reverse`, and none calls `send_bool` or `recv_bool`. `put_block` (`hash.h:35`), which takes the size of a pointer for that of a block, is
  called by nothing; it is modelled as it is. In BytesArrive a FileIO that reads past its end hangs, as `fread` returns 0 for ever.
- **ThreadPool.** Tasks do not throw; a task that waits for another's future, which can exhaust any pool, is not among the tasks.
- **IntegerCircuits.** Not modelled: `operator<<`, whose unsigned loop index never becomes negative (`integer.h:349`), `modExp` and
  unary minus; no program instantiates them.
- **BitonicSort.** Keys are ordered as `Integer`'s signed `>` orders them; an `Integer` with the top bit set is below zero.
- **EmpTool.** A read past the end of a vector gives a word that is either 0 or all ones; writes past the end are dropped. Tables have
  different keys at the two parties except `password`'s. What the parties do to each other once they are astray is not modelled. The sums that
  `example_input` expects of random matrices are taken modulo 2^16 (`src/example_input.cpp:171-177`), those of the program modulo 2^32
  (`src/emp_utils.cpp:375-382`), so the expected file is wrong as soon as a sum has more bits: `MatchesExpected` asks for the exact sum. The comment at
  `src/emp_utils.cpp:592-593`, that valid rows always outrank the others, does not hold under the signed comparison; the model computes what the code does, but it shows
  only if fewer than M rows match, which no example has. `full_sort`'s shuffle and
  `matrix_multiply`, for which `emp_utils` has no program, are left out, and so is reading and writing the files.
- **Not modelled**: messages over NetIO other than sync's (no program has any), `set_batch_size`, the intrinsics of sse2neon that the library does not reach, Osprey's allocator and
  address tracking (outside the repository), build files.

## 8 Plan

Done, in this order (the most basic agreement between the parties first): NetChannel with ByteStream and proofs; HalfGates,
SemiHonest; BitonicSort with proofs; Programs and EmpTool; OTExtension with CorrelatedOT; IntegerCircuits; then Connection and ThreadPool
with proofs; the check of the malicious mode; Simd, Aes, GaloisField, Streams and Kernels.

Then the proofs about SemiHonest, by an inductive invariant over the calls of the program, and about OTExtension, with its refinement of CorrelatedOT;
then that the sorting networks sort, SemiHonest's refinement of ClearProgram, and that the circuits of Integer compute what they are to at every width.

Next:
1. EmpTool: `SameFeeds` for any files and sizes, which needs the feed loops apart from the recursive programs;
2. Kernels: what batches and buffers do to any script of calls (`KeystreamOnce`, `DigestOfStream`, `BytesArrive`), as an invariant over the calls.
