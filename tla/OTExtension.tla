---------------------------- MODULE OTExtension -----------------------------
(***************************************************************************)
(* Oblivious transfer (ot/): ALICE is the sender, BOB the receiver.        *)
(*                                                                         *)
(* IKNP makes any number of correlated OTs from Width base OTs (OTCO).  In *)
(* the base OTs the roles are swapped: BOB has two seeds for each row and  *)
(* ALICE gets the one the row's bit of delta chooses.  Then both expand    *)
(* their seeds, block by block, with PRGs whose counters nothing but the   *)
(* same sequence of lengths keeps together.  COT turns correlated OTs into *)
(* OTs of messages (send, recv) or of random blocks (send_rot, recv_rot)   *)
(* with a hash, MITCCRH, whose key counter is in step likewise.            *)
(*                                                                         *)
(* net[p] is the stream to p, of points, ciphertexts and blocks; a         *)
(* recv_data takes as many as it needs, whatever calls sent them.  A point *)
(* is the multiple of the generator it is.  Encryption by xor with a hash  *)
(* is a record of the hash's input and the message: another input gives    *)
(* Junk.                                                                   *)
(*                                                                         *)
(* A malicious IKNP makes 2 * Width more correlated OTs per call, and ALICE*)
(* checks a random combination of all of them.                             *)
(*                                                                         *)
(* An operator named Bad... is the one after it with a seeded fault; it is *)
(* used nowhere, and shows that the properties notice such a fault.        *)
(***************************************************************************)
EXTENDS Blocks, FiniteSets

CONSTANTS BlockSize,   \* IKNP::block_size, the OTs made at once
          OTBatch,     \* ot_bsize, the OTs hashed at once
          Order,       \* the order of the group
          Streams,     \* Streams[k]: the output of a PRG with the seed k
          Delta,       \* the values of COT::Delta
          Seeds,       \* bound: what random_block gives for k0 and k1
          Exponents,   \* bound: what get_rand_bn gives for each row
          Starts,      \* bound: what random_block gives for MITCCRH
          GFMul,       \* gfmul, the product of two blocks
          Modes,       \* the values of IKNP::malicious
          Chosen,      \* bound: the choice bits random_bool gives for the check
          Combiners,   \* bound: what random_block gives for its seed
          Calls,       \* bound: the calls of a program
          MaxCalls     \* bound: how many it makes

Rows == 0 .. Width - 1
Junk == <<>>

ASSUME OTAssumption ==
  /\ BlockSize \in Nat \ {0} /\ BlockSize % Width = 0
  /\ OTBatch \in Nat \ {0}
  /\ Order \in Nat \ {0}
  /\ Junk \in DOMAIN Streams
  /\ \A k \in DOMAIN Streams : Streams[k] \in Seq(Block) /\ Streams[k] # <<>>
  /\ Delta \subseteq Block
  /\ Seeds \subseteq [Rows -> DOMAIN Streams]
  /\ Exponents \subseteq [Rows -> 0 .. Order - 1]
  /\ GFMul \in [Block \X Block -> Block]
  /\ Modes \subseteq BOOLEAN
  /\ Chosen \subseteq [1 .. 2 * Width -> BOOLEAN]
  /\ Combiners \subseteq Block
  /\ Calls \subseteq [kind : {"cot", "ot", "rot"}, r : Seq(BOOLEAN) \ {<<>>}]
  /\ MaxCalls \in Nat

Party == {"ALICE", "BOB"}
Peer(p) == IF p = "ALICE" THEN "BOB" ELSE "ALICE"

VARIABLES
  malicious,
  delta,   \* ALICE's Delta; the bits of it are s
  secret,  \* secret[p]: the exponents of p in the base OTs
  keys,    \* BOB's k0 and k1, and ALICE's k0
  script,  \* the calls agreed so far
  at,      \* at[p]: the call p is at
  pc,      \* where p is in it
  net,     \* net[p]: what has been sent to p and not received
  used,    \* the counters of the PRGs: ALICE's G0, BOB's G0 and G1
  place,   \* history, where BOB was before each step of his extensions
  step,    \* history, which of them ALICE is at
  gid,     \* gid[p]: MITCCRH's counter
  start,   \* start[p]: MITCCRH's start_point
  data,    \* data[p]: the blocks, then the results, of the call so far
  local,   \* local_out of each party, and BOB's local_r
  cot,     \* cot[p]: history, what each send_cot or recv_cot gave p
  out      \* out[p]: history, the results of each call

base == <<malicious, delta, secret, keys>>
prg == <<used, place, step>>
vars == <<base, script, at, pc, net, prg, gid, start, data, local, cot, out>>

Init == /\ malicious \in Modes
        /\ delta \in Delta
        /\ secret = [p \in Party |-> <<>>]
        /\ keys = [a |-> <<>>, k0 |-> <<>>, k1 |-> <<>>]
        /\ script = <<>>
        /\ at = [p \in Party |-> 1]
        /\ pc = [p \in Party |-> "setup"]
        /\ net = [p \in Party |-> <<>>]
        /\ used = [a |-> 0, g0 |-> 0, g1 |-> 0]
        /\ place = << [k |-> 1, phase |-> "extend", done |-> 0, from |-> 0, pos |-> 0, r |-> <<>>] >>
        /\ step = 1
        /\ gid = [p \in Party |-> 0]
        /\ start = [p \in Party |-> 0]
        /\ data = [p \in Party |-> <<>>]
        /\ local = [ALICE |-> <<>>, BOB |-> <<>>, r |-> <<>>]
        /\ cot = [p \in Party |-> <<>>]
        /\ out = [p \in Party |-> <<>>]

Goes(p, where) == pc' = [pc EXCEPT ![p] = where]
Sends(p, msgs) == net' = [net EXCEPT ![Peer(p)] = @ \o msgs]
Arrived(p, n) == Len(net[p]) >= n
Takes(p, n) == net' = [net EXCEPT ![p] = SubSeq(@, n + 1, Len(@))]

Sealed(pad, m) == [pad |-> pad, m |-> m]
Opened(c, pad) == IF c.pad = pad THEN c.m ELSE Junk

(* The PRG in counter mode: its output comes round with the counter. *)
Stream(k, n) == Streams[k][(n % Len(Streams[k])) + 1]

-----------------------------------------------------------------------------
(* The group: a point is the multiple of the generator it is.              *)

get_rand_bn == 0 .. Order - 1
mul_gen(n) == n % Order
add(P, Q) == (P + Q) % Order
mul(P, n) == (P * n) % Order
inv(P) == (Order - P) % Order

-----------------------------------------------------------------------------
(* The base OTs: OTCO::send by BOB, OTCO::recv by ALICE. *)

Setup(p, there, next) == /\ pc[p] = there
                         /\ Goes(p, next)
                         /\ UNCHANGED <<malicious, delta, script, at, prg, gid, start, data, local, cot, out>>

BobOffers == \E a \in get_rand_bn : \E k0, k1 \in Seeds :
  /\ Setup("BOB", "setup", "points")
  /\ secret' = [secret EXCEPT !["BOB"] = <<a>>]
  /\ keys' = [keys EXCEPT !.k0 = k0, !.k1 = k1]
  /\ Sends("BOB", <<mul_gen(a)>>)

(* B is bb times the generator, plus A where the bit is set; what ALICE    *)
(* keeps for the row is As, A times bb.                                    *)
AliceChooses == \E bb \in Exponents :
  LET A == net["ALICE"][1]
      B(i) == IF i \in delta THEN add(mul_gen(bb[i]), A) ELSE mul_gen(bb[i])
  IN
  /\ Setup("ALICE", "setup", "keys")
  /\ Arrived("ALICE", 1)
  /\ secret' = [secret EXCEPT !["ALICE"] = [i \in Rows |-> mul(A, bb[i])]]
  /\ net' = [net EXCEPT !["ALICE"] = Tail(@),
                        !["BOB"] = @ \o [j \in 1 .. Width |-> B(j - 1)]]
  /\ UNCHANGED keys

(* The second seed is sealed with the point less a times A. *)
BobSeals ==
  LET a == secret["BOB"][1]
      AaInv == inv(mul(mul_gen(a), a))
      B(i) == mul(net["BOB"][i + 1], a)
      res(i) == << Sealed(<<B(i), i>>, keys.k0[i]),
                   Sealed(<<add(B(i), AaInv), i>>, keys.k1[i]) >>
  IN
  /\ Setup("BOB", "points", "idle")
  /\ Arrived("BOB", Width)
  /\ net' = [net EXCEPT !["BOB"] = SubSeq(@, Width + 1, Len(@)),
                        !["ALICE"] = @ \o [j \in 1 .. 2 * Width |->
                                             res((j - 1) \div 2)[((j - 1) % 2) + 1]]]
  /\ secret' = [secret EXCEPT !["BOB"] = <<>>]
  /\ UNCHANGED keys

(* The first ciphertext is opened whatever the bit. *)
BadAliceOpens ==
  LET res(i) == net["ALICE"][2 * i + 1] IN
  /\ Setup("ALICE", "keys", "idle")
  /\ Arrived("ALICE", 2 * Width)
  /\ keys' = [keys EXCEPT !.a = [i \in Rows |-> Opened(res(i), <<secret["ALICE"][i], i>>)]]
  /\ Takes("ALICE", 2 * Width)
  /\ secret' = [secret EXCEPT !["ALICE"] = <<>>]
AliceOpens ==
  LET res(i) == net["ALICE"][2 * i + (IF i \in delta THEN 2 ELSE 1)] IN
  /\ Setup("ALICE", "keys", "idle")
  /\ Arrived("ALICE", 2 * Width)
  /\ keys' = [keys EXCEPT !.a = [i \in Rows |-> Opened(res(i), <<secret["ALICE"][i], i>>)]]
  /\ Takes("ALICE", 2 * Width)
  /\ secret' = [secret EXCEPT !["ALICE"] = <<>>]

-----------------------------------------------------------------------------
(* A call: the party that is ahead decides it. *)

Call(p) == script[at[p]]
Length(p) == Len(Call(p).r)
Left(p) == Length(p) - Len(data[p])
AtMost(n, m) == IF n < m THEN n ELSE m

Begin(p) ==
  /\ pc[p] = "idle"
  /\ at[p] <= MaxCalls
  /\ \/ at[p] <= Len(script) /\ UNCHANGED script
     \/ at[p] > Len(script) /\ \E c \in Calls : script' = Append(script, c)
  /\ Goes(p, "extend")
  /\ UNCHANGED <<base, at, net, prg, gid, start, data, local, cot, out>>

-----------------------------------------------------------------------------
(* Extension: send_pre_block and recv_pre_block on the next OTs, at most   *)
(* BlockSize of them.  A row is as many blocks as their number, rounded up,*)
(* takes; sse_trans turns rows into a block for each OT.                   *)

Now(p) == AtMost(BlockSize, Left(p))
Cols(p) == (Now(p) + Width - 1) \div Width
Row(k, from, n) == [j \in 1 .. n |-> Stream(k, from + j - 1)]
Columns(rows, n) == [c \in 1 .. n |->
  {i \in Rows : (c - 1) % Width \in rows[i][((c - 1) \div Width) + 1]}]

(* bool_to_block of the choice bits, those past the end FALSE.             *)
ChoiceBlock(p, j) ==
  {b \in Rows : LET x == Len(data[p]) + (j - 1) * Width + b + 1
                IN  x <= Length(p) /\ Call(p).r[x]}

(* send_cot and recv_cot return. *)
Returns(p, all) ==
  /\ cot' = [cot EXCEPT ![p] = Append(@, all)]
  /\ data' = [data EXCEPT ![p] = <<>>]
  /\ IF Call(p).kind = "cot"
     THEN /\ Goes(p, "idle")
          /\ at' = [at EXCEPT ![p] = @ + 1]
          /\ out' = [out EXCEPT ![p] = Append(@, <<>>)]
     ELSE Goes(p, "start") /\ UNCHANGED <<at, out>>

(* The next blocks of the call; after the last those for the check, if any.*)
Extended(p, blocks) ==
  LET all == data[p] \o blocks IN
  IF Len(all) = Length(p) /\ ~malicious
  THEN Returns(p, all)
  ELSE /\ data' = [data EXCEPT ![p] = all]
       /\ IF Len(all) = Length(p) THEN Goes(p, "extra") ELSE UNCHANGED pc
       /\ UNCHANGED <<at, cot, out>>

(* Where BOB is after a step of an extension that sends n blocks: the call,*)
(* its phase, the OTs there are, his PRGs' counter, the blocks sent and the*)
(* choice bits of the OTs made for the check.                              *)
Noted(n) == place' = Append(place,
  [k |-> Len(cot'["BOB"]) + 1,
   phase |-> IF pc'["BOB"] \in {"extra", "check"} THEN pc'["BOB"] ELSE "extend",
   done |-> Len(data'["BOB"]),
   from |-> used'.g0,
   pos |-> place[Len(place)].pos + n,
   r |-> local'.r])

(* recv_pre_block of n blocks a row, with the choice bits r[j].            *)
BobRows(n) == [i \in Rows |-> Row(keys.k0[i], used.g0, n)]
RecvPreBlock(n, r) ==
  LET t == BobRows(n)
      g == [i \in Rows |-> Row(keys.k1[i], used.g1, n)]
      u(i, j) == XOR(XOR(t[i][j], g[i][j]), r[j])
  IN
  /\ Sends("BOB", [x \in 1 .. Width * n |-> u((x - 1) \div n, ((x - 1) % n) + 1)])
  /\ used' = [used EXCEPT !.g0 = @ + n, !.g1 = @ + n]

(* send_pre_block of n blocks a row.                                       *)
AliceRows(n) ==
  [i \in Rows |-> [j \in 1 .. n |->
     XOR(Stream(keys.a[i], used.a + j - 1), Mask(i \in delta, net["ALICE"][i * n + j]))]]
SendPreBlock(n) == /\ Arrived("ALICE", Width * n)
                   /\ Takes("ALICE", Width * n)
                   /\ used' = [used EXCEPT !.a = @ + n]

BobExtends == /\ pc["BOB"] = "extend"
              /\ RecvPreBlock(Cols("BOB"), [j \in 1 .. Cols("BOB") |-> ChoiceBlock("BOB", j)])
              /\ Extended("BOB", Columns(BobRows(Cols("BOB")), Now("BOB")))
              /\ UNCHANGED <<base, script, step, gid, start, local>>
              /\ Noted(Width * Cols("BOB"))

AliceExtends == /\ pc["ALICE"] = "extend"
                /\ SendPreBlock(Cols("ALICE"))
                /\ Extended("ALICE", Columns(AliceRows(Cols("ALICE")), Now("ALICE")))
                /\ step' = step + 1
                /\ UNCHANGED <<base, script, place, gid, start, local>>

-----------------------------------------------------------------------------
(* The consistency check of a malicious IKNP, after the OTs made for it.   *)

BobExtra == \E r \in Chosen :
  /\ pc["BOB"] = "extra"
  /\ RecvPreBlock(2, [j \in 1 .. 2 |-> {b \in Rows : r[(j - 1) * Width + b + 1]}])
  /\ local' = [local EXCEPT !.BOB = Columns(BobRows(2), 2 * Width), !.r = r]
  /\ Goes("BOB", "check")
  /\ UNCHANGED <<base, script, at, step, gid, start, data, cot, out>>
  /\ Noted(2 * Width)

AliceExtra ==
  /\ pc["ALICE"] = "extra"
  /\ SendPreBlock(2)
  /\ local' = [local EXCEPT !.ALICE = Columns(AliceRows(2), 2 * Width)]
  /\ Goes("ALICE", "check")
  /\ step' = step + 1
  /\ UNCHANGED <<base, script, at, place, gid, start, data, cot, out>>

(* uni_hash_coeff_gen: the powers of the seed.                             *)
Chi(seed) == LET chi[j \in 1 .. BlockSize + 2 * Width] ==
                   IF j = 1 THEN seed ELSE GFMul[chi[j - 1], seed]
             IN chi

(* The coefficients begin again with every BlockSize OTs, and with those   *)
(* made for the check.                                                     *)
Coefficients(p, seed) ==
  LET chi == Chi(seed)
  IN [i \in 1 .. Length(p) |-> chi[((i - 1) % BlockSize) + 1]]
       \o [i \in 1 .. 2 * Width |-> chi[i]]

Odd(S) == Cardinality(S) % 2 = 1
(* vector_inn_prdt_sum_no_red: a sum of products of polynomials.           *)
InnerProduct(c, blocks) ==
  {k \in 0 .. 2 * Width - 2 : Odd({x \in (DOMAIN blocks) \X Rows :
                                     x[2] \in blocks[x[1]] /\ k - x[2] \in c[x[1]]})}
Low(poly) == poly \cap Rows
High(poly) == {k - Width : k \in poly \ Rows}

(* The choice bits of the OTs made for the check are not combined. *)
BadCombined(c, r) == {k \in Rows : Odd({i \in 1 .. Length("BOB") : r[i] /\ k \in c[i]})}
Combined(c, r) == {k \in Rows : Odd({i \in DOMAIN r : r[i] /\ k \in c[i]})}

BobProves == \E seed \in Combiners :
  LET c == Coefficients("BOB", seed)
      t == InnerProduct(c, data["BOB"] \o local.BOB)
      x == Combined(c, Call("BOB").r \o local.r)
  IN
  /\ pc["BOB"] = "check"
  /\ Sends("BOB", <<seed, x, Low(t), High(t)>>)
  /\ local' = [local EXCEPT !.BOB = <<>>, !.r = <<>>]
  /\ Returns("BOB", data["BOB"])
  /\ UNCHANGED <<base, script, used, step, gid, start>>
  /\ Noted(4)

AliceChecks ==
  LET c == Coefficients("ALICE", net["ALICE"][1])
      x == net["ALICE"][2]
      q == XOR(InnerProduct(c, data["ALICE"] \o local.ALICE), InnerProduct(<<x>>, <<delta>>))
  IN
  /\ pc["ALICE"] = "check"
  /\ Arrived("ALICE", 4)
  /\ Takes("ALICE", 4)
  /\ local' = [local EXCEPT !.ALICE = <<>>]
  /\ IF net["ALICE"][3] = Low(q) /\ net["ALICE"][4] = High(q)
     THEN Returns("ALICE", data["ALICE"])
     ELSE Goes("ALICE", "error") /\ UNCHANGED <<at, data, cot, out>>
  /\ step' = step + 1
  /\ UNCHANGED <<base, script, used, place, gid, start>>

-----------------------------------------------------------------------------
(* COT::send and recv, send_rot and recv_rot, after the extension: a new   *)
(* start point, then OTBatch OTs at a time.                                *)

AliceStarts == \E s \in Starts :
  /\ pc["ALICE"] = "start"
  /\ start' = [start EXCEPT !["ALICE"] = s]
  /\ Sends("ALICE", <<s>>)
  /\ Goes("ALICE", "hash")
  /\ UNCHANGED <<base, script, at, prg, gid, data, local, cot, out>>

(* A block too many is read. *)
BadBobStarts ==
  /\ pc["BOB"] = "start"
  /\ Arrived("BOB", 2)
  /\ start' = [start EXCEPT !["BOB"] = net["BOB"][1]]
  /\ Takes("BOB", 2)
  /\ Goes("BOB", "hash")
  /\ UNCHANGED <<base, script, at, prg, gid, data, local, cot, out>>
BobStarts ==
  /\ pc["BOB"] = "start"
  /\ Arrived("BOB", 1)
  /\ start' = [start EXCEPT !["BOB"] = net["BOB"][1]]
  /\ Takes("BOB", 1)
  /\ Goes("BOB", "hash")
  /\ UNCHANGED <<base, script, at, prg, gid, data, local, cot, out>>

(* MITCCRH::hash of x under the j-th key of the batch; the keys are        *)
(* renewed for each batch, even a short one.                               *)
Hash(p, j, x) == <<start[p], gid[p] + j - 1, x>>
BadRenewed(p, n) == gid' = [gid EXCEPT ![p] = @ + (IF p = "ALICE" THEN OTBatch ELSE n)]
Renewed(p, n) == gid' = [gid EXCEPT ![p] = @ + OTBatch]

Batch(p) == AtMost(OTBatch, Left(p))
BadCorrelated(p, j) == cot[p][at[p]][j]    \* those of the first batch
Correlated(p, j) == cot[p][at[p]][Len(data[p]) + j]
Message(k, i, b) == <<k, i, b>>   \* the messages of the k-th call's i-th OT

Hashed(p, results) ==
  LET all == data[p] \o results IN
  IF Len(all) < Length(p)
  THEN data' = [data EXCEPT ![p] = all] /\ UNCHANGED <<pc, at, out>>
  ELSE /\ out' = [out EXCEPT ![p] = Append(@, all)]
       /\ data' = [data EXCEPT ![p] = <<>>]
       /\ Goes(p, "idle")
       /\ at' = [at EXCEPT ![p] = @ + 1]

AliceHashes ==
  LET n == Batch("ALICE")
      pad(j, b) == Hash("ALICE", j, Active(Correlated("ALICE", j), b, delta))
      msg(j, b) == Message(at["ALICE"], Len(data["ALICE"]) + j, b)
      bit(x) == x % 2 = 0
  IN
  /\ pc["ALICE"] = "hash"
  /\ Renewed("ALICE", n)
  /\ IF Call("ALICE").kind = "ot"
     THEN /\ Sends("ALICE", [x \in 1 .. 2 * n |->
                Sealed(pad((x + 1) \div 2, bit(x)), msg((x + 1) \div 2, bit(x)))])
          /\ Hashed("ALICE", [j \in 1 .. n |-> [b \in BOOLEAN |-> msg(j, b)]])
     ELSE /\ Hashed("ALICE", [j \in 1 .. n |-> [b \in BOOLEAN |-> pad(j, b)]])
          /\ UNCHANGED net
  /\ UNCHANGED <<base, script, prg, start, local, cot>>

BobHashes ==
  LET n == Batch("BOB")
      pad(j) == Hash("BOB", j, Correlated("BOB", j))
      bit(j) == Call("BOB").r[Len(data["BOB"]) + j]
      res(j) == net["BOB"][IF bit(j) THEN 2 * j ELSE 2 * j - 1]
  IN
  /\ pc["BOB"] = "hash"
  /\ Renewed("BOB", n)
  /\ IF Call("BOB").kind = "ot"
     THEN /\ Arrived("BOB", 2 * n)
          /\ Takes("BOB", 2 * n)
          /\ Hashed("BOB", [j \in 1 .. n |-> Opened(res(j), pad(j))])
     ELSE /\ Hashed("BOB", [j \in 1 .. n |-> pad(j)])
          /\ UNCHANGED net
  /\ UNCHANGED <<base, script, prg, start, local, cot>>

-----------------------------------------------------------------------------
Finished == \A p \in Party : pc[p] = "idle" /\ at[p] = MaxCalls + 1
Terminated == Finished /\ UNCHANGED vars

AliceStep == \/ AliceChooses \/ AliceOpens \/ AliceExtends \/ AliceExtra \/ AliceChecks
             \/ AliceStarts \/ AliceHashes
BobStep == \/ BobOffers \/ BobSeals \/ BobExtends \/ BobExtra \/ BobProves
           \/ BobStarts \/ BobHashes
PartyStep(p) == \/ Begin(p)
                \/ p = "ALICE" /\ AliceStep
                \/ p = "BOB" /\ BobStep

Next == \/ \E p \in Party : PartyStep(p)
        \/ Terminated

Spec == Init /\ [][Next]_vars

(* Each process runs on; what is sent arrives. *)
FairSpec == Spec /\ \A p \in Party : WF_vars(PartyStep(p))
-----------------------------------------------------------------------------
(* Properties *)

(* Between parties that both follow the protocol the check passes, however *)
(* the call divides into blocks: ALICE's sum is BOB's plus delta times his *)
(* combination of choice bits.                                             *)
HonestPasses == pc["ALICE"] # "error"

(* In OTs of messages and of random blocks BOB gets, of each pair ALICE    *)
(* has, the one he chose, whatever calls went before and however the       *)
(* lengths divide into the extension's and the hash's batches.             *)
Transferred == \A k \in 1 .. AtMost(Len(out["ALICE"]), Len(out["BOB"])) :
  script[k].kind # "cot" => \A i \in DOMAIN script[k].r :
    out["BOB"][k][i] = out["ALICE"][k][i][script[k].r[i]]

(* Parties that are at the same call agree on every counter their blocks   *)
(* are derived from, and have left nothing unread.                         *)
InStep == (at["ALICE"] = at["BOB"] /\ \A p \in Party : pc[p] = "idle") =>
  /\ used.a = used.g0 /\ used.g0 = used.g1
  /\ gid["ALICE"] = gid["BOB"] /\ start["ALICE"] = start["BOB"]
  /\ \A p \in Party : net[p] = <<>>

(* IKNP implements the correlated OTs that the garbling protocol is built  *)
(* on: a send_cot gives the blocks of its recv_cot, xored with delta where *)
(* the choice bit is set.                                                  *)
Recvd == [k \in DOMAIN cot["BOB"] |-> [r |-> script[k].r, t |-> cot["BOB"][k]]]
Ideal == INSTANCE CorrelatedOT WITH
  taken <- Recvd,
  given <- cot["ALICE"]
ImplementsCorrelatedOT == Ideal!Spec

(* Neither party is left waiting for the other. *)
Termination == <>Finished
=============================================================================
