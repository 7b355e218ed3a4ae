-------------------------- MODULE OTExtension_steps --------------------------
(***************************************************************************)
(* What the proofs about oblivious transfer say of its steps: predicates   *)
(* of a step, or of what it computes, that several lemmas share.           *)
(***************************************************************************)
EXTENDS OTExtension_invariant

(* A sequence and one that begins with it *)
Prolongs(s, t) == Len(s) <= Len(t) /\ \A i \in 1 .. Len(s) : t[i] = s[i]

(* ALICE's column is BOB's, xored with delta where the choice bit is set,  *)
(* if her keys and her PRGs' counter are right and the stream holds what he*)
(* has to send.                                                            *)
Brought(w, from, B) ==
  /\ from = used.a /\ from \in Nat /\ delta \in SUBSET Rows /\ keys.a = [i \in Rows |-> KeyOf(i)]
  /\ \A i \in Rows : \A j \in 1 .. w : net["ALICE"][i * w + j] = XOR(Given(from, i, j), B[j])
Chooses(r, B, c) == r \in BOOLEAN /\ (r <=> ((c - 1) % Width \in B[((c - 1) \div Width) + 1]))

(* There are two parties. *)
Parties == "ALICE" \in Party /\ "BOB" \in Party /\ \A p \in Party : p = "ALICE" \/ p = "BOB"

(* A party stays where it was in its extension, or is in none, or begins one. *)
Still(p) == \/ pc'[p] = pc[p] /\ at'[p] = at[p] /\ data'[p] = data[p]
            \/ ~Extending(p) /\ ~(Extending(p))'
            \/ ~Extending(p) /\ pc'[p] = "extend" /\ data'[p] = <<>>

(* A step that is of no extension *)
Quiet == /\ script' \in Seq(Calls) /\ Prolongs(script, script')
         /\ malicious' = malicious /\ delta' = delta /\ place' = place /\ step' = step
         /\ used' = used /\ local' = local /\ cot' = cot
         /\ Len(place) = 1 \/ (keys'.k0 = keys.k0 /\ keys'.k1 = keys.k1)
         /\ Len(net'["ALICE"]) = Before' + (Len(net["ALICE"]) - Before)
         /\ Before' \in Nat
         /\ \A n \in step .. Len(place) - 1 : \A x \in 1 .. place[n + 1].pos - place[n].pos : Sent(n, x)' = Sent(n, x)
         /\ \A p \in Party : Still(p)

(* A step of an extension of BOB: he sends msgs and comes to the place m. *)
BobMoves(m, msgs) ==
  /\ m \in Place /\ place' = Append(place, m) /\ step' = step
  /\ script' = script /\ malicious' = malicious /\ delta' = delta /\ keys' = keys
  /\ msgs \in Seq(Stuff) /\ net' = [net EXCEPT !["ALICE"] = @ \o msgs]
  /\ Follows(Last, m) /\ Len(msgs) = m.pos - Last.pos
  /\ Extending("BOB") /\ pc'["BOB"] \notin {"setup", "points"}
  /\ cot' \in [Party -> Seq(Blocks)] /\ cot'["ALICE"] = cot["ALICE"] /\ Prolongs(cot["BOB"], cot'["BOB"])
  /\ pc'["ALICE"] = pc["ALICE"] /\ at'["ALICE"] = at["ALICE"] /\ data'["ALICE"] = data["ALICE"]
  /\ (IsAt("BOB", m))'
  /\ used'.a = used.a /\ used'.g0 = m.from /\ used'.g1 = m.from
  /\ local'.r = m.r /\ local'.ALICE = local.ALICE
  /\ IF pc'["BOB"] = "check" THEN m.r \in Chosen ELSE m.r = <<>>
  /\ \A k \in Nat \ {0} : Prolongs(Taken(k), Taken(k)') /\ Len(Taken(k)') \in Nat

(* A step of an extension of ALICE: she takes what he sent from m to e. *)
AliceMoves(m, e) ==
  /\ step < Len(place) /\ m = place[step] /\ e = place[step + 1]
  /\ step' = step + 1 /\ place' = place
  /\ script' = script /\ malicious' = malicious /\ delta' = delta /\ keys' = keys
  /\ net' = [net EXCEPT !["ALICE"] = SubSeq(@, e.pos - m.pos + 1, Len(@))]
  /\ Extending("ALICE") /\ pc'["ALICE"] \notin {"setup", "keys"}
  /\ cot' \in [Party -> Seq(Blocks)] /\ cot'["BOB"] = cot["BOB"]
  /\ pc'["BOB"] = pc["BOB"] /\ at'["BOB"] = at["BOB"] /\ data'["BOB"] = data["BOB"]
  /\ (IsAt("ALICE", e))'
  /\ used'.g0 = used.g0 /\ used'.g1 = used.g1 /\ used'.a = e.from
  /\ local'.r = local.r /\ local'.BOB = local.BOB

(* The column of b in D *)
Slice(D, I, b) == {i \in I : <<i, b>> \in D}
Below(D, m) == {d \in D : d[2] < m}
OddColumns(D, I, m) == {b \in 0 .. m - 1 : Odd(Slice(D, I, b))}

(* The pairs whose parity is a coefficient of a sum of products *)
Terms(c, blocks, k) == {x \in (DOMAIN blocks) \X Rows : x[2] \in blocks[x[1]] /\ k - x[2] \in c[x[1]]}
Flipped(n, c, r, d, k) == {x \in (1 .. n) \X Rows : r[x[1]] /\ x[2] \in d /\ k - x[2] \in c[x[1]]}
Summed(n, c, r) == {k \in Rows : Odd({i \in 1 .. n : r[i] /\ k \in c[i]})}

(* ALICE's blocks are BOB's, xored with delta where the choice bit is set: *)
(* so is her sum of products his, xored with delta times the sum of the    *)
(* coefficients of the set bits.                                           *)
Flips(n, r, d, t, q) ==
  /\ n \in Nat /\ r \in [1 .. n -> BOOLEAN] /\ d \in Block
  /\ t \in [1 .. n -> Block] /\ q \in [1 .. n -> Block]
  /\ \A i \in 1 .. n : q[i] = Active(t[i], r[i], d)

(* The powers of a seed that the check multiplies by, all that it can need *)
Longest == BlockSize + 2 * Width
Powers(f, seed) == [j \in 1 .. Longest |-> IF j = 1 THEN seed ELSE GFMul[<<f[j - 1], seed>>]]
PowersTo(f, seed, m) == /\ f \in [1 .. Longest -> Block]
                        /\ \A j \in 1 .. Longest : j <= m => f[j] = Powers(f, seed)[j]

(* A step that hashes nothing *)
Resting ==
  /\ script' \in Seq(Calls) /\ Prolongs(script, script')
  /\ at' = at /\ gid' = gid /\ start' = start /\ delta' = delta /\ out' = out
  /\ Hashing("BOB") => net'["BOB"] = net["BOB"]
  /\ (~Hashing("BOB") /\ ~(pc'["BOB"] = "points" /\ pc'["ALICE"] = "keys")) => net'["BOB"] = <<>>
  /\ cot' \in [Party -> Seq(Blocks)]
  /\ \A p \in Party : /\ Prolongs(cot[p], cot'[p])
                      /\ pc'[p] = "hash" <=> pc[p] = "hash"
                      /\ pc[p] = "hash" => data'[p] = data[p]
  /\ pc'["BOB"] = "start" <=> pc["BOB"] = "start"
  /\ Past => pc'["ALICE"] # "start"

(* What hashing gave stays, when it is of the same calls and neither party begins to hash. *)
SameResults ==
  /\ script' \in Seq(Calls) /\ Prolongs(script, script')
  /\ delta' = delta /\ at' \in [Party -> Nat \ {0}]
  /\ \A p \in Party : Prolongs(cot[p], cot'[p])
  /\ \A p \in Party : \A k \in Nat \ {0} : Results(p, k)' = Results(p, k)
  /\ \A p \in Party : \A k \in 1 .. at'[p] - 1 :
       Len(out'[p][k]) = IF script'[k].kind = "cot" THEN 0 ELSE Len(script'[k].r)
  /\ Hashing("BOB")' => \/ /\ Hashing("BOB") /\ at'["BOB"] = at["BOB"] /\ Gid0("BOB")' = Gid0("BOB")
                           /\ start'["ALICE"] = start["ALICE"]
                        \/ Results("ALICE", at'["BOB"]) = <<>>
  /\ pc'["ALICE"] = "hash" => \/ /\ pc["ALICE"] = "hash" /\ at'["ALICE"] = at["ALICE"] /\ Gid0("ALICE")' = Gid0("ALICE")
                                 /\ start'["ALICE"] = start["ALICE"]
                              \/ Results("BOB", at'["ALICE"]) = <<>>

(* What ALICE has yet to come to stays what it was on the stream. *)
Streamed ==
  /\ Before' \in Nat
  /\ Len(net'["ALICE"]) = Before' + (Len(net["ALICE"]) - Before)
  /\ \A n \in step .. Len(place) - 1 : \A x \in 1 .. place[n + 1].pos - place[n].pos : Sent(n, x)' = Sent(n, x)

(* The party has all of the call's OTs so far, and goes on, to the check or back to its caller. *)
Advances(p, all) ==
  /\ all \in Seq(Block) /\ Prolongs(data[p], all) /\ data[p] \in Seq(Block)
  /\ pc[p] \in {"extend", "check"}
  /\ \/ /\ pc[p] = "extend" /\ Len(all) < Length(p)
        /\ data' = [data EXCEPT ![p] = all] /\ pc' = pc /\ at' = at /\ cot' = cot /\ out' = out
     \/ /\ pc[p] = "extend" /\ Len(all) = Length(p) /\ malicious
        /\ data' = [data EXCEPT ![p] = all] /\ pc' = [pc EXCEPT ![p] = "extra"]
        /\ at' = at /\ cot' = cot /\ out' = out
     \/ Len(all) = Length(p) /\ Returns(p, all)
  /\ script' = script /\ malicious' = malicious

(* What a step of an extension of ALICE leaves alone of the hashes *)
Aside == gid' = gid /\ start' = start /\ delta' = delta /\ net'["BOB"] = net["BOB"]

(* The message of w blocks a row is the streams of the two seeds, xored with each other and with *)
(* the choice bits. *)
Received(msgs, w, r, from) ==
  /\ msgs \in Seq(Stuff) /\ Len(msgs) = Width * w
  /\ net' = [net EXCEPT !["ALICE"] = @ \o msgs]
  /\ \A i \in Rows : \A j \in 1 .. w : msgs[i * w + j] = XOR(Given(from, i, j), r[j])

(* Where a step that advances BOB leaves him: m is the place he notes. *)
Lands(m) ==
  /\ m \in Place
  /\ m.k = Len(cot'["BOB"]) + 1
  /\ m.phase = IF pc'["BOB"] \in {"extra", "check"} THEN pc'["BOB"] ELSE "extend"
  /\ m.done = Len(data'["BOB"])
Landed(k, m, all) ==
  /\ (IsAt("BOB", m))'
  /\ \/ Len(all) < Length("BOB") /\ pc["BOB"] = "extend" /\ m.k = k /\ m.phase = "extend" /\ m.done = Len(all)
     \/ /\ Len(all) = Length("BOB") /\ malicious /\ pc["BOB"] = "extend" /\ pc'["BOB"] = "extra"
        /\ m.k = k /\ m.phase = "extra" /\ m.done = Len(all)
     \/ /\ Len(all) = Length("BOB") /\ pc'["BOB"] \in {"idle", "start"}
        /\ m.k = k + 1 /\ m.phase = "extend" /\ m.done = 0
  /\ pc'["BOB"] \notin {"setup", "points", "check"}
  /\ cot' \in [Party -> Seq(Blocks)] /\ cot'["ALICE"] = cot["ALICE"] /\ Prolongs(cot["BOB"], cot'["BOB"])
  /\ pc'["ALICE"] = pc["ALICE"] /\ at'["ALICE"] = at["ALICE"] /\ data'["ALICE"] = data["ALICE"]
  /\ \A j \in Nat \ {0} : Prolongs(Taken(j), Taken(j)') /\ Len(Taken(j)') \in Nat
  /\ Taken(k)' = all

(* What BOB sends to prove that he chose the same bit in every row *)
Proof(seed, x, t) == <<seed, x, Low(t), High(t)>>

(* The step she is at, and what of the stream is its message *)
Turn(m, e) ==
  /\ step \in 1 .. Len(place) - 1 /\ step \in Nat /\ m = place[step] /\ e = place[step + 1]
  /\ m \in Place /\ e \in Place /\ Follows(m, e) /\ Carried(step)
  /\ IsAt("ALICE", m) /\ m.k = at["ALICE"] /\ used.a = m.from
  /\ \A x \in Int : Sent(step, x) = net["ALICE"][x]

(* Where a step that advances ALICE leaves her: at the next place *)
Meets(e, all) ==
  /\ Len(all) < Length("ALICE") => e.k = at["ALICE"] /\ e.phase = "extend" /\ e.done = Len(all)
  /\ (Len(all) = Length("ALICE") /\ pc'["ALICE"] = "extra") =>
        e.k = at["ALICE"] /\ e.phase = "extra" /\ e.done = Len(all)
  /\ (Len(all) = Length("ALICE") /\ pc'["ALICE"] # "extra") =>
        e.k = at["ALICE"] + 1 /\ e.phase = "extend" /\ e.done = 0
Met(e, k, all) ==
  /\ (IsAt("ALICE", e))'
  /\ pc'["ALICE"] \notin {"setup", "keys", "check"}
  /\ cot' \in [Party -> Seq(Blocks)] /\ cot'["BOB"] = cot["BOB"]
  /\ pc'["BOB"] = pc["BOB"] /\ at'["BOB"] = at["BOB"] /\ data'["BOB"] = data["BOB"]
  /\ \A j \in Nat \ {0} : j # k => Have("ALICE", j)' = Have("ALICE", j)
  /\ Have("ALICE", k)' = all /\ Have("ALICE", k) = data["ALICE"]

(* A concatenation as a function *)
Halved(S, s, t, a, b, u) == /\ s \in Seq(S) /\ t \in Seq(S) /\ a \in Nat /\ b \in Nat
                            /\ Len(s) = a /\ Len(t) = b /\ u = s \o t
Whole2(S, s, t, a, b, u) == /\ u \in [1 .. a + b -> S] /\ DOMAIN u = 1 .. a + b
                            /\ \A i \in 1 .. a : u[i] = s[i]
                            /\ \A i \in 1 .. b : u[a + i] = t[i]

(* What hashing gives a party *)
Kept(p) == IF p = "ALICE" THEN Pair ELSE Plain \cup Pad

(* The party has the results all of its call: so far, or of the whole of it. *)
HashStep(p, all) ==
  /\ Hashing(p) /\ all \in Seq(Kept(p))
  /\ malicious' = malicious /\ delta' = delta /\ secret' = secret /\ keys' = keys /\ script' = script
  /\ used' = used /\ place' = place /\ step' = step /\ local' = local /\ cot' = cot
  /\ net' \in [Party -> Seq(Stuff)] /\ net'["ALICE"] = net["ALICE"]
  /\ gid' \in [Party -> Nat] /\ start' \in [Party -> StartPoint]
  /\ at' \in [Party -> Nat \ {0}] /\ pc' \in [Party -> {"setup", "points", "keys", "idle", "extend", "extra",
                                                          "check", "start", "hash", "error"}]
  /\ DOMAIN data' = Party /\ DOMAIN out' = Party
  /\ \A q \in Party : q # p => /\ at'[q] = at[q] /\ pc'[q] = pc[q] /\ data'[q] = data[q] /\ out'[q] = out[q]
                               /\ gid'[q] = gid[q]
  /\ \/ /\ Len(all) < Length(p) /\ pc'[p] = "hash" /\ data'[p] = all /\ at'[p] = at[p] /\ out'[p] = out[p]
     \/ /\ Len(all) = Length(p) /\ pc'[p] = "idle" /\ data'[p] = <<>> /\ at'[p] = at[p] + 1
        /\ out'[p] = Append(out[p], all)

(* The next n OTs of the call are hashed, all with them. *)
Batched(p, n, all) ==
  /\ pc[p] = "hash" /\ n \in Nat \ {0} /\ n <= OTBatch
  /\ HashStep(p, all) /\ Len(all) = Done(p) + n /\ (Len(all) < Length(p) => n = OTBatch)
  /\ gid'[p] = gid[p] + OTBatch /\ start' = start
  /\ \A i \in 1 .. Done(p) : all[i] = data[p][i]

(* What the action does is that. *)
Batches(p, n, f, all) ==
  /\ pc[p] = "hash" /\ n = Batch(p) /\ f \in Seq(Kept(p)) /\ Len(f) = n /\ all = data[p] \o f
  /\ Hashed(p, f) /\ Renewed(p, n) /\ UNCHANGED <<base, script, prg, start, local, cot>>
  /\ net' \in [Party -> Seq(Stuff)] /\ net'["ALICE"] = net["ALICE"]

(* After it the party goes on with the call, or is done with it; either way the counter is where it should be. *)
Goon(p, all) == /\ Len(all) < Length(p) /\ pc'[p] = "hash" /\ at'[p] = at[p]
                /\ (Done(p))' = Len(all) /\ (Gid0(p))' = Gid0(p)
Through(p, all) == /\ Len(all) = Length(p) /\ pc'[p] = "idle" /\ at'[p] = at[p] + 1
                   /\ (Done(p))' = 0 /\ (Gid0(p))' = gid'[p]
                   /\ gid'[p] >= Gid0(p) /\ Rounded(Length(p), gid'[p] - Gid0(p))

(* She is at BOB's call, which he has all the OTs of, or behind him, with random OTs he is done with. *)
Level == at["ALICE"] = at["BOB"] /\ Hashing("BOB") /\ Gid0("ALICE") = Gid0("BOB")
Behind == /\ at["ALICE"] < at["BOB"] /\ pc["BOB"] # "hash" /\ Call("ALICE").kind = "rot"
          /\ gid["BOB"] >= Gid0("ALICE") /\ Rounded(Length("ALICE"), gid["BOB"] - Gid0("ALICE"))

(* The ciphertexts of the next n OTs, each under the pad of its choice bit *)
Seals(n, msgs) ==
  /\ msgs \in Seq(Stuff) /\ Len(msgs) = 2 * n
  /\ \A j \in 1 .. n : \A b \in BOOLEAN :
       msgs[2 * j - IF b THEN 0 ELSE 1] =
         Sealed(<<start["ALICE"], gid["ALICE"] + j - 1,
                  Active(cot["ALICE"][at["ALICE"]][Done("ALICE") + j], b, delta)>>,
                Message(at["ALICE"], Done("ALICE") + j, b))
SealsAfter(n, msgs) == \/ Call("ALICE").kind = "rot" /\ net' = net
                       \/ Call("ALICE").kind = "ot" /\ Seals(n, msgs) /\ net'["BOB"] = net["BOB"] \o msgs

(* What ALICE has of a batch: the messages, or the pads *)
Pads(n, all) ==
  \A j \in 1 .. n : \A b \in BOOLEAN :
    all[Done("ALICE") + j][b] =
      IF Call("ALICE").kind = "ot" THEN Message(at["ALICE"], Done("ALICE") + j, b)
      ELSE <<start["ALICE"], gid["ALICE"] + j - 1,
             Active(cot["ALICE"][at["ALICE"]][Done("ALICE") + j], b, delta)>>

(* The pad and the message of an OT of the batch, as ALICE has them *)
PadAt(j, b) == <<start["ALICE"], gid["ALICE"] + j - 1,
                 Active(cot["ALICE"][at["ALICE"]][Len(data["ALICE"]) + j], b, delta)>>
MessageAt(j, b) == Message(at["ALICE"], Len(data["ALICE"]) + j, b)

(* ALICE hashes the call with him, or is past it. *)
Even == at["ALICE"] = at["BOB"] /\ pc["ALICE"] = "hash" /\ Gid0("ALICE") = Gid0("BOB")

(* What he takes of the stream is the ciphertexts of the batch. *)
TakesBatch(n) == \/ Call("BOB").kind = "rot" /\ net' = net
                 \/ /\ Call("BOB").kind = "ot" /\ Len(net["BOB"]) >= 2 * n
                    /\ net'["BOB"] = SubSeq(net["BOB"], 2 * n + 1, Len(net["BOB"]))

(* What BOB has of a batch: the messages he chose, or the pads *)
Chosens(n, all) ==
  \A j \in 1 .. n :
    all[Done("BOB") + j] =
      IF Call("BOB").kind = "ot"
      THEN Message(at["BOB"], Done("BOB") + j, Call("BOB").r[Done("BOB") + j])
      ELSE <<start["BOB"], gid["BOB"] + j - 1, cot["BOB"][at["BOB"]][Done("BOB") + j]>>

(* What opens one of the ciphertexts is the pad of BOB's choice. *)
OpenedAt(j) == Opened(net["BOB"][IF Call("BOB").r[Len(data["BOB"]) + j] THEN 2 * j ELSE 2 * j - 1],
                      <<start["BOB"], gid["BOB"] + j - 1, cot["BOB"][at["BOB"]][Len(data["BOB"]) + j]>>)
PadOf(j) == <<start["BOB"], gid["BOB"] + j - 1, cot["BOB"][at["BOB"]][Len(data["BOB"]) + j]>>

(* A step of the system either leaves what the calls have given or adds    *)
(* what the party's call gives.                                            *)
GivesMore(p) == /\ \E all : cot' = [cot EXCEPT ![p] = Append(@, all)]
                /\ script' = script

==============================================================================
