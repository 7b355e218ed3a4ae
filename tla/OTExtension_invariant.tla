------------------------ MODULE OTExtension_invariant -----------------------
(***************************************************************************)
(* The inductive invariant of oblivious transfer.                          *)
(*                                                                         *)
(* BOB may be any number of steps of his extensions ahead of ALICE.  What  *)
(* he has sent is then many messages, made of outputs of his PRGs that she *)
(* has yet to draw and of choice bits of calls she has yet to make.  So    *)
(* place keeps where he was before each of his steps: place[n].pos is what *)
(* he had sent, place[n].from what his PRGs had given, and step is the     *)
(* place that ALICE has come to.  Places says that each follows from the   *)
(* one before it, ToAlice what the stream holds of each that ALICE has not *)
(* come to, and Columned and Correlates what the blocks are that it gave.  *)
(*                                                                         *)
(* The hashes are the other way round, and are about one call at a time:   *)
(* ALICE may be ahead in it, and BOB in the calls after it that do not     *)
(* hash.  InTurn says which of this can be, ToBob what she has sent that   *)
(* he has not opened, and Resulted what both have made of it.              *)
(***************************************************************************)
EXTENDS OTExtension

-----------------------------------------------------------------------------
(* Types *)

Seed == DOMAIN Streams
StartPoint == Starts \cup {0}
Pad == (Nat \X Rows) \cup (StartPoint \X Nat \X Block)
Plain == Seed \cup (Nat \X Nat \X BOOLEAN)
Stuff == Nat \cup StartPoint \cup Block \cup [pad : Pad, m : Plain]
Place == [k : Nat \ {0}, phase : {"extend", "extra", "check"}, done : Nat, from : Nat, pos : Nat,
          r : Seq(BOOLEAN)]
Bits == Seq(BOOLEAN)
Blocks == Seq(Block)
Pair == [BOOLEAN -> Plain \cup Pad]

Extending(p) == pc[p] \in {"extend", "extra", "check"}
Hashing(p) == pc[p] \in {"start", "hash"}

TypeOK ==
  /\ malicious \in Modes
  /\ delta \in Delta
  /\ secret \in [Party -> {<<>>} \cup {<<a>> : a \in get_rand_bn} \cup [Rows -> get_rand_bn]]
  /\ keys \in [a : {<<>>} \cup [Rows -> Seed], k0 : {<<>>} \cup Seeds, k1 : {<<>>} \cup Seeds]
  /\ script \in Seq(Calls)
  /\ at \in [Party -> Nat \ {0}]
  /\ pc \in [Party -> {"setup", "points", "keys", "idle", "extend", "extra", "check",
                       "start", "hash", "error"}]
  /\ net \in [Party -> Seq(Stuff)]
  /\ used \in [a : Nat, g0 : Nat, g1 : Nat]
  /\ place \in Seq(Place)
  /\ step \in Nat
  /\ gid \in [Party -> Nat]
  /\ start \in [Party -> StartPoint]
  /\ local \in [ALICE : Blocks, BOB : Blocks, r : Bits]
  /\ cot \in [Party -> Seq(Blocks)]
  /\ DOMAIN data = Party
  /\ \A p \in Party : Extending(p) => data[p] \in Blocks
  /\ pc["ALICE"] = "hash" => data["ALICE"] \in Seq(Pair)
  /\ pc["BOB"] = "hash" => data["BOB"] \in Seq(Plain \cup Pad)
  /\ \A p \in Party : ~Extending(p) /\ pc[p] # "hash" /\ pc[p] # "error" => data[p] = <<>>
  /\ DOMAIN out = Party
  /\ out["ALICE"] \in Seq(Seq(Pair))
  /\ out["BOB"] \in Seq(Seq(Plain \cup Pad))

-----------------------------------------------------------------------------
(* The inductive invariant *)

(* Where each party is *)
PositionOf(p) ==
  /\ pc[p] \in {"setup", "keys", "points"} => at[p] = 1
  /\ at[p] <= Len(script) + 1
  /\ Extending(p) \/ Hashing(p) => at[p] <= Len(script)
  /\ Len(out[p]) = at[p] - 1
  /\ Len(cot[p]) = IF Hashing(p) THEN at[p] ELSE at[p] - 1
  /\ \A k \in 1 .. Len(cot[p]) : Len(cot[p][k]) = Len(script[k].r)
  /\ pc[p] \in {"extend", "hash"} => Len(data[p]) < Length(p)
  /\ pc[p] \in {"extra", "check"} => malicious /\ Len(data[p]) = Length(p)
  /\ Hashing(p) => Call(p).kind # "cot"
Together ==
  /\ pc["ALICE"] # "points" /\ pc["BOB"] # "keys" /\ pc["BOB"] # "error" /\ pc["ALICE"] # "error"
  /\ pc["BOB"] \in {"setup", "points"} => pc["ALICE"] \in {"setup", "keys"}
  /\ pc["ALICE"] = "keys" => pc["BOB"] # "setup"
  /\ pc["ALICE"] = "setup" => pc["BOB"] \in {"setup", "points"}
Positions == Together /\ \A p \in Party : PositionOf(p)

(* The keys *)
KeyOf(i) == IF i \in delta THEN keys.k1[i] ELSE keys.k0[i]
(* The points ALICE has sent, when BOB's is A *)
Offered(A) ==
  /\ Len(net["BOB"]) = Width
  /\ \E bb \in Exponents : \A i \in Rows :
       /\ secret["ALICE"][i] = mul(A, bb[i])
       /\ net["BOB"][i + 1] = IF i \in delta THEN add(mul_gen(bb[i]), A) ELSE mul_gen(bb[i])
BaseOT ==
  /\ pc["BOB"] # "setup" => keys.k0 \in Seeds /\ keys.k1 \in Seeds
  /\ pc["BOB"] = "setup" => net["ALICE"] = <<>>
  /\ pc["BOB"] = "points" => \E a \in get_rand_bn :
       /\ secret["BOB"] = <<a>>
       /\ pc["ALICE"] = "setup" => net["ALICE"] = <<mul_gen(a)>>
       /\ pc["ALICE"] = "keys" => net["ALICE"] = <<>> /\ Offered(mul_gen(a))
  /\ (pc["ALICE"] = "keys" /\ pc["BOB"] # "points") => \A i \in Rows :
        Opened(net["ALICE"][2 * i + (IF i \in delta THEN 2 ELSE 1)], <<secret["ALICE"][i], i>>) = KeyOf(i)
  /\ pc["ALICE"] \notin {"setup", "keys"} => keys.a = [i \in Rows |-> KeyOf(i)]

(* The steps of the extensions *)
First == [k |-> 1, phase |-> "extend", done |-> 0, from |-> 0, pos |-> 0, r |-> <<>>]
Wide(n) == (n + Width - 1) \div Width
New(m) == AtMost(BlockSize, Len(script[m.k].r) - m.done)    \* the OTs of this step
Follows(m, n) ==
  LET L == Len(script[m.k].r)
      new == New(m)
  IN /\ m.k \in 1 .. Len(script)
     /\ m.phase = "extend" =>
          /\ m.done < L
          /\ n.from = m.from + Wide(new)
          /\ n.pos = m.pos + Width * Wide(new)
          /\ n.r = <<>>
          /\ m.done + new < L => n.k = m.k /\ n.phase = "extend" /\ n.done = m.done + new
          /\ (m.done + new = L /\ malicious) => n.k = m.k /\ n.phase = "extra" /\ n.done = L
          /\ (m.done + new = L /\ ~malicious) => n.k = m.k + 1 /\ n.phase = "extend" /\ n.done = 0
     /\ m.phase = "extra" =>
          /\ m.done = L
          /\ n.k = m.k /\ n.phase = "check" /\ n.done = L
          /\ n.from = m.from + 2
          /\ n.pos = m.pos + 2 * Width
          /\ n.r \in Chosen
     /\ m.phase = "check" =>
          /\ m.done = L
          /\ n.k = m.k + 1 /\ n.phase = "extend" /\ n.done = 0
          /\ n.from = m.from
          /\ n.pos = m.pos + 4
          /\ n.r = <<>>

Rank(m) == IF m.phase = "extend" THEN 0 ELSE IF m.phase = "extra" THEN 1 ELSE 2
Earlier(m, n) == /\ m.pos < n.pos
                 /\ m.k < n.k \/ (m.k = n.k /\ (m.done < n.done \/ (m.done = n.done /\ Rank(m) < Rank(n))))

Phase(p) == IF pc[p] \in {"extra", "check"} THEN pc[p] ELSE "extend"
OTs(p) == IF Extending(p) THEN Len(data[p]) ELSE 0
IsAt(p, m) == m.k = Len(cot[p]) + 1 /\ m.phase = Phase(p) /\ m.done = OTs(p)
Last == place[Len(place)]

Places ==
  /\ Len(place) > 0 /\ step \in 1 .. Len(place)
  /\ place[1] = First
  /\ \A n \in 1 .. Len(place) - 1 : Follows(place[n], place[n + 1])
  /\ \A m, n \in 1 .. Len(place) : m < n => Earlier(place[m], place[n])
  /\ IsAt("BOB", Last)
  /\ IsAt("ALICE", place[step])
  /\ used.g0 = Last.from /\ used.g1 = Last.from
  /\ used.a = place[step].from
  /\ pc["BOB"] = "check" => local.r = Last.r /\ Last.r \in Chosen
  /\ pc["BOB"] # "check" => local.r = <<>>

(* The stream to ALICE *)
Before == IF pc["ALICE"] = "keys" /\ pc["BOB"] # "points" THEN 2 * Width
          ELSE IF pc["ALICE"] = "setup" /\ pc["BOB"] = "points" THEN 1 ELSE 0
Sent(n, x) == net["ALICE"][Before + (place[n].pos - place[step].pos) + x]

ChosenBits(k, done, j) ==
  {b \in Rows : LET x == done + (j - 1) * Width + b + 1
                IN  x <= Len(script[k].r) /\ script[k].r[x]}
ExtraBits(r, j) == {b \in Rows : r[(j - 1) * Width + b + 1]}
Given(from, i, j) == XOR(Stream(keys.k0[i], from + j - 1), Stream(keys.k1[i], from + j - 1))
Col(from, c) == {i \in Rows : (c - 1) % Width \in Stream(keys.k0[i], from + ((c - 1) \div Width))}
Have(p, k) == IF k <= Len(cot[p]) THEN cot[p][k]
              ELSE IF Extending(p) /\ k = at[p] THEN data[p] ELSE <<>>
Taken(k) == Have("BOB", k)
Coeffs(L, seed) == [i \in 1 .. L |-> Chi(seed)[((i - 1) % BlockSize) + 1]]
                     \o [i \in 1 .. 2 * Width |-> Chi(seed)[i]]
Columns2(from) == [x \in 1 .. 2 * Width |-> Col(from, x)]

Carried(n) ==
  LET m == place[n]
      w == Wide(New(m))
      t == InnerProduct(Coeffs(Len(script[m.k].r), Sent(n, 1)), cot["BOB"][m.k] \o Columns2(m.from - 2))
  IN /\ m.phase = "extend" => \A i \in Rows : \A j \in 1 .. w :
          Sent(n, i * w + j) = XOR(Given(m.from, i, j), ChosenBits(m.k, m.done, j))
     /\ m.phase = "extra" => \A i \in Rows : \A j \in 1 .. 2 :
          Sent(n, i * 2 + j) = XOR(Given(m.from, i, j), ExtraBits(place[n + 1].r, j))
     /\ m.phase = "check" =>
          /\ m.k <= Len(cot["BOB"])
          /\ Sent(n, 1) \in Combiners
          /\ Sent(n, 2) = Combined(Coeffs(Len(script[m.k].r), Sent(n, 1)), script[m.k].r \o m.r)
          /\ Sent(n, 3) = Low(t)
          /\ Sent(n, 4) = High(t)

ToAlice ==
  /\ Len(net["ALICE"]) = Before + (Last.pos - place[step].pos)
  /\ \A n \in step .. Len(place) - 1 : Carried(n)

(* What BOB and ALICE have of the correlated OTs *)
Columned ==
  /\ \A n \in 1 .. Len(place) - 1 :
       LET m == place[n]
       IN m.phase = "extend" => /\ m.done + New(m) <= Len(Taken(m.k))
                                /\ \A c \in 1 .. New(m) : Taken(m.k)[m.done + c] = Col(m.from, c)
  /\ pc["BOB"] = "check" => local.BOB = Columns2(Last.from - 2)
Correlates ==
  /\ Len(cot["ALICE"]) <= Len(cot["BOB"])
  /\ \A k \in 1 .. Len(script) :
       /\ Len(Have("ALICE", k)) <= Len(Taken(k))
       /\ \A i \in 1 .. Len(Have("ALICE", k)) :
            Have("ALICE", k)[i] = Active(Taken(k)[i], script[k].r[i], delta)
  /\ pc["ALICE"] = "check" =>
       /\ Len(local.ALICE) = 2 * Width
       /\ \A c \in 1 .. 2 * Width :
            local.ALICE[c] = Active(Col(place[step].from - 2, c), place[step].r[c], delta)

(* The hashing of the OTs *)
Done(p) == IF pc[p] = "hash" THEN Len(data[p]) ELSE 0
Gid0(p) == gid[p] - Done(p)
Whole(n) == \E m \in Nat : n = m * OTBatch
Rounded(n, h) == \E m \in Nat : h = m * OTBatch /\ n <= h /\ h < n + OTBatch
(* ALICE has begun to hash the call BOB is at *)
Past == at["ALICE"] = at["BOB"] + 1
Begun == Past \/ (at["ALICE"] = at["BOB"] /\ pc["ALICE"] = "hash")
Made == IF Past THEN Length("BOB") ELSE IF at["ALICE"] = at["BOB"] THEN Done("ALICE") ELSE 0
Greets == IF pc["BOB"] = "start" /\ Begun THEN 1 ELSE 0

InTurn ==
  /\ \A p \in Party : gid[p] >= Done(p) /\ Whole(Done(p))
  /\ at["ALICE"] <= at["BOB"] + 1
  /\ Past => /\ Hashing("BOB") /\ gid["ALICE"] >= Gid0("BOB") /\ Rounded(Length("BOB"), gid["ALICE"] - Gid0("BOB"))
             /\ ~Hashing("ALICE")
  /\ at["ALICE"] = at["BOB"] => Gid0("ALICE") = Gid0("BOB")
  /\ (at["ALICE"] = at["BOB"] /\ pc["BOB"] = "hash") => pc["ALICE"] = "hash"
  /\ at["ALICE"] < at["BOB"] =>
       /\ pc["BOB"] # "hash"
       /\ \A k \in at["ALICE"] .. at["BOB"] - 1 : 
            \/ script[k].kind = "cot"
            \/ k = at["ALICE"] /\ script[k].kind = "rot" /\ pc["ALICE"] = "hash"
       /\ pc["ALICE"] # "hash" => gid["BOB"] = gid["ALICE"]
       /\ pc["ALICE"] = "hash" => gid["BOB"] >= Gid0("ALICE") /\ Rounded(Length("ALICE"), gid["BOB"] - Gid0("ALICE"))
  /\ Greets = 1 => net["BOB"][1] = start["ALICE"]
  /\ Greets = 0 => start["ALICE"] = start["BOB"]

(* The ciphertext that opens to the message of bit b of the i-th OT *)
Sealing(i, b) == Sealed(<<start["ALICE"], Gid0("BOB") + i - 1, Active(cot["ALICE"][at["BOB"]][i], b, delta)>>,
                        Message(at["BOB"], i, b))
ToBob ==
  /\ (~Hashing("BOB") /\ ~(pc["BOB"] = "points" /\ pc["ALICE"] = "keys")) => net["BOB"] = <<>>
  /\ Hashing("BOB") =>
       Len(net["BOB"]) = Greets + IF Call("BOB").kind = "ot" THEN 2 * (Made - Done("BOB")) ELSE 0
  /\ (Hashing("BOB") /\ Call("BOB").kind = "ot") =>
       /\ Made >= Done("BOB")
       /\ \A i \in Done("BOB") + 1 .. Made : \A b \in BOOLEAN :
            net["BOB"][Greets + 2 * (i - Done("BOB")) - IF b THEN 0 ELSE 1] = Sealing(i, b)

(* What hashing gave *)
Results(p, k) == IF k < at[p] THEN out[p][k]
                 ELSE IF k = at[p] /\ pc[p] = "hash" THEN data[p] ELSE <<>>
Resulted ==
  /\ \A p \in Party : \A k \in 1 .. at[p] - 1 : Len(out[p][k]) = IF script[k].kind = "cot" THEN 0 ELSE Len(script[k].r)
  /\ \A k \in 1 .. Len(script) : script[k].kind = "ot" =>
       /\ \A i \in 1 .. Len(Results("ALICE", k)) : \A b \in BOOLEAN :
              Results("ALICE", k)[i][b] = Message(k, i, b)
       /\ \A i \in 1 .. Len(Results("BOB", k)) :
              Results("BOB", k)[i] = Message(k, i, script[k].r[i])
  /\ (Hashing("BOB") /\ Call("BOB").kind = "rot") =>
       \A i \in 1 .. Len(Results("ALICE", at["BOB"])) : \A b \in BOOLEAN :
            Results("ALICE", at["BOB"])[i][b] =
              <<start["ALICE"], Gid0("BOB") + i - 1, Active(cot["ALICE"][at["BOB"]][i], b, delta)>>
  /\ (pc["ALICE"] = "hash" /\ Call("ALICE").kind = "rot") =>
       \A i \in 1 .. Len(Results("BOB", at["ALICE"])) :
            Results("BOB", at["ALICE"])[i] =
              <<start["ALICE"], Gid0("ALICE") + i - 1, cot["BOB"][at["ALICE"]][i]>>
  /\ \A k \in 1 .. Len(script) : script[k].kind = "rot" =>
       \A i \in 1 .. AtMost(Len(Results("ALICE", k)), Len(Results("BOB", k))) :
         Results("BOB", k)[i] = Results("ALICE", k)[i][script[k].r[i]]

IInv == /\ TypeOK
        /\ Positions
        /\ BaseOT
        /\ Places
        /\ ToAlice
        /\ Columned
        /\ Correlates
        /\ InTurn
        /\ ToBob
        /\ Resulted
=============================================================================
