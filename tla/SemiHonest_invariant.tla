------------------------ MODULE SemiHonest_invariant ------------------------
(***************************************************************************)
(* The inductive invariant of the garbling protocol, and what all of its   *)
(* steps have in common: the program only grows, messages stay where they  *)
(* are until they are taken, and what a call has made stays.               *)
(*                                                                         *)
(* The invariant ties every message in a stream to the call it was sent    *)
(* for: mark[k].to[p] messages have been sent to p before the k-th call,   *)
(* so the n-th message to p is of the call whose marks n lies between, and *)
(* ToBob and ToAlice say what it holds.                                    *)
(***************************************************************************)
EXTENDS SemiHonest, SequenceTheorems, TLAPS

-----------------------------------------------------------------------------
(* Types *)

Ops == {"public", "feed", "and", "xor", "not", "reveal"}
CallType == [op : Ops, who : Party \cup {"PUBLIC", "XOR"}, bits : Seq(BOOLEAN), i : Nat, j : Nat]
Mark == [gid : Nat, counter : Nat, used : Nat, stocked : Nat, wires : Nat, reveals : Nat,
         to : [Party -> Nat]]
Message == [kind : {"constants"}, data : [BOOLEAN -> Block]]
             \cup [kind : {"block", "A", "B", "res", "seed"}, data : {<<>>}]
             \cup [kind : {"cot"}, data : [r : Seq(BOOLEAN), t : Seq(Block)]]
             \cup [kind : {"table"}, data : Block \X Block]
             \cup [kind : {"flips", "lsbs", "bits"}, data : Seq(BOOLEAN)]

TypeOK ==
  /\ script \in Seq(CallType)
  /\ val \in Seq(BOOLEAN)
  /\ mark \in Seq(Mark)
  /\ at \in [Party -> Nat]
  /\ pc \in [Party -> {"setup", "run", "feed", "reveal"}]
  /\ net \in [Party -> Seq(Message)]
  /\ delta \in Block
  /\ constant \in [Party -> [BOOLEAN -> Block]]
  /\ wire \in [Party -> Seq(Block)]
  /\ gid \in [Party -> Nat]
  /\ counter \in [Party -> Nat]
  /\ cots \in Nat
  /\ buf \in [Party -> [1 .. Batch -> Block]]
  /\ buff \in [1 .. Batch -> BOOLEAN]
  /\ stock \in Seq([t : Block, r : BOOLEAN])
  /\ top \in [Party -> 0 .. Batch]
  /\ part \in Seq(Block)
  /\ out \in [Party -> Seq(Seq(BOOLEAN))]

-----------------------------------------------------------------------------
(* Where a party is *)

Stage(p) == IF pc[p] = "setup" THEN at[p] ELSE Len(Setup) + 1
Call(p) == IF pc[p] = "setup" THEN 1 ELSE at[p]
Mid(p) == pc[p] \in {"feed", "reveal"}

(* The messages to p among the first s - 1 of the constructors. *)
Before(p, s) == IF p = "ALICE" THEN IF s <= 3 THEN 0 ELSE IF s <= 5 THEN 1 ELSE 2
                ELSE IF s = 1 THEN 0 ELSE IF s = 2 THEN 1 ELSE IF s <= 4 THEN 2
                ELSE IF s <= 6 THEN 3 ELSE 4

(* The calls of which p has sent its messages are those before Reached(p). *)
Reached(p) == IF pc[p] = "reveal" THEN at[p] + 1 ELSE Call(p)

(* How many messages have been sent to p, and how many p has taken. *)
Sent(p) == IF pc[Peer(p)] = "setup" THEN Before(p, at[Peer(p)])
           ELSE mark[Reached(Peer(p))].to[p]
Read(p) == IF pc[p] = "setup" THEN Before(p, at[p])
           ELSE IF Mid(p) THEN mark[at[p] + 1].to[p] - 1
           ELSE mark[at[p]].to[p]
Due(p, n) == net[p][n - Read(p)]       \* the n-th message to p

(* What p has taken from the pool, and what it has put into it. *)
Pooled(p) == IF pc[p] = "feed" THEN mark[at[p] + 1] ELSE mark[Call(p)]

-----------------------------------------------------------------------------
(* The inductive invariant *)

Positions ==
  /\ pc["BOB"] \in {"setup", "run"}
  /\ \A p \in Party : at[p] \in IF pc[p] = "setup" THEN 1 .. Len(Setup)
                                ELSE IF Mid(p) THEN 1 .. Len(script)
                                ELSE 1 .. Len(script) + 1
  /\ pc["ALICE"] = "feed" => LET c == script[at["ALICE"]] IN FeedsBob(c) /\ Len(c.bits) <= Batch
  /\ pc["ALICE"] = "reveal" => LET c == script[at["ALICE"]] IN c.op = "reveal" /\ c.who = "PUBLIC"

CallOK(k) ==
  LET c == script[k]
      w == mark[k].wires
  IN /\ c.op \in {"and", "xor", "not", "reveal"} => c.i \in 1 .. w /\ c.j \in 1 .. w /\ c.bits = <<>>
     /\ c.op = "reveal" => c.i <= c.j
     /\ c.op = "not" => c.i = c.j
     /\ c.op = "public" => Len(c.bits) = 1
     /\ c.op = "feed" => c.who \in Party
     /\ c.op \in {"public", "feed"} => \A i \in 1 .. Len(c.bits) : val[w + i] = c.bits[i]
     /\ c.op = "and" => val[w + 1] = (val[c.i] /\ val[c.j])
     /\ c.op = "xor" => val[w + 1] = (val[c.i] # val[c.j])
     /\ c.op = "not" => val[w + 1] = ~val[c.i]

Program ==
  /\ Len(mark) = Len(script) + 1
  /\ mark[1] = [gid |-> 0, counter |-> 0, used |-> 0, stocked |-> Batch, wires |-> 0,
                reveals |-> 0, to |-> [p \in Party |-> IF p = "ALICE" THEN 3 ELSE 4]]
  /\ \A k \in 1 .. Len(script) : mark[k + 1] = After(mark[k], script[k])
  /\ \A k \in 1 .. Len(script) : CallOK(k)
  /\ Len(val) = mark[Len(mark)].wires

Precedes(m, n) == /\ m.used <= n.used
                  /\ m.stocked <= n.stocked
                  /\ m.wires <= n.wires
                  /\ m.reveals <= n.reveals
                  /\ \A p \in Party : m.to[p] <= n.to[p]
Monotone ==
  /\ \A k \in 1 .. Len(mark) : /\ mark[k].used <= mark[k].stocked
                               /\ mark[k].stocked <= mark[k].used + Batch
                               /\ Batch <= mark[k].stocked
  /\ \A j, k \in 1 .. Len(mark) : j <= k => Precedes(mark[j], mark[k])

Counters == \A p \in Party :
  /\ gid[p] = mark[Call(p)].gid
  /\ counter[p] = mark[Call(p)].counter
  /\ Len(wire[p]) = mark[Call(p)].wires
  /\ Len(out[p]) = mark[Call(p)].reveals
  /\ top[p] = Batch - (Pooled(p).stocked - Pooled(p).used)

Queues == \A p \in Party : Len(net[p]) = Sent(p) - Read(p)

Constants ==
  /\ Stage("ALICE") > 1 => LSB(delta)
  /\ Stage("BOB") > 1 => \A b \in BOOLEAN :
       constant["BOB"][b] = Active(constant["ALICE"][b], b, delta)

(* A message that refills the pool when s blocks have been put into it. *)
Refills(m, s) ==
  /\ m.kind = "cot"
  /\ Len(m.data.t) = Batch
  /\ Len(m.data.r) = Batch
  /\ \A i \in 1 .. Batch : m.data.t[i] = stock[s + i].t /\ m.data.r[i] = stock[s + i].r

Greetings ==
  /\ \A p \in Party : \A s \in Stage(p) .. Stage(Peer(p)) - 1 :
       Setup[s].from = Peer(p) => Due(p, Before(p, s) + 1).kind = Setup[s].kind
  /\ (Stage("BOB") = 1 /\ Stage("ALICE") > 1) =>
       \A b \in BOOLEAN : Due("BOB", 1).data[b] = Active(constant["ALICE"][b], b, delta)
  /\ (pc["ALICE"] = "setup" /\ pc["BOB"] # "setup") => Refills(Due("ALICE", 3), 0)

(* The message to BOB of the k-th call *)
ToBob(k) ==
  LET c == script[k]
      m == Due("BOB", mark[k].to["BOB"] + 1)
  IN /\ c.op = "and" =>
          m = Msg("table", Garble(wire["ALICE"][c.i], wire["ALICE"][c.j], delta, mark[k].gid + 1).table)
     /\ (c.op = "reveal" /\ c.who \in {"BOB", "PUBLIC"}) => m = Msg("lsbs", Lsbs("ALICE", c))

(* The messages to ALICE of the k-th call: if it refills the pool there    *)
(* are two, of which she may have taken the first.                         *)
ToAlice(k) ==
  LET c == script[k]
      n == Len(c.bits)
      first == Due("ALICE", mark[k].to["ALICE"] + 1)
      m == Due("ALICE", mark[k + 1].to["ALICE"])
  IN /\ (FeedsBob(c) /\ n > Batch) =>
          /\ m.kind = "cot"
          /\ Len(m.data.t) = n
          /\ Len(m.data.r) = n
          /\ \A i \in 1 .. n : /\ m.data.t[i] = wire["BOB"][mark[k].wires + i]
                               /\ m.data.r[i] = c.bits[i]
     /\ (FeedsBob(c) /\ n <= Batch) =>
          m = Msg("flips", [i \in 1 .. n |-> stock[mark[k].used + i].r # c.bits[i]])
     /\ (mark[k].stocked # mark[k + 1].stocked /\ Read("ALICE") <= mark[k].to["ALICE"]) =>
          Refills(first, mark[k].stocked)
     /\ (c.op = "reveal" /\ c.who = "ALICE") => m = Msg("lsbs", Lsbs("BOB", c))
     /\ (c.op = "reveal" /\ c.who = "PUBLIC") => m = Msg("bits", Clears(c))

Contents ==
  /\ \A k \in Call("BOB") .. Reached("ALICE") - 1 : ToBob(k)
  /\ \A k \in Call("ALICE") .. Call("BOB") - 1 : ToAlice(k)

Pool ==
  /\ Len(stock) = IF pc["BOB"] = "setup" THEN 0 ELSE mark[Call("BOB")].stocked
  /\ pc["BOB"] # "setup" => \A i \in 1 .. Batch :
       LET s == stock[mark[Call("BOB")].stocked - Batch + i]
       IN buf["BOB"][i] = s.t /\ buff[i] = s.r
  /\ pc["ALICE"] # "setup" =>
       /\ Pooled("ALICE").stocked <= Len(stock)
       /\ \A i \in 1 .. Batch :
            LET s == stock[Pooled("ALICE").stocked - Batch + i]
            IN buf["ALICE"][i] = Active(s.t, s.r, delta)
  /\ pc["ALICE"] = "feed" =>
       LET c == script[at["ALICE"]]
           u == mark[at["ALICE"]].used
       IN /\ Len(part) = Len(c.bits)
          /\ \A i \in 1 .. Len(part) : part[i] = Active(stock[u + i].t, stock[u + i].r, delta)

(* p's labels of the wires of the k-th call *)
CallLabels(p, k) ==
  LET c == script[k]
      w == mark[k].wires
      W == wire[p]
  IN /\ c.op = "public" => W[w + 1] = constant[p][c.bits[1]]
     /\ c.op = "xor" => W[w + 1] = XOR(W[c.i], W[c.j])
     /\ c.op = "not" => W[w + 1] = XOR(W[c.i], constant[p][TRUE])
     /\ (c.op = "and" /\ p = "ALICE") =>
          W[w + 1] = Garble(W[c.i], W[c.j], delta, mark[k].gid + 1).label
     /\ (c.op = "feed" /\ c.who = "ALICE") => \A i \in 1 .. Len(c.bits) :
          W[w + i] = IF p = "ALICE" THEN Active(Prg(mark[k].counter + i), c.bits[i], delta)
                     ELSE Prg(mark[k].counter + i)
     /\ (FeedsBob(c) /\ Len(c.bits) <= Batch) => \A i \in 1 .. Len(c.bits) :
          LET t == stock[mark[k].used + i].t
          IN W[w + i] = IF p = "ALICE" THEN Active(t, c.bits[i], delta) ELSE t

Labels ==
  /\ \A p \in Party : \A k \in 1 .. Call(p) - 1 : CallLabels(p, k)
  /\ LabelsMatch

(* What p has been given by the k-th call *)
Given(p, k) ==
  LET c == script[k]
      b == out[p][mark[k].reveals + 1]
  IN c.op = "reveal" =>
       /\ c.who \in {p, "PUBLIC"} => b = Clears(c)
       /\ c.who = Peer(p) => b = Nothing(c)
       /\ c.who = "XOR" => b = Lsbs(p, c)

Outputs == \A p \in Party : \A k \in 1 .. Call(p) - 1 : Given(p, k)

IInv == /\ TypeOK
        /\ Positions
        /\ Program
        /\ Monotone
        /\ Counters
        /\ Queues
        /\ Constants
        /\ Greetings
        /\ Contents
        /\ Pool
        /\ Labels
        /\ Outputs

-----------------------------------------------------------------------------
(* Gates: what one gate promises, for blocks of any width, any hash        *)
(* functions and any gate number.  The evaluator, who knows one label of   *)
(* each input wire, gets the label of the right value of the output wire.  *)
(* off is any delta whose permute bit is set, gate any number of a gate.   *)

(* The permute bit of an active label is the value, hidden by the permute  *)
(* bit of the garbler's label, because delta's own bit is one              *)
(* (circuit_execution.h 50-51, 102).                                       *)
LEMMA PermuteBit ==
  ASSUME NEW x, NEW v \in BOOLEAN, NEW off, LSB(off)
  PROVE  LSB(Active(x, v, off)) <=> (LSB(x) # v)
  BY DEF LSB, Active, Mask, XOR

(* The xor of labels is a label of the xor of the values: xor_gate needs no*)
(* message and no hash (circuit_execution.h 116-118, 146-148).             *)
THEOREM XorGateCorrect ==
  ASSUME NEW a, NEW b, NEW off, NEW va \in BOOLEAN, NEW vb \in BOOLEAN
  PROVE  XOR(Active(a, va, off), Active(b, vb, off)) =
           Active(XOR(a, b), va # vb, off)
<1>1. CASE va /\ vb
  BY <1>1 DEF Active, Mask, XOR
<1>2. CASE va /\ ~vb
  BY <1>2 DEF Active, Mask, XOR
<1>3. CASE ~va /\ vb
  BY <1>3 DEF Active, Mask, XOR
<1>4. CASE ~va /\ ~vb
  BY <1>4 DEF Active, Mask, XOR
<1> QED
  BY <1>1, <1>2, <1>3, <1>4

(* A label the evaluator holds is one of the two of its wire. *)
LEMMA ActiveIs ==
  ASSUME NEW x, NEW off
  PROVE  Active(x, TRUE, off) = XOR(x, off) /\ Active(x, FALSE, off) = x
  BY DEF Active, Mask, XOR

-----------------------------------------------------------------------------
(* The garbler's half: (not knowing vb) the evaluator gets the label of    *)
(* va /\ p, where p is the permute bit of b.                               *)
LEMMA GarblerHalf ==
  ASSUME NEW h0, NEW h1, NEW off, NEW sa \in BOOLEAN, NEW p \in BOOLEAN,
         NEW va \in BOOLEAN
  PROVE  LET t0 == XOR(XOR(h0, h1), Mask(p, off))
         IN  XOR(IF va THEN h1 ELSE h0, Mask(sa # va, t0)) =
               XOR(XOR(h0, Mask(sa, t0)), Mask(va /\ p, off))
<1>1. CASE va /\ sa
  BY <1>1 DEF Mask, XOR
<1>2. CASE va /\ ~sa
  BY <1>2 DEF Mask, XOR
<1>3. CASE ~va /\ sa
  BY <1>3 DEF Mask, XOR
<1>4. CASE ~va /\ ~sa
  BY <1>4 DEF Mask, XOR
<1> QED
  BY <1>1, <1>2, <1>3, <1>4

(* The evaluator's half: she knows r, which is vb xored with the permute   *)
(* bit p of b, and gets the label of va /\ r from the label A of va.       *)
LEMMA EvaluatorHalf ==
  ASSUME NEW g0, NEW g1, NEW a, NEW off, NEW p \in BOOLEAN, NEW va \in BOOLEAN,
         NEW vb \in BOOLEAN
  PROVE  LET tmp == XOR(g0, g1)
             A == Active(a, va, off)
             r == (p # vb)
         IN  XOR(XOR(IF vb THEN g1 ELSE g0, Mask(r, XOR(tmp, a))), Mask(r, A)) =
               XOR(XOR(g0, Mask(p, tmp)), Mask(va /\ r, off))
<1>1. CASE va /\ vb /\ p
  BY <1>1 DEF Active, Mask, XOR
<1>2. CASE va /\ vb /\ ~p
  BY <1>2 DEF Active, Mask, XOR
<1>3. CASE va /\ ~vb /\ p
  BY <1>3 DEF Active, Mask, XOR
<1>4. CASE va /\ ~vb /\ ~p
  BY <1>4 DEF Active, Mask, XOR
<1>5. CASE ~va /\ vb /\ p
  BY <1>5 DEF Active, Mask, XOR
<1>6. CASE ~va /\ vb /\ ~p
  BY <1>6 DEF Active, Mask, XOR
<1>7. CASE ~va /\ ~vb /\ p
  BY <1>7 DEF Active, Mask, XOR
<1>8. CASE ~va /\ ~vb /\ ~p
  BY <1>8 DEF Active, Mask, XOR
<1> QED
  BY <1>1, <1>2, <1>3, <1>4, <1>5, <1>6, <1>7, <1>8

(* Any order of summation gives the same sum. *)
LEMMA Regroup ==
  ASSUME NEW u, NEW v, NEW x, NEW y, NEW z
  PROVE  XOR(XOR(XOR(XOR(u, v), x), y), z) = XOR(XOR(u, x), XOR(XOR(v, y), z))
  BY DEF XOR

(* The parts of the output label apart from the multiples of delta. *)
LEMMA Collect ==
  ASSUME NEW h, NEW g, NEW s, NEW t, NEW x, NEW y
  PROVE  XOR(XOR(XOR(h, s), x), XOR(XOR(g, t), y)) =
           XOR(XOR(XOR(XOR(h, s), g), t), XOR(x, y))
  BY DEF XOR

(* The two halves contribute delta va /\ p and va /\ (p # vb) times. *)
LEMMA HalvesMeet ==
  ASSUME NEW off, NEW p \in BOOLEAN, NEW va \in BOOLEAN, NEW vb \in BOOLEAN
  PROVE  XOR(Mask(va /\ p, off), Mask(va /\ (p # vb), off)) = Mask(va /\ vb, off)
<1>1. CASE p /\ vb
  BY <1>1 DEF Mask, XOR
<1>2. CASE p /\ ~vb
  BY <1>2 DEF Mask, XOR
<1>3. CASE ~p /\ vb
  BY <1>3 DEF Mask, XOR
<1>4. CASE ~p /\ ~vb
  BY <1>4 DEF Mask, XOR
<1> QED
  BY <1>1, <1>2, <1>3, <1>4

(* and_gate: whatever the labels, the two ciphertexts and the gate's number*)
(* let the evaluator turn the labels of va and vb into that of va /\ vb    *)
(* (halfgates_garble and halfgates_eval, circuit_execution.h 17-66).       *)
THEOREM AndGateCorrect ==
  ASSUME NEW a, NEW b, NEW off, LSB(off), NEW gate,
         NEW va \in BOOLEAN, NEW vb \in BOOLEAN
  PROVE  Eval(Active(a, va, off), Active(b, vb, off),
              Garble(a, b, off, gate).table, gate) =
           Active(Garble(a, b, off, gate).label, va /\ vb, off)
<1> DEFINE A == Active(a, va, off)
           B == Active(b, vb, off)
           h0 == Hash(a, 2 * gate)
           h1 == Hash(XOR(a, off), 2 * gate)
           g0 == Hash(b, 2 * gate + 1)
           g1 == Hash(XOR(b, off), 2 * gate + 1)
           sa == LSB(a)
           p == LSB(b)
           r == (p # vb)
           t0 == XOR(XOR(h0, h1), Mask(p, off))
           tmp == XOR(g0, g1)
           HA == Hash(A, 2 * gate)
           HB == Hash(B, 2 * gate + 1)
           G == Garble(a, b, off, gate)
<1>1. HA = IF va THEN h1 ELSE h0
  BY ActiveIs
<1>2. HB = IF vb THEN g1 ELSE g0
  BY ActiveIs
<1>3. sa \in BOOLEAN /\ p \in BOOLEAN /\ r \in BOOLEAN
  BY DEF LSB
<1>4. Mask(LSB(A), t0) = Mask(sa # va, t0)
  BY PermuteBit DEF Mask
<1>5. \A x : Mask(LSB(B), x) = Mask(r, x)
  BY PermuteBit DEF Mask
<1>6. /\ G.table[1] = t0
      /\ G.table[2] = XOR(tmp, a)
      /\ G.label = XOR(XOR(XOR(h0, Mask(sa, t0)), g0), Mask(p, tmp))
  BY DEF Garble
<1>7. Eval(A, B, G.table, gate) =
        XOR(XOR(XOR(XOR(HA, HB), Mask(LSB(A), t0)), Mask(LSB(B), XOR(tmp, a))),
            Mask(LSB(B), A))
  BY <1>6, Zenon DEF Eval
<1>8. XOR(HA, Mask(sa # va, t0)) =
        XOR(XOR(h0, Mask(sa, t0)), Mask(va /\ p, off))
  <2> HIDE DEF h0, h1, sa, p, HA
  <2> QED
    BY <1>1, <1>3, GarblerHalf
<1>9. XOR(XOR(HB, Mask(r, XOR(tmp, a))), Mask(r, A)) =
        XOR(XOR(g0, Mask(p, tmp)), Mask(va /\ r, off))
  <2> HIDE DEF g0, g1, p, HB
  <2> QED
    BY <1>2, <1>3, EvaluatorHalf
<1>10. XOR(Mask(va /\ p, off), Mask(va /\ r, off)) = Mask(va /\ vb, off)
  <2> HIDE DEF p
  <2> QED
    BY <1>3, HalvesMeet
<1> HIDE DEF A, B, h0, h1, g0, g1, sa, p, r, t0, tmp, HA, HB, G
<1>11. Eval(A, B, G.table, gate) =
         XOR(XOR(HA, Mask(sa # va, t0)),
             XOR(XOR(HB, Mask(r, XOR(tmp, a))), Mask(r, A)))
  <2> DEFINE x == Mask(sa # va, t0)
             y == Mask(r, XOR(tmp, a))
             z == Mask(r, A)
  <2>1. Mask(LSB(A), t0) = x /\ Mask(LSB(B), XOR(tmp, a)) = y /\ Mask(LSB(B), A) = z
    BY <1>4, <1>5, Zenon
  <2> HIDE DEF x, y, z
  <2>2. Eval(A, B, G.table, gate) = XOR(XOR(XOR(XOR(HA, HB), x), y), z)
    BY <1>7, <2>1, Zenon
  <2>3. XOR(XOR(XOR(XOR(HA, HB), x), y), z) = XOR(XOR(HA, x), XOR(XOR(HB, y), z))
    BY Regroup
  <2> QED
    BY <2>2, <2>3, Zenon DEF x, y, z
<1>12. Eval(A, B, G.table, gate) =
         XOR(XOR(XOR(XOR(h0, Mask(sa, t0)), g0), Mask(p, tmp)),
             XOR(Mask(va /\ p, off), Mask(va /\ r, off)))
  <2> DEFINE s == Mask(sa, t0)
             t == Mask(p, tmp)
             x == Mask(va /\ p, off)
             y == Mask(va /\ r, off)
  <2>1. Eval(A, B, G.table, gate) = XOR(XOR(XOR(h0, s), x), XOR(XOR(g0, t), y))
    BY <1>8, <1>9, <1>11, Zenon
  <2> HIDE DEF s, t, x, y
  <2>2. XOR(XOR(XOR(h0, s), x), XOR(XOR(g0, t), y)) =
          XOR(XOR(XOR(XOR(h0, s), g0), t), XOR(x, y))
    BY Collect
  <2> QED
    BY <2>1, <2>2, Zenon DEF s, t, x, y
<1>13. Eval(A, B, G.table, gate) = XOR(G.label, Mask(va /\ vb, off))
  BY <1>6, <1>10, <1>12, Zenon
<1> QED
  BY <1>13, Zenon DEF A, B, G, Active

-----------------------------------------------------------------------------
(* Sequences *)

(* There are two parties, each the other's peer. *)
LEMMA PeerFacts == ASSUME NEW p \in Party
  PROVE  /\ Peer(p) \in Party
         /\ Peer(p) # p
         /\ Peer(Peer(p)) = p
         /\ \A q \in Party : q = p \/ q = Peer(p)
         /\ Peer("ALICE") = "BOB" /\ Peer("BOB") = "ALICE"
         /\ "ALICE" \in Party /\ "BOB" \in Party
  BY DEF Party, Peer

(* A function on 1 .. n is a sequence of length n. *)
LEMMA FunSeq == ASSUME NEW S, NEW n \in Nat, NEW f \in [1 .. n -> S]
  PROVE  /\ f \in Seq(S)
         /\ Len(f) = n
<1>1. f \in Seq(S)
  BY SeqDef
<1> QED
  BY <1>1, LenProperties

(* An element of a sequence is in its set. *)
LEMMA SeqAt == ASSUME NEW S, NEW s \in Seq(S), NEW i \in 1 .. Len(s)
  PROVE  s[i] \in S
  BY ElementOfSeq

(* What Append gives: its type, its length, its elements. *)
LEMMA AppendFacts == ASSUME NEW S, NEW s \in Seq(S), NEW e \in S
  PROVE  /\ Append(s, e) \in Seq(S)
         /\ Len(Append(s, e)) = Len(s) + 1
         /\ Append(s, e)[Len(s) + 1] = e
         /\ \A i \in 1 .. Len(s) : Append(s, e)[i] = s[i]
  OBVIOUS

(* The sequence of one element. *)
LEMMA OneFacts == ASSUME NEW S, NEW e \in S
  PROVE  <<e>> \in Seq(S) /\ Len(<<e>>) = 1 /\ <<e>>[1] = e
  OBVIOUS

(* The sequence of two elements. *)
LEMMA TwoFacts == ASSUME NEW S, NEW e \in S, NEW f \in S
  PROVE  <<e, f>> \in Seq(S) /\ Len(<<e, f>>) = 2 /\ <<e, f>>[1] = e /\ <<e, f>>[2] = f
  OBVIOUS

(* What a concatenation gives: its type, its length, its elements. *)
LEMMA ConcatFacts == ASSUME NEW S, NEW s \in Seq(S), NEW t \in Seq(S)
  PROVE  /\ s \o t \in Seq(S)
         /\ Len(s \o t) = Len(s) + Len(t)
         /\ \A i \in 1 .. Len(s) : (s \o t)[i] = s[i]
         /\ \A i \in 1 .. Len(t) : (s \o t)[Len(s) + i] = t[i]
<1>1. /\ Len(s) \in Nat /\ Len(t) \in Nat
      /\ s \o t \in Seq(S)
      /\ Len(s \o t) = Len(s) + Len(t)
      /\ \A i \in 1 .. Len(s) + Len(t) :
           (s \o t)[i] = IF i <= Len(s) THEN s[i] ELSE t[i - Len(s)]
  BY ConcatProperties, LenProperties
<1>2. ASSUME NEW i \in 1 .. Len(t)
      PROVE  (s \o t)[Len(s) + i] = t[i]
  <2> DEFINE m == Len(s)
             n == Len(t)
             u == s \o t
  <2>1. m \in Nat /\ n \in Nat /\ i \in 1 .. n
    BY <1>1
  <2>2. \A j \in 1 .. m + n : u[j] = IF j <= m THEN s[j] ELSE t[j - m]
    BY <1>1
  <2> HIDE DEF m, n, u
  <2>3. m + i \in 1 .. m + n /\ ~(m + i <= m) /\ m + i - m = i
    BY <2>1
  <2>4. u[m + i] = t[m + i - m]
    BY <2>1, <2>2, <2>3
  <2>5. u[m + i] = t[i]
    BY <2>3, <2>4, Zenon
  <2> QED
    BY <2>5 DEF m, u
<1> QED
  BY <1>1, <1>2

(* Head and Tail of a sequence that is not empty: what recv_data takes from*)
(* a stream and what it leaves.                                            *)
LEMMA TailFacts == ASSUME NEW S, NEW s \in Seq(S), s # <<>>
  PROVE  /\ Len(s) \in Nat \ {0}
         /\ Head(s) = s[1]
         /\ Head(s) \in S
         /\ Tail(s) \in Seq(S)
         /\ Len(Tail(s)) = Len(s) - 1
         /\ \A i \in 1 .. Len(s) - 1 : Tail(s)[i] = s[i + 1]
  BY HeadTailProperties, EmptySeq

(* n elements from the one after the a-th: a slice of the labels or of the *)
(* pool.                                                                   *)
LEMMA SubSeqFacts ==
  ASSUME NEW S, NEW s, NEW a \in Nat, NEW n \in Nat, \A i \in a + 1 .. a + n : s[i] \in S
  PROVE  /\ SubSeq(s, a + 1, a + n) \in Seq(S)
         /\ Len(SubSeq(s, a + 1, a + n)) = n
         /\ \A i \in 1 .. n : SubSeq(s, a + 1, a + n)[i] = s[a + i]
<1>1. a + 1 \in Int /\ a + n \in Int /\ a + n - (a + 1) + 1 = n
  OBVIOUS
<1>2. /\ SubSeq(s, a + 1, a + n) \in Seq(S)
      /\ Len(SubSeq(s, a + 1, a + n)) = IF a + 1 <= a + n THEN a + n - (a + 1) + 1 ELSE 0
      /\ \A i \in 1 .. a + n - (a + 1) + 1 : SubSeq(s, a + 1, a + n)[i] = s[a + 1 + i - 1]
  BY <1>1, SubSeqProperties
<1>3. \A i \in 1 .. n : a + 1 + i - 1 = a + i
  OBVIOUS
<1> QED
  BY <1>1, <1>2, <1>3

-----------------------------------------------------------------------------
(* Blocks *)

(* The xor of two blocks is a block. *)
LEMMA XORBlock == ASSUME NEW x \in Block, NEW y \in Block
  PROVE  XOR(x, y) \in Block
  BY DEF Block, XOR

(* select_mask of a block is a block. *)
LEMMA MaskBlock == ASSUME NEW x \in Block, NEW v \in BOOLEAN
  PROVE  Mask(v, x) \in Block
  BY DEF Block, Mask

(* The label of a value is a block. *)
LEMMA ActiveBlock == ASSUME NEW x \in Block, NEW v \in BOOLEAN, NEW d \in Block
  PROVE  Active(x, v, d) \in Block
  BY XORBlock, MaskBlock DEF Active

(* MITCCRH gives blocks. *)
LEMMA HashBlock == ASSUME NEW x \in Block, NEW t \in Nat
  PROVE  Hash(x, t) \in Block
<1> DEFINE n == Len(Hashes)
<1>1. n \in Nat \ {0}
  BY HalfGatesAssumption, EmptySeq
<1>2. (t % n) + 1 \in 1 .. n
  <2> HIDE DEF n
  <2> QED
    BY <1>1
<1>3. Hashes[(t % n) + 1] \in [Block -> Block]
  BY <1>2, HalfGatesAssumption, ElementOfSeq
<1> QED
  BY <1>3 DEF Hash

(* getLSB gives a Boolean. *)
LEMMA LSBBoolean == \A x : LSB(x) \in BOOLEAN
  BY DEF LSB

(* garble_gate_garble_halfgates makes two blocks of a table and a label. *)
LEMMA GarbleBlock ==
  ASSUME NEW a \in Block, NEW b \in Block, NEW d \in Block, NEW g \in Nat
  PROVE  /\ Garble(a, b, d, g).table \in Block \X Block
         /\ Garble(a, b, d, g).label \in Block
<1> DEFINE HLA0 == Hash(a, 2 * g)
           HA1 == Hash(XOR(a, d), 2 * g)
           HLB0 == Hash(b, 2 * g + 1)
           HB1 == Hash(XOR(b, d), 2 * g + 1)
           t0 == XOR(XOR(HLA0, HA1), Mask(LSB(b), d))
           tmp == XOR(HLB0, HB1)
<1>1. 2 * g \in Nat /\ 2 * g + 1 \in Nat
  OBVIOUS
<1>2. HLA0 \in Block /\ HA1 \in Block /\ HLB0 \in Block /\ HB1 \in Block
  BY <1>1, HashBlock, XORBlock
<1>3. t0 \in Block /\ tmp \in Block
  <2> HIDE DEF HLA0, HA1, HLB0, HB1
  <2> QED
    BY <1>2, XORBlock, MaskBlock, LSBBoolean
<1>4. /\ Garble(a, b, d, g).table = <<t0, XOR(tmp, a)>>
      /\ Garble(a, b, d, g).label =
           XOR(XOR(XOR(HLA0, Mask(LSB(a), t0)), HLB0), Mask(LSB(b), tmp))
  BY DEF Garble
<1> HIDE DEF HLA0, HA1, HLB0, HB1, t0, tmp
<1>5. XOR(tmp, a) \in Block /\ Mask(LSB(a), t0) \in Block /\ Mask(LSB(b), tmp) \in Block
  BY <1>3, XORBlock, MaskBlock, LSBBoolean
<1>6. XOR(XOR(XOR(HLA0, Mask(LSB(a), t0)), HLB0), Mask(LSB(b), tmp)) \in Block
  BY <1>2, <1>5, XORBlock
<1> QED
  BY <1>3, <1>4, <1>5, <1>6

(* garble_gate_eval_halfgates makes a label. *)
LEMMA EvalBlock ==
  ASSUME NEW a \in Block, NEW b \in Block, NEW t \in Block \X Block, NEW g \in Nat
  PROVE  Eval(a, b, t, g) \in Block
<1>1. 2 * g \in Nat /\ 2 * g + 1 \in Nat
  OBVIOUS
<1>2. /\ Hash(a, 2 * g) \in Block /\ Hash(b, 2 * g + 1) \in Block
      /\ Mask(LSB(a), t[1]) \in Block /\ Mask(LSB(b), t[2]) \in Block /\ Mask(LSB(b), a) \in Block
  BY <1>1, HashBlock, MaskBlock, LSBBoolean
<1> QED
  BY <1>2, XORBlock DEF Eval

(* The shared PRG gives blocks. *)
LEMMA PrgBlock == ASSUME NEW k \in Nat
  PROVE  Prg(k) \in Block
<1> DEFINE n == Len(PrgBlocks)
<1>1. n \in Nat \ {0}
  BY SemiHonestAssumption, EmptySeq
<1>2. (k % n) + 1 \in 1 .. n
  <2> HIDE DEF n
  <2> QED
    BY <1>1
<1> QED
  BY <1>2, SemiHonestAssumption, ElementOfSeq DEF Prg

(* recv_cot gives blocks. *)
LEMMA CotBlock == ASSUME NEW k \in Nat
  PROVE  Cot(k) \in Block
<1> DEFINE n == Len(OTBlocks)
<1>1. n \in Nat \ {0}
  BY SemiHonestAssumption, EmptySeq
<1>2. (k % n) + 1 \in 1 .. n
  <2> HIDE DEF n
  <2> QED
    BY <1>1
<1> QED
  BY <1>2, SemiHonestAssumption, ElementOfSeq DEF Cot

(* Two corrections in a row are one. *)
LEMMA Corrected ==
  ASSUME NEW x, NEW d, NEW r \in BOOLEAN, NEW f \in BOOLEAN
  PROVE  Active(Active(x, r, d), f, d) = Active(x, r # f, d)
<1>1. CASE r /\ f
  BY <1>1 DEF Active, Mask, XOR
<1>2. CASE r /\ ~f
  BY <1>2 DEF Active, Mask, XOR
<1>3. CASE ~r /\ f
  BY <1>3 DEF Active, Mask, XOR
<1>4. CASE ~r /\ ~f
  BY <1>4 DEF Active, Mask, XOR
<1> QED
  BY <1>1, <1>2, <1>3, <1>4

(* xor with a masked delta, twice, changes nothing. *)
LEMMA Undone ==
  ASSUME NEW x, NEW d, NEW b \in BOOLEAN
  PROVE  Active(Active(x, b, d), b, d) = x
<1>1. CASE b
  BY <1>1 DEF Active, Mask, XOR
<1>2. CASE ~b
  BY <1>2 DEF Active, Mask, XOR
<1> QED
  BY <1>1, <1>2

-----------------------------------------------------------------------------
(* The program only grows, and what it has done with it. *)

ProgramTyped == /\ script \in Seq(CallType)
                /\ val \in Seq(BOOLEAN)
                /\ mark \in Seq(Mark)

(* A pool is not empty. *)
LEMMA BatchFacts == Batch \in Nat \ {0}
  BY SemiHonestAssumption

(* The fields of After: what each kind of call adds to the counters of both*)
(* parties and to the messages to either.                                  *)
LEMMA AfterFields == ASSUME NEW m \in Mark, NEW c \in CallType
  PROVE  LET n == Len(c.bits)
             a == After(m, c)
             pooled == FeedsBob(c) /\ n <= Batch
             wraps == pooled /\ m.used + n > m.stocked
         IN /\ a.gid = IF c.op = "and" THEN m.gid + 1 ELSE m.gid
            /\ a.counter = IF c.op = "feed" /\ c.who = "ALICE" THEN m.counter + n ELSE m.counter
            /\ a.used = IF pooled THEN m.used + n ELSE m.used
            /\ a.stocked = IF wraps THEN m.stocked + Batch ELSE m.stocked
            /\ a.wires = IF c.op \in {"and", "xor", "not"} THEN m.wires + 1 ELSE m.wires + n
            /\ a.reveals = IF c.op = "reveal" THEN m.reveals + 1 ELSE m.reveals
            /\ a.to["ALICE"] = IF wraps THEN m.to["ALICE"] + 2
                               ELSE IF FeedsBob(c) \/ (c.op = "reveal" /\ c.who \in {"ALICE", "PUBLIC"})
                               THEN m.to["ALICE"] + 1 ELSE m.to["ALICE"]
            /\ a.to["BOB"] = IF c.op = "and" \/ (c.op = "reveal" /\ c.who \in {"BOB", "PUBLIC"})
                             THEN m.to["BOB"] + 1 ELSE m.to["BOB"]
            /\ a \in Mark
<1> DEFINE n == Len(c.bits)
           a == After(m, c)
           pooled == FeedsBob(c) /\ n <= Batch
           wraps == pooled /\ m.used + n > m.stocked
           opens(p) == c.op = "reveal" /\ c.who \in {p, "PUBLIC"}
           to(p) == IF p = "ALICE" /\ wraps THEN m.to[p] + 2
                    ELSE IF \/ p = "ALICE" /\ FeedsBob(c)
                            \/ p = "BOB" /\ c.op = "and"
                            \/ opens(p) THEN m.to[p] + 1
                    ELSE m.to[p]
<1>1. a = [gid |-> IF c.op = "and" THEN m.gid + 1 ELSE m.gid,
           counter |-> IF c.op = "feed" /\ c.who = "ALICE" THEN m.counter + n ELSE m.counter,
           used |-> IF pooled THEN m.used + n ELSE m.used,
           stocked |-> IF wraps THEN m.stocked + Batch ELSE m.stocked,
           wires |-> IF c.op \in {"and", "xor", "not"} THEN m.wires + 1 ELSE m.wires + n,
           reveals |-> IF c.op = "reveal" THEN m.reveals + 1 ELSE m.reveals,
           to |-> [p \in Party |-> to(p)]]
  BY DEF After
<1>2. /\ n \in Nat
      /\ m.gid \in Nat /\ m.counter \in Nat /\ m.used \in Nat /\ m.stocked \in Nat
      /\ m.wires \in Nat /\ m.reveals \in Nat
      /\ m.to \in [Party -> Nat]
  BY LenProperties DEF CallType, Mark
<1> HIDE DEF n, pooled, wraps, a
<1>3. /\ to("ALICE") \in Nat /\ to("BOB") \in Nat
      /\ "ALICE" \in Party /\ "BOB" \in Party
  BY <1>2 DEF Party
<1>4. /\ to("ALICE") = IF wraps THEN m.to["ALICE"] + 2
                       ELSE IF FeedsBob(c) \/ (c.op = "reveal" /\ c.who \in {"ALICE", "PUBLIC"})
                       THEN m.to["ALICE"] + 1 ELSE m.to["ALICE"]
      /\ to("BOB") = IF c.op = "and" \/ (c.op = "reveal" /\ c.who \in {"BOB", "PUBLIC"})
                     THEN m.to["BOB"] + 1 ELSE m.to["BOB"]
  OBVIOUS
<1>5. [p \in Party |-> to(p)] \in [Party -> Nat]
  <2>1. \A p \in Party : to(p) \in Nat
    BY <1>3 DEF Party
  <2> HIDE DEF to
  <2> QED
    BY <2>1
<1> HIDE DEF to
<1>6. /\ a.gid = IF c.op = "and" THEN m.gid + 1 ELSE m.gid
      /\ a.counter = IF c.op = "feed" /\ c.who = "ALICE" THEN m.counter + n ELSE m.counter
      /\ a.used = IF pooled THEN m.used + n ELSE m.used
      /\ a.stocked = IF wraps THEN m.stocked + Batch ELSE m.stocked
      /\ a.wires = IF c.op \in {"and", "xor", "not"} THEN m.wires + 1 ELSE m.wires + n
      /\ a.reveals = IF c.op = "reveal" THEN m.reveals + 1 ELSE m.reveals
      /\ a.to["ALICE"] = to("ALICE")
      /\ a.to["BOB"] = to("BOB")
  BY <1>1, <1>3
<1>7. a \in Mark
  BY <1>1, <1>2, <1>5, BatchFacts DEF Mark
<1> QED
  BY <1>4, <1>6, <1>7 DEF n, pooled, wraps, a

(* A call of the program names wires there are. *)
LEMMA CallsTyped == ASSUME ProgramTyped, NEW c \in Calls
  PROVE  /\ c \in CallType
         /\ c.op \in {"and", "xor", "not", "reveal"} =>
              c.i \in 1 .. Len(val) /\ c.j \in 1 .. Len(val) /\ c.bits = <<>>
         /\ c.op = "reveal" => c.i <= c.j
         /\ c.op = "not" => c.i = c.j
         /\ c.op = "public" => Len(c.bits) = 1
         /\ c.op = "feed" => c.who \in Party
<1>1. DOMAIN val = 1 .. Len(val) /\ Len(val) \in Nat
  BY LenProperties DEF ProgramTyped
<1>2. CASE c \in [op : Kinds \cap {"public"}, who : {"PUBLIC"}, bits : {<<FALSE>>, <<TRUE>>}, i : {0}, j : {0}]
  <2>1. c.bits \in Seq(BOOLEAN) /\ Len(c.bits) = 1
    BY <1>2, OneFacts
  <2> QED
    BY <1>2, <2>1 DEF CallType, Ops
<1>3. CASE c \in [op : Kinds \cap {"feed"}, who : Party, bits : Inputs, i : {0}, j : {0}]
  BY <1>3, SemiHonestAssumption DEF CallType, Ops, Party
<1>4. CASE c \in [op : Kinds \cap {"and", "xor", "not"}, who : {"PUBLIC"}, bits : {<<>>}, i : DOMAIN val, j : DOMAIN val]
  <2>1. c.op = "not" => c.i = c.j
    BY DEF Calls
  <2>2. c.bits \in Seq(BOOLEAN)
    BY <1>4, EmptySeq
  <2> QED
    BY <1>1, <1>4, <2>1, <2>2 DEF CallType, Ops
<1>5. CASE c \in [op : Kinds \cap {"reveal"}, who : Party \cup {"PUBLIC", "XOR"}, bits : {<<>>}, i : DOMAIN val, j : DOMAIN val]
  <2>1. c.op = "reveal" => c.i <= c.j
    BY DEF Calls
  <2>2. c.bits \in Seq(BOOLEAN)
    BY <1>5, EmptySeq
  <2> QED
    BY <1>1, <1>5, <2>1, <2>2 DEF CallType, Ops
<1> QED
  BY <1>2, <1>3, <1>4, <1>5 DEF Calls

ProgramInv == ProgramTyped /\ Program /\ Monotone

Grows ==
  /\ Len(script) <= Len(script')
  /\ \A k \in 1 .. Len(script) : script'[k] = script[k]
  /\ \A k \in 1 .. Len(script) + 1 : mark'[k] = mark[k]
  /\ Len(val) <= Len(val')
  /\ \A w \in 1 .. Len(val) : val'[w] = val[w]

(* The marks are typed, there is one more of them than there are calls, and*)
(* what has been taken of the pool is at most a pool behind what has been  *)
(* put into it.                                                            *)
LEMMA MarkTyped == ASSUME ProgramInv
  PROVE  /\ Len(script) \in Nat
         /\ Len(mark) = Len(script) + 1
         /\ \A k \in 1 .. Len(script) + 1 :
              /\ mark[k] \in Mark
              /\ mark[k].gid \in Nat /\ mark[k].counter \in Nat /\ mark[k].used \in Nat
              /\ mark[k].stocked \in Nat /\ mark[k].wires \in Nat /\ mark[k].reveals \in Nat
              /\ mark[k].to["ALICE"] \in Nat /\ mark[k].to["BOB"] \in Nat
              /\ mark[k].used <= mark[k].stocked
              /\ mark[k].stocked <= mark[k].used + Batch
              /\ Batch <= mark[k].stocked
         /\ \A k \in 1 .. Len(script) : script[k] \in CallType
<1>1. /\ script \in Seq(CallType) /\ mark \in Seq(Mark) /\ Len(mark) = Len(script) + 1
      /\ \A k \in 1 .. Len(mark) : /\ mark[k].used <= mark[k].stocked
                                   /\ mark[k].stocked <= mark[k].used + Batch
                                   /\ Batch <= mark[k].stocked
  BY DEF ProgramInv, ProgramTyped, Program, Monotone
<1>2. Len(script) \in Nat
  BY <1>1, LenProperties
<1>3. \A k \in 1 .. Len(script) : script[k] \in CallType
  BY <1>1, ElementOfSeq
<1>4. \A k \in 1 .. Len(script) + 1 : mark[k] \in Mark
  BY <1>1, ElementOfSeq
<1>5. \A m \in Mark : /\ m.gid \in Nat /\ m.counter \in Nat /\ m.used \in Nat
                      /\ m.stocked \in Nat /\ m.wires \in Nat /\ m.reveals \in Nat
                      /\ m.to["ALICE"] \in Nat /\ m.to["BOB"] \in Nat
  BY DEF Mark, Party
<1> QED
  BY <1>1, <1>2, <1>3, <1>4, <1>5

(* Marks are ordered. *)
LEMMA PrecedesTransitive ==
  ASSUME NEW a \in Mark, NEW b \in Mark, NEW c \in Mark, Precedes(a, b), Precedes(b, c)
  PROVE  Precedes(a, c)
  BY DEF Precedes, Mark

(* A mark precedes itself. *)
LEMMA PrecedesSelf == ASSUME NEW a \in Mark PROVE Precedes(a, a)
  BY DEF Precedes, Mark

(* A call takes the counters on, and leaves the pool between empty and     *)
(* full.                                                                   *)
LEMMA AfterWithin ==
  ASSUME NEW m \in Mark, NEW c \in CallType,
         m.used <= m.stocked, m.stocked <= m.used + Batch, Batch <= m.stocked
  PROVE  LET a == After(m, c)
         IN /\ Precedes(m, a)
            /\ a.used <= a.stocked
            /\ a.stocked <= a.used + Batch
            /\ Batch <= a.stocked
<1> DEFINE a == After(m, c)
           n == Len(c.bits)
           pooled == FeedsBob(c) /\ n <= Batch
           wraps == pooled /\ m.used + n > m.stocked
<1>1. /\ n \in Nat
      /\ m.used \in Nat /\ m.stocked \in Nat /\ m.wires \in Nat /\ m.reveals \in Nat
      /\ m.to["ALICE"] \in Nat /\ m.to["BOB"] \in Nat
  BY LenProperties DEF CallType, Mark, Party
<1>2. /\ a.used = IF pooled THEN m.used + n ELSE m.used
      /\ a.stocked = IF wraps THEN m.stocked + Batch ELSE m.stocked
      /\ a.wires = IF c.op \in {"and", "xor", "not"} THEN m.wires + 1 ELSE m.wires + n
      /\ a.reveals = IF c.op = "reveal" THEN m.reveals + 1 ELSE m.reveals
      /\ a.to["ALICE"] = IF wraps THEN m.to["ALICE"] + 2
                         ELSE IF FeedsBob(c) \/ (c.op = "reveal" /\ c.who \in {"ALICE", "PUBLIC"})
                         THEN m.to["ALICE"] + 1 ELSE m.to["ALICE"]
      /\ a.to["BOB"] = IF c.op = "and" \/ (c.op = "reveal" /\ c.who \in {"BOB", "PUBLIC"})
                       THEN m.to["BOB"] + 1 ELSE m.to["BOB"]
  BY AfterFields
<1> HIDE DEF a, n
<1>3. /\ m.to["ALICE"] <= a.to["ALICE"]
      /\ m.to["BOB"] <= a.to["BOB"]
  BY <1>1, <1>2
<1>4. m.wires <= a.wires /\ m.reveals <= a.reveals
  BY <1>1, <1>2
<1>5. /\ m.used <= a.used /\ m.stocked <= a.stocked
      /\ a.used <= a.stocked /\ a.stocked <= a.used + Batch /\ Batch <= a.stocked
  <2>1. CASE wraps
    BY <1>1, <1>2, <2>1, BatchFacts
  <2>2. CASE pooled /\ ~wraps
    BY <1>1, <1>2, <2>2, BatchFacts
  <2>3. CASE ~pooled
    BY <1>1, <1>2, <2>3, BatchFacts
  <2> QED
    BY <2>1, <2>2, <2>3
<1>6. Precedes(m, a)
  BY <1>3, <1>4, <1>5 DEF Precedes, Party
<1> QED
  BY <1>5, <1>6 DEF a

(* A party repeats the call its peer has made, or decides the next. *)
LEMMA CallOptions == ASSUME NEW p \in Party, NEW c \in Options(p)
  PROVE  /\ pc[p] = "run"
         /\ at[p] <= Len(script) \/ ~(at[p] > Len(script) + 1)
         /\ at[p] <= Len(script) => c = script[at[p]]
         /\ ~(at[p] <= Len(script)) => c \in Calls
  BY DEF Options

(* The values a call makes: as many as the wires it adds. *)
LEMMA ClearFacts == ASSUME ProgramInv, NEW c \in Calls
  PROVE  LET w == Len(val)
             a == After(mark[Len(mark)], c)
         IN /\ Clear(c) \in Seq(BOOLEAN)
            /\ w + Len(Clear(c)) = a.wires
            /\ c.op \in {"public", "feed"} => Clear(c) = c.bits
            /\ c.op = "and" => Clear(c) = <<val[c.i] /\ val[c.j]>>
            /\ c.op = "xor" => Clear(c) = <<val[c.i] # val[c.j]>>
            /\ c.op = "not" => Clear(c) = <<~val[c.i]>>
<1> DEFINE m == mark[Len(mark)]
           a == After(m, c)
<1>0. m \in Mark /\ m.wires = Len(val) /\ m.wires \in Nat /\ val \in Seq(BOOLEAN)
  BY MarkTyped DEF ProgramInv, ProgramTyped, Program
<1>1. /\ c \in CallType
      /\ c.op \in {"and", "xor", "not", "reveal"} =>
           c.i \in 1 .. Len(val) /\ c.j \in 1 .. Len(val) /\ c.bits = <<>>
  BY CallsTyped DEF ProgramInv
<1>2. c.op \in Ops /\ c.bits \in Seq(BOOLEAN) /\ Len(c.bits) \in Nat
  BY <1>1, LenProperties DEF CallType
<1>3. a.wires = IF c.op \in {"and", "xor", "not"} THEN m.wires + 1 ELSE m.wires + Len(c.bits)
  BY <1>0, <1>1, AfterFields
<1> HIDE DEF m, a
<1>4. CASE c.op \in {"public", "feed"}
  <2>1. Clear(c) = c.bits
    BY <1>4 DEF Clear
  <2> QED
    BY <1>0, <1>2, <1>3, <1>4, <2>1 DEF m, a
<1>5. CASE c.op = "and"
  <2>1. Clear(c) = <<val[c.i] /\ val[c.j]>>
    BY <1>5 DEF Clear
  <2>2. (val[c.i] /\ val[c.j]) \in BOOLEAN
    OBVIOUS
  <2>3. Clear(c) \in Seq(BOOLEAN) /\ Len(Clear(c)) = 1
    BY <2>1, <2>2, OneFacts
  <2> QED
    BY <1>0, <1>2, <1>3, <1>5, <2>1, <2>3 DEF m, a
<1>6. CASE c.op = "xor"
  <2>1. Clear(c) = <<val[c.i] # val[c.j]>>
    BY <1>6 DEF Clear
  <2>2. (val[c.i] # val[c.j]) \in BOOLEAN
    OBVIOUS
  <2>3. Clear(c) \in Seq(BOOLEAN) /\ Len(Clear(c)) = 1
    BY <2>1, <2>2, OneFacts
  <2> QED
    BY <1>0, <1>2, <1>3, <1>6, <2>1, <2>3 DEF m, a
<1>7. CASE c.op = "not"
  <2>1. Clear(c) = <<~val[c.i]>>
    BY <1>7 DEF Clear
  <2>2. (~val[c.i]) \in BOOLEAN
    OBVIOUS
  <2>3. Clear(c) \in Seq(BOOLEAN) /\ Len(Clear(c)) = 1
    BY <2>1, <2>2, OneFacts
  <2> QED
    BY <1>0, <1>2, <1>3, <1>7, <2>1, <2>3 DEF m, a
<1>8. CASE c.op = "reveal"
  <2>1. Clear(c) = <<>> /\ Len(c.bits) = 0
    BY <1>1, <1>8, EmptySeq DEF Clear
  <2> QED
    BY <1>0, <1>2, <1>3, <1>8, <2>1, EmptySeq DEF m, a
<1> QED
  BY <1>2, <1>4, <1>5, <1>6, <1>7, <1>8 DEF Ops

(* A call that is decided, and the wires and the marks before and after it. *)
LEMMA CallInRange == ASSUME ProgramInv, NEW k \in 1 .. Len(script)
  PROVE  LET c == script[k]
             m == mark[k]
             n == mark[k + 1]
         IN /\ k \in Nat /\ k + 1 \in 1 .. Len(script) + 1
            /\ n = After(m, c)
            /\ n.wires = IF c.op \in {"and", "xor", "not"} THEN m.wires + 1
                         ELSE m.wires + Len(c.bits)
            /\ n.wires <= Len(val)
            /\ m.wires <= n.wires
            /\ Len(c.bits) \in Nat
            /\ c \in CallType
            /\ CallOK(k)
<1> DEFINE c == script[k]
           m == mark[k]
           n == mark[k + 1]
<1>1. /\ Len(script) \in Nat /\ Len(mark) = Len(script) + 1
      /\ m \in Mark /\ c \in CallType
  BY MarkTyped
<1>2. k + 1 \in 1 .. Len(script) + 1 /\ k \in 1 .. Len(mark) /\ Len(mark) \in 1 .. Len(mark) /\ k <= k + 1 /\ k + 1 <= Len(mark)
  BY <1>1
<1>3. n = After(m, c) /\ CallOK(k) /\ Len(val) = mark[Len(mark)].wires
  BY DEF ProgramInv, Program
<1>4. Precedes(n, mark[Len(mark)]) /\ Precedes(m, n)
  BY <1>1, <1>2 DEF ProgramInv, Monotone
<1>5. Len(c.bits) \in Nat
  BY <1>1, LenProperties DEF CallType
<1>6. n.wires = IF c.op \in {"and", "xor", "not"} THEN m.wires + 1 ELSE m.wires + Len(c.bits)
  BY <1>1, <1>3, AfterFields
<1> QED
  BY <1>1, <1>2, <1>3, <1>4, <1>5, <1>6 DEF Precedes

(* What was decided of a call stays, however the program goes on. *)
LEMMA CallStays ==
  ASSUME ProgramInv, Grows, NEW k \in 1 .. Len(script)
  PROVE  CallOK(k)'
<1> DEFINE c == script[k]
           w == mark[k].wires
<1>1. /\ mark[k + 1].wires = IF c.op \in {"and", "xor", "not"} THEN w + 1 ELSE w + Len(c.bits)
      /\ mark[k + 1].wires <= Len(val) /\ w <= mark[k + 1].wires
      /\ Len(c.bits) \in Nat
      /\ CallOK(k)
      /\ k \in Nat
      /\ w \in Nat
      /\ Len(val) \in Nat
      /\ c.op \in Ops
  BY CallInRange, MarkTyped, LenProperties DEF ProgramInv, ProgramTyped, CallType
<1>2. script'[k] = c /\ mark'[k].wires = w
  BY MarkTyped DEF Grows
<1>3. \A x \in 1 .. Len(val) : val'[x] = val[x]
  BY DEF Grows
<1> HIDE DEF c, w
<1>4. /\ c.op \in {"and", "xor", "not"} => w + 1 \in 1 .. Len(val)
      /\ \A x \in 1 .. w : x \in 1 .. Len(val)
  BY <1>1
<1>5. ASSUME c.op \in {"public", "feed"}, NEW i \in 1 .. Len(c.bits)
      PROVE  val'[w + i] = c.bits[i]
  <2>1. w + i \in 1 .. Len(val)
    BY <1>1, <1>5
  <2> QED
    BY <1>1, <1>3, <1>5, <2>1 DEF CallOK, c, w
<1>6. c.op \in {"and", "xor", "not", "reveal"} =>
        /\ c.i \in 1 .. w /\ c.j \in 1 .. w /\ c.bits = <<>>
        /\ val'[c.i] = val[c.i] /\ val'[c.j] = val[c.j]
  BY <1>1, <1>3, <1>4 DEF CallOK, c, w
<1>7. /\ c.op = "and" => val'[w + 1] = (val'[c.i] /\ val'[c.j])
      /\ c.op = "xor" => val'[w + 1] = (val'[c.i] # val'[c.j])
      /\ c.op = "not" => val'[w + 1] = ~val'[c.i]
  <2>1. CASE c.op = "and"
    BY <1>1, <1>3, <1>4, <1>6, <2>1 DEF CallOK, c, w
  <2>2. CASE c.op = "xor"
    BY <1>1, <1>3, <1>4, <1>6, <2>2 DEF CallOK, c, w
  <2>3. CASE c.op = "not"
    BY <1>1, <1>3, <1>4, <1>6, <2>3 DEF CallOK, c, w
  <2> QED
    BY <2>1, <2>2, <2>3
<1>8. /\ c.op = "reveal" => c.i <= c.j
      /\ c.op = "not" => c.i = c.j
      /\ c.op = "public" => Len(c.bits) = 1
      /\ c.op = "feed" => c.who \in Party
  BY <1>1 DEF CallOK, c, w
<1> QED
  BY <1>2, <1>5, <1>6, <1>7, <1>8 DEF CallOK

(* Deciding the next call: the program grows and its invariant stays. *)
LEMMA DecideGrows ==
  ASSUME ProgramInv, NEW c \in Calls,
         script' = Append(script, c),
         val' = val \o Clear(c),
         mark' = Append(mark, After(mark[Len(mark)], c))
  PROVE  /\ ProgramInv' /\ Grows
         /\ Len(script') = Len(script) + 1
         /\ script'[Len(script) + 1] = c
<1>0. PICK n \in Nat : n = Len(script)
  BY LenProperties DEF ProgramInv, ProgramTyped
<1> DEFINE m == mark[n + 1]
           a == After(m, c)
<1>1. /\ n \in Nat /\ n = Len(script) /\ Len(mark) = n + 1 /\ n + 1 \in 1 .. n + 1
      /\ m \in Mark /\ m.wires = Len(val) /\ m.wires \in Nat
      /\ script \in Seq(CallType) /\ mark \in Seq(Mark) /\ val \in Seq(BOOLEAN)
  BY <1>0, MarkTyped DEF ProgramInv, ProgramTyped, Program
<1>2. c \in CallType
  BY CallsTyped DEF ProgramInv
<1>3. a \in Mark
  BY <1>1, <1>2, AfterFields
<1>4. /\ script' \in Seq(CallType)
      /\ Len(script') = n + 1
      /\ script'[n + 1] = c
      /\ \A k \in 1 .. n : script'[k] = script[k]
  BY <1>1, <1>2, AppendFacts
<1>5. /\ mark' \in Seq(Mark)
      /\ Len(mark') = n + 2
      /\ mark'[n + 2] = a
      /\ \A k \in 1 .. n + 1 : mark'[k] = mark[k]
  <2>1. mark' = Append(mark, a) /\ mark \in Seq(Mark) /\ a \in Mark /\ Len(mark) = n + 1 /\ n \in Nat
    BY <1>1, <1>3
  <2> HIDE DEF a, m
  <2>2. /\ Append(mark, a) \in Seq(Mark)
        /\ Len(Append(mark, a)) = Len(mark) + 1
        /\ Append(mark, a)[Len(mark) + 1] = a
        /\ \A i \in 1 .. Len(mark) : Append(mark, a)[i] = mark[i]
    BY <2>1, AppendFacts
  <2>3. n + 1 + 1 = n + 2
    BY <2>1
  <2> QED
    BY <2>1, <2>2, <2>3
<1>6. /\ Clear(c) \in Seq(BOOLEAN)
      /\ Len(val) + Len(Clear(c)) = a.wires
      /\ c.op \in {"public", "feed"} => Clear(c) = c.bits
      /\ c.op = "and" => Clear(c) = <<val[c.i] /\ val[c.j]>>
      /\ c.op = "xor" => Clear(c) = <<val[c.i] # val[c.j]>>
      /\ c.op = "not" => Clear(c) = <<~val[c.i]>>
  BY <1>1, ClearFacts
<1>7. /\ val' \in Seq(BOOLEAN)
      /\ Len(val') = a.wires
      /\ Len(val) \in Nat
      /\ Len(Clear(c)) \in Nat
      /\ \A i \in 1 .. Len(val) : val'[i] = val[i]
      /\ \A i \in 1 .. Len(Clear(c)) : val'[Len(val) + i] = Clear(c)[i]
  <2> HIDE DEF a, m
  <2> QED
    BY <1>1, <1>6, ConcatFacts, LenProperties
<1>8. Grows
  BY <1>1, <1>4, <1>5, <1>6, <1>7 DEF Grows
<1> HIDE DEF m, a
<1>9. CallOK(n + 1)'
  <2>1. /\ c.op \in {"and", "xor", "not", "reveal"} =>
             c.i \in 1 .. Len(val) /\ c.j \in 1 .. Len(val) /\ c.bits = <<>>
        /\ c.op = "reveal" => c.i <= c.j
        /\ c.op = "not" => c.i = c.j
        /\ c.op = "public" => Len(c.bits) = 1
        /\ c.op = "feed" => c.who \in Party
    BY CallsTyped DEF ProgramInv
  <2>2. script'[n + 1] = c /\ mark'[n + 1].wires = Len(val)
    BY <1>1, <1>4, <1>5 DEF m
  <2>3. ASSUME c.op \in {"public", "feed"}
        PROVE  \A i \in 1 .. Len(c.bits) : val'[Len(val) + i] = c.bits[i]
    BY <1>6, <1>7, <2>3
  <2>4. c.op = "and" => val'[Len(val) + 1] = (val'[c.i] /\ val'[c.j])
    <3>1. SUFFICES ASSUME c.op = "and" PROVE val'[Len(val) + 1] = (val[c.i] /\ val[c.j])
      BY <1>7, <2>1
    <3>2. Len(Clear(c)) = 1 /\ Clear(c)[1] = (val[c.i] /\ val[c.j])
      BY <1>6, <3>1
    <3>3. 1 \in 1 .. Len(Clear(c))
      BY <3>2
    <3>4. val'[Len(val) + 1] = Clear(c)[1]
      BY <1>7, <3>3
    <3> QED
      BY <3>2, <3>4
  <2>5. c.op = "xor" => val'[Len(val) + 1] = (val'[c.i] # val'[c.j])
    <3>1. SUFFICES ASSUME c.op = "xor" PROVE val'[Len(val) + 1] = (val[c.i] # val[c.j])
      BY <1>7, <2>1
    <3>2. Len(Clear(c)) = 1 /\ Clear(c)[1] = (val[c.i] # val[c.j])
      BY <1>6, <3>1
    <3>3. 1 \in 1 .. Len(Clear(c))
      BY <3>2
    <3>4. val'[Len(val) + 1] = Clear(c)[1]
      BY <1>7, <3>3
    <3> QED
      BY <3>2, <3>4
  <2>6. c.op = "not" => val'[Len(val) + 1] = ~val'[c.i]
    <3>1. SUFFICES ASSUME c.op = "not" PROVE val'[Len(val) + 1] = ~val[c.i]
      BY <1>7, <2>1
    <3>2. Len(Clear(c)) = 1 /\ Clear(c)[1] = ~val[c.i]
      BY <1>6, <3>1
    <3>3. 1 \in 1 .. Len(Clear(c))
      BY <3>2
    <3>4. val'[Len(val) + 1] = Clear(c)[1]
      BY <1>7, <3>3
    <3> QED
      BY <3>2, <3>4
  <2> QED
    BY <2>1, <2>2, <2>3, <2>4, <2>5, <2>6 DEF CallOK
<1>10. Program'
  <2>1. \A k \in 1 .. Len(script') : CallOK(k)'
    <3>1. ASSUME NEW k \in 1 .. Len(script'), k # n + 1
          PROVE  k \in 1 .. Len(script)
      BY <1>1, <1>4, <3>1
    <3> QED
      BY <1>8, <1>9, <3>1, CallStays
  <2>2. \A k \in 1 .. Len(script') : mark'[k + 1] = After(mark'[k], script'[k])
    <3>1. \A k \in 1 .. n : mark[k + 1] = After(mark[k], script[k])
      BY <1>1 DEF ProgramInv, Program
    <3>2. ASSUME NEW k \in 1 .. n
          PROVE  k \in 1 .. n + 1 /\ k + 1 \in 1 .. n + 1
      BY <1>1
    <3>3. \A k \in 1 .. n : mark'[k + 1] = After(mark'[k], script'[k])
      BY <1>4, <1>5, <3>1, <3>2
    <3>4. mark'[n + 1 + 1] = After(mark'[n + 1], script'[n + 1])
      BY <1>1, <1>4, <1>5 DEF a, m
    <3>5. \A k \in 1 .. Len(script') : k \in 1 .. n \/ k = n + 1
      BY <1>1, <1>4
    <3> QED
      BY <3>3, <3>4, <3>5
  <2>3. mark'[1] = mark[1] /\ Len(mark') = Len(script') + 1 /\ Len(val') = mark'[Len(mark')].wires
    BY <1>1, <1>4, <1>5, <1>7
  <2> QED
    BY <2>1, <2>2, <2>3 DEF Program, ProgramInv
<1>11. Monotone'
  <2>1. /\ m.used <= m.stocked /\ m.stocked <= m.used + Batch /\ Batch <= m.stocked
        /\ \A j, k \in 1 .. n + 1 : j <= k => Precedes(mark[j], mark[k])
        /\ \A k \in 1 .. n + 1 : /\ mark[k].used <= mark[k].stocked
                                 /\ mark[k].stocked <= mark[k].used + Batch
                                 /\ Batch <= mark[k].stocked
    BY <1>1 DEF ProgramInv, Monotone, m
  <2>2. /\ Precedes(m, a)
        /\ a.used <= a.stocked /\ a.stocked <= a.used + Batch /\ Batch <= a.stocked
    BY <1>1, <1>2, <2>1, AfterWithin DEF a
  <2>3. \A k \in 1 .. n + 1 : Precedes(mark[k], a)
    <3>1. \A k \in 1 .. n + 1 : mark[k] \in Mark /\ Precedes(mark[k], m)
      BY <1>1, <2>1, MarkTyped DEF m
    <3> QED
      BY <1>1, <1>3, <2>2, <3>1, PrecedesTransitive
  <2>4. \A k \in 1 .. Len(mark') : k \in 1 .. n + 1 \/ k = n + 2
    BY <1>1, <1>5
  <2>5. ASSUME NEW j \in 1 .. Len(mark'), NEW k \in 1 .. Len(mark'), j <= k
        PROVE  Precedes(mark'[j], mark'[k])
    <3>1. CASE k = n + 2 /\ j = n + 2
      BY <1>3, <1>5, <3>1, PrecedesSelf
    <3>2. CASE k = n + 2 /\ j \in 1 .. n + 1
      BY <1>5, <2>3, <3>2
    <3>3. CASE k \in 1 .. n + 1
      <4>1. j \in 1 .. n + 1
        BY <1>1, <2>4, <2>5, <3>3
      <4> QED
        BY <1>5, <2>1, <2>5, <3>3, <4>1
    <3> QED
      BY <2>4, <3>1, <3>2, <3>3
  <2>6. \A k \in 1 .. Len(mark') : /\ mark'[k].used <= mark'[k].stocked
                                   /\ mark'[k].stocked <= mark'[k].used + Batch
                                   /\ Batch <= mark'[k].stocked
    BY <1>5, <2>1, <2>2, <2>4
  <2>7. Monotone' = (/\ \A k \in 1 .. Len(mark') : /\ mark'[k].used <= mark'[k].stocked
                                                   /\ mark'[k].stocked <= mark'[k].used + Batch
                                                   /\ Batch <= mark'[k].stocked
                     /\ \A j, k \in 1 .. Len(mark') : j <= k => Precedes(mark'[j], mark'[k]))
    BY DEF Monotone, Precedes
  <2> QED
    BY <2>5, <2>6, <2>7
<1> QED
  BY <1>4, <1>5, <1>7, <1>8, <1>10, <1>11 DEF ProgramInv, ProgramTyped

(* Whoever makes the call, it is the one of its place in the program. *)
LEMMA DoGrows ==
  ASSUME ProgramInv, NEW p \in Party, at[p] \in Nat \ {0}, NEW c \in Options(p), Do(p, c)
  PROVE  /\ ProgramInv' /\ Grows
         /\ pc[p] = "run"
         /\ c \in CallType
         /\ at[p] \in 1 .. Len(script) + 1
         /\ at[p] \in 1 .. Len(script')
         /\ script'[at[p]] = c
         /\ mark'[at[p]] = mark[at[p]]
         /\ mark'[at[p] + 1] = After(mark[at[p]], c)
<1>1. /\ pc[p] = "run"
      /\ ~(at[p] > Len(script) + 1)
      /\ at[p] <= Len(script) => c = script[at[p]]
      /\ ~(at[p] <= Len(script)) => c \in Calls
      /\ Len(script) \in Nat
  BY CallOptions, MarkTyped DEF Options
<1>2. at[p] \in 1 .. Len(script) + 1
  BY <1>1
<1>3. CASE at[p] <= Len(script)
  <2>1. script' = script /\ val' = val /\ mark' = mark
    BY <1>3 DEF Do, program
  <2>2. ProgramInv'
    BY <2>1 DEF ProgramInv, ProgramTyped, Program, Monotone, Precedes, CallOK
  <2>3. Grows
    BY <1>1, <2>1, LenProperties DEF Grows, ProgramInv, ProgramTyped
  <2>4. at[p] \in 1 .. Len(script) /\ c = script[at[p]]
    BY <1>1, <1>2, <1>3
  <2>5. c \in CallType /\ mark[at[p] + 1] = After(mark[at[p]], c)
    BY <2>4, MarkTyped DEF ProgramInv, Program
  <2> QED
    BY <1>1, <1>2, <2>1, <2>2, <2>3, <2>4, <2>5
<1>4. CASE ~(at[p] <= Len(script))
  <2>1. at[p] = Len(script) + 1 /\ c \in Calls
    BY <1>1, <1>2, <1>4
  <2>2. /\ script' = Append(script, c) /\ val' = val \o Clear(c)
        /\ mark' = Append(mark, After(mark[Len(mark)], c))
    BY <1>4 DEF Do
  <2>3. /\ ProgramInv' /\ Grows
        /\ Len(script') = Len(script) + 1
        /\ script'[Len(script) + 1] = c
    BY <2>1, <2>2, DecideGrows
  <2>4. c \in CallType
    BY <2>1, CallsTyped DEF ProgramInv
  <2>5. at[p] \in 1 .. Len(script') /\ at[p] \in 1 .. Len(script) + 1
    BY <1>1, <2>1, <2>3
  <2>6. mark'[at[p]] = mark[at[p]]
    BY <2>3, <2>5 DEF Grows
  <2>7. mark'[at[p] + 1] = After(mark'[at[p]], script'[at[p]])
    BY <2>3, <2>5 DEF ProgramInv, Program
  <2> QED
    BY <1>1, <2>1, <2>3, <2>4, <2>5, <2>6, <2>7
<1> QED
  BY <1>3, <1>4

-----------------------------------------------------------------------------
(* Where the parties are, and who is ahead. *)

(* The parties by name. *)
LEMMA Parties == /\ "ALICE" \in Party /\ "BOB" \in Party
                 /\ Peer("ALICE") = "BOB" /\ Peer("BOB") = "ALICE"
  BY DEF Party, Peer

(* The marks on either side of a call, field by field. *)
LEMMA CallAfter == ASSUME ProgramInv, NEW k \in 1 .. Len(script)
  PROVE  LET c == script[k]
             m == mark[k]
             a == mark[k + 1]
             n == Len(c.bits)
             pooled == FeedsBob(c) /\ n <= Batch
             wraps == pooled /\ m.used + n > m.stocked
         IN /\ m \in Mark /\ a \in Mark /\ c \in CallType
            /\ a = After(m, c)
            /\ m.used \in Nat /\ m.stocked \in Nat /\ m.wires \in Nat /\ m.reveals \in Nat
            /\ m.to["ALICE"] \in Nat /\ m.to["BOB"] \in Nat /\ n \in Nat
            /\ a.to["ALICE"] \in Nat /\ a.to["BOB"] \in Nat
            /\ a.used = IF pooled THEN m.used + n ELSE m.used
            /\ a.stocked = IF wraps THEN m.stocked + Batch ELSE m.stocked
            /\ a.reveals = IF c.op = "reveal" THEN m.reveals + 1 ELSE m.reveals
            /\ a.to["ALICE"] = IF wraps THEN m.to["ALICE"] + 2
                               ELSE IF FeedsBob(c) \/ (c.op = "reveal" /\ c.who \in {"ALICE", "PUBLIC"})
                               THEN m.to["ALICE"] + 1 ELSE m.to["ALICE"]
            /\ a.to["BOB"] = IF c.op = "and" \/ (c.op = "reveal" /\ c.who \in {"BOB", "PUBLIC"})
                             THEN m.to["BOB"] + 1 ELSE m.to["BOB"]
<1> DEFINE c == script[k]
           m == mark[k]
           a == mark[k + 1]
<1>1. /\ k \in 1 .. Len(script) + 1 /\ k + 1 \in 1 .. Len(script) + 1 /\ a = After(m, c)
      /\ Len(c.bits) \in Nat
  BY CallInRange, MarkTyped
<1>2. /\ m \in Mark /\ a \in Mark /\ c \in CallType
      /\ m.used \in Nat /\ m.stocked \in Nat /\ m.wires \in Nat /\ m.reveals \in Nat
      /\ m.to["ALICE"] \in Nat /\ m.to["BOB"] \in Nat
      /\ a.to["ALICE"] \in Nat /\ a.to["BOB"] \in Nat
  BY <1>1, MarkTyped
<1> DEFINE n == Len(c.bits)
           b == After(m, c)
           wraps == FeedsBob(c) /\ n <= Batch /\ m.used + n > m.stocked
<1> HIDE DEF c, m, a
<1>3. /\ b.used = IF FeedsBob(c) /\ n <= Batch THEN m.used + n ELSE m.used
      /\ b.stocked = IF wraps THEN m.stocked + Batch ELSE m.stocked
      /\ b.reveals = IF c.op = "reveal" THEN m.reveals + 1 ELSE m.reveals
      /\ b.to["ALICE"] = IF wraps THEN m.to["ALICE"] + 2
                         ELSE IF FeedsBob(c) \/ (c.op = "reveal" /\ c.who \in {"ALICE", "PUBLIC"})
                         THEN m.to["ALICE"] + 1 ELSE m.to["ALICE"]
      /\ b.to["BOB"] = IF c.op = "and" \/ (c.op = "reveal" /\ c.who \in {"BOB", "PUBLIC"})
                       THEN m.to["BOB"] + 1 ELSE m.to["BOB"]
  BY <1>2, AfterFields
<1> HIDE DEF b, n
<1>4. a = b /\ n \in Nat
  BY <1>1 DEF b, n
<1> QED
  BY <1>1, <1>2, <1>3, <1>4 DEF c, m, a, n

(* The marks do not go back. *)
LEMMA Marks == ASSUME ProgramInv, NEW j \in 1 .. Len(script) + 1, NEW k \in 1 .. Len(script) + 1, j <= k
  PROVE  /\ mark[j].used <= mark[k].used
         /\ mark[j].stocked <= mark[k].stocked
         /\ mark[j].wires <= mark[k].wires
         /\ mark[j].reveals <= mark[k].reveals
         /\ mark[j].to["ALICE"] <= mark[k].to["ALICE"]
         /\ mark[j].to["BOB"] <= mark[k].to["BOB"]
<1>1. j \in 1 .. Len(mark) /\ k \in 1 .. Len(mark)
  BY MarkTyped
<1>2. Precedes(mark[j], mark[k])
  BY <1>1 DEF ProgramInv, Monotone
<1> QED
  BY <1>2 DEF Precedes, Party

(* The part of the invariant that is about the program alone. *)
LEMMA InvProgram == ASSUME IInv PROVE ProgramInv
  BY DEF IInv, TypeOK, ProgramInv, ProgramTyped

(* What the constructors have done before the first call: a full pool,     *)
(* three messages to the garbler and four to the evaluator.                *)
LEMMA FirstMark == ASSUME ProgramInv
  PROVE  /\ mark[1].wires = 0 /\ mark[1].reveals = 0 /\ mark[1].gid = 0 /\ mark[1].counter = 0
         /\ mark[1].used = 0 /\ mark[1].stocked = Batch
         /\ mark[1].to["ALICE"] = 3 /\ mark[1].to["BOB"] = 4
  BY DEF ProgramInv, Program, Party

Placed == /\ ProgramInv
          /\ Positions
          /\ at \in [Party -> Nat]
          /\ pc \in [Party -> {"setup", "run", "feed", "reveal"}]
          /\ net \in [Party -> Seq(Message)]
          /\ Queues

(* The part of the invariant that says where the parties and their streams *)
(* are.                                                                    *)
LEMMA InvPlaced == ASSUME IInv PROVE Placed
  BY InvProgram DEF IInv, TypeOK, Placed

(* In the middle of a call the garbler waits for its last message. *)
LEMMA MidReads == ASSUME ProgramInv, Positions, at["ALICE"] \in Nat, Mid("ALICE")
  PROVE  /\ at["ALICE"] \in 1 .. Len(script)
         /\ mark[at["ALICE"]].to["ALICE"] + 1 <= mark[at["ALICE"] + 1].to["ALICE"]
         /\ pc["ALICE"] = "feed" => /\ FeedsBob(script[at["ALICE"]])
                                    /\ mark[at["ALICE"] + 1].to["BOB"] = mark[at["ALICE"]].to["BOB"]
         /\ pc["ALICE"] = "reveal" =>
              /\ mark[at["ALICE"] + 1].to["BOB"] = mark[at["ALICE"]].to["BOB"] + 1
              /\ mark[at["ALICE"] + 1].to["ALICE"] = mark[at["ALICE"]].to["ALICE"] + 1
<1>1. at["ALICE"] \in 1 .. Len(script)
  BY DEF Positions, Mid, Party
<1> DEFINE k == at["ALICE"]
           c == script[k]
           m == mark[k]
           a == mark[k + 1]
           n == Len(c.bits)
           wraps == FeedsBob(c) /\ n <= Batch /\ m.used + n > m.stocked
<1>2. /\ m.to["ALICE"] \in Nat /\ m.to["BOB"] \in Nat
      /\ a.to["ALICE"] = IF wraps THEN m.to["ALICE"] + 2
                         ELSE IF FeedsBob(c) \/ (c.op = "reveal" /\ c.who \in {"ALICE", "PUBLIC"})
                         THEN m.to["ALICE"] + 1 ELSE m.to["ALICE"]
      /\ a.to["BOB"] = IF c.op = "and" \/ (c.op = "reveal" /\ c.who \in {"BOB", "PUBLIC"})
                       THEN m.to["BOB"] + 1 ELSE m.to["BOB"]
  BY <1>1, CallAfter
<1>3. pc["ALICE"] = "feed" => FeedsBob(c)
  BY DEF Positions
<1>4. pc["ALICE"] = "reveal" => c.op = "reveal" /\ c.who = "PUBLIC"
  BY DEF Positions
<1> HIDE DEF k, c, m, a, n, wraps
<1>5. CASE pc["ALICE"] = "feed"
  <2>1. FeedsBob(c) /\ c.op # "and" /\ c.op # "reveal"
    BY <1>3, <1>5 DEF FeedsBob
  <2> QED
    BY <1>1, <1>2, <1>5, <2>1 DEF k, c, m, a
<1>6. CASE pc["ALICE"] = "reveal"
  <2>1. c.op = "reveal" /\ c.who = "PUBLIC" /\ ~wraps
    BY <1>4, <1>6 DEF FeedsBob, wraps
  <2> QED
    BY <1>1, <1>2, <1>6, <2>1 DEF k, c, m, a
<1> QED
  BY <1>5, <1>6 DEF Mid

(* The calls a party can be at, and those it has sent its messages of. *)
LEMMA Where == ASSUME Placed, NEW p \in Party
  PROVE  /\ at[p] \in Nat
         /\ Len(script) \in Nat
         /\ Call(p) \in 1 .. Len(script) + 1
         /\ Reached(p) \in 1 .. Len(script) + 1
         /\ Call(p) <= Reached(p) /\ Reached(p) <= Call(p) + 1
         /\ pc[p] \in {"setup", "run", "feed", "reveal"}
         /\ pc["BOB"] \in {"setup", "run"}
         /\ pc[p] # "reveal" => Reached(p) = Call(p)
         /\ pc[p] = "reveal" => p = "ALICE" /\ Reached(p) = Call(p) + 1
         /\ pc[p] = "setup" => at[p] \in 1 .. 7 /\ Call(p) = 1
         /\ pc[p] # "setup" => Call(p) = at[p]
         /\ pc[p] = "run" => at[p] \in 1 .. Len(script) + 1
<1>1. /\ at[p] \in Nat
      /\ Len(script) \in Nat
      /\ pc[p] \in {"setup", "run", "feed", "reveal"}
      /\ pc["BOB"] \in {"setup", "run"}
      /\ at[p] \in IF pc[p] = "setup" THEN 1 .. Len(Setup)
                   ELSE IF Mid(p) THEN 1 .. Len(script)
                   ELSE 1 .. Len(script) + 1
  BY MarkTyped DEF Placed, Positions
<1>2. Len(Setup) = 7
  BY DEF Setup
<1>3. pc[p] = "reveal" => p = "ALICE"
  BY <1>1 DEF Party
<1> QED
  BY <1>1, <1>2, <1>3 DEF Call, Reached, Mid

(* How many messages a party has been sent and has taken, and the          *)
(* difference is in its stream.                                            *)
LEMMA Counts == ASSUME Placed, NEW p \in Party
  PROVE  /\ Sent(p) \in Nat /\ Read(p) \in Nat /\ Len(net[p]) \in Nat
         /\ Len(net[p]) = Sent(p) - Read(p)
         /\ pc[Peer(p)] # "setup" => Sent(p) = mark[Reached(Peer(p))].to[p]
         /\ pc[Peer(p)] = "setup" => Sent(p) <= IF p = "ALICE" THEN 2 ELSE 4
         /\ pc[p] = "run" => Read(p) = mark[at[p]].to[p]
         /\ pc[p] # "setup" => mark[Call(p)].to[p] <= Read(p)
         /\ pc[p] = "setup" => Read(p) <= IF p = "ALICE" THEN 2 ELSE 4
         /\ (pc[p] # "setup" /\ ~Mid(p)) => Read(p) = mark[Call(p)].to[p]
         /\ Mid(p) => p = "ALICE" /\ Read(p) = mark[at[p] + 1].to[p] - 1
<1> DEFINE q == Peer(p)
<1>0. q \in Party
  BY PeerFacts
<1>1. /\ Reached(q) \in 1 .. Len(script) + 1 /\ Call(p) \in 1 .. Len(script) + 1
      /\ at[p] \in Nat /\ at[q] \in Nat
      /\ Len(script) \in Nat
      /\ pc[p] # "setup" => Call(p) = at[p]
      /\ pc[p] = "setup" => at[p] \in 1 .. 7
      /\ pc[q] = "setup" => at[q] \in 1 .. 7
      /\ pc[p] \in {"setup", "run", "feed", "reveal"}
      /\ pc["BOB"] \in {"setup", "run"}
  BY <1>0, Where
<1>2. mark[Reached(q)].to[p] \in Nat /\ mark[Call(p)].to[p] \in Nat
  BY <1>1, MarkTyped DEF Placed, Party
<1>3. ASSUME NEW r \in Party, NEW s \in 1 .. 7
      PROVE  Before(r, s) \in Nat /\ Before(r, s) <= IF r = "ALICE" THEN 2 ELSE 4
  BY DEF Before
<1>4. Len(net[p]) \in Nat /\ Len(net[p]) = Sent(p) - Read(p)
  BY LenProperties DEF Placed, Queues
<1>5. /\ pc[q] # "setup" => Sent(p) = mark[Reached(q)].to[p]
      /\ pc[q] = "setup" => Sent(p) = Before(p, at[q])
      /\ pc[p] = "setup" => Read(p) = Before(p, at[p])
      /\ (pc[p] # "setup" /\ ~Mid(p)) => Read(p) = mark[at[p]].to[p]
      /\ (pc[p] # "setup" /\ Mid(p)) => Read(p) = mark[at[p] + 1].to[p] - 1
  BY DEF Sent, Read
<1>6. Sent(p) \in Nat /\ (pc[q] = "setup" => Sent(p) <= IF p = "ALICE" THEN 2 ELSE 4)
  BY <1>1, <1>2, <1>3, <1>5
<1>7. CASE pc[p] = "setup"
  BY <1>1, <1>3, <1>4, <1>5, <1>6, <1>7 DEF Mid
<1>8. CASE pc[p] = "run"
  BY <1>1, <1>2, <1>4, <1>5, <1>6, <1>8 DEF Mid
<1>9. CASE Mid(p)
  <2>1. p = "ALICE" /\ pc[p] # "setup" /\ pc[p] # "run"
    BY <1>1, <1>9 DEF Mid, Party
  <2>2. /\ at["ALICE"] \in 1 .. Len(script)
        /\ mark[at["ALICE"]].to["ALICE"] + 1 <= mark[at["ALICE"] + 1].to["ALICE"]
    BY <1>1, <1>9, <2>1, MidReads DEF Placed
  <2>3. mark[at["ALICE"] + 1].to["ALICE"] \in Nat /\ mark[at["ALICE"]].to["ALICE"] \in Nat
    BY <2>2, CallAfter DEF Placed
  <2>4. Call(p) = at["ALICE"] /\ Read(p) = mark[at["ALICE"] + 1].to["ALICE"] - 1
    BY <1>1, <1>5, <1>9, <2>1
  <2>5. mark[Call(p)].to[p] <= Read(p) /\ Read(p) \in Nat
    <3> DEFINE x == mark[at["ALICE"]].to["ALICE"]
               y == mark[at["ALICE"] + 1].to["ALICE"]
    <3>1. x \in Nat /\ y \in Nat /\ x + 1 <= y /\ Read(p) = y - 1 /\ mark[Call(p)].to[p] = x
      BY <2>1, <2>2, <2>3, <2>4, Zenon
    <3> HIDE DEF x, y
    <3> QED
      BY <3>1
  <2> QED
    BY <1>4, <1>5, <1>6, <1>9, <2>1, <2>4, <2>5, Zenon
<1> QED
  BY <1>1, <1>7, <1>8, <1>9 DEF Mid

(* The garbler's constructor ends with a message of the evaluator's last.  *)
LEMMA InSetup == ASSUME Placed, pc["BOB"] = "setup"
  PROVE  pc["ALICE"] = "setup"
<1>1. SUFFICES ASSUME pc["ALICE"] # "setup" PROVE FALSE
  OBVIOUS
<1>2. /\ Sent("ALICE") <= 2 /\ Sent("ALICE") \in Nat /\ Read("ALICE") \in Nat
      /\ mark[Call("ALICE")].to["ALICE"] <= Read("ALICE")
      /\ Sent("ALICE") - Read("ALICE") \in Nat
  BY <1>1, Counts, Parties
<1>3. /\ Call("ALICE") \in 1 .. Len(script) + 1 /\ Len(script) \in Nat
      /\ 1 \in 1 .. Len(script) + 1 /\ 1 <= Call("ALICE")
  BY Where, Parties
<1>4. 3 <= mark[Call("ALICE")].to["ALICE"] /\ mark[Call("ALICE")].to["ALICE"] \in Nat
  BY <1>3, Marks, FirstMark, MarkTyped DEF Placed
<1> QED
  BY <1>2, <1>4

(* Something has arrived: the peer has been further. *)
LEMMA Ahead == ASSUME Placed, NEW p \in Party, pc[p] # "setup", net[p] # <<>>
  PROVE  /\ Call(p) < Reached(Peer(p))
         /\ pc[Peer(p)] # "setup"
         /\ Read(p) < Sent(p)
<1> DEFINE q == Peer(p)
<1>0. q \in Party
  BY PeerFacts
<1>1. Len(net[p]) > 0
  BY EmptySeq, LenProperties DEF Placed
<1>2. /\ Read(p) < Sent(p) /\ Sent(p) \in Nat /\ Read(p) \in Nat
      /\ mark[Call(p)].to[p] <= Read(p)
      /\ pc[q] # "setup" => Sent(p) = mark[Reached(q)].to[p]
      /\ pc[q] = "setup" => Sent(p) <= IF p = "ALICE" THEN 2 ELSE 4
  BY <1>1, Counts
<1>3. /\ Call(p) \in 1 .. Len(script) + 1 /\ Reached(q) \in 1 .. Len(script) + 1
      /\ Len(script) \in Nat
      /\ 1 \in 1 .. Len(script) + 1 /\ 1 <= Call(p)
  BY <1>0, Where
<1>4. /\ mark[1].to[p] <= mark[Call(p)].to[p]
      /\ mark[1].to[p] = IF p = "ALICE" THEN 3 ELSE 4
      /\ mark[Call(p)].to[p] \in Nat
  BY <1>3, Marks, FirstMark, MarkTyped DEF Placed, Party
<1>5. pc[q] # "setup"
  BY <1>2, <1>4
<1>6. Reached(q) <= Call(p) => mark[Reached(q)].to[p] <= mark[Call(p)].to[p]
  BY <1>3, Marks DEF Placed, Party
<1>7. mark[Reached(q)].to[p] \in Nat
  BY <1>3, MarkTyped DEF Placed, Party
<1> QED
  BY <1>2, <1>3, <1>4, <1>5, <1>6, <1>7

(* A call that sends the peer a message comes before the peer has made it. *)
LEMMA NotPast ==
  ASSUME Placed, Grows, NEW p \in Party, pc[p] = "run",
         mark'[at[p] + 1].to[Peer(p)] > mark[at[p]].to[Peer(p)]
  PROVE  Call(Peer(p)) <= at[p]
<1> DEFINE q == Peer(p)
           k == at[p]
<1>0. q \in Party /\ Peer(q) = p
  BY PeerFacts
<1>1. SUFFICES ASSUME Call(q) > k PROVE FALSE
  BY <1>0, Where
<1>2. /\ Call(q) \in 1 .. Len(script) + 1 /\ k \in 1 .. Len(script) + 1 /\ Len(script) \in Nat
      /\ Reached(p) = k
      /\ pc[q] = "setup" => Call(q) = 1
  BY <1>0, Where
<1>3. pc[q] # "setup" /\ k + 1 \in 1 .. Len(script) + 1 /\ k + 1 <= Call(q)
  BY <1>1, <1>2
<1>4. mark'[k + 1] = mark[k + 1]
  BY <1>3 DEF Grows
<1>5. /\ Sent(q) = mark[k].to[q] /\ mark[Call(q)].to[q] <= Read(q) /\ Read(q) \in Nat
      /\ Sent(q) - Read(q) \in Nat
  BY <1>0, <1>2, <1>3, Counts
<1>6. mark[k + 1].to[q] <= mark[Call(q)].to[q]
  BY <1>0, <1>2, <1>3, Marks DEF Placed, Party
<1>7. mark[k].to[q] \in Nat /\ mark[k + 1].to[q] \in Nat /\ mark[Call(q)].to[q] \in Nat
  BY <1>0, <1>2, <1>3, MarkTyped DEF Placed, Party
<1> QED
  BY <1>4, <1>5, <1>6, <1>7

-----------------------------------------------------------------------------
(* What is in the queues stays there until it is taken. *)

DueKept(r) == /\ Read(r) <= Read(r)'
              /\ \A n \in Int : (Read(r)' < n /\ n <= Sent(r)) => net'[r][n - Read(r)'] = Due(r, n)

(* A stream that is left alone keeps its messages. *)
LEMMA QueueSame ==
  ASSUME Placed, NEW r \in Party, net'[r] = net[r], Read(r)' = Read(r)
  PROVE  DueKept(r)
<1>1. Read(r) \in Nat
  BY Counts
<1> QED
  BY <1>1 DEF DueKept, Due

(* send_data puts messages after those there are, which stay where they    *)
(* were.                                                                   *)
LEMMA QueueSends ==
  ASSUME Placed, NEW r \in Party, NEW msgs \in Seq(Message),
         net'[r] = net[r] \o msgs, Read(r)' = Read(r)
  PROVE  /\ DueKept(r)
         /\ net'[r] \in Seq(Message)
         /\ Len(net'[r]) = Len(net[r]) + Len(msgs)
         /\ \A i \in 1 .. Len(msgs) : net'[r][Sent(r) + i - Read(r)'] = msgs[i]
<1>1. Read(r) \in Nat /\ Sent(r) \in Nat /\ Len(net[r]) = Sent(r) - Read(r)
  BY Counts
<1>2. net[r] \in Seq(Message)
  BY DEF Placed
<1>3. /\ net'[r] \in Seq(Message)
      /\ Len(net'[r]) = Len(net[r]) + Len(msgs)
      /\ \A i \in 1 .. Len(net[r]) : net'[r][i] = net[r][i]
      /\ \A i \in 1 .. Len(msgs) : net'[r][Len(net[r]) + i] = msgs[i]
  BY <1>2, ConcatFacts
<1>4. DueKept(r)
  <2>1. ASSUME NEW n \in Int, Read(r) < n, n <= Sent(r)
        PROVE  net'[r][n - Read(r)] = net[r][n - Read(r)]
    <3>1. n - Read(r) \in 1 .. Len(net[r])
      BY <1>1, <2>1
    <3> QED
      BY <1>3, <3>1
  <2> QED
    BY <1>1, <2>1 DEF DueKept, Due
<1>5. ASSUME NEW i \in 1 .. Len(msgs)
      PROVE  net'[r][Sent(r) + i - Read(r)'] = msgs[i]
  <2>1. Sent(r) + i - Read(r)' = Len(net[r]) + i
    BY <1>1, LenProperties
  <2> QED
    BY <1>3, <2>1
<1> QED
  BY <1>3, <1>4, <1>5

(* recv_data takes the first message there is, and the others stay where   *)
(* they were.                                                              *)
LEMMA QueueTakes ==
  ASSUME Placed, NEW r \in Party, net[r] # <<>>, net'[r] = Tail(net[r]), Read(r)' = Read(r) + 1
  PROVE  /\ DueKept(r)
         /\ net'[r] \in Seq(Message)
         /\ Len(net'[r]) = Len(net[r]) - 1
         /\ Head(net[r]) = Due(r, Read(r) + 1)
         /\ Head(net[r]) \in Message
<1>1. Read(r) \in Nat /\ Sent(r) \in Nat /\ Len(net[r]) = Sent(r) - Read(r)
  BY Counts
<1>2. net[r] \in Seq(Message)
  BY DEF Placed
<1>3. /\ net'[r] \in Seq(Message)
      /\ Len(net'[r]) = Len(net[r]) - 1
      /\ Head(net[r]) = net[r][1]
      /\ Head(net[r]) \in Message
      /\ \A i \in 1 .. Len(net[r]) - 1 : net'[r][i] = net[r][i + 1]
  BY <1>2, TailFacts
<1>4. DueKept(r)
  <2>1. ASSUME NEW n \in Int, Read(r) + 1 < n, n <= Sent(r)
        PROVE  net'[r][n - (Read(r) + 1)] = net[r][n - Read(r)]
    <3>1. n - (Read(r) + 1) \in 1 .. Len(net[r]) - 1 /\ n - (Read(r) + 1) + 1 = n - Read(r)
      BY <1>1, <2>1
    <3> QED
      BY <1>3, <3>1
  <2> QED
    BY <1>1, <2>1 DEF DueKept, Due
<1>5. (Read(r) + 1) - Read(r) = 1
  BY <1>1
<1>6. Head(net[r]) = Due(r, Read(r) + 1)
  BY <1>3, <1>5, Zenon DEF Due
<1> QED
  BY <1>3, <1>4, <1>6

-----------------------------------------------------------------------------
(* What holds of past calls stays, as long as nothing is taken back.       *)

Prolongs(s, t) == Len(s) <= Len(t) /\ \A i \in 1 .. Len(s) : t[i] = s[i]

Onward == /\ Grows
          /\ delta' = delta
          /\ constant' = constant
          /\ \A p \in Party : Prolongs(wire[p], wire'[p]) /\ Prolongs(out[p], out'[p])
          /\ Prolongs(stock, stock')

(* The wires of a call, and what it has of the pool, once p has made it.   *)
LEMMA PastCall == ASSUME IInv, NEW p \in Party, NEW k \in 1 .. Call(p) - 1
  PROVE  /\ k \in 1 .. Len(script)
         /\ k \in Nat /\ k + 1 \in 1 .. Len(script) + 1
         /\ mark[k + 1].wires <= Len(wire[p])
         /\ mark[k].wires <= mark[k + 1].wires
         /\ mark[k + 1].reveals <= Len(out[p])
         /\ mark[k + 1].used <= Len(stock)
         /\ mark[k + 1].stocked <= Len(stock)
         /\ Len(wire[p]) \in Nat /\ Len(out[p]) \in Nat /\ Len(stock) \in Nat
<1>0. Placed
  BY InvPlaced
<1>1. Call(p) \in 1 .. Len(script) + 1 /\ Len(script) \in Nat /\ pc[p] # "setup" /\ Call(p) = at[p]
  BY <1>0, Where
<1>2. k \in 1 .. Len(script) /\ k \in Nat /\ k + 1 \in 1 .. Len(script) + 1 /\ k + 1 <= Call(p) /\ k \in 1 .. Len(script) + 1 /\ k <= k + 1
  BY <1>1
<1>3. /\ mark[k + 1].wires <= mark[Call(p)].wires
      /\ mark[k + 1].reveals <= mark[Call(p)].reveals
      /\ mark[k + 1].stocked <= mark[Call(p)].stocked
      /\ mark[k].wires <= mark[k + 1].wires
      /\ mark[k + 1].used <= mark[k + 1].stocked
      /\ mark[k + 1].stocked \in Nat /\ mark[k + 1].used \in Nat /\ mark[Call(p)].stocked \in Nat
  BY <1>0, <1>1, <1>2, Marks, MarkTyped DEF Placed
<1>4. Len(wire[p]) = mark[Call(p)].wires /\ Len(out[p]) = mark[Call(p)].reveals
  BY DEF IInv, Counters
<1>5. Len(wire[p]) \in Nat /\ Len(out[p]) \in Nat /\ Len(stock) \in Nat
  BY LenProperties DEF IInv, TypeOK
<1>6. mark[Call(p)].stocked <= Len(stock)
  <2>1. CASE p = "BOB"
    <3>1. Len(stock) = mark[Call("BOB")].stocked
      BY <1>1, <2>1 DEF IInv, Pool
    <3> QED
      BY <1>3, <2>1, <3>1
  <2>2. CASE p = "ALICE"
    <3>1. Pooled("ALICE").stocked <= Len(stock) /\ at["ALICE"] \in 1 .. Len(script) + 1
      BY <1>1, <2>2 DEF IInv, Pool
    <3>2. CASE pc["ALICE"] # "feed"
      BY <2>2, <3>1, <3>2 DEF Pooled
    <3>3. CASE pc["ALICE"] = "feed"
      <4>1. at["ALICE"] \in 1 .. Len(script)
        BY <3>3, Parties DEF IInv, Positions, Mid
      <4>2. at["ALICE"] + 1 \in 1 .. Len(script) + 1 /\ at["ALICE"] <= at["ALICE"] + 1
        BY <1>1, <4>1
      <4>3. mark[at["ALICE"]].stocked <= mark[at["ALICE"] + 1].stocked
        BY <1>0, <3>1, <4>2, Marks DEF Placed
      <4>4. mark[at["ALICE"] + 1].stocked \in Nat
        BY <1>0, <4>2, MarkTyped DEF Placed
      <4> QED
        BY <1>1, <1>3, <1>5, <2>2, <3>1, <3>3, <4>3, <4>4 DEF Pooled
    <3> QED
      BY <3>2, <3>3
  <2> QED
    BY <2>1, <2>2 DEF Party
<1> QED
  BY <1>2, <1>3, <1>4, <1>5, <1>6

(* The labels of calls that are complete stay. *)
LEMMA LabelsStay == ASSUME IInv, Onward, NEW p \in Party, NEW k \in 1 .. Call(p) - 1
  PROVE  CallLabels(p, k)'
<1> DEFINE c == script[k]
           w == mark[k].wires
           u == mark[k].used
           W == wire[p]
           V == wire'[p]
<1>0. ProgramInv
  BY InvProgram
<1>1. /\ k \in 1 .. Len(script) /\ k \in Nat /\ k + 1 \in 1 .. Len(script) + 1
      /\ mark[k + 1].wires <= Len(W)
      /\ mark[k + 1].used <= Len(stock)
      /\ Len(W) \in Nat /\ Len(stock) \in Nat
  BY PastCall
<1>2. script'[k] = c /\ mark'[k] = mark[k]
  BY <1>0, <1>1, MarkTyped DEF Onward, Grows
<1>3. /\ mark[k + 1].wires = IF c.op \in {"and", "xor", "not"} THEN w + 1 ELSE w + Len(c.bits)
      /\ CallOK(k)
      /\ Len(c.bits) \in Nat /\ w \in Nat /\ u \in Nat
      /\ mark[k + 1].used = IF FeedsBob(c) /\ Len(c.bits) <= Batch THEN u + Len(c.bits) ELSE u
  BY <1>0, <1>1, CallInRange, CallAfter
<1>4. /\ \A i \in 1 .. Len(W) : V[i] = W[i]
      /\ \A i \in 1 .. Len(stock) : stock'[i] = stock[i]
      /\ delta' = delta /\ constant' = constant
  BY DEF Onward, Prolongs
<1>5. CallLabels(p, k)
  BY DEF IInv, Labels
<1>6. /\ c.op \in {"and", "xor", "not"} => /\ c.i \in 1 .. w /\ c.j \in 1 .. w
                                           /\ w + 1 \in 1 .. Len(W)
                                           /\ c.i \in 1 .. Len(W) /\ c.j \in 1 .. Len(W)
      /\ c.op = "public" => w + 1 \in 1 .. Len(W)
      /\ c.op = "feed" => \A i \in 1 .. Len(c.bits) : w + i \in 1 .. Len(W)
      /\ (FeedsBob(c) /\ Len(c.bits) <= Batch) => \A i \in 1 .. Len(c.bits) : u + i \in 1 .. Len(stock)
  <2> DEFINE n == Len(c.bits)
             x == Len(W)
             y == Len(stock)
             pooled == FeedsBob(c) /\ n <= Batch
  <2>1. /\ c.op \in {"and", "xor", "not"} => c.i \in 1 .. w /\ c.j \in 1 .. w
        /\ c.op = "public" => n = 1
    BY <1>3 DEF CallOK
  <2>2. /\ n \in Nat /\ x \in Nat /\ y \in Nat /\ w \in Nat /\ u \in Nat
        /\ (IF c.op \in {"and", "xor", "not"} THEN w + 1 ELSE w + n) <= x
        /\ (IF pooled THEN u + n ELSE u) <= y
    BY <1>1, <1>3
  <2> HIDE DEF c, w, u, W, n, x, y, pooled
  <2>3. /\ c.op \in {"and", "xor", "not"} => /\ c.i \in 1 .. w /\ c.j \in 1 .. w
                                             /\ w + 1 \in 1 .. x
                                             /\ c.i \in 1 .. x /\ c.j \in 1 .. x
        /\ c.op = "public" => w + 1 \in 1 .. x
        /\ c.op = "feed" => \A i \in 1 .. n : w + i \in 1 .. x
        /\ pooled => \A i \in 1 .. n : u + i \in 1 .. y
    BY <2>1, <2>2
  <2> QED
    BY <2>3 DEF n, x, y, pooled
<1>7. /\ c.op = "public" => V[w + 1] = constant'[p][c.bits[1]]
      /\ c.op = "xor" => V[w + 1] = XOR(V[c.i], V[c.j])
      /\ c.op = "not" => V[w + 1] = XOR(V[c.i], constant'[p][TRUE])
      /\ (c.op = "and" /\ p = "ALICE") =>
           V[w + 1] = Garble(V[c.i], V[c.j], delta', mark[k].gid + 1).label
  <2> HIDE DEF W, V
  <2>1. CASE c.op = "public"
    <3>1. W[w + 1] = constant[p][c.bits[1]] /\ V[w + 1] = W[w + 1]
      BY <1>4, <1>5, <1>6, <2>1 DEF CallLabels, W
    <3> QED
      BY <1>4, <2>1, <3>1
  <2>2. CASE c.op = "xor"
    <3>1. W[w + 1] = XOR(W[c.i], W[c.j])
      BY <1>5, <2>2 DEF CallLabels, W
    <3>2. V[w + 1] = W[w + 1] /\ V[c.i] = W[c.i] /\ V[c.j] = W[c.j]
      BY <1>4, <1>6, <2>2
    <3> QED
      BY <2>2, <3>1, <3>2
  <2>3. CASE c.op = "not"
    <3>1. W[w + 1] = XOR(W[c.i], constant[p][TRUE])
      BY <1>5, <2>3 DEF CallLabels, W
    <3>2. V[w + 1] = W[w + 1] /\ V[c.i] = W[c.i]
      BY <1>4, <1>6, <2>3
    <3> QED
      BY <1>4, <2>3, <3>1, <3>2
  <2>4. CASE c.op = "and" /\ p = "ALICE"
    <3>1. W[w + 1] = Garble(W[c.i], W[c.j], delta, mark[k].gid + 1).label
      BY <1>5, <2>4 DEF CallLabels, W
    <3>2. V[w + 1] = W[w + 1] /\ V[c.i] = W[c.i] /\ V[c.j] = W[c.j]
      BY <1>4, <1>6, <2>4
    <3> QED
      BY <1>4, <2>4, <3>1, <3>2
  <2> QED
    BY <2>1, <2>2, <2>3, <2>4
<1>8. ASSUME c.op = "feed", c.who = "ALICE", NEW i \in 1 .. Len(c.bits)
      PROVE  V[w + i] = IF p = "ALICE" THEN Active(Prg(mark[k].counter + i), c.bits[i], delta')
                        ELSE Prg(mark[k].counter + i)
  <2>1. V[w + i] = W[w + i]
    BY <1>4, <1>6, <1>8
  <2>2. W[w + i] = IF p = "ALICE" THEN Active(Prg(mark[k].counter + i), c.bits[i], delta)
                   ELSE Prg(mark[k].counter + i)
    BY <1>5, <1>8 DEF CallLabels
  <2> QED
    BY <1>4, <2>1, <2>2
<1>9. ASSUME FeedsBob(c), Len(c.bits) <= Batch, NEW i \in 1 .. Len(c.bits)
      PROVE  V[w + i] = IF p = "ALICE" THEN Active(stock'[u + i].t, c.bits[i], delta')
                        ELSE stock'[u + i].t
  <2>1. V[w + i] = W[w + i] /\ stock'[u + i] = stock[u + i]
    BY <1>4, <1>6, <1>9 DEF FeedsBob
  <2>2. W[w + i] = IF p = "ALICE" THEN Active(stock[u + i].t, c.bits[i], delta) ELSE stock[u + i].t
    BY <1>5, <1>9 DEF CallLabels
  <2> QED
    BY <1>4, <2>1, <2>2
<1>10. CallLabels(p, k)' =
       (/\ c.op = "public" => V[w + 1] = constant'[p][c.bits[1]]
        /\ c.op = "xor" => V[w + 1] = XOR(V[c.i], V[c.j])
        /\ c.op = "not" => V[w + 1] = XOR(V[c.i], constant'[p][TRUE])
        /\ (c.op = "and" /\ p = "ALICE") =>
             V[w + 1] = Garble(V[c.i], V[c.j], delta', mark[k].gid + 1).label
        /\ (c.op = "feed" /\ c.who = "ALICE") => \A i \in 1 .. Len(c.bits) :
             V[w + i] = IF p = "ALICE" THEN Active(Prg(mark[k].counter + i), c.bits[i], delta')
                        ELSE Prg(mark[k].counter + i)
        /\ (FeedsBob(c) /\ Len(c.bits) <= Batch) => \A i \in 1 .. Len(c.bits) :
             V[w + i] = IF p = "ALICE" THEN Active(stock'[u + i].t, c.bits[i], delta')
                        ELSE stock'[u + i].t)
  BY <1>2, Zenon DEF CallLabels
<1> HIDE DEF c, w, u, V
<1> QED
  BY <1>7, <1>8, <1>9, <1>10, Zenon

(* A slice of a sequence. *)
LEMMA Segment ==
  ASSUME NEW S, NEW s \in Seq(S), NEW a \in 1 .. Len(s), NEW b \in 1 .. Len(s), a <= b
  PROVE  /\ SubSeq(s, a, b) \in Seq(S)
         /\ Len(SubSeq(s, a, b)) = b - a + 1
         /\ \A i \in 1 .. b - a + 1 : SubSeq(s, a, b)[i] = s[a + i - 1]
<1>1. a \in Int /\ b \in Int /\ \A i \in a .. b : i \in 1 .. Len(s)
  BY LenProperties
<1>2. \A i \in a .. b : s[i] \in S
  BY <1>1, ElementOfSeq
<1>3. /\ SubSeq(s, a, b) \in Seq(S)
      /\ Len(SubSeq(s, a, b)) = IF a <= b THEN b - a + 1 ELSE 0
      /\ \A i \in 1 .. b - a + 1 : SubSeq(s, a, b)[i] = s[a + i - 1]
  BY <1>1, <1>2, SubSeqProperties
<1> QED
  BY <1>3

(* The values a reveal asks for stay. *)
LEMMA ClearsStay ==
  ASSUME ProgramInv, val' \in Seq(BOOLEAN), Grows, NEW c,
         c.i \in 1 .. Len(val), c.j \in 1 .. Len(val), c.i <= c.j
  PROVE  Clears(c)' = Clears(c)
<1>1. /\ val \in Seq(BOOLEAN) /\ Len(val) \in Nat /\ Len(val') \in Nat /\ Len(val) <= Len(val')
      /\ \A i \in 1 .. Len(val) : val'[i] = val[i]
  BY LenProperties DEF ProgramInv, ProgramTyped, Grows
<1> DEFINE s == SubSeq(val, c.i, c.j)
           t == SubSeq(val', c.i, c.j)
           a == c.i
           b == c.j
<1>2. a \in 1 .. Len(val') /\ b \in 1 .. Len(val') /\ a \in Int /\ b \in Int /\ a <= b
  BY <1>1
<1>3. /\ s \in Seq(BOOLEAN) /\ Len(s) = b - a + 1
      /\ \A i \in 1 .. b - a + 1 : s[i] = val[a + i - 1]
  BY <1>1, Segment
<1>4. /\ t \in Seq(BOOLEAN) /\ Len(t) = b - a + 1
      /\ \A i \in 1 .. b - a + 1 : t[i] = val'[a + i - 1]
  BY <1>2, Segment
<1>5. \A i \in 1 .. b - a + 1 : a + i - 1 \in 1 .. Len(val)
  <2> HIDE DEF a, b
  <2>1. a \in 1 .. Len(val) /\ b \in 1 .. Len(val)
    BY DEF a, b
  <2> QED
    BY <1>1, <1>2, <2>1
<1>6. \A i \in 1 .. Len(s) : s[i] = t[i]
  <2> HIDE DEF s, t, a, b
  <2> QED
    BY <1>1, <1>3, <1>4, <1>5
<1>7. s = t
  <2> HIDE DEF s, t
  <2> QED
    BY <1>3, <1>4, <1>6, SeqEqual
<1> QED
  BY <1>7 DEF Clears

(* So do the lsbs of the labels. *)
LEMMA LsbsStay ==
  ASSUME NEW p \in Party, wire[p] \in Seq(Block), Prolongs(wire[p], wire'[p]), NEW c,
         c.i \in 1 .. Len(wire[p]), c.j \in 1 .. Len(wire[p])
  PROVE  Lsbs(p, c)' = Lsbs(p, c)
<1> DEFINE a == c.i
           b == c.j
           n == Len(wire[p])
<1>1. n \in Nat /\ a \in 1 .. n /\ b \in 1 .. n /\ \A i \in 1 .. n : wire'[p][i] = wire[p][i]
  BY LenProperties DEF Prolongs
<1>2. \A i \in 1 .. b - a + 1 : a + i - 1 \in 1 .. n
  <2> HIDE DEF a, b, n
  <2> QED
    BY <1>1
<1>3. \A i \in 1 .. b - a + 1 : LSB(wire'[p][a + i - 1]) = LSB(wire[p][a + i - 1])
  BY <1>1, <1>2
<1>4. [i \in 1 .. b - a + 1 |-> LSB(wire'[p][a + i - 1])] = [i \in 1 .. b - a + 1 |-> LSB(wire[p][a + i - 1])]
  BY <1>3, Zenon
<1> QED
  BY <1>4 DEF Lsbs

(* The wires a call takes, at a party that has come to it *)
LEMMA CallTakes ==
  ASSUME Placed, NEW p \in Party, Len(wire[p]) = mark[Call(p)].wires,
         NEW k \in 1 .. Len(script), k <= Call(p),
         script[k].op \in {"and", "xor", "not", "reveal"}
  PROVE  /\ script[k].i \in 1 .. mark[k].wires /\ script[k].j \in 1 .. mark[k].wires
         /\ script[k].i \in 1 .. Len(wire[p]) /\ script[k].j \in 1 .. Len(wire[p])
         /\ script[k].i \in 1 .. Len(val) /\ script[k].j \in 1 .. Len(val)
         /\ mark[k].wires <= Len(wire[p])
<1>1. /\ Call(p) \in 1 .. Len(script) + 1 /\ Len(script) \in Nat
      /\ k \in 1 .. Len(script) + 1
  BY Where
<1>2. mark[k].wires <= mark[Call(p)].wires /\ mark[k].wires \in Nat /\ mark[Call(p)].wires \in Nat
  BY <1>1, Marks, MarkTyped DEF Placed
<1>3. CallOK(k) /\ mark[k].wires <= mark[k + 1].wires /\ mark[k + 1].wires <= Len(val)
  BY CallInRange DEF Placed
<1>4. mark[k + 1].wires \in Nat /\ Len(val) \in Nat
  <2>1. k + 1 \in 1 .. Len(script) + 1
    BY <1>1
  <2> QED
    BY <2>1, MarkTyped, LenProperties DEF Placed, ProgramInv, ProgramTyped
<1>5. script[k].i \in 1 .. mark[k].wires /\ script[k].j \in 1 .. mark[k].wires
  BY <1>3 DEF CallOK
<1> DEFINE a == script[k].i
           b == script[k].j
           u == mark[k].wires
           v == mark[k + 1].wires
           w == mark[Call(p)].wires
           n == Len(val)
<1>6. a \in 1 .. w /\ b \in 1 .. w /\ a \in 1 .. n /\ b \in 1 .. n /\ u <= w
  <2>1. /\ u \in Nat /\ v \in Nat /\ w \in Nat /\ n \in Nat
        /\ a \in 1 .. u /\ b \in 1 .. u
        /\ u <= w /\ u <= v /\ v <= n
    BY <1>2, <1>3, <1>4, <1>5, Zenon
  <2> HIDE DEF a, b, u, v, w, n
  <2> QED
    BY <2>1
<1> QED
  BY <1>5, <1>6

(* So does what a reveal has given. *)
LEMMA GivenStays == ASSUME IInv, Onward, ProgramInv', NEW p \in Party, NEW k \in 1 .. Call(p) - 1
  PROVE  Given(p, k)'
<1>0. Placed /\ ProgramInv /\ wire[p] \in Seq(Block) /\ Len(wire[p]) = mark[Call(p)].wires
  BY InvPlaced, InvProgram DEF IInv, TypeOK, Counters
<1>1. /\ k \in 1 .. Len(script) /\ k + 1 \in 1 .. Len(script) + 1
      /\ mark[k + 1].reveals <= Len(out[p])
      /\ Len(out[p]) \in Nat /\ k <= Call(p)
  <2>1. Call(p) \in Nat
    BY <1>0, Where
  <2> QED
    BY <2>1, PastCall
<1>2. PICK c : c = script[k]
  OBVIOUS
<1>3. script'[k] = c /\ mark'[k] = mark[k]
  BY <1>1, <1>2, <1>0, MarkTyped DEF Onward, Grows
<1>4. SUFFICES ASSUME c.op = "reveal"
               PROVE  /\ c.who \in {p, "PUBLIC"} => out'[p][mark[k].reveals + 1] = Clears(c)'
                      /\ c.who = Peer(p) => out'[p][mark[k].reveals + 1] = Nothing(c)
                      /\ c.who = "XOR" => out'[p][mark[k].reveals + 1] = Lsbs(p, c)'
  BY <1>3 DEF Given
<1>5. /\ c.i \in 1 .. Len(wire[p]) /\ c.j \in 1 .. Len(wire[p])
      /\ c.i \in 1 .. Len(val) /\ c.j \in 1 .. Len(val)
  BY <1>0, <1>1, <1>2, <1>4, CallTakes
<1>6. c.i <= c.j
  BY <1>0, <1>1, <1>2, <1>4, CallInRange DEF CallOK
<1>7. Clears(c)' = Clears(c)
  BY <1>0, <1>5, <1>6, ClearsStay DEF Onward, ProgramInv, ProgramTyped
<1>8. Lsbs(p, c)' = Lsbs(p, c)
  BY <1>0, <1>5, LsbsStay DEF Onward
<1>9. mark[k].reveals \in Nat /\ mark[k + 1].reveals = mark[k].reveals + 1
  BY <1>0, <1>1, <1>2, <1>4, CallAfter
<1>10. out'[p][mark[k].reveals + 1] = out[p][mark[k].reveals + 1]
  <2>1. mark[k].reveals + 1 \in 1 .. Len(out[p])
    BY <1>1, <1>9
  <2> QED
    BY <2>1 DEF Onward, Prolongs
<1>11. Given(p, k)
  BY DEF IInv, Outputs
<1> QED
  BY <1>2, <1>4, <1>7, <1>8, <1>10, <1>11 DEF Given

(* Where the messages of a call are between what has been taken and sent.  *)
Spaced == \A p \in Party : \A k \in 1 .. Len(script) :
  /\ Read(p) \in Nat /\ Sent(p) \in Nat
  /\ mark[k].to[p] \in Nat /\ mark[k + 1].to[p] \in Nat
  /\ (Call(p) <= k /\ mark[k].to[p] < mark[k + 1].to[p]) => Read(p) < mark[k + 1].to[p]
  /\ (Call(p) <= k /\ ~Mid(p)) => Read(p) <= mark[k].to[p]
  /\ k < Reached(Peer(p)) => mark[k + 1].to[p] <= Sent(p)

(* What a party has taken is between the marks of the call it is at; what  *)
(* it has been sent is past every call its peer has made.                  *)
LEMMA Between == Placed => Spaced
<1> SUFFICES ASSUME Placed, NEW p \in Party, NEW k \in 1 .. Len(script)
    PROVE  /\ Read(p) \in Nat /\ Sent(p) \in Nat
           /\ mark[k].to[p] \in Nat /\ mark[k + 1].to[p] \in Nat
           /\ (Call(p) <= k /\ mark[k].to[p] < mark[k + 1].to[p]) => Read(p) < mark[k + 1].to[p]
           /\ (Call(p) <= k /\ ~Mid(p)) => Read(p) <= mark[k].to[p]
           /\ k < Reached(Peer(p)) => mark[k + 1].to[p] <= Sent(p)
  BY DEF Spaced
<1> DEFINE q == Peer(p)
<1>0. q \in Party
  BY PeerFacts
<1>1. /\ Call(p) \in 1 .. Len(script) + 1 /\ Reached(q) \in 1 .. Len(script) + 1 /\ Len(script) \in Nat
      /\ k \in 1 .. Len(script) + 1 /\ k + 1 \in 1 .. Len(script) + 1 /\ k <= k + 1
      /\ 1 \in 1 .. Len(script) + 1
      /\ pc[p] # "setup" => Call(p) = at[p]
      /\ pc[q] = "setup" => Reached(q) = 1
      /\ at[p] \in Nat
  BY <1>0, Where
<1>2. /\ Read(p) \in Nat /\ Sent(p) \in Nat
      /\ pc[q] # "setup" => Sent(p) = mark[Reached(q)].to[p]
      /\ pc[p] = "setup" => Read(p) <= IF p = "ALICE" THEN 2 ELSE 4
      /\ (pc[p] # "setup" /\ ~Mid(p)) => Read(p) = mark[Call(p)].to[p]
      /\ Mid(p) => p = "ALICE" /\ Read(p) = mark[at[p] + 1].to[p] - 1
  BY Counts
<1>3. \A i, j \in 1 .. Len(script) + 1 : /\ mark[i].to[p] \in Nat
                                         /\ i <= j => mark[i].to[p] <= mark[j].to[p]
  BY Marks, MarkTyped DEF Placed, Party
<1>4. mark[1].to[p] = IF p = "ALICE" THEN 3 ELSE 4
  BY FirstMark DEF Placed, Party
<1>5. ASSUME k < Reached(q)
      PROVE  mark[k + 1].to[p] <= Sent(p)
  <2>1. pc[q] # "setup" /\ k + 1 <= Reached(q)
    BY <1>1, <1>5
  <2> QED
    BY <1>1, <1>2, <1>3, <2>1
<1>6. ASSUME Call(p) <= k, ~Mid(p)
      PROVE  Read(p) <= mark[k].to[p]
  <2>1. CASE pc[p] = "setup"
    <3>1. mark[1].to[p] <= mark[k].to[p] /\ mark[k].to[p] \in Nat
      BY <1>1, <1>3
    <3> QED
      BY <1>2, <1>4, <2>1, <3>1
  <2>2. CASE pc[p] # "setup"
    BY <1>1, <1>2, <1>3, <1>6, <2>2
  <2> QED
    BY <2>1, <2>2
<1>7. ASSUME Call(p) <= k, mark[k].to[p] < mark[k + 1].to[p]
      PROVE  Read(p) < mark[k + 1].to[p]
  <2>0. mark[k].to[p] \in Nat /\ mark[k + 1].to[p] \in Nat
    BY <1>1, <1>3
  <2>1. CASE ~Mid(p)
    BY <1>2, <1>6, <1>7, <2>0, <2>1
  <2>2. CASE Mid(p)
    <3>1. at[p] \in Nat /\ at[p] + 1 \in 1 .. Len(script) + 1 /\ at[p] + 1 <= k + 1
      BY <1>1, <1>7, <2>2 DEF Mid
    <3>2. mark[at[p] + 1].to[p] <= mark[k + 1].to[p] /\ mark[at[p] + 1].to[p] \in Nat
      BY <1>1, <1>3, <3>1
    <3>3. Read(p) = mark[at[p] + 1].to[p] - 1
      BY <1>2, <2>2
    <3> DEFINE x == mark[at[p] + 1].to[p]
               y == mark[k + 1].to[p]
    <3>4. x <= y /\ x \in Nat /\ y \in Nat /\ Read(p) = x - 1
      BY <2>0, <3>2, <3>3
    <3> HIDE DEF x
    <3> QED
      BY <3>4
  <2> QED
    BY <2>1, <2>2
<1> QED
  BY <1>1, <1>2, <1>3, <1>5, <1>6, <1>7

(* A message to the evaluator that he has not taken says of the call what  *)
(* it did when it was sent, since the labels and the gate counter it was   *)
(* made from stay.                                                         *)
LEMMA ToBobStays ==
  ASSUME IInv, Onward, Placed', DueKept("BOB"),
         NEW k \in Call("BOB") .. Reached("ALICE") - 1, Call("BOB")' <= k
  PROVE  ToBob(k)'
<1>0. /\ Placed /\ ProgramInv /\ wire["ALICE"] \in Seq(Block)
      /\ Len(wire["ALICE"]) = mark[Call("ALICE")].wires
  BY InvPlaced, InvProgram, Parties DEF IInv, TypeOK, Counters
<1>1. /\ Call("BOB") \in 1 .. Len(script) + 1 /\ Reached("ALICE") \in 1 .. Len(script) + 1
      /\ Len(script) \in Nat /\ Reached("ALICE") <= Call("ALICE") + 1
      /\ Call("ALICE") \in 1 .. Len(script) + 1
  BY <1>0, Where, Parties
<1>2. k \in 1 .. Len(script) /\ k <= Call("ALICE") /\ k \in Nat /\ k < Reached("ALICE") /\ k \in 1 .. Len(script) + 1 /\ k + 1 \in 1 .. Len(script) + 1
  BY <1>1
<1>3. PICK c : c = script[k]
  OBVIOUS
<1>4. script'[k] = c /\ mark'[k] = mark[k] /\ mark'[k + 1] = mark[k + 1] /\ Len(script) <= Len(script')
  BY <1>2, <1>3 DEF Onward, Grows
<1>5. PICK n : n = mark[k].to["BOB"] + 1
  OBVIOUS
<1>6. /\ Read("BOB") \in Nat /\ mark[k].to["BOB"] \in Nat
      /\ mark[k + 1].to["BOB"] <= Sent("BOB")
  BY <1>0, <1>2, Between, Parties DEF Spaced
<1>7. Read("BOB")' <= mark[k].to["BOB"] /\ Read("BOB")' \in Nat
  <2>1. Spaced'
    BY Between, PTL
  <2>2. pc'["BOB"] \in {"setup", "run"}
    BY DEF Placed, Positions
  <2>3. k \in 1 .. Len(script')
    <3>1. Len(script') \in Nat
      BY LenProperties DEF Placed, ProgramInv, ProgramTyped
    <3> QED
      BY <1>1, <1>2, <1>4, <3>1
  <2> QED
    BY <1>4, <2>1, <2>2, <2>3, Parties DEF Mid, Spaced
<1>8. ASSUME mark[k + 1].to["BOB"] = mark[k].to["BOB"] + 1
      PROVE  Due("BOB", mark[k].to["BOB"] + 1)' = Due("BOB", n)
  <2>1. n \in Int /\ Read("BOB")' < n /\ n <= Sent("BOB")
    BY <1>5, <1>6, <1>7, <1>8
  <2>2. net'["BOB"][n - Read("BOB")'] = Due("BOB", n)
    BY <2>1 DEF DueKept
  <2> QED
    BY <1>4, <1>5, <2>2 DEF Due
<1>9. ToBob(k)
  BY DEF IInv, Contents
<1>10. mark[k + 1].to["BOB"] = IF c.op = "and" \/ (c.op = "reveal" /\ c.who \in {"BOB", "PUBLIC"})
                               THEN mark[k].to["BOB"] + 1 ELSE mark[k].to["BOB"]
  BY <1>0, <1>2, <1>3, CallAfter
<1>11. ASSUME c.op \in {"and", "reveal"}
       PROVE  c.i \in 1 .. Len(wire["ALICE"]) /\ c.j \in 1 .. Len(wire["ALICE"])
  BY <1>0, <1>2, <1>3, <1>11, CallTakes, Parties
<1>12. ASSUME c.op = "and"
       PROVE  Due("BOB", mark[k].to["BOB"] + 1)' =
                Msg("table", Garble(wire'["ALICE"][c.i], wire'["ALICE"][c.j], delta', mark[k].gid + 1).table)
  <2>1. Due("BOB", n) = Msg("table", Garble(wire["ALICE"][c.i], wire["ALICE"][c.j], delta, mark[k].gid + 1).table)
    BY <1>3, <1>5, <1>9, <1>12 DEF ToBob
  <2>2. wire'["ALICE"][c.i] = wire["ALICE"][c.i] /\ wire'["ALICE"][c.j] = wire["ALICE"][c.j] /\ delta' = delta
    BY <1>11, <1>12, Parties DEF Onward, Prolongs
  <2>3. Due("BOB", mark[k].to["BOB"] + 1)' = Due("BOB", n)
    BY <1>8, <1>10, <1>12
  <2> QED
    BY <2>1, <2>2, <2>3, Zenon
<1>13. ASSUME c.op = "reveal", c.who \in {"BOB", "PUBLIC"}
       PROVE  Due("BOB", mark[k].to["BOB"] + 1)' = Msg("lsbs", Lsbs("ALICE", c)')
  <2>1. Due("BOB", n) = Msg("lsbs", Lsbs("ALICE", c))
    BY <1>3, <1>5, <1>9, <1>13 DEF ToBob
  <2>2. Lsbs("ALICE", c)' = Lsbs("ALICE", c)
    BY <1>0, <1>11, <1>13, LsbsStay, Parties DEF Onward
  <2>3. Due("BOB", mark[k].to["BOB"] + 1)' = Due("BOB", n)
    BY <1>8, <1>10, <1>13
  <2> QED
    BY <2>1, <2>2, <2>3, Zenon
<1>14. /\ c.op = "and" => Due("BOB", mark[k].to["BOB"] + 1)' =
            Msg("table", Garble(wire'["ALICE"][c.i], wire'["ALICE"][c.j], delta', mark'[k].gid + 1).table)
       /\ (c.op = "reveal" /\ c.who \in {"BOB", "PUBLIC"}) =>
            Due("BOB", mark[k].to["BOB"] + 1)' = Msg("lsbs", Lsbs("ALICE", c)')
  BY <1>4, <1>12, <1>13
<1> QED
  BY <1>4, <1>14, Zenon DEF ToBob

(* So does a message to the garbler. *)
LEMMA ToAliceStays ==
  ASSUME IInv, Onward, Placed', DueKept("ALICE"),
         NEW k \in Call("ALICE") .. Call("BOB") - 1, Call("ALICE")' <= k
  PROVE  ToAlice(k)'
<1>0. /\ Placed /\ ProgramInv /\ wire["BOB"] \in Seq(Block)
      /\ Len(wire["BOB"]) = mark[Call("BOB")].wires
  BY InvPlaced, InvProgram, Parties DEF IInv, TypeOK, Counters
<1>1. /\ Call("BOB") \in 1 .. Len(script) + 1 /\ Len(script) \in Nat
      /\ Reached("BOB") = Call("BOB")
      /\ Call("ALICE") \in 1 .. Len(script) + 1
  BY <1>0, Where, Parties
<1>2. k \in 1 .. Len(script) /\ k <= Call("BOB") /\ k \in Nat /\ k < Reached("BOB") /\ k \in 1 .. Call("BOB") - 1
      /\ k \in 1 .. Len(script) + 1 /\ k + 1 \in 1 .. Len(script) + 1
  BY <1>1
<1>3. PICK c : c = script[k]
  OBVIOUS
<1>4. script'[k] = c /\ mark'[k] = mark[k] /\ mark'[k + 1] = mark[k + 1] /\ Len(script) <= Len(script')
  BY <1>2, <1>3 DEF Onward, Grows
<1>5. PICK x, y, z : x = mark[k] /\ y = mark[k + 1] /\ z = Len(c.bits)
  OBVIOUS
<1>6. /\ Read("ALICE") \in Nat /\ Sent("ALICE") \in Nat /\ x.to["ALICE"] \in Nat /\ y.to["ALICE"] \in Nat
      /\ y.to["ALICE"] <= Sent("ALICE")
  BY <1>0, <1>2, <1>5, Between, Parties DEF Spaced
<1>7. /\ x.to["ALICE"] < y.to["ALICE"] => Read("ALICE")' < y.to["ALICE"]
      /\ Read("ALICE")' \in Nat
  <2>1. Spaced'
    BY Between, PTL
  <2>2. k \in 1 .. Len(script')
    <3>1. Len(script') \in Nat
      BY LenProperties DEF Placed, ProgramInv, ProgramTyped
    <3> QED
      BY <1>1, <1>2, <1>4, <3>1
  <2> QED
    BY <1>4, <1>5, <2>1, <2>2, Parties DEF Spaced
<1>8. LET n == z
          pooled == FeedsBob(c) /\ n <= Batch
          wraps == pooled /\ x.used + n > x.stocked
      IN /\ y.to["ALICE"] = IF wraps THEN x.to["ALICE"] + 2
                            ELSE IF FeedsBob(c) \/ (c.op = "reveal" /\ c.who \in {"ALICE", "PUBLIC"})
                            THEN x.to["ALICE"] + 1 ELSE x.to["ALICE"]
         /\ y.stocked = IF wraps THEN x.stocked + Batch ELSE x.stocked
         /\ y.used = IF pooled THEN x.used + n ELSE x.used
         /\ x.used \in Nat /\ x.stocked \in Nat /\ z \in Nat
  BY <1>0, <1>2, <1>3, <1>5, CallAfter
<1>9. ASSUME x.to["ALICE"] < y.to["ALICE"]
      PROVE  Due("ALICE", mark[k + 1].to["ALICE"])' = Due("ALICE", y.to["ALICE"])
  <2>1. PICK n : n = y.to["ALICE"]
    OBVIOUS
  <2>2. n \in Int /\ Read("ALICE")' < n /\ n <= Sent("ALICE")
    BY <1>6, <1>7, <1>9, <2>1
  <2>3. net'["ALICE"][n - Read("ALICE")'] = Due("ALICE", n)
    BY <2>2 DEF DueKept
  <2> QED
    BY <1>4, <1>5, <2>1, <2>3 DEF Due
<1>10. ToAlice(k)
  BY DEF IInv, Contents
<1>11. /\ y.wires <= Len(wire["BOB"]) /\ y.used <= Len(stock) /\ y.stocked <= Len(stock)
       /\ Len(wire["BOB"]) \in Nat /\ Len(stock) \in Nat
       /\ (c.op = "feed" => y.wires = x.wires + z) /\ x.wires \in Nat
  BY <1>0, <1>2, <1>3, <1>5, PastCall, CallInRange, MarkTyped, Parties
<1>12. /\ \A i \in 1 .. Len(wire["BOB"]) : wire'["BOB"][i] = wire["BOB"][i]
       /\ \A i \in 1 .. Len(stock) : stock'[i] = stock[i]
       /\ Prolongs(wire["BOB"], wire'["BOB"])
  BY Parties DEF Onward, Prolongs
<1> DEFINE m == Due("ALICE", y.to["ALICE"])
           M == Due("ALICE", mark[k + 1].to["ALICE"])'
<1>13. ASSUME FeedsBob(c), z > Batch
       PROVE  /\ M.kind = "cot" /\ Len(M.data.t) = z /\ Len(M.data.r) = z
              /\ \A i \in 1 .. z : /\ M.data.t[i] = wire'["BOB"][x.wires + i]
                                    /\ M.data.r[i] = c.bits[i]
  <2>1. M = m
    BY <1>6, <1>8, <1>9, <1>13, BatchFacts
  <2>2. /\ m.kind = "cot" /\ Len(m.data.t) = z /\ Len(m.data.r) = z
        /\ \A i \in 1 .. z : /\ m.data.t[i] = wire["BOB"][x.wires + i]
                              /\ m.data.r[i] = c.bits[i]
    BY <1>3, <1>5, <1>10, <1>13 DEF ToAlice
  <2>3. \A i \in 1 .. z : x.wires + i \in 1 .. Len(wire["BOB"])
    <3> DEFINE a == y.wires
               b == x.wires
               n == Len(wire["BOB"])
    <3>1. a = b + z /\ b \in Nat /\ z \in Nat /\ n \in Nat /\ a <= n
      BY <1>8, <1>11, <1>13 DEF FeedsBob
    <3> HIDE DEF a, b, n
    <3> QED
      BY <3>1 DEF b, n
  <2> HIDE DEF m, M
  <2> QED
    BY <1>12, <2>1, <2>2, <2>3
<1>14. ASSUME FeedsBob(c), z <= Batch
       PROVE  M = Msg("flips", [i \in 1 .. z |-> stock'[x.used + i].r # c.bits[i]])
  <2>1. M = m
    BY <1>6, <1>8, <1>9, <1>14
  <2>2. m = Msg("flips", [i \in 1 .. z |-> stock[x.used + i].r # c.bits[i]])
    BY <1>3, <1>5, <1>10, <1>14 DEF ToAlice
  <2>3. \A i \in 1 .. z : x.used + i \in 1 .. Len(stock)
    BY <1>8, <1>11, <1>14
  <2>4. \A i \in 1 .. z : (stock'[x.used + i].r # c.bits[i]) = (stock[x.used + i].r # c.bits[i])
    BY <1>12, <2>3
  <2> HIDE DEF m, M
  <2>5. [i \in 1 .. z |-> stock'[x.used + i].r # c.bits[i]] = [i \in 1 .. z |-> stock[x.used + i].r # c.bits[i]]
    BY <2>4, Zenon
  <2> QED
    BY <2>1, <2>2, <2>5, Zenon
<1>15. ASSUME x.stocked # y.stocked, Read("ALICE")' <= x.to["ALICE"]
       PROVE  Refills(Due("ALICE", mark[k].to["ALICE"] + 1), mark[k].stocked)'
  <2>1. PICK n : n = x.to["ALICE"] + 1
    OBVIOUS
  <2>2. n \in Int /\ Read("ALICE")' < n /\ n <= Sent("ALICE") /\ Read("ALICE") <= x.to["ALICE"]
    <3>1. Read("ALICE") <= Read("ALICE")'
      BY DEF DueKept
    <3>2. y.to["ALICE"] = x.to["ALICE"] + 2
      BY <1>8, <1>15
    <3> QED
      BY <1>6, <1>7, <1>15, <2>1, <3>1, <3>2
  <2>3. net'["ALICE"][n - Read("ALICE")'] = Due("ALICE", n)
    BY <2>2 DEF DueKept
  <2>4. Due("ALICE", mark[k].to["ALICE"] + 1)' = Due("ALICE", n)
    BY <1>4, <1>5, <2>1, <2>3 DEF Due
  <2>5. Refills(Due("ALICE", n), x.stocked)
    BY <1>3, <1>5, <1>10, <1>15, <2>1, <2>2 DEF ToAlice
  <2>6. \A i \in 1 .. Batch : x.stocked + i \in 1 .. Len(stock)
    <3>1. y.stocked = x.stocked + Batch
      BY <1>8, <1>15
    <3> QED
      BY <1>8, <1>11, <3>1, BatchFacts
  <2>7. \A i \in 1 .. Batch : stock'[x.stocked + i] = stock[x.stocked + i]
    BY <1>12, <2>6
  <2> DEFINE q == Due("ALICE", n)
  <2>8. Refills(Due("ALICE", mark[k].to["ALICE"] + 1), mark[k].stocked)' =
        (/\ q.kind = "cot" /\ Len(q.data.t) = Batch /\ Len(q.data.r) = Batch
         /\ \A i \in 1 .. Batch : /\ q.data.t[i] = stock'[x.stocked + i].t
                                   /\ q.data.r[i] = stock'[x.stocked + i].r)
    BY <1>4, <1>5, <2>4, Zenon DEF Refills
  <2>9. /\ q.kind = "cot" /\ Len(q.data.t) = Batch /\ Len(q.data.r) = Batch
        /\ \A i \in 1 .. Batch : /\ q.data.t[i] = stock[x.stocked + i].t
                                  /\ q.data.r[i] = stock[x.stocked + i].r
    BY <2>5 DEF Refills
  <2> HIDE DEF q
  <2> QED
    BY <2>7, <2>8, <2>9
<1>16. ASSUME c.op = "reveal", c.who \in {"ALICE", "PUBLIC"}
       PROVE  /\ c.who = "ALICE" => M = Msg("lsbs", Lsbs("BOB", c)')
              /\ c.who = "PUBLIC" => M = Msg("bits", Clears(c)')
  <2>1. M = m
    BY <1>6, <1>8, <1>9, <1>16 DEF FeedsBob
  <2>2. /\ c.who = "ALICE" => m = Msg("lsbs", Lsbs("BOB", c))
        /\ c.who = "PUBLIC" => m = Msg("bits", Clears(c))
    BY <1>3, <1>5, <1>10, <1>16 DEF ToAlice
  <2>3. /\ c.i \in 1 .. Len(wire["BOB"]) /\ c.j \in 1 .. Len(wire["BOB"])
        /\ c.i \in 1 .. Len(val) /\ c.j \in 1 .. Len(val)
    BY <1>0, <1>2, <1>3, <1>16, CallTakes, Parties
  <2>4. c.i <= c.j
    BY <1>0, <1>2, <1>3, <1>16, CallInRange DEF CallOK
  <2>5. Clears(c)' = Clears(c)
    BY <1>0, <2>3, <2>4, ClearsStay DEF Onward, Placed, ProgramInv, ProgramTyped
  <2>6. Lsbs("BOB", c)' = Lsbs("BOB", c)
    BY <1>0, <1>12, <2>3, LsbsStay, Parties
  <2> HIDE DEF m, M
  <2> QED
    BY <2>1, <2>2, <2>5, <2>6, Zenon
<1>17. ToAlice(k)' =
       (/\ (FeedsBob(c) /\ z > Batch) =>
             /\ M.kind = "cot" /\ Len(M.data.t) = z /\ Len(M.data.r) = z
             /\ \A i \in 1 .. z : /\ M.data.t[i] = wire'["BOB"][x.wires + i]
                                   /\ M.data.r[i] = c.bits[i]
        /\ (FeedsBob(c) /\ z <= Batch) =>
             M = Msg("flips", [i \in 1 .. z |-> stock'[x.used + i].r # c.bits[i]])
        /\ (x.stocked # y.stocked /\ Read("ALICE")' <= x.to["ALICE"]) =>
             Refills(Due("ALICE", mark[k].to["ALICE"] + 1), mark[k].stocked)'
        /\ (c.op = "reveal" /\ c.who = "ALICE") => M = Msg("lsbs", Lsbs("BOB", c)')
        /\ (c.op = "reveal" /\ c.who = "PUBLIC") => M = Msg("bits", Clears(c)'))
  BY <1>4, <1>5, Zenon DEF ToAlice
<1> HIDE DEF M
<1> QED
  BY <1>13, <1>14, <1>15, <1>16, <1>17, Zenon

(* How far a party is in the constructors. *)
LEMMA StageFacts == ASSUME Placed, NEW p \in Party
  PROVE  /\ pc[p] = "setup" => Stage(p) = at[p] /\ Stage(p) \in 1 .. 7
         /\ pc[p] # "setup" => Stage(p) = 8
<1>1. pc[p] = "setup" => at[p] \in 1 .. 7
  BY Where
<1>2. Len(Setup) = 7
  BY DEF Setup
<1> QED
  BY <1>1, <1>2 DEF Stage

(* A refill of the pool stays what it was. *)
LEMMA RefillsStay ==
  ASSUME stock \in Seq([t : Block, r : BOOLEAN]), Prolongs(stock, stock'),
         NEW m, NEW s \in Nat, s + Batch <= Len(stock), Refills(m, s)
  PROVE  Refills(m, s)'
<1>1. Len(stock) \in Nat
  BY LenProperties
<1>2. \A i \in 1 .. Batch : s + i \in 1 .. Len(stock)
  BY <1>1, BatchFacts
<1>3. \A i \in 1 .. Batch : stock'[s + i] = stock[s + i]
  BY <1>2 DEF Prolongs
<1> QED
  BY <1>3 DEF Refills

(* What the constructors have sent and the garbler has not yet read stays. *)
LEMMA GreetingsStay ==
  ASSUME IInv, Placed', Prolongs(stock, stock'), constant' = constant, delta' = delta,
         pc["BOB"] # "setup", pc'["BOB"] # "setup",
         pc["ALICE"] = "setup" => pc'["ALICE"] = "setup" /\ at'["ALICE"] = at["ALICE"],
         pc["ALICE"] # "setup" => pc'["ALICE"] # "setup",
         DueKept("ALICE")
  PROVE  Greetings'
<1>0. Placed
  BY InvPlaced
<1>1. Len(Setup) = 7
  BY DEF Setup
<1>2. CASE pc["ALICE"] # "setup"
  <2>1. Stage("ALICE")' = 8 /\ Stage("BOB")' = 8
    BY <1>1, <1>2 DEF Stage
  <2>2. \A p \in Party : \A s \in Stage(p)' .. Stage(Peer(p))' - 1 : FALSE
    BY <2>1, Parties DEF Party
  <2>3. pc'["ALICE"] # "setup"
    BY <1>2
  <2> QED
    BY <2>1, <2>2, <2>3 DEF Greetings
<1>3. CASE pc["ALICE"] = "setup"
  <2>1. /\ Stage("ALICE")' = at["ALICE"] /\ Stage("BOB")' = 8 /\ at["ALICE"] \in 1 .. 7
        /\ Stage("ALICE") = at["ALICE"] /\ Stage("BOB") = 8
        /\ Read("ALICE") = Before("ALICE", at["ALICE"])
        /\ Read("ALICE")' = Before("ALICE", at["ALICE"])
    BY <1>0, <1>1, <1>3, Where, Parties DEF Stage, Read
  <2>2. Sent("ALICE") \in Nat /\ 3 <= Sent("ALICE")
    <3>1. Sent("ALICE") = mark[Reached("BOB")].to["ALICE"] /\ Sent("ALICE") \in Nat
      BY <1>0, Counts, Parties
    <3>2. Reached("BOB") \in 1 .. Len(script) + 1 /\ Len(script) \in Nat
      BY <1>0, Where, Parties
    <3>3. 1 \in 1 .. Len(script) + 1 /\ 1 <= Reached("BOB")
      BY <3>2
    <3>4. mark[1].to["ALICE"] = 3 /\ mark[1].to["ALICE"] <= mark[Reached("BOB")].to["ALICE"]
      BY <1>0, <3>2, <3>3, FirstMark, Marks DEF Placed
    <3> QED
      BY <3>1, <3>4
  <2>3. ASSUME NEW n \in 1 .. 3, Before("ALICE", at["ALICE"]) < n
        PROVE  Due("ALICE", n)' = Due("ALICE", n)
    <3>1. n \in Int /\ Read("ALICE")' < n /\ n <= Sent("ALICE")
      BY <2>1, <2>2, <2>3
    <3> QED
      BY <3>1 DEF DueKept, Due
  <2>4. ASSUME NEW s \in at["ALICE"] .. 7
        PROVE  /\ Before("ALICE", s) + 1 \in 1 .. 3
               /\ Before("ALICE", at["ALICE"]) < Before("ALICE", s) + 1
    BY <2>1 DEF Before
  <2>5. ASSUME NEW p \in Party, NEW s \in Stage(p)' .. Stage(Peer(p))' - 1, Setup[s].from = Peer(p)
        PROVE  (Due(p, Before(p, s) + 1).kind = Setup[s].kind)'
    <3>1. p = "ALICE" /\ Peer(p) = "BOB" /\ s \in at["ALICE"] .. 7 /\ s \in Stage(p) .. Stage(Peer(p)) - 1
      <4>1. CASE p = "BOB"
        BY <2>1, <4>1, Parties
      <4>2. CASE p = "ALICE"
        BY <2>1, <4>2, Parties
      <4> QED
        BY <4>1, <4>2 DEF Party
    <3>2. Due("ALICE", Before("ALICE", s) + 1)' = Due("ALICE", Before("ALICE", s) + 1)
      BY <2>3, <2>4, <3>1
    <3>3. Due(p, Before(p, s) + 1).kind = Setup[s].kind
      BY <2>5, <3>1 DEF IInv, Greetings
    <3> QED
      BY <3>1, <3>2, <3>3
  <2>6. Refills(Due("ALICE", 3), 0)'
    <3>1. Refills(Due("ALICE", 3), 0)
      BY <1>3 DEF IInv, Greetings
    <3>2. 7 \in at["ALICE"] .. 7 /\ Before("ALICE", 7) = 2
      BY <2>1 DEF Before
    <3>3. Due("ALICE", 3)' = Due("ALICE", 3)
      BY <2>3, <2>4, <3>2
    <3>4. stock \in Seq([t : Block, r : BOOLEAN]) /\ Len(stock) \in Nat /\ 0 + Batch <= Len(stock)
      <4>1. Len(stock) = mark[Call("BOB")].stocked
        BY DEF IInv, Pool
      <4>2. Batch <= mark[Call("BOB")].stocked
        BY <1>0, Where, MarkTyped, Parties DEF Placed
      <4> QED
        BY <4>1, <4>2, LenProperties, BatchFacts DEF IInv, TypeOK
    <3>5. PICK m : m = Due("ALICE", 3)
      OBVIOUS
    <3>6. Refills(m, 0)'
      BY <3>1, <3>4, <3>5, RefillsStay
    <3> QED
      BY <3>3, <3>5, <3>6 DEF Refills
  <2> QED
    BY <2>1, <2>5, <2>6 DEF Greetings
<1> QED
  BY <1>2, <1>3

(* The labels of wires that both parties had before still match; the rest  *)
(* is for the call that is made.                                           *)
NewLabelsMatch ==
  \A w \in 1 .. Len(wire'["ALICE"]) :
    (w <= Len(wire'["BOB"]) /\ (Len(wire["ALICE"]) < w \/ Len(wire["BOB"]) < w)) =>
      wire'["BOB"][w] = Active(wire'["ALICE"][w], val'[w], delta')

(* No party has more wires than there are values. *)
LEMMA WiresInVal == ASSUME IInv, NEW p \in Party
  PROVE  Len(wire[p]) \in Nat /\ Len(val) \in Nat /\ Len(wire[p]) <= Len(val)
<1>1. /\ Call(p) \in 1 .. Len(script) + 1 /\ Len(script) \in Nat
      /\ Len(script) + 1 \in 1 .. Len(script) + 1 /\ Len(mark) = Len(script) + 1
      /\ Len(val) = mark[Len(mark)].wires
      /\ Len(wire[p]) = mark[Call(p)].wires
  BY InvPlaced, Where, MarkTyped DEF Placed, IInv, Program, Counters
<1>2. mark[Call(p)].wires <= mark[Len(script) + 1].wires
  BY <1>1, InvProgram, Marks
<1>3. Len(wire[p]) \in Nat /\ Len(val) \in Nat
  BY LenProperties DEF IInv, TypeOK
<1> QED
  BY <1>1, <1>2, <1>3

(* The wires both parties have. *)
LEMMA BothFacts ==
  ASSUME NEW f \in [Party -> Seq(Block)], wire = f, NEW w
  PROVE  /\ w \in Both <=> w \in 1 .. Len(wire["ALICE"]) /\ w <= Len(wire["BOB"])
         /\ Len(wire["ALICE"]) \in Nat /\ Len(wire["BOB"]) \in Nat
<1>1. /\ f["ALICE"] \in Seq(Block) /\ f["BOB"] \in Seq(Block)
  BY Parties
<1>2. /\ DOMAIN wire["ALICE"] = 1 .. Len(wire["ALICE"]) /\ DOMAIN wire["BOB"] = 1 .. Len(wire["BOB"])
      /\ Len(wire["ALICE"]) \in Nat /\ Len(wire["BOB"]) \in Nat
  BY <1>1, LenProperties
<1> QED
  BY <1>2 DEF Both

(* The labels of the wires both had match still: it is enough to look at   *)
(* the wires that became common to both.                                   *)
LEMMA MatchStays ==
  ASSUME IInv, Onward, wire' \in [Party -> Seq(Block)], NewLabelsMatch
  PROVE  LabelsMatch'
<1>1. SUFFICES ASSUME NEW w \in Both'
               PROVE  wire'["BOB"][w] = Active(wire'["ALICE"][w], val'[w], delta')
  BY DEF LabelsMatch
<1>2. /\ Len(wire["ALICE"]) \in Nat /\ Len(wire["BOB"]) \in Nat /\ Len(val) \in Nat
      /\ Len(wire["ALICE"]) <= Len(val)
  BY WiresInVal, Parties
<1>3. /\ w \in 1 .. Len(wire'["ALICE"]) /\ w <= Len(wire'["BOB"])
      /\ Len(wire'["ALICE"]) \in Nat /\ Len(wire'["BOB"]) \in Nat
  <2>1. /\ wire'["ALICE"] \in Seq(Block) /\ wire'["BOB"] \in Seq(Block)
    BY Parties
  <2>2. /\ DOMAIN wire'["ALICE"] = 1 .. Len(wire'["ALICE"]) /\ DOMAIN wire'["BOB"] = 1 .. Len(wire'["BOB"])
        /\ Len(wire'["ALICE"]) \in Nat /\ Len(wire'["BOB"]) \in Nat
    BY <2>1, LenProperties
  <2> QED
    BY <2>2 DEF Both
<1>4. CASE Len(wire["ALICE"]) < w \/ Len(wire["BOB"]) < w
  BY <1>3, <1>4 DEF NewLabelsMatch
<1>5. CASE ~(Len(wire["ALICE"]) < w \/ Len(wire["BOB"]) < w)
  <2>1. w \in 1 .. Len(wire["ALICE"]) /\ w \in 1 .. Len(wire["BOB"]) /\ w \in 1 .. Len(val)
    BY <1>2, <1>3, <1>5
  <2>2. w \in Both
    <3>1. wire["ALICE"] \in Seq(Block) /\ wire["BOB"] \in Seq(Block)
      BY Parties DEF IInv, TypeOK
    <3> QED
      BY <2>1, <3>1, LenProperties DEF Both
  <2>3. wire["BOB"][w] = Active(wire["ALICE"][w], val[w], delta)
    BY <2>2 DEF IInv, Labels, LabelsMatch
  <2>4. wire'["BOB"][w] = wire["BOB"][w] /\ wire'["ALICE"][w] = wire["ALICE"][w] /\ val'[w] = val[w] /\ delta' = delta
    BY <2>1, Parties DEF Onward, Grows, Prolongs
  <2> QED
    BY <2>3, <2>4
<1> QED
  BY <1>4, <1>5

(* What is to be shown of a step of a party after the constructors         *)
LEMMA Keeps ==
  ASSUME IInv, Onward, TypeOK', Positions', ProgramInv', Counters', Queues', Pool',
         pc["BOB"] # "setup", pc'["BOB"] # "setup",
         pc["ALICE"] = "setup" => pc'["ALICE"] = "setup" /\ at'["ALICE"] = at["ALICE"],
         pc["ALICE"] # "setup" => pc'["ALICE"] # "setup",
         DueKept("ALICE"), DueKept("BOB"),
         \A p \in Party : \A k \in Call(p) .. Call(p)' - 1 : CallLabels(p, k)' /\ Given(p, k)',
         Call("ALICE") <= Call("ALICE")', Call("BOB") <= Call("BOB")',
         \A k \in Reached("ALICE") .. Reached("ALICE")' - 1 : Call("BOB")' <= k => ToBob(k)',
         \A k \in Call("BOB") .. Call("BOB")' - 1 : Call("ALICE")' <= k => ToAlice(k)',
         NewLabelsMatch
  PROVE  IInv'
<1>0. Placed /\ Placed'
  BY InvPlaced DEF Placed, TypeOK
<1>1. /\ Call("ALICE") \in Nat /\ Call("BOB") \in Nat /\ Reached("ALICE") \in Nat
      /\ 1 <= Call("ALICE") /\ 1 <= Call("BOB")
  BY <1>0, Where, Parties
<1>2. /\ Call("ALICE")' \in Int /\ Call("BOB")' \in Int /\ Reached("ALICE")' \in Int
  <2>1. at'["ALICE"] \in Nat /\ at'["BOB"] \in Nat
    BY Parties DEF TypeOK
  <2> QED
    BY ONLY <2>1 DEF Call, Reached
<1>3. Constants'
  <2>1. pc["BOB"] # "setup" /\ Stage("BOB") = 8
    BY <1>0, StageFacts, Parties
  <2>2. Stage("ALICE")' = Stage("ALICE")
    BY DEF Stage
  <2>3. Stage("BOB") > 1
    BY <2>1
  <2>4. delta' = delta /\ constant' = constant
    BY DEF Onward
  <2> QED
    BY <2>2, <2>3, <2>4 DEF IInv, Constants
<1>4. Greetings'
  BY <1>0, GreetingsStay DEF Onward
<1>5. Contents'
  <2>1. ASSUME NEW k \in Call("BOB")' .. Reached("ALICE")' - 1
        PROVE  ToBob(k)'
    <3>1. CASE k < Reached("ALICE")
      <4>1. k \in Call("BOB") .. Reached("ALICE") - 1 /\ Call("BOB")' <= k
        BY <1>1, <1>2, <3>1
      <4> QED
        BY <1>0, <4>1, ToBobStays
    <3>2. CASE ~(k < Reached("ALICE"))
      <4>1. k \in Reached("ALICE") .. Reached("ALICE")' - 1 /\ Call("BOB")' <= k
        BY <1>1, <1>2, <3>2
      <4> QED
        BY <4>1
    <3> QED
      BY <3>1, <3>2
  <2>2. ASSUME NEW k \in Call("ALICE")' .. Call("BOB")' - 1
        PROVE  ToAlice(k)'
    <3>1. CASE k < Call("BOB")
      <4>1. k \in Call("ALICE") .. Call("BOB") - 1 /\ Call("ALICE")' <= k
        BY <1>1, <1>2, <3>1
      <4> QED
        BY <1>0, <4>1, ToAliceStays
    <3>2. CASE ~(k < Call("BOB"))
      <4>1. k \in Call("BOB") .. Call("BOB")' - 1 /\ Call("ALICE")' <= k
        BY <1>1, <1>2, <3>2
      <4> QED
        BY <4>1
    <3> QED
      BY <3>1, <3>2
  <2> QED
    BY <2>1, <2>2 DEF Contents
<1>6. ASSUME NEW p \in Party, NEW k \in 1 .. Call(p)' - 1
      PROVE  CallLabels(p, k)' /\ Given(p, k)'
  <2>0. Call(p) \in Nat /\ 1 <= Call(p) /\ Call(p)' \in Int
    BY <1>1, <1>2 DEF Party
  <2>1. CASE k < Call(p)
    <3>1. k \in 1 .. Call(p) - 1
      BY <2>0, <2>1
    <3> QED
      BY <3>1, LabelsStay, GivenStays
  <2>2. CASE ~(k < Call(p))
    <3>1. k \in Call(p) .. Call(p)' - 1
      BY <2>0, <2>2
    <3> QED
      BY <3>1
  <2> QED
    BY <2>1, <2>2
<1>7. LabelsMatch'
  BY MatchStays DEF TypeOK
<1>8. Labels' /\ Outputs'
  BY <1>6, <1>7 DEF Labels, Outputs
<1>9. Program' /\ Monotone'
  BY DEF ProgramInv
<1> QED
  BY <1>3, <1>4, <1>5, <1>8, <1>9 DEF IInv

-----------------------------------------------------------------------------
(* A party makes its next call. *)

Makes(p, c) ==
  /\ pc[p] = "run"
  /\ at[p] \in 1 .. Len(script) + 1
  /\ at[p] \in 1 .. Len(script')
  /\ ProgramInv' /\ Grows
  /\ c \in CallType
  /\ script'[at[p]] = c
  /\ mark'[at[p]] = mark[at[p]]
  /\ mark'[at[p] + 1] = After(mark[at[p]], c)

Moves(p, c) == /\ Makes(p, c)
               /\ pc' = pc
               /\ at' = [at EXCEPT ![p] = @ + 1]

(* Do is a call of the party: the next of the program, decided if need be. *)
LEMMA DoMakes == ASSUME IInv, NEW p \in Party, NEW c \in Options(p), Do(p, c)
  PROVE  Makes(p, c)
<1>1. pc[p] = "run"
  BY CallOptions
<1>2. at[p] \in Nat \ {0}
  <2>1. at[p] \in 1 .. Len(script) + 1
    BY <1>1, InvPlaced, Where
  <2> QED
    BY <2>1, InvPlaced, Where
<1>3. ProgramInv
  BY InvProgram
<1> QED
  BY <1>1, <1>2, <1>3, DoGrows DEF Makes

(* A call that is complete in the same step. *)
LEMMA DoMoves ==
  ASSUME IInv, NEW p \in Party, NEW c \in Options(p), Do(p, c), Done(p), pc' = pc
  PROVE  Moves(p, c)
  BY DoMakes DEF Moves, Done

(* Where both are afterwards *)
LEMMA MovesTo ==
  ASSUME IInv, NEW p \in Party, NEW c, Moves(p, c), NEW k, k = at[p]
  PROVE  /\ k \in Nat /\ k \in 1 .. Len(script) + 1 /\ k + 1 \in 1 .. Len(script') + 1
         /\ Len(script) \in Nat /\ Len(script') \in Nat
         /\ Call(p) = k /\ Reached(p) = k /\ Pooled(p) = mark[k]
         /\ Call(p)' = k + 1 /\ Reached(p)' = k + 1 /\ Pooled(p)' = mark'[k + 1]
         /\ Call(Peer(p))' = Call(Peer(p))
         /\ Reached(Peer(p))' = Reached(Peer(p))
         /\ Pooled(Peer(p))' = Pooled(Peer(p))
         /\ Read(p) = mark[k].to[p] /\ Read(p)' = mark'[k + 1].to[p]
         /\ Sent(Peer(p)) = mark[k].to[Peer(p)] /\ Sent(Peer(p))' = mark'[k + 1].to[Peer(p)]
         /\ Read(Peer(p))' = Read(Peer(p)) /\ Sent(p)' = Sent(p)
         /\ at' \in [Party -> Nat] /\ at'[p] = k + 1 /\ at'[Peer(p)] = at[Peer(p)]
         /\ pc["BOB"] # "setup"
         /\ Positions'
<1> DEFINE q == Peer(p)
<1>0. /\ Placed /\ Placed /\ q \in Party /\ q # p /\ Peer(q) = p
      /\ \A r \in Party : r = p \/ r = q
  BY InvPlaced, PeerFacts
<1>1. /\ pc[p] = "run" /\ pc' = pc /\ at[p] = k /\ k \in 1 .. Len(script) + 1 /\ k \in 1 .. Len(script')
      /\ Grows /\ ProgramInv'
      /\ at \in [Party -> Nat] /\ at' = [at EXCEPT ![p] = @ + 1]
  BY <1>0 DEF Moves, Makes, Placed
<1>2. /\ Len(script) \in Nat /\ Len(script') \in Nat /\ Len(script) <= Len(script')
      /\ k \in Nat /\ k + 1 \in 1 .. Len(script') + 1
  <2>1. Len(script) \in Nat /\ Len(script') \in Nat
    BY <1>0, <1>1, LenProperties DEF Placed, ProgramInv, ProgramTyped
  <2> QED
    BY <1>1, <2>1 DEF Grows
<1>3. at' \in [Party -> Nat] /\ at'[p] = k + 1 /\ at'[q] = at[q]
  <2>1. k + 1 \in Nat
    BY <1>2
  <2> QED
    BY <1>0, <1>1, <2>1
<1>4. /\ Call(p) = k /\ Reached(p) = k /\ Pooled(p) = mark[k]
      /\ Call(p)' = k + 1 /\ Reached(p)' = k + 1 /\ Pooled(p)' = mark'[k + 1]
  BY <1>1, <1>3 DEF Call, Reached, Pooled
<1>5. Call(q)' = Call(q) /\ Reached(q)' = Reached(q)
  BY <1>1, <1>3 DEF Call, Reached
<1>6. /\ Call(q) \in 1 .. Len(script) + 1 /\ Reached(q) \in 1 .. Len(script) + 1
      /\ pc[q] \in {"setup", "run", "feed", "reveal"}
      /\ Mid(q) => at[q] \in 1 .. Len(script)
      /\ pc[q] # "setup" => Call(q) = at[q]
      /\ at[q] \in IF pc[q] = "setup" THEN 1 .. Len(Setup)
                   ELSE IF Mid(q) THEN 1 .. Len(script)
                   ELSE 1 .. Len(script) + 1
  <2>1. Mid(q) => pc[q] # "setup"
    BY DEF Mid
  <2> QED
    BY <1>0, <2>1, Where DEF Placed, Positions
<1>7. /\ mark'[Call(q)] = mark[Call(q)] /\ mark'[Reached(q)] = mark[Reached(q)]
      /\ Mid(q) => mark'[at[q] + 1] = mark[at[q] + 1] /\ script'[at[q]] = script[at[q]]
  <2>1. Mid(q) => at[q] + 1 \in 1 .. Len(script) + 1
    BY <1>2, <1>6
  <2> QED
    BY <1>1, <1>6, <2>1 DEF Grows
<1>8. Pooled(q)' = Pooled(q)
  BY <1>1, <1>3, <1>5, <1>7 DEF Pooled, Mid
<1>9. /\ Read(p) = mark[k].to[p] /\ Read(p)' = mark'[k + 1].to[p]
      /\ Sent(q) = mark[k].to[q] /\ Sent(q)' = mark'[k + 1].to[q]
  BY <1>0, <1>1, <1>3, <1>4 DEF Read, Sent, Mid
<1>10. Sent(p)' = Sent(p)
  BY <1>1, <1>3, <1>5, <1>7 DEF Sent
<1>11. Read(q)' = Read(q)
  <2>1. CASE pc[q] = "setup"
    BY <1>1, <1>3, <2>1 DEF Read
  <2>2. CASE pc[q] # "setup"
    BY <1>1, <1>3, <1>6, <1>7, <2>2 DEF Read, Mid
  <2> QED
    BY <2>1, <2>2
<1>12. pc["BOB"] # "setup"
  BY <1>0, <1>1, InSetup DEF Party
<1>13. Positions'
  <2>1. ASSUME NEW r \in Party
        PROVE  at'[r] \in IF pc[r] = "setup" THEN 1 .. Len(Setup)
                          ELSE IF Mid(r) THEN 1 .. Len(script')
                          ELSE 1 .. Len(script') + 1
    <3>1. CASE r = p
      BY <1>1, <1>2, <1>3, <3>1 DEF Mid
    <3>2. CASE r = q
      BY <1>2, <1>3, <1>6, <3>2
    <3> QED
      BY <1>0, <3>1, <3>2
  <2>2. \A r \in Party : Mid(r)' = Mid(r)
    BY <1>1 DEF Mid
  <2>3. ASSUME pc["ALICE"] = "feed"
        PROVE  LET d == script'[at'["ALICE"]] IN FeedsBob(d) /\ Len(d.bits) <= Batch
    <3>1. q = "ALICE" /\ Mid(q)
      BY <1>0, <1>1, <2>3 DEF Mid, Party
    <3> QED
      BY <1>0, <1>3, <1>7, <2>3, <3>1 DEF Placed, Positions
  <2>4. ASSUME pc["ALICE"] = "reveal"
        PROVE  LET d == script'[at'["ALICE"]] IN d.op = "reveal" /\ d.who = "PUBLIC"
    <3>1. q = "ALICE" /\ Mid(q)
      BY <1>0, <1>1, <2>4 DEF Mid, Party
    <3> QED
      BY <1>0, <1>3, <1>7, <2>4, <3>1 DEF Placed, Positions
  <2>5. pc'["BOB"] \in {"setup", "run"}
    BY <1>0, <1>1 DEF Placed, Positions
  <2> QED
    BY <1>1, <2>1, <2>2, <2>3, <2>4, <2>5 DEF Positions, FeedsBob
<1> QED
  BY <1>0, <1>1, <1>2, <1>3, <1>4, <1>5, <1>8, <1>9, <1>10, <1>11, <1>12, <1>13

-----------------------------------------------------------------------------
(* What it adds *)

Labelled(p) == /\ wire' \in [Party -> Seq(Block)]
               /\ wire'[Peer(p)] = wire[Peer(p)]
               /\ Prolongs(wire[p], wire'[p])
               /\ Len(wire'[p]) = mark'[at[p] + 1].wires
Told(p) == /\ out' \in [Party -> Seq(Seq(BOOLEAN))]
           /\ out'[Peer(p)] = out[Peer(p)]
           /\ Prolongs(out[p], out'[p])
           /\ Len(out'[p]) = mark'[at[p] + 1].reveals
Counted(p) == /\ gid' \in [Party -> Nat] /\ counter' \in [Party -> Nat]
              /\ gid'[p] = mark'[at[p] + 1].gid /\ gid'[Peer(p)] = gid[Peer(p)]
              /\ counter'[p] = mark'[at[p] + 1].counter /\ counter'[Peer(p)] = counter[Peer(p)]
Mailed == /\ net' \in [Party -> Seq(Message)]
          /\ DueKept("ALICE") /\ DueKept("BOB")
          /\ Queues'
PoolTyped == /\ cots \in Nat
             /\ buf \in [Party -> [1 .. Batch -> Block]]
             /\ buff \in [1 .. Batch -> BOOLEAN]
             /\ stock \in Seq([t : Block, r : BOOLEAN])
             /\ top \in [Party -> 0 .. Batch]
             /\ part \in Seq(Block)
Supplied(p) == /\ PoolTyped'
               /\ Prolongs(stock, stock')
               /\ top'[p] = Batch - (mark'[at[p] + 1].stocked - mark'[at[p] + 1].used)
               /\ top'[Peer(p)] = top[Peer(p)]
               /\ Pool'

(* A sequence prolongs itself. *)
LEMMA ProlongsSelf == ASSUME NEW S, NEW s \in Seq(S) PROVE Prolongs(s, s)
  BY LenProperties DEF Prolongs

(* A concatenation prolongs its first part. *)
LEMMA ProlongsConcat == ASSUME NEW S, NEW s \in Seq(S), NEW t \in Seq(S)
  PROVE  Prolongs(s, s \o t)
<1>1. /\ Len(s) \in Nat /\ Len(t) \in Nat /\ Len(s \o t) = Len(s) + Len(t)
      /\ \A i \in 1 .. Len(s) : (s \o t)[i] = s[i]
  BY ConcatFacts, LenProperties
<1> QED
  BY <1>1 DEF Prolongs

(* A concatenation, under the name of its result. *)
LEMMA ConcatIs ==
  ASSUME NEW S, NEW s \in Seq(S), NEW t \in Seq(S), NEW u, u = s \o t
  PROVE  /\ u \in Seq(S) /\ Len(u) = Len(s) + Len(t) /\ Prolongs(s, u)
         /\ \A i \in 1 .. Len(t) : u[Len(s) + i] = t[i]
  BY ConcatFacts, ProlongsConcat

(* How many wires, outputs and pooled blocks a party has before its call. *)
LEMMA Sizes == ASSUME IInv, NEW p \in Party, NEW c, Moves(p, c)
  PROVE  /\ wire \in [Party -> Seq(Block)] /\ wire[p] \in Seq(Block)
         /\ out \in [Party -> Seq(Seq(BOOLEAN))] /\ out[p] \in Seq(Seq(BOOLEAN))
         /\ gid \in [Party -> Nat] /\ counter \in [Party -> Nat]
         /\ gid[p] = mark[at[p]].gid
         /\ counter[p] = mark[at[p]].counter
         /\ Len(wire[p]) = mark[at[p]].wires
         /\ Len(out[p]) = mark[at[p]].reveals
         /\ top[p] = Batch - (mark[at[p]].stocked - mark[at[p]].used)
<1>1. Call(p) = at[p] /\ Pooled(p) = mark[at[p]]
  BY DEF Moves, Makes, Call, Pooled
<1>2. /\ gid[p] = mark[Call(p)].gid
      /\ counter[p] = mark[Call(p)].counter
      /\ Len(wire[p]) = mark[Call(p)].wires
      /\ Len(out[p]) = mark[Call(p)].reveals
      /\ top[p] = Batch - (Pooled(p).stocked - Pooled(p).used)
  BY DEF IInv, Counters
<1>3. /\ wire \in [Party -> Seq(Block)] /\ wire[p] \in Seq(Block)
      /\ out \in [Party -> Seq(Seq(BOOLEAN))] /\ out[p] \in Seq(Seq(BOOLEAN))
      /\ gid \in [Party -> Nat] /\ counter \in [Party -> Nat]
  BY DEF IInv, TypeOK
<1> QED
  BY <1>1, <1>2, <1>3

(* The call's labels are appended to the party's. *)
LEMMA AddsLabelled ==
  ASSUME IInv, NEW p \in Party, NEW c, Moves(p, c), NEW labels \in Seq(Block), Adds(p, labels),
         mark'[at[p] + 1].wires = mark[at[p]].wires + Len(labels)
  PROVE  /\ Labelled(p)
         /\ \A i \in 1 .. Len(labels) : wire'[p][mark[at[p]].wires + i] = labels[i]
<1> DEFINE q == Peer(p)
<1> PICK W : W = wire[p]
  OBVIOUS
<1>0. q \in Party /\ q # p
  BY PeerFacts
<1>1. wire \in [Party -> Seq(Block)] /\ W \in Seq(Block) /\ Len(W) = mark[at[p]].wires
  BY Sizes
<1>2. wire' = [wire EXCEPT ![p] = W \o labels]
  BY DEF Adds
<1>3. PICK V : V = W \o labels
  OBVIOUS
<1>4. /\ V \in Seq(Block) /\ Len(V) = Len(W) + Len(labels) /\ Prolongs(W, V)
      /\ \A i \in 1 .. Len(labels) : V[Len(W) + i] = labels[i]
  <2>1. W \in Seq(Block) /\ labels \in Seq(Block) /\ V = W \o labels
    BY <1>1, <1>3
  <2>2. V \in Seq(Block) /\ Len(V) = Len(W) + Len(labels)
    BY ONLY <2>1, ConcatIs
  <2>3. Prolongs(W, V)
    BY ONLY <2>1, ConcatIs
  <2>4. \A i \in 1 .. Len(labels) : V[Len(W) + i] = labels[i]
    BY ONLY <2>1, ConcatIs
  <2> QED
    BY <2>2, <2>3, <2>4
<1>5. wire' \in [Party -> Seq(Block)] /\ wire'[p] = V /\ wire'[q] = wire[q]
  BY <1>0, <1>1, <1>2, <1>3, <1>4
<1> QED
  BY <1>1, <1>4, <1>5 DEF Labelled

(* A call that makes no wire. *)
LEMMA NoLabels ==
  ASSUME IInv, NEW p \in Party, NEW c, Moves(p, c), wire' = wire,
         mark'[at[p] + 1].wires = mark[at[p]].wires
  PROVE  Labelled(p)
<1>1. wire \in [Party -> Seq(Block)] /\ wire[p] \in Seq(Block) /\ Len(wire[p]) = mark[at[p]].wires
  BY Sizes
<1> QED
  BY <1>1, ProlongsSelf DEF Labelled

(* The call's result is appended to the party's outputs. *)
LEMMA GivesTold ==
  ASSUME IInv, NEW p \in Party, NEW c, Moves(p, c), NEW bits \in Seq(BOOLEAN), Gives(p, bits),
         mark'[at[p] + 1].reveals = mark[at[p]].reveals + 1
  PROVE  /\ Told(p)
         /\ out'[p][mark[at[p]].reveals + 1] = bits
<1> DEFINE q == Peer(p)
           O == out[p]
           T == Append(O, bits)
<1>0. q \in Party /\ q # p
  BY PeerFacts
<1>1. out \in [Party -> Seq(Seq(BOOLEAN))] /\ O \in Seq(Seq(BOOLEAN)) /\ Len(O) = mark[at[p]].reveals
  BY Sizes
<1>2. out' = [out EXCEPT ![p] = T]
  BY DEF Gives
<1> HIDE DEF O
<1>3. /\ T \in Seq(Seq(BOOLEAN)) /\ Len(T) = Len(O) + 1 /\ T[Len(O) + 1] = bits
      /\ \A i \in 1 .. Len(O) : T[i] = O[i]
      /\ Len(O) \in Nat
  BY <1>1, AppendFacts, LenProperties
<1> HIDE DEF T
<1>4. Prolongs(O, T)
  BY <1>3 DEF Prolongs
<1>5. out' \in [Party -> Seq(Seq(BOOLEAN))] /\ out'[p] = T /\ out'[q] = out[q]
  BY <1>0, <1>1, <1>2, <1>3
<1> QED
  BY <1>1, <1>3, <1>4, <1>5 DEF Told, O

(* A call that reveals nothing. *)
LEMMA NotTold ==
  ASSUME IInv, NEW p \in Party, NEW c, Moves(p, c), out' = out,
         mark'[at[p] + 1].reveals = mark[at[p]].reveals
  PROVE  Told(p)
<1>1. out \in [Party -> Seq(Seq(BOOLEAN))] /\ out[p] \in Seq(Seq(BOOLEAN)) /\ Len(out[p]) = mark[at[p]].reveals
  BY Sizes
<1> QED
  BY <1>1, ProlongsSelf DEF Told

(* A call that uses no gate counter and no number of the PRG. *)
LEMMA SameCounts ==
  ASSUME IInv, NEW p \in Party, NEW c, Moves(p, c), gid' = gid, counter' = counter,
         mark'[at[p] + 1].gid = mark[at[p]].gid,
         mark'[at[p] + 1].counter = mark[at[p]].counter
  PROVE  Counted(p)
<1>1. /\ gid \in [Party -> Nat] /\ counter \in [Party -> Nat]
      /\ gid[p] = mark[at[p]].gid /\ counter[p] = mark[at[p]].counter
  BY Sizes
<1> QED
  BY <1>1 DEF Counted

(* The queues and the pool, after a call *)
LEMMA BothKept == ASSUME NEW p \in Party, DueKept(p), DueKept(Peer(p))
  PROVE  DueKept("ALICE") /\ DueKept("BOB")
<1>1. CASE p = "ALICE"
  BY <1>1, Parties
<1>2. CASE p = "BOB"
  BY <1>2, Parties
<1> QED
  BY <1>1, <1>2 DEF Party

(* Both streams, by either party's name. *)
LEMMA BothQueues ==
  ASSUME NEW p \in Party, Len(net'[p]) = Sent(p)' - Read(p)',
         Len(net'[Peer(p)]) = Sent(Peer(p))' - Read(Peer(p))'
  PROVE  Queues'
<1>1. \A r \in Party : r = p \/ r = Peer(p)
  BY PeerFacts
<1> QED
  BY <1>1 DEF Queues

(* A call without messages. *)
LEMMA MailIdle ==
  ASSUME IInv, NEW p \in Party, NEW c, Moves(p, c), net' = net,
         \A r \in Party : mark'[at[p] + 1].to[r] = mark[at[p]].to[r]
  PROVE  Mailed
<1> DEFINE q == Peer(p)
<1>0. Placed /\ q \in Party
  BY InvPlaced, PeerFacts
<1>1. /\ Read(p) = mark[at[p]].to[p] /\ Read(p)' = mark'[at[p] + 1].to[p]
      /\ Sent(q) = mark[at[p]].to[q] /\ Sent(q)' = mark'[at[p] + 1].to[q]
      /\ Read(q)' = Read(q) /\ Sent(p)' = Sent(p)
  BY MovesTo
<1>2. Read(p)' = Read(p) /\ Sent(q)' = Sent(q)
  BY <1>0, <1>1
<1>3. DueKept(p) /\ DueKept(q)
  BY <1>0, <1>1, <1>2, QueueSame
<1>4. Queues'
  BY <1>0, <1>1, <1>2, BothQueues DEF Placed, Queues
<1> QED
  BY <1>0, <1>3, <1>4, BothKept DEF Mailed, Placed

(* A call that sends messages: the i-th of them is the one the marks say. *)
LEMMA MailSends ==
  ASSUME IInv, NEW p \in Party, NEW c, Moves(p, c), NEW msgs \in Seq(Message), Sends(p, msgs),
         mark'[at[p] + 1].to[Peer(p)] = mark[at[p]].to[Peer(p)] + Len(msgs),
         mark'[at[p] + 1].to[p] = mark[at[p]].to[p]
  PROVE  /\ Mailed
         /\ \A i \in 1 .. Len(msgs) :
              net'[Peer(p)][(mark[at[p]].to[Peer(p)] + i) - Read(Peer(p))'] = msgs[i]
<1> PICK q : q = Peer(p)
  OBVIOUS
<1>0. Placed /\ q \in Party /\ q # p /\ Peer(p) = q
  BY InvPlaced, PeerFacts
<1>1. /\ Read(p) = mark[at[p]].to[p] /\ Read(p)' = mark'[at[p] + 1].to[p]
      /\ Sent(q) = mark[at[p]].to[q] /\ Sent(q)' = mark'[at[p] + 1].to[q]
      /\ Read(q)' = Read(q) /\ Sent(p)' = Sent(p)
  BY <1>0, MovesTo
<1>2. Read(p)' = Read(p) /\ Sent(q)' = Sent(q) + Len(msgs)
  BY <1>0, <1>1
<1>3. /\ net \in [Party -> Seq(Message)] /\ net' = [net EXCEPT ![q] = @ \o msgs]
      /\ net[q] \in Seq(Message)
  BY <1>0 DEF Sends, Placed
<1>4. net'[q] = net[q] \o msgs /\ net'[p] = net[p]
  BY <1>0, <1>3
<1>5. /\ DueKept(q)
      /\ net'[q] \in Seq(Message)
      /\ Len(net'[q]) = Len(net[q]) + Len(msgs)
      /\ \A i \in 1 .. Len(msgs) : net'[q][Sent(q) + i - Read(q)'] = msgs[i]
  BY <1>0, <1>1, <1>4, QueueSends
<1>6. DueKept(p)
  BY <1>0, <1>2, <1>4, QueueSame
<1>7. net' \in [Party -> Seq(Message)]
  <2>1. PICK m : m = net[q] \o msgs
    OBVIOUS
  <2>2. m \in Seq(Message) /\ net' = [net EXCEPT ![q] = m]
    BY <1>3, <1>4, <1>5, <2>1
  <2> QED
    BY <1>0, <1>3, <2>2
<1>8. Queues'
  <2>1. Len(net'[p]) = Sent(p)' - Read(p)'
    BY <1>0, <1>1, <1>2, <1>4, Counts
  <2>2. Len(net'[q]) = Sent(q)' - Read(q)'
    <3>1. Len(net[q]) = Sent(q) - Read(q) /\ Sent(q) \in Nat /\ Read(q) \in Nat /\ Len(msgs) \in Nat
      BY <1>0, Counts, LenProperties
    <3> QED
      BY <1>1, <1>2, <1>5, <3>1
  <2> QED
    BY <1>0, <2>1, <2>2, BothQueues
<1>9. ASSUME NEW i \in 1 .. Len(msgs)
      PROVE  net'[q][(mark[at[p]].to[q] + i) - Read(q)'] = msgs[i]
  <2>1. Sent(q) \in Nat /\ Read(q) \in Nat
    BY <1>0, Counts
  <2>2. (Sent(q) + i) - Read(q)' = Sent(q) + i - Read(q)'
    BY <1>1, <2>1
  <2> QED
    BY <1>1, <1>5, <2>2
<1> QED
  BY <1>0, <1>5, <1>6, <1>7, <1>8, <1>9, BothKept DEF Mailed

(* A call that takes a message: it is the one the marks say. *)
LEMMA MailTakes ==
  ASSUME IInv, NEW p \in Party, NEW c, Moves(p, c), net[p] # <<>>, Takes(p),
         mark'[at[p] + 1].to[p] = mark[at[p]].to[p] + 1,
         mark'[at[p] + 1].to[Peer(p)] = mark[at[p]].to[Peer(p)]
  PROVE  /\ Mailed
         /\ Head(net[p]) = Due(p, mark[at[p]].to[p] + 1)
         /\ Head(net[p]) \in Message
<1> PICK q : q = Peer(p)
  OBVIOUS
<1>0. Placed /\ q \in Party /\ q # p /\ Peer(p) = q
  BY InvPlaced, PeerFacts
<1>1. /\ Read(p) = mark[at[p]].to[p] /\ Read(p)' = mark'[at[p] + 1].to[p]
      /\ Sent(q) = mark[at[p]].to[q] /\ Sent(q)' = mark'[at[p] + 1].to[q]
      /\ Read(q)' = Read(q) /\ Sent(p)' = Sent(p)
  BY <1>0, MovesTo
<1>2. Read(p)' = Read(p) + 1 /\ Sent(q)' = Sent(q)
  BY <1>0, <1>1
<1>3. /\ net \in [Party -> Seq(Message)] /\ net' = [net EXCEPT ![p] = Tail(@)]
  BY <1>0 DEF Takes, Placed
<1>4. net'[p] = Tail(net[p]) /\ net'[q] = net[q]
  BY <1>0, <1>3
<1>5. /\ DueKept(p)
      /\ net'[p] \in Seq(Message)
      /\ Len(net'[p]) = Len(net[p]) - 1
      /\ Head(net[p]) = Due(p, Read(p) + 1)
      /\ Head(net[p]) \in Message
  BY <1>0, <1>2, <1>4, QueueTakes
<1>6. DueKept(q)
  BY <1>0, <1>1, <1>4, QueueSame
<1>7. net' \in [Party -> Seq(Message)]
  <2>1. PICK m : m = Tail(net[p])
    OBVIOUS
  <2>2. m \in Seq(Message) /\ net' = [net EXCEPT ![p] = m]
    BY <1>3, <1>4, <1>5, <2>1
  <2> QED
    BY <1>0, <1>3, <2>2
<1>8. Queues'
  <2>1. Len(net'[q]) = Sent(q)' - Read(q)'
    BY <1>0, <1>1, <1>2, <1>4, Counts
  <2>2. Len(net'[p]) = Sent(p)' - Read(p)'
    <3>1. Len(net[p]) = Sent(p) - Read(p) /\ Sent(p) \in Nat /\ Read(p) \in Nat
      BY <1>0, Counts
    <3> QED
      BY <1>1, <1>2, <1>5, <3>1
  <2> QED
    BY <1>0, <2>1, <2>2, BothQueues
<1> QED
  BY <1>0, <1>1, <1>5, <1>6, <1>7, <1>8, BothKept DEF Mailed

(* A call without a refill leaves what is in the pool as it was. *)
LEMMA PoolKept ==
  ASSUME IInv, NEW p \in Party, NEW c, Moves(p, c), UNCHANGED <<buf, buff, stock, part, delta>>,
         cots' \in Nat, top' \in [Party -> 0 .. Batch],
         top'[p] = Batch - (mark'[at[p] + 1].stocked - mark'[at[p] + 1].used),
         top'[Peer(p)] = top[Peer(p)],
         mark'[at[p] + 1].stocked = mark[at[p]].stocked
  PROVE  Supplied(p)
<1> PICK q : q = Peer(p)
  OBVIOUS
<1> PICK k : k = at[p]
  OBVIOUS
<1>0. Placed /\ q \in Party /\ q # p /\ Peer(p) = q /\ (p = "ALICE" <=> q = "BOB") /\ (p = "BOB" <=> q = "ALICE")
  BY InvPlaced, PeerFacts, Parties DEF Party
<1>1. /\ UNCHANGED <<buf, buff, stock, part, delta>>
      /\ pc' = pc /\ Grows
  BY DEF Moves, Makes
<1>2. PoolTyped' /\ Prolongs(stock, stock')
  <2>1. PoolTyped
    BY DEF IInv, TypeOK, PoolTyped
  <2> QED
    BY <1>1, <2>1, ProlongsSelf DEF PoolTyped
<1>3. top'[p] = Batch - (mark'[k + 1].stocked - mark'[k + 1].used) /\ top'[q] = top[q]
  OBVIOUS
<1>4. /\ Call(p) = k /\ Call(p)' = k + 1 /\ Call(q)' = Call(q)
      /\ Pooled(p) = mark[k] /\ Pooled(p)' = mark'[k + 1] /\ Pooled(q)' = Pooled(q)
      /\ at'[q] = at[q] /\ pc[p] = "run"
  BY <1>0, MovesTo DEF Moves, Makes
<1>5. Call(q) \in 1 .. Len(script) + 1 /\ mark'[Call(q)] = mark[Call(q)]
  BY <1>0, <1>1, Where DEF Grows
<1>6. Pooled("ALICE")'.stocked = Pooled("ALICE").stocked
  BY <1>0, <1>4 DEF Party
<1>7. mark'[Call("BOB")'].stocked = mark[Call("BOB")].stocked
  BY <1>0, <1>4, <1>5 DEF Party
<1>8. pc["ALICE"] = "feed" => /\ script'[at'["ALICE"]] = script[at["ALICE"]]
                              /\ mark'[at'["ALICE"]].used = mark[at["ALICE"]].used
  <2>1. SUFFICES ASSUME pc["ALICE"] = "feed"
                 PROVE /\ script'[at'["ALICE"]] = script[at["ALICE"]]
                       /\ mark'[at'["ALICE"]].used = mark[at["ALICE"]].used
    OBVIOUS
  <2>2. q = "ALICE" /\ Mid("ALICE")
    BY <1>0, <1>4, <2>1 DEF Mid, Party
  <2>3. at["ALICE"] \in 1 .. Len(script) /\ Call("ALICE") = at["ALICE"]
    BY <1>0, <2>1, <2>2, MidReads DEF Placed, Call
  <2> QED
    BY <1>1, <1>4, <1>5, <2>2, <2>3 DEF Grows
<1>9. Pool
  BY DEF IInv
<1>10. Pool'
  <2>1. /\ Len(stock') = IF pc'["BOB"] = "setup" THEN 0 ELSE mark'[Call("BOB")'].stocked
        /\ pc'["BOB"] # "setup" => \A i \in 1 .. Batch :
             LET s == stock'[mark'[Call("BOB")'].stocked - Batch + i]
             IN buf'["BOB"][i] = s.t /\ buff'[i] = s.r
    BY <1>1, <1>7, <1>9 DEF Pool
  <2>2. pc'["ALICE"] # "setup" =>
          /\ Pooled("ALICE")'.stocked <= Len(stock')
          /\ \A i \in 1 .. Batch :
               LET s == stock'[Pooled("ALICE")'.stocked - Batch + i]
               IN buf'["ALICE"][i] = Active(s.t, s.r, delta')
    BY <1>1, <1>6, <1>9 DEF Pool
  <2>3. pc'["ALICE"] = "feed" =>
          LET d == script'[at'["ALICE"]]
              u == mark'[at'["ALICE"]].used
          IN /\ Len(part') = Len(d.bits)
             /\ \A i \in 1 .. Len(part') : part'[i] = Active(stock'[u + i].t, stock'[u + i].r, delta')
    BY <1>1, <1>8, <1>9 DEF Pool
  <2> QED
    BY <2>1, <2>2, <2>3 DEF Pool
<1> QED
  BY <1>0, <1>2, <1>3, <1>10 DEF Supplied

(* A call that is not a feed from the pool leaves the pool as it was. *)
LEMMA PoolIdle ==
  ASSUME IInv, NEW p \in Party, NEW c, Moves(p, c), UNCHANGED <<pool, part, delta>>,
         mark'[at[p] + 1].stocked = mark[at[p]].stocked,
         mark'[at[p] + 1].used = mark[at[p]].used
  PROVE  Supplied(p)
<1>1. /\ UNCHANGED <<buf, buff, stock, part, delta>> /\ cots' = cots /\ top' = top
      /\ cots \in Nat /\ top \in [Party -> 0 .. Batch]
  BY DEF pool, IInv, TypeOK
<1>2. top[p] = Batch - (mark[at[p]].stocked - mark[at[p]].used)
  BY Sizes
<1> QED
  BY <1>1, <1>2, PoolKept

(* What is left to be shown of a call that a party completes *)
NewMatch(k) == \A w \in mark[k].wires + 1 .. mark'[k + 1].wires :
                 wire'["BOB"][w] = Active(wire'["ALICE"][w], val'[w], delta')

(* The wires that become common to both parties are those of the call, if  *)
(* the peer has made it.                                                   *)
LEMMA NewMatches ==
  ASSUME IInv, NEW p \in Party, NEW c, Moves(p, c), NEW k, k = at[p], Labelled(p),
         k < Call(Peer(p)) => NewMatch(k)
  PROVE  NewLabelsMatch
<1> PICK q : q = Peer(p)
  OBVIOUS
<1>0. /\ Placed /\ q \in Party /\ (p = "ALICE" => q = "BOB") /\ (p = "BOB" => q = "ALICE")
      /\ Peer(q) = p
  BY InvPlaced, PeerFacts, Parties DEF Party
<1>1. /\ k \in 1 .. Len(script) + 1 /\ Call(p) = k /\ Len(script) \in Nat
      /\ Call(q) \in 1 .. Len(script) + 1
  BY <1>0, MovesTo, Where
<1>2. /\ Len(wire[p]) = mark[k].wires /\ Len(wire[q]) = mark[Call(q)].wires
      /\ mark[k].wires \in Nat /\ mark[Call(q)].wires \in Nat
      /\ wire'[q] = wire[q] /\ Len(wire'[p]) = mark'[k + 1].wires
  BY <1>0, <1>1, MarkTyped DEF IInv, Counters, Labelled, Placed
<1>3. /\ wire' \in [Party -> Seq(Block)] /\ Len(wire'[p]) \in Nat
  BY LenProperties DEF Labelled
<1>4. ASSUME NEW w \in 1 .. Len(wire'["ALICE"]), w <= Len(wire'["BOB"]),
             Len(wire["ALICE"]) < w \/ Len(wire["BOB"]) < w
      PROVE  wire'["BOB"][w] = Active(wire'["ALICE"][w], val'[w], delta')
  <2>1. w \in Int /\ 1 <= w /\ w <= Len(wire'[p]) /\ w <= Len(wire'[q])
    <3>1. wire'["ALICE"] \in Seq(Block)
      BY <1>3, Parties
    <3>2. Len(wire'["ALICE"]) \in Nat
      BY <3>1, LenProperties
    <3> QED
      BY <1>0, <1>4, <3>2 DEF Party
  <2>2. Len(wire[p]) < w \/ Len(wire[q]) < w
    BY <1>0, <1>4 DEF Party
  <2>3. w <= mark[Call(q)].wires /\ mark[k].wires < w
    BY <1>2, <2>1, <2>2
  <2>4. k < Call(q)
    <3>1. SUFFICES ASSUME Call(q) <= k PROVE FALSE
      BY <1>1
    <3>2. mark[Call(q)].wires <= mark[k].wires
      BY <1>0, <1>1, <3>1, Marks DEF Placed
    <3> QED
      BY <1>2, <2>1, <2>3, <3>2
  <2>5. w \in mark[k].wires + 1 .. mark'[k + 1].wires
    BY <1>2, <1>3, <2>1, <2>3
  <2> QED
    BY <2>4, <2>5 DEF NewMatch
<1> QED
  BY <1>4 DEF NewLabelsMatch

(* A call that a party completes keeps the invariant, if its labels, its   *)
(* output and its messages are what the invariant says of that call, and,  *)
(* when the peer has made it, its labels match the peer's.                 *)
LEMMA Completes ==
  ASSUME IInv, NEW p \in Party, NEW c, Moves(p, c), NEW k, k = at[p],
         delta' = delta, constant' = constant,
         Labelled(p), Told(p), Counted(p), Mailed, Supplied(p),
         CallLabels(p, k)', Given(p, k)',
         (p = "ALICE" /\ Call("BOB") <= k) => ToBob(k)',
         (p = "BOB" /\ Call("ALICE") <= k) => ToAlice(k)',
         k < Call(Peer(p)) => NewMatch(k)
  PROVE  IInv'
<1> PICK q : q = Peer(p)
  OBVIOUS
<1>0. /\ Placed /\ q \in Party /\ q # p /\ (p = "ALICE" => q = "BOB") /\ (p = "BOB" => q = "ALICE")
      /\ \A r \in Party : r = p \/ r = q
  BY InvPlaced, PeerFacts, Parties DEF Party
<1>1. /\ k \in Nat /\ k \in 1 .. Len(script) + 1
      /\ Call(p) = k /\ Call(p)' = k + 1 /\ Call(q)' = Call(q)
      /\ Reached(p) = k /\ Reached(p)' = k + 1 /\ Reached(q)' = Reached(q)
      /\ Pooled(p)' = mark'[k + 1] /\ Pooled(q)' = Pooled(q)
      /\ at' \in [Party -> Nat] /\ at'[q] = at[q]
      /\ pc["BOB"] # "setup"
      /\ Positions'
  BY MovesTo
<1>2. ProgramInv' /\ Grows /\ pc' = pc /\ pc[p] = "run"
  BY DEF Moves, Makes
<1>3. TypeOK'
  <2>1. /\ pc \in [Party -> {"setup", "run", "feed", "reveal"}]
        /\ delta \in Block /\ constant \in [Party -> [BOOLEAN -> Block]]
    BY DEF IInv, TypeOK
  <2>2. /\ script' \in Seq(CallType) /\ val' \in Seq(BOOLEAN) /\ mark' \in Seq(Mark)
    BY <1>2 DEF ProgramInv, ProgramTyped
  <2>3. /\ net' \in [Party -> Seq(Message)] /\ wire' \in [Party -> Seq(Block)]
        /\ out' \in [Party -> Seq(Seq(BOOLEAN))]
        /\ gid' \in [Party -> Nat] /\ counter' \in [Party -> Nat]
    BY DEF Mailed, Labelled, Told, Counted
  <2>4. /\ cots' \in Nat
        /\ buf' \in [Party -> [1 .. Batch -> Block]]
        /\ buff' \in [1 .. Batch -> BOOLEAN]
        /\ stock' \in Seq([t : Block, r : BOOLEAN])
        /\ top' \in [Party -> 0 .. Batch]
        /\ part' \in Seq(Block)
    BY DEF Supplied, PoolTyped
  <2> QED
    BY <1>1, <1>2, <2>1, <2>2, <2>3, <2>4 DEF TypeOK
<1>4. Counters'
  <2>1. /\ Call(q) \in 1 .. Len(script) + 1
    BY <1>0, Where
  <2>2. mark'[Call(q)] = mark[Call(q)]
    BY <1>2, <2>1 DEF Grows
  <2>3. /\ gid[q] = mark[Call(q)].gid /\ counter[q] = mark[Call(q)].counter
        /\ Len(wire[q]) = mark[Call(q)].wires /\ Len(out[q]) = mark[Call(q)].reveals
        /\ top[q] = Batch - (Pooled(q).stocked - Pooled(q).used)
    BY <1>0 DEF IInv, Counters
  <2>4. /\ gid'[q] = gid[q] /\ counter'[q] = counter[q] /\ wire'[q] = wire[q]
        /\ out'[q] = out[q] /\ top'[q] = top[q]
    BY DEF Counted, Labelled, Told, Supplied
  <2>5. /\ gid'[q] = mark'[Call(q)'].gid /\ counter'[q] = mark'[Call(q)'].counter
        /\ Len(wire'[q]) = mark'[Call(q)'].wires /\ Len(out'[q]) = mark'[Call(q)'].reveals
        /\ top'[q] = Batch - (Pooled(q)'.stocked - Pooled(q)'.used)
    BY <1>1, <2>2, <2>3, <2>4
  <2>6. /\ gid'[p] = mark'[k + 1].gid /\ counter'[p] = mark'[k + 1].counter
        /\ Len(wire'[p]) = mark'[k + 1].wires /\ Len(out'[p]) = mark'[k + 1].reveals
        /\ top'[p] = Batch - (mark'[k + 1].stocked - mark'[k + 1].used)
    BY DEF Counted, Labelled, Told, Supplied
  <2> QED
    BY <1>0, <1>1, <2>5, <2>6 DEF Counters
<1>5. Onward
  <2>1. /\ wire[q] \in Seq(Block) /\ out[q] \in Seq(Seq(BOOLEAN))
    BY <1>0 DEF IInv, TypeOK
  <2>2. Prolongs(wire[q], wire'[q]) /\ Prolongs(out[q], out'[q])
    BY <2>1, ProlongsSelf DEF Labelled, Told
  <2>3. Prolongs(wire[p], wire'[p]) /\ Prolongs(out[p], out'[p]) /\ Prolongs(stock, stock')
    BY DEF Labelled, Told, Supplied
  <2> QED
    BY <1>0, <1>2, <2>2, <2>3 DEF Onward
<1>6. NewLabelsMatch
  BY NewMatches
<1>7. ASSUME NEW r \in Party, NEW j \in Call(r) .. Call(r)' - 1
      PROVE  CallLabels(r, j)' /\ Given(r, j)'
  <2>1. Call(q) \in Nat
    BY <1>0, Where
  <2>2. r = p /\ j = k
    BY <1>0, <1>1, <1>7, <2>1
  <2> QED
    BY <2>2
<1>8. ASSUME NEW j \in Reached("ALICE") .. Reached("ALICE")' - 1, Call("BOB")' <= j
      PROVE  ToBob(j)'
  <2>1. Reached(q) \in Nat
    BY <1>0, Where
  <2>2. p = "ALICE" /\ j = k
    BY <1>0, <1>1, <1>8, <2>1 DEF Party
  <2> QED
    BY <1>0, <1>1, <1>8, <2>2
<1>9. ASSUME NEW j \in Call("BOB") .. Call("BOB")' - 1, Call("ALICE")' <= j
      PROVE  ToAlice(j)'
  <2>1. Call(q) \in Nat
    BY <1>0, Where
  <2>2. p = "BOB" /\ j = k
    BY <1>0, <1>1, <1>9, <2>1 DEF Party
  <2> QED
    BY <1>0, <1>1, <1>9, <2>2
<1>10. Call("ALICE") <= Call("ALICE")' /\ Call("BOB") <= Call("BOB")'
  <2>1. Call(q) \in Nat
    BY <1>0, Where
  <2> QED
    BY <1>0, <1>1, <2>1 DEF Party
<1>11. /\ pc["ALICE"] = "setup" => pc'["ALICE"] = "setup" /\ at'["ALICE"] = at["ALICE"]
       /\ pc["ALICE"] # "setup" => pc'["ALICE"] # "setup"
       /\ pc'["BOB"] # "setup"
  BY <1>0, <1>1, <1>2 DEF Party
<1>12. Queues' /\ DueKept("ALICE") /\ DueKept("BOB") /\ Pool'
  BY DEF Mailed, Supplied
<1> QED
  BY <1>1, <1>2, <1>3, <1>4, <1>5, <1>6, <1>7, <1>8, <1>9, <1>10, <1>11, <1>12, Keeps

-----------------------------------------------------------------------------
(* The call that a party completes *)

(* The marks on either side of the call a party makes, whether it completes*)
(* it or not.                                                              *)
LEMMA MakesFields == ASSUME IInv, NEW p \in Party, NEW c, Makes(p, c), NEW k, k = at[p]
  PROVE  LET m == mark[k]
             a == mark'[k + 1]
             n == Len(c.bits)
             pooled == FeedsBob(c) /\ n <= Batch
             wraps == pooled /\ m.used + n > m.stocked
         IN /\ c.op \in Ops /\ c.bits \in Seq(BOOLEAN) /\ n \in Nat
            /\ m \in Mark /\ a \in Mark
            /\ m.gid \in Nat /\ m.counter \in Nat /\ m.used \in Nat /\ m.stocked \in Nat
            /\ m.wires \in Nat /\ m.reveals \in Nat
            /\ m.to["ALICE"] \in Nat /\ m.to["BOB"] \in Nat
            /\ m.used <= m.stocked /\ m.stocked <= m.used + Batch /\ Batch <= m.stocked
            /\ a.gid = IF c.op = "and" THEN m.gid + 1 ELSE m.gid
            /\ a.counter = IF c.op = "feed" /\ c.who = "ALICE" THEN m.counter + n ELSE m.counter
            /\ a.used = IF pooled THEN m.used + n ELSE m.used
            /\ a.stocked = IF wraps THEN m.stocked + Batch ELSE m.stocked
            /\ a.wires = IF c.op \in {"and", "xor", "not"} THEN m.wires + 1 ELSE m.wires + n
            /\ a.reveals = IF c.op = "reveal" THEN m.reveals + 1 ELSE m.reveals
            /\ a.to["ALICE"] = IF wraps THEN m.to["ALICE"] + 2
                               ELSE IF FeedsBob(c) \/ (c.op = "reveal" /\ c.who \in {"ALICE", "PUBLIC"})
                               THEN m.to["ALICE"] + 1 ELSE m.to["ALICE"]
            /\ a.to["BOB"] = IF c.op = "and" \/ (c.op = "reveal" /\ c.who \in {"BOB", "PUBLIC"})
                             THEN m.to["BOB"] + 1 ELSE m.to["BOB"]
<1>1. k \in 1 .. Len(script) + 1 /\ mark'[k + 1] = After(mark[k], c) /\ c \in CallType
  BY DEF Makes
<1>2. PICK m : m = mark[k]
  OBVIOUS
<1>3. /\ m \in Mark
      /\ m.gid \in Nat /\ m.counter \in Nat /\ m.used \in Nat /\ m.stocked \in Nat
      /\ m.wires \in Nat /\ m.reveals \in Nat
      /\ m.to["ALICE"] \in Nat /\ m.to["BOB"] \in Nat
      /\ m.used <= m.stocked /\ m.stocked <= m.used + Batch /\ Batch <= m.stocked
  BY <1>1, <1>2, InvProgram, MarkTyped
<1>4. c.op \in Ops /\ c.bits \in Seq(BOOLEAN) /\ Len(c.bits) \in Nat
  BY <1>1, LenProperties DEF CallType
<1>5. PICK a : a = After(m, c)
  OBVIOUS
<1>6. mark'[k + 1] = a
  BY <1>1, <1>2, <1>5
<1>7. LET n == Len(c.bits)
          pooled == FeedsBob(c) /\ n <= Batch
          wraps == pooled /\ m.used + n > m.stocked
      IN /\ a \in Mark
         /\ a.gid = IF c.op = "and" THEN m.gid + 1 ELSE m.gid
         /\ a.counter = IF c.op = "feed" /\ c.who = "ALICE" THEN m.counter + n ELSE m.counter
         /\ a.used = IF pooled THEN m.used + n ELSE m.used
         /\ a.stocked = IF wraps THEN m.stocked + Batch ELSE m.stocked
         /\ a.wires = IF c.op \in {"and", "xor", "not"} THEN m.wires + 1 ELSE m.wires + n
         /\ a.reveals = IF c.op = "reveal" THEN m.reveals + 1 ELSE m.reveals
         /\ a.to["ALICE"] = IF wraps THEN m.to["ALICE"] + 2
                            ELSE IF FeedsBob(c) \/ (c.op = "reveal" /\ c.who \in {"ALICE", "PUBLIC"})
                            THEN m.to["ALICE"] + 1 ELSE m.to["ALICE"]
         /\ a.to["BOB"] = IF c.op = "and" \/ (c.op = "reveal" /\ c.who \in {"BOB", "PUBLIC"})
                          THEN m.to["BOB"] + 1 ELSE m.to["BOB"]
  BY ONLY <1>1, <1>3, <1>5, AfterFields, Zenon
<1> QED
  BY ONLY <1>2, <1>3, <1>4, <1>6, <1>7, Zenon

(* The marks on either side of the call a party completes. *)
LEMMA MovesFields == ASSUME IInv, NEW p \in Party, NEW c, Moves(p, c), NEW k, k = at[p]
  PROVE  LET m == mark[k]
             a == mark'[k + 1]
             n == Len(c.bits)
             pooled == FeedsBob(c) /\ n <= Batch
             wraps == pooled /\ m.used + n > m.stocked
         IN /\ c.op \in Ops /\ c.bits \in Seq(BOOLEAN) /\ n \in Nat
            /\ m \in Mark /\ a \in Mark
            /\ m.gid \in Nat /\ m.counter \in Nat /\ m.used \in Nat /\ m.stocked \in Nat
            /\ m.wires \in Nat /\ m.reveals \in Nat
            /\ m.to["ALICE"] \in Nat /\ m.to["BOB"] \in Nat
            /\ m.used <= m.stocked /\ m.stocked <= m.used + Batch /\ Batch <= m.stocked
            /\ a.gid = IF c.op = "and" THEN m.gid + 1 ELSE m.gid
            /\ a.counter = IF c.op = "feed" /\ c.who = "ALICE" THEN m.counter + n ELSE m.counter
            /\ a.used = IF pooled THEN m.used + n ELSE m.used
            /\ a.stocked = IF wraps THEN m.stocked + Batch ELSE m.stocked
            /\ a.wires = IF c.op \in {"and", "xor", "not"} THEN m.wires + 1 ELSE m.wires + n
            /\ a.reveals = IF c.op = "reveal" THEN m.reveals + 1 ELSE m.reveals
            /\ a.to["ALICE"] = IF wraps THEN m.to["ALICE"] + 2
                               ELSE IF FeedsBob(c) \/ (c.op = "reveal" /\ c.who \in {"ALICE", "PUBLIC"})
                               THEN m.to["ALICE"] + 1 ELSE m.to["ALICE"]
            /\ a.to["BOB"] = IF c.op = "and" \/ (c.op = "reveal" /\ c.who \in {"BOB", "PUBLIC"})
                             THEN m.to["BOB"] + 1 ELSE m.to["BOB"]
<1>1. IInv /\ p \in Party /\ Makes(p, c) /\ k = at[p]
  BY DEF Moves
<1>2. /\ c.op \in Ops /\ c.bits \in Seq(BOOLEAN) /\ Len(c.bits) \in Nat
      /\ mark[k] \in Mark /\ mark'[k + 1] \in Mark
  BY ONLY <1>1, MakesFields
<1>3. /\ mark[k].gid \in Nat /\ mark[k].counter \in Nat /\ mark[k].used \in Nat /\ mark[k].stocked \in Nat
      /\ mark[k].wires \in Nat /\ mark[k].reveals \in Nat
      /\ mark[k].to["ALICE"] \in Nat /\ mark[k].to["BOB"] \in Nat
  BY ONLY <1>1, MakesFields
<1>4. /\ mark[k].used <= mark[k].stocked /\ mark[k].stocked <= mark[k].used + Batch /\ Batch <= mark[k].stocked
  BY ONLY <1>1, MakesFields
<1>5. /\ mark'[k + 1].gid = IF c.op = "and" THEN mark[k].gid + 1 ELSE mark[k].gid
      /\ mark'[k + 1].counter = IF c.op = "feed" /\ c.who = "ALICE" THEN mark[k].counter + Len(c.bits)
                                 ELSE mark[k].counter
  BY ONLY <1>1, MakesFields
<1>6. /\ mark'[k + 1].used = IF FeedsBob(c) /\ Len(c.bits) <= Batch THEN mark[k].used + Len(c.bits)
                              ELSE mark[k].used
      /\ mark'[k + 1].stocked = IF FeedsBob(c) /\ Len(c.bits) <= Batch /\ mark[k].used + Len(c.bits) > mark[k].stocked
                                 THEN mark[k].stocked + Batch ELSE mark[k].stocked
  BY ONLY <1>1, MakesFields
<1>7. /\ mark'[k + 1].wires = IF c.op \in {"and", "xor", "not"} THEN mark[k].wires + 1 ELSE mark[k].wires + Len(c.bits)
      /\ mark'[k + 1].reveals = IF c.op = "reveal" THEN mark[k].reveals + 1 ELSE mark[k].reveals
  BY ONLY <1>1, MakesFields
<1>8. /\ mark'[k + 1].to["ALICE"] =
           IF FeedsBob(c) /\ Len(c.bits) <= Batch /\ mark[k].used + Len(c.bits) > mark[k].stocked
           THEN mark[k].to["ALICE"] + 2
           ELSE IF FeedsBob(c) \/ (c.op = "reveal" /\ c.who \in {"ALICE", "PUBLIC"})
           THEN mark[k].to["ALICE"] + 1 ELSE mark[k].to["ALICE"]
      /\ mark'[k + 1].to["BOB"] = IF c.op = "and" \/ (c.op = "reveal" /\ c.who \in {"BOB", "PUBLIC"})
                                   THEN mark[k].to["BOB"] + 1 ELSE mark[k].to["BOB"]
  BY ONLY <1>1, MakesFields
<1> QED
  BY ONLY <1>2, <1>3, <1>4, <1>5, <1>6, <1>7, <1>8, Zenon

(* The call a party makes, and the values it makes. *)
LEMMA MakesCall == ASSUME IInv, NEW p \in Party, NEW c, Makes(p, c), NEW k, k = at[p]
  PROVE  LET w == mark[k].wires
         IN /\ c.op \in {"and", "xor", "not", "reveal"} =>
                 c.i \in 1 .. w /\ c.j \in 1 .. w /\ c.bits = <<>>
            /\ c.op = "reveal" => c.i <= c.j
            /\ c.op = "not" => c.i = c.j
            /\ c.op = "public" => Len(c.bits) = 1
            /\ c.op = "feed" => c.who \in Party
            /\ c.op \in {"public", "feed"} => \A i \in 1 .. Len(c.bits) : val'[w + i] = c.bits[i]
            /\ c.op = "and" => val'[w + 1] = (val'[c.i] /\ val'[c.j])
            /\ c.op = "xor" => val'[w + 1] = (val'[c.i] # val'[c.j])
            /\ c.op = "not" => val'[w + 1] = ~val'[c.i]
<1>1. k \in 1 .. Len(script') /\ script'[k] = c /\ mark'[k] = mark[k] /\ ProgramInv'
  BY DEF Makes
<1>2. CallOK(k)'
  BY <1>1 DEF ProgramInv, Program
<1> QED
  BY <1>1, <1>2 DEF CallOK

(* The same of a call it completes. *)
LEMMA MovesCall == ASSUME IInv, NEW p \in Party, NEW c, Moves(p, c), NEW k, k = at[p]
  PROVE  LET w == mark[k].wires
         IN /\ c.op \in {"and", "xor", "not", "reveal"} =>
                 c.i \in 1 .. w /\ c.j \in 1 .. w /\ c.bits = <<>>
            /\ c.op = "reveal" => c.i <= c.j
            /\ c.op = "not" => c.i = c.j
            /\ c.op = "public" => Len(c.bits) = 1
            /\ c.op = "feed" => c.who \in Party
            /\ c.op \in {"public", "feed"} => \A i \in 1 .. Len(c.bits) : val'[w + i] = c.bits[i]
            /\ c.op = "and" => val'[w + 1] = (val'[c.i] /\ val'[c.j])
            /\ c.op = "xor" => val'[w + 1] = (val'[c.i] # val'[c.j])
            /\ c.op = "not" => val'[w + 1] = ~val'[c.i]
  BY MakesCall DEF Moves

(* A call that is complete leaves what was there before it as it was. *)
LEMMA MovesOnward ==
  ASSUME IInv, NEW p \in Party, NEW c, Moves(p, c), delta' = delta, constant' = constant,
         Labelled(p), Told(p), Prolongs(stock, stock')
  PROVE  Onward
<1> PICK q : q = Peer(p)
  OBVIOUS
<1>0. q \in Party /\ \A r \in Party : r = p \/ r = q
  BY PeerFacts
<1>1. /\ wire[q] \in Seq(Block) /\ out[q] \in Seq(Seq(BOOLEAN))
  BY <1>0 DEF IInv, TypeOK
<1>2. Prolongs(wire[q], wire'[q]) /\ Prolongs(out[q], out'[q])
  BY <1>1, ProlongsSelf DEF Labelled, Told
<1>3. Prolongs(wire[p], wire'[p]) /\ Prolongs(out[p], out'[p]) /\ Grows
  BY DEF Labelled, Told, Moves, Makes
<1> QED
  BY <1>0, <1>2, <1>3 DEF Onward

(* The peer is ahead: it has labels of the call's wires. *)
LEMMA PeerAhead ==
  ASSUME IInv, NEW p \in Party, NEW c, Moves(p, c), NEW k, k = at[p], Onward,
         k < Call(Peer(p))
  PROVE  /\ k \in 1 .. Len(script) /\ script[k] = c
         /\ CallLabels(Peer(p), k)'
         /\ LSB(delta)
         /\ \A b \in BOOLEAN : constant["BOB"][b] = Active(constant["ALICE"][b], b, delta)
         /\ \A i \in 1 .. mark[k].wires :
              /\ wire["BOB"][i] = Active(wire["ALICE"][i], val[i], delta)
              /\ val[i] \in BOOLEAN
              /\ wire'["BOB"][i] = wire["BOB"][i] /\ wire'["ALICE"][i] = wire["ALICE"][i]
              /\ val'[i] = val[i]
<1> PICK q : q = Peer(p)
  OBVIOUS
<1>0. /\ Placed /\ q \in Party /\ \A r \in Party : r = p \/ r = q
      /\ Peer(q) = p
  BY InvPlaced, PeerFacts
<1>1. /\ k \in Nat /\ Call(p) = k /\ Call(q) \in 1 .. Len(script) + 1 /\ Len(script) \in Nat
      /\ k \in 1 .. Len(script) + 1
      /\ pc["BOB"] # "setup" /\ pc[p] = "run"
  <2>1. Call(q) \in 1 .. Len(script) + 1
    BY <1>0, Where
  <2>2. k \in Nat /\ Call(p) = k /\ Len(script) \in Nat /\ k \in 1 .. Len(script) + 1 /\ pc["BOB"] # "setup"
    BY MovesTo
  <2> QED
    BY <2>1, <2>2 DEF Moves, Makes
<1>2. k \in 1 .. Len(script) /\ k \in 1 .. Call(q) - 1
  BY <1>0, <1>1
<1>3. script[k] = c
  BY <1>2 DEF Moves, Makes, Grows
<1>4. CallLabels(q, k)'
  BY <1>0, <1>2, LabelsStay
<1>5. pc["ALICE"] # "setup"
  <2>1. pc[q] # "setup"
    BY <1>0, <1>1 DEF Call
  <2> QED
    BY <1>0, <1>1, <2>1, Parties
<1>6. /\ LSB(delta)
      /\ \A b \in BOOLEAN : constant["BOB"][b] = Active(constant["ALICE"][b], b, delta)
  <2>1. Stage("ALICE") = 8 /\ Stage("BOB") = 8
    BY <1>0, <1>1, <1>5, StageFacts, Parties
  <2>2. Stage("ALICE") > 1 /\ Stage("BOB") > 1
    BY <2>1
  <2> QED
    BY <2>2 DEF IInv, Constants
<1>7. /\ Len(wire[p]) = mark[k].wires /\ Len(wire[q]) = mark[Call(q)].wires
      /\ mark[k].wires \in Nat /\ mark[Call(q)].wires \in Nat
      /\ mark[k].wires <= mark[Call(q)].wires
  BY <1>0, <1>1, MarkTyped, Marks DEF IInv, Counters, Placed
<1>8. Len(wire[p]) <= Len(val) /\ Len(val) \in Nat
  BY WiresInVal
<1>9. ASSUME NEW i \in 1 .. mark[k].wires
      PROVE  /\ wire["BOB"][i] = Active(wire["ALICE"][i], val[i], delta)
             /\ val[i] \in BOOLEAN
             /\ wire'["BOB"][i] = wire["BOB"][i] /\ wire'["ALICE"][i] = wire["ALICE"][i]
             /\ val'[i] = val[i]
  <2>1. \A r \in Party : i \in 1 .. Len(wire[r])
    BY <1>0, <1>7
  <2>2. i \in 1 .. Len(val)
    BY <1>7, <1>8
  <2>3. i \in Both
    <3>1. i \in 1 .. Len(wire["ALICE"]) /\ i \in 1 .. Len(wire["BOB"])
      BY <2>1, Parties
    <3>2. wire \in [Party -> Seq(Block)]
      BY DEF IInv, TypeOK
    <3> QED
      BY <3>1, <3>2, BothFacts
  <2>4. val \in Seq(BOOLEAN)
    BY DEF IInv, TypeOK
  <2> QED
    BY <2>1, <2>2, <2>3, <2>4, SeqAt, Parties DEF IInv, Labels, LabelsMatch, Onward, Prolongs, Grows
<1> QED
  BY <1>0, <1>2, <1>3, <1>4, <1>6, <1>9

(* Without a message the labels of a call match because both parties make  *)
(* them alike.                                                             *)
LEMMA AlikeMatch ==
  ASSUME IInv, NEW p \in Party, NEW c, Moves(p, c), NEW k, k = at[p], Onward,
         k < Call(Peer(p)), CallLabels(p, k)',
         \/ c.op \in {"public", "xor", "not", "reveal"}
         \/ c.op = "feed" /\ c.who = "ALICE"
         \/ FeedsBob(c) /\ Len(c.bits) <= Batch
  PROVE  NewMatch(k)
<1> DEFINE n == Len(c.bits)
<1>0. \A r \in Party : r = p \/ r = Peer(p)
  BY PeerFacts
<1>1. CallLabels("ALICE", k)' /\ CallLabels("BOB", k)'
  BY <1>0, PeerAhead, Parties
<1>2. PICK A, B, v, d, w : A = wire'["ALICE"] /\ B = wire'["BOB"] /\ v = val' /\ d = delta' /\ w = mark[k].wires
  OBVIOUS
<1>3. script'[k] = c /\ mark'[k] = mark[k] /\ delta' = delta /\ constant' = constant
  BY DEF Moves, Makes, Onward
<1>4. /\ \A b \in BOOLEAN : constant["BOB"][b] = Active(constant["ALICE"][b], b, d)
      /\ \A i \in 1 .. w : B[i] = Active(A[i], v[i], d) /\ v[i] \in BOOLEAN
  BY <1>2, <1>3, PeerAhead
<1>5. /\ w \in Nat /\ n \in Nat
      /\ mark'[k + 1].wires = IF c.op \in {"and", "xor", "not"} THEN w + 1 ELSE w + n
      /\ c.bits \in Seq(BOOLEAN)
  BY <1>2, MovesFields
<1>6. /\ c.op \in {"and", "xor", "not", "reveal"} => c.i \in 1 .. w /\ c.j \in 1 .. w /\ n = 0
      /\ c.op = "not" => c.i = c.j
      /\ c.op = "public" => n = 1
      /\ c.op \in {"public", "feed"} => \A i \in 1 .. n : v[w + i] = c.bits[i]
      /\ c.op = "xor" => v[w + 1] = (v[c.i] # v[c.j])
      /\ c.op = "not" => v[w + 1] = ~v[c.i]
  <2>1. c.bits = <<>> => n = 0
    BY EmptySeq
  <2> QED
    BY <1>2, <2>1, MovesCall
<1>7. \A i \in 1 .. n : c.bits[i] \in BOOLEAN
  BY <1>5, SeqAt
<1> HIDE DEF n
<1>8. SUFFICES ASSUME NEW x \in w + 1 .. mark'[k + 1].wires
               PROVE  B[x] = Active(A[x], v[x], d)
  BY <1>2 DEF NewMatch
<1>9. CASE c.op = "public"
  <2>1. x = w + 1 /\ 1 \in 1 .. n
    BY <1>5, <1>6, <1>8, <1>9
  <2>2. A[x] = constant["ALICE"][c.bits[1]] /\ B[x] = constant["BOB"][c.bits[1]]
    BY <1>1, <1>2, <1>3, <1>9, <2>1 DEF CallLabels
  <2>3. v[x] = c.bits[1] /\ c.bits[1] \in BOOLEAN
    BY <1>6, <1>7, <1>9, <2>1
  <2> QED
    BY <1>4, <2>2, <2>3
<1>10. CASE c.op = "xor"
  <2>1. x = w + 1
    BY <1>5, <1>6, <1>8, <1>10
  <2>2. A[x] = XOR(A[c.i], A[c.j]) /\ B[x] = XOR(B[c.i], B[c.j])
    BY <1>1, <1>2, <1>3, <1>10, <2>1 DEF CallLabels
  <2>3. v[x] = (v[c.i] # v[c.j])
    BY <1>6, <1>10, <2>1
  <2>4. /\ B[c.i] = Active(A[c.i], v[c.i], d) /\ v[c.i] \in BOOLEAN
        /\ B[c.j] = Active(A[c.j], v[c.j], d) /\ v[c.j] \in BOOLEAN
    BY <1>4, <1>6, <1>10
  <2>5. XOR(B[c.i], B[c.j]) = Active(XOR(A[c.i], A[c.j]), v[c.i] # v[c.j], d)
    BY <2>4, XorGateCorrect
  <2> QED
    BY <2>2, <2>3, <2>5
<1>11. CASE c.op = "not"
  <2>1. x = w + 1
    BY <1>5, <1>6, <1>8, <1>11
  <2>2. /\ A[x] = XOR(A[c.i], constant["ALICE"][TRUE])
        /\ B[x] = XOR(B[c.i], constant["BOB"][TRUE])
    BY <1>1, <1>2, <1>3, <1>11, <2>1 DEF CallLabels
  <2>3. v[x] = ~v[c.i]
    BY <1>6, <1>11, <2>1
  <2>4. B[c.i] = Active(A[c.i], v[c.i], d) /\ v[c.i] \in BOOLEAN
    BY <1>4, <1>6, <1>11
  <2>5. constant["BOB"][TRUE] = Active(constant["ALICE"][TRUE], TRUE, d)
    BY <1>4
  <2>6. XOR(B[c.i], constant["BOB"][TRUE]) =
          Active(XOR(A[c.i], constant["ALICE"][TRUE]), v[c.i] # TRUE, d)
    <3>1. PICK b1, b2, a1, a2, v1 : b1 = B[c.i] /\ b2 = constant["BOB"][TRUE] /\ a1 = A[c.i]
                                    /\ a2 = constant["ALICE"][TRUE] /\ v1 = v[c.i]
      OBVIOUS
    <3>2. PICK one \in BOOLEAN : one = TRUE
      OBVIOUS
    <3>3. v1 \in BOOLEAN
      BY <2>4, <3>1
    <3>4. XOR(Active(a1, v1, d), Active(a2, one, d)) = Active(XOR(a1, a2), v1 # one, d)
      BY ONLY <3>3, XorGateCorrect
    <3> QED
      BY <2>4, <2>5, <3>1, <3>2, <3>4
  <2>7. (v[c.i] # TRUE) = ~v[c.i]
    BY <2>4
  <2> QED
    BY <2>2, <2>3, <2>6, <2>7
<1>12. CASE c.op = "reveal"
  BY <1>5, <1>6, <1>8, <1>12
<1>13. CASE c.op = "feed"
  <2>1. PICK i \in 1 .. n : x = w + i
    <3>1. x \in w + 1 .. w + n
      BY <1>5, <1>8, <1>13
    <3>2. x - w \in 1 .. n /\ x = w + (x - w)
      BY <1>5, <3>1
    <3> QED
      BY <3>2
  <2>2. v[x] = c.bits[i]
    BY <1>6, <1>13, <2>1
  <2>3. CASE c.who = "ALICE"
    <3>1. A[x] = Active(Prg(mark[k].counter + i), c.bits[i], d) /\ B[x] = Prg(mark[k].counter + i)
      BY <1>1, <1>2, <1>3, <1>13, <2>1, <2>3 DEF CallLabels, n
    <3>2. PICK b : b = c.bits[i]
      OBVIOUS
    <3>3. b \in BOOLEAN
      BY <1>7, <3>2
    <3>4. Active(Active(Prg(mark[k].counter + i), b, d), b, d) = Prg(mark[k].counter + i)
      BY <3>3, Undone
    <3> QED
      BY <2>2, <3>1, <3>2, <3>4
  <2>4. CASE FeedsBob(c) /\ n <= Batch
    <3>1. PICK t : t = stock'[mark[k].used + i].t
      OBVIOUS
    <3>2. A[x] = Active(t, c.bits[i], d) /\ B[x] = t
      BY <1>1, <1>2, <1>3, <2>1, <2>4, <3>1 DEF CallLabels, n, FeedsBob
    <3>3. PICK b : b = c.bits[i]
      OBVIOUS
    <3>4. b \in BOOLEAN
      BY <1>7, <3>3
    <3>5. Active(Active(t, b, d), b, d) = t
      BY <3>4, Undone
    <3> QED
      BY <2>2, <3>2, <3>3, <3>5
  <2> QED
    BY <1>13, <2>3, <2>4 DEF n
<1> QED
  BY <1>9, <1>10, <1>11, <1>12, <1>13 DEF FeedsBob
=============================================================================
