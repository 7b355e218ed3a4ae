----------------------------- MODULE SemiHonest -----------------------------
(***************************************************************************)
(* The two parties of a semi-honest computation: ALICE runs HalfGateGen    *)
(* and SemiHonestGen, BOB runs HalfGateEva and SemiHonestEva               *)
(* (emp-tool/execution/).  Every wire has a label at each party; the       *)
(* garbler's is the label of 0, the evaluator's is that of the wire's      *)
(* value, which neither knows.                                             *)
(*                                                                         *)
(* Both run the same program: the k-th call of one is the k-th call of the *)
(* other, and whichever is ahead decides it.  Nothing on the wire says     *)
(* which call a message belongs to: the parties only stay together because *)
(* their counters do (the gate counter of MH, the counter of the shared    *)
(* PRG, the position in the pool of correlated OTs).                       *)
(*                                                                         *)
(* net[p] is the stream to p, one element per send_data call of its peer:  *)
(* NetChannel shows that HighSpeedNetIO delivers just that.  OT extension  *)
(* is the functionality it implements: both get blocks that differ by      *)
(* delta where the evaluator's choice bit is set.                          *)
(*                                                                         *)
(* An operator named Bad... is the one after it with a seeded fault; it is *)
(* used nowhere, and shows that the properties notice such a fault.        *)
(***************************************************************************)
EXTENDS HalfGates

CONSTANTS PrgBlocks, \* the output of the PRG both parties seed alike
          OTBlocks,  \* the blocks OT extension gives the evaluator
          Fresh,     \* what random_block may return to HalfGateGen
          Batch,     \* batch_size, the size of the OT pool
          Inputs,    \* bound: the bit strings a program feeds
          Shapes     \* bound: the operations of a program, in their order

ASSUME SemiHonestAssumption ==
  /\ PrgBlocks \in Seq(Block) /\ PrgBlocks # <<>>
  /\ OTBlocks \in Seq(Block) /\ OTBlocks # <<>>
  /\ Fresh \subseteq Block
  /\ Batch \in Nat \ {0}
  /\ Inputs \subseteq Seq(BOOLEAN)
  /\ Shapes \subseteq Seq({"public", "feed", "and", "xor", "not", "reveal"})

Party == {"ALICE", "BOB"}
Peer(p) == IF p = "ALICE" THEN "BOB" ELSE "ALICE"

(* Both are AES in counter mode: the output comes round with the counter. *)
Prg(k) == PrgBlocks[(k % Len(PrgBlocks)) + 1]
Cot(k) == OTBlocks[(k % Len(OTBlocks)) + 1]

(* The constructors' messages, in their order, and who sends each.         *)
Setup == << [from |-> "ALICE", kind |-> "constants"],  \* HalfGateGen::set_delta
            [from |-> "ALICE", kind |-> "block"],      \* HalfGateGen::HalfGateGen
            [from |-> "BOB",   kind |-> "A"],          \* OTCO, the base OTs
            [from |-> "ALICE", kind |-> "B"],
            [from |-> "BOB",   kind |-> "res"],
            [from |-> "ALICE", kind |-> "seed"],       \* SemiHonestGen
            [from |-> "BOB",   kind |-> "cot"] >>      \* refill

VARIABLES
  script,    \* the calls agreed so far
  val,       \* history: val[w] is the value the plain circuit gives wire w
  mark,      \* history: mark[k] is what the program did before its k-th call
  at,        \* at[p]: the step of the constructors, then the call, p is at
  pc,        \* where p is in that call
  net,       \* net[p]: what has been sent to p and not received
  delta,     \* HalfGateGen::delta
  constant,  \* constant[p]: the labels of FALSE and TRUE
  wire,      \* wire[p][w]: p's label of wire w
  gid,       \* gid[p]: MH's counter
  counter,   \* counter[p]: the shared PRG's counter
  cots,      \* the blocks OT extension has given so far
  buf,       \* buf[p]: the pool of COTs
  buff,      \* the evaluator's choice bits in the pool
  stock,     \* history: all that has ever been in the evaluator's pool
  top,       \* top[p]: how much of the pool is used
  part,      \* the labels of the feed the garbler is in the middle of
  out        \* out[p]: the results p has been given, reveal by reveal

program == <<script, val, mark>>
gates == <<delta, constant, gid>>
pool == <<cots, buf, buff, stock, top>>
vars == <<program, at, pc, net, gates, wire, counter, pool, part, out>>

Init ==
  /\ script = <<>>
  /\ val = <<>>
  /\ mark = <<[gid |-> 0, counter |-> 0, used |-> 0, stocked |-> Batch,
               wires |-> 0, reveals |-> 0, to |-> [p \in Party |-> IF p = "ALICE" THEN 3 ELSE 4]]>>
  /\ at = [p \in Party |-> 1]
  /\ pc = [p \in Party |-> "setup"]
  /\ net = [p \in Party |-> <<>>]
  /\ delta = {}
  /\ constant = [p \in Party |-> [b \in BOOLEAN |-> {}]]
  /\ wire = [p \in Party |-> <<>>]
  /\ gid = [p \in Party |-> 0]
  /\ counter = [p \in Party |-> 0]
  /\ cots = 0
  /\ buf = [p \in Party |-> [i \in 1 .. Batch |-> {}]]
  /\ buff = [i \in 1 .. Batch |-> FALSE]
  /\ stock = <<>>
  /\ top = [p \in Party |-> 0]
  /\ part = <<>>
  /\ out = [p \in Party |-> <<>>]

-----------------------------------------------------------------------------
(* The program both parties run. *)

(* The operations that may come after those the program has made.          *)
Kinds == {s[Len(script) + 1] : s \in {t \in Shapes :
            Len(script) < Len(t) /\ \A k \in DOMAIN script : t[k] = script[k].op}}

Calls ==
  {c \in [op : Kinds \cap {"public"}, who : {"PUBLIC"}, bits : {<<FALSE>>, <<TRUE>>}, i : {0}, j : {0}]
      \cup [op : Kinds \cap {"feed"}, who : Party, bits : Inputs, i : {0}, j : {0}]
      \cup [op : Kinds \cap {"and", "xor", "not"}, who : {"PUBLIC"}, bits : {<<>>},
            i : DOMAIN val, j : DOMAIN val]
      \cup [op : Kinds \cap {"reveal"}, who : Party \cup {"PUBLIC", "XOR"}, bits : {<<>>},
            i : DOMAIN val, j : DOMAIN val] :
     /\ c.op = "not" => c.i = c.j
     /\ c.op = "reveal" => c.i <= c.j}

(* The wires a call adds, in the clear. *)
Clear(c) == CASE c.op \in {"public", "feed"} -> c.bits
              [] c.op = "and" -> <<val[c.i] /\ val[c.j]>>
              [] c.op = "xor" -> <<val[c.i] # val[c.j]>>
              [] c.op = "not" -> <<~val[c.i]>>
              [] OTHER -> <<>>

FeedsBob(c) == c.op = "feed" /\ c.who = "BOB"

(* What the program has done after a call, if it had done m before: gates  *)
(* garbled, labels taken from the shared PRG, COTs taken from the pool and *)
(* put into it, wires, reveals, and messages to each party.                *)
After(m, c) ==
  LET n == Len(c.bits)
      pooled == FeedsBob(c) /\ n <= Batch
      wraps == pooled /\ m.used + n > m.stocked
      opens(p) == c.op = "reveal" /\ c.who \in {p, "PUBLIC"}
  IN [gid |-> IF c.op = "and" THEN m.gid + 1 ELSE m.gid,
      counter |-> IF c.op = "feed" /\ c.who = "ALICE" THEN m.counter + n ELSE m.counter,
      used |-> IF pooled THEN m.used + n ELSE m.used,
      stocked |-> IF wraps THEN m.stocked + Batch ELSE m.stocked,
      wires |-> IF c.op \in {"and", "xor", "not"} THEN m.wires + 1 ELSE m.wires + n,
      reveals |-> IF c.op = "reveal" THEN m.reveals + 1 ELSE m.reveals,
      to |-> [p \in Party |->
                IF p = "ALICE" /\ wraps THEN m.to[p] + 2
                ELSE IF \/ p = "ALICE" /\ FeedsBob(c)
                        \/ p = "BOB" /\ c.op = "and"
                        \/ opens(p) THEN m.to[p] + 1
                ELSE m.to[p]]]

(* What p may call now: what its peer called there, or anything. *)
Options(p) == IF pc[p] # "run" \/ at[p] > Len(script) + 1 THEN {}
              ELSE IF at[p] <= Len(script) THEN {script[at[p]]}
              ELSE Calls

Do(p, c) == IF at[p] <= Len(script)
            THEN UNCHANGED program
            ELSE /\ script' = Append(script, c)
                 /\ val' = val \o Clear(c)
                 /\ mark' = Append(mark, After(mark[Len(mark)], c))

Done(p) == at' = [at EXCEPT ![p] = @ + 1]
Adds(p, labels) == wire' = [wire EXCEPT ![p] = @ \o labels]
Gives(p, bits) == out' = [out EXCEPT ![p] = Append(@, bits)]

Msg(kind, data) == [kind |-> kind, data |-> data]
Sends(p, msgs) == net' = [net EXCEPT ![Peer(p)] = @ \o msgs]
Arrived(p, kind) == net[p] # <<>> /\ Head(net[p]).kind = kind
Data(p) == Head(net[p]).data
Takes(p) == net' = [net EXCEPT ![p] = Tail(@)]

-----------------------------------------------------------------------------
(* Correlated OTs: the evaluator's choices r and blocks t are the message, *)
(* from which the garbler gets its own blocks.                             *)

CotBlocks(n) == [i \in 1 .. n |-> Cot(cots + i)]
CotMsg(n, r) == Msg("cot", [r |-> r, t |-> CotBlocks(n)])
GenBlocks(m) == [i \in DOMAIN m.t |-> Active(m.t[i], m.r[i], delta)]

GenRefill == /\ buf' = [buf EXCEPT !["ALICE"] = GenBlocks(Data("ALICE"))]
             /\ UNCHANGED <<cots, buff, stock>>
Stocks(r) == stock' = stock \o [i \in 1 .. Batch |-> [t |-> Cot(cots + i), r |-> r[i]]]
(* The choice bits of the old pool are kept. *)
BadEvaRefill(r) == /\ UNCHANGED buff
                   /\ buf' = [buf EXCEPT !["BOB"] = CotBlocks(Batch)]
                   /\ cots' = cots + Batch
                   /\ Stocks(r)
EvaRefill(r) == /\ buff' = r
                /\ buf' = [buf EXCEPT !["BOB"] = CotBlocks(Batch)]
                /\ cots' = cots + Batch
                /\ Stocks(r)

-----------------------------------------------------------------------------
(* The constructors *)

AtSetup(p, kind) == /\ pc[p] = "setup"
                    /\ at[p] <= Len(Setup)
                    /\ Setup[at[p]].kind = kind

(* HalfGateGen: delta and the labels of the constants, whose label of TRUE *)
(* the evaluator is sent as the label of the constant's value.             *)
GenConstants ==
  /\ AtSetup("ALICE", "constants")
  /\ \E d, c0, c1 \in Fresh :
       /\ delta' = d \cup {0}
       /\ constant' = [constant EXCEPT !["ALICE"] =
                         [b \in BOOLEAN |-> IF b THEN XOR(c1, delta') ELSE c0]]
       /\ Sends("ALICE", <<Msg("constants", [b \in BOOLEAN |-> IF b THEN c1 ELSE c0])>>)
  /\ Done("ALICE")
  /\ UNCHANGED <<program, pc, gid, wire, counter, pool, part, out>>

EvaConstants ==
  /\ AtSetup("BOB", "constants")
  /\ Arrived("BOB", "constants")
  /\ constant' = [constant EXCEPT !["BOB"] = Data("BOB")]
  /\ Takes("BOB")
  /\ Done("BOB")
  /\ UNCHANGED <<program, pc, delta, gid, wire, counter, pool, part, out>>

(* The messages whose content stays inside OT, and the seed. *)
Handshake(p) == \E k \in {"block", "A", "B", "res", "seed"} :
  /\ AtSetup(p, k)
  /\ \/ /\ Setup[at[p]].from = p
        /\ Sends(p, <<Msg(k, <<>>)>>)
     \/ /\ Setup[at[p]].from # p
        /\ Arrived(p, k)
        /\ Takes(p)
  /\ Done(p)
  /\ UNCHANGED <<program, pc, gates, wire, counter, pool, part, out>>

Ready(p) == /\ pc' = [pc EXCEPT ![p] = "run"]
            /\ at' = [at EXCEPT ![p] = 1]
            /\ top' = [top EXCEPT ![p] = 0]

GenFirstRefill ==
  /\ AtSetup("ALICE", "cot")
  /\ Arrived("ALICE", "cot")
  /\ GenRefill
  /\ Takes("ALICE")
  /\ Ready("ALICE")
  /\ UNCHANGED <<program, gates, wire, counter, part, out>>

EvaFirstRefill == \E r \in [1 .. Batch -> BOOLEAN] :
  /\ AtSetup("BOB", "cot")
  /\ EvaRefill(r)
  /\ Sends("BOB", <<CotMsg(Batch, r)>>)
  /\ Ready("BOB")
  /\ UNCHANGED <<program, gates, wire, counter, part, out>>

-----------------------------------------------------------------------------
(* Gates *)

(* A gate that needs no message: a constant, XOR and NOT. *)
LocalLabel(p, c) == CASE c.op = "public" -> constant[p][c.bits[1]]
                      [] c.op = "xor" -> XOR(wire[p][c.i], wire[p][c.j])
                      [] c.op = "not" -> XOR(wire[p][c.i], constant[p][TRUE])

Local(p) == \E c \in Options(p) :
  /\ c.op \in {"public", "xor", "not"}
  /\ Do(p, c)
  /\ Adds(p, <<LocalLabel(p, c)>>)
  /\ Done(p)
  /\ UNCHANGED <<pc, net, gates, counter, pool, part, out>>

GenAnd == \E c \in Options("ALICE") :
  LET g == Garble(wire["ALICE"][c.i], wire["ALICE"][c.j], delta, gid["ALICE"] + 1) IN
  /\ c.op = "and"
  /\ Do("ALICE", c)
  /\ gid' = [gid EXCEPT !["ALICE"] = @ + 1]
  /\ Adds("ALICE", <<g.label>>)
  /\ Sends("ALICE", <<Msg("table", g.table)>>)
  /\ Done("ALICE")
  /\ UNCHANGED <<pc, delta, constant, counter, pool, part, out>>

EvaAnd == \E c \in Options("BOB") :
  /\ c.op = "and"
  /\ Do("BOB", c)
  /\ Arrived("BOB", "table")
  /\ gid' = [gid EXCEPT !["BOB"] = @ + 1]
  /\ Adds("BOB", <<Eval(wire["BOB"][c.i], wire["BOB"][c.j], Data("BOB"), gid'["BOB"])>>)
  /\ Takes("BOB")
  /\ Done("BOB")
  /\ UNCHANGED <<pc, delta, constant, counter, pool, part, out>>

-----------------------------------------------------------------------------
(* feed of the garbler's bits: labels from the shared PRG, no message. *)

FeedAlice(p) == \E c \in Options(p) :
  LET n == Len(c.bits)
      labels == [i \in 1 .. n |-> Prg(counter[p] + i)]
  IN
  /\ c.op = "feed" /\ c.who = "ALICE"
  /\ Do(p, c)
  /\ Adds(p, IF p = "ALICE" THEN [i \in 1 .. n |-> Active(labels[i], c.bits[i], delta)]
             ELSE labels)
  /\ counter' = [counter EXCEPT ![p] = @ + n]
  /\ Done(p)
  /\ UNCHANGED <<pc, net, gates, pool, part, out>>

-----------------------------------------------------------------------------
(* feed of the evaluator's bits: COTs from the pool, corrected by what the *)
(* evaluator sends, or COTs of their own when they are more than the pool. *)

Left(p) == Batch - top[p]
Rest(p) == SubSeq(buf[p], top[p] + 1, Batch)   \* what is left of the pool

EvaDirect == \E c \in Options("BOB") :
  LET n == Len(c.bits) IN
  /\ FeedsBob(c) /\ n > Batch
  /\ Do("BOB", c)
  /\ Adds("BOB", CotBlocks(n))
  /\ cots' = cots + n
  /\ Sends("BOB", <<CotMsg(n, c.bits)>>)
  /\ Done("BOB")
  /\ UNCHANGED <<pc, gates, counter, buf, buff, stock, top, part, out>>

GenDirect == \E c \in Options("ALICE") :
  /\ FeedsBob(c) /\ Len(c.bits) > Batch
  /\ Do("ALICE", c)
  /\ Arrived("ALICE", "cot")
  /\ Adds("ALICE", GenBlocks(Data("ALICE")))
  /\ Takes("ALICE")
  /\ Done("ALICE")
  /\ UNCHANGED <<pc, gates, counter, pool, part, out>>

Flips(choice, bits) == Msg("flips", [i \in DOMAIN bits |-> choice[i] # bits[i]])

EvaTake == \E c \in Options("BOB") :
  LET n == Len(c.bits) IN
  /\ FeedsBob(c) /\ n <= Left("BOB")
  /\ Do("BOB", c)
  /\ Adds("BOB", SubSeq(buf["BOB"], top["BOB"] + 1, top["BOB"] + n))
  /\ Sends("BOB", <<Flips(SubSeq(buff, top["BOB"] + 1, top["BOB"] + n), c.bits)>>)
  /\ top' = [top EXCEPT !["BOB"] = @ + n]
  /\ Done("BOB")
  /\ UNCHANGED <<pc, gates, counter, cots, buf, buff, stock, part, out>>

(* What is left of the pool, a refill, and the rest from the new pool. *)
EvaWrap == \E c \in Options("BOB") : \E r \in [1 .. Batch -> BOOLEAN] :
  LET n == Len(c.bits)
      more == n - Left("BOB")
  IN
  /\ FeedsBob(c) /\ n <= Batch /\ more > 0
  /\ Do("BOB", c)
  /\ EvaRefill(r)
  /\ Adds("BOB", Rest("BOB") \o SubSeq(buf'["BOB"], 1, more))
  /\ Sends("BOB", << CotMsg(Batch, r),
                     Flips(SubSeq(buff, top["BOB"] + 1, Batch) \o SubSeq(r, 1, more), c.bits) >>)
  /\ top' = [top EXCEPT !["BOB"] = more]
  /\ Done("BOB")
  /\ UNCHANGED <<pc, gates, counter, part, out>>

GenTake == \E c \in Options("ALICE") :
  LET n == Len(c.bits) IN
  /\ FeedsBob(c) /\ n <= Left("ALICE")
  /\ Do("ALICE", c)
  /\ part' = SubSeq(buf["ALICE"], top["ALICE"] + 1, top["ALICE"] + n)
  /\ top' = [top EXCEPT !["ALICE"] = @ + n]
  /\ pc' = [pc EXCEPT !["ALICE"] = "feed"]
  /\ UNCHANGED <<at, net, gates, wire, counter, cots, buf, buff, stock, out>>

GenWrap == \E c \in Options("ALICE") :
  LET more == Len(c.bits) - Left("ALICE") IN
  /\ FeedsBob(c) /\ Len(c.bits) <= Batch /\ more > 0
  /\ Do("ALICE", c)
  /\ Arrived("ALICE", "cot")
  /\ GenRefill
  /\ part' = Rest("ALICE") \o SubSeq(buf'["ALICE"], 1, more)
  /\ top' = [top EXCEPT !["ALICE"] = more]
  /\ Takes("ALICE")
  /\ pc' = [pc EXCEPT !["ALICE"] = "feed"]
  /\ UNCHANGED <<at, gates, wire, counter, out>>

GenFlip ==
  /\ pc["ALICE"] = "feed"
  /\ Arrived("ALICE", "flips")
  /\ Adds("ALICE", [i \in DOMAIN part |-> Active(part[i], Data("ALICE")[i], delta)])
  /\ part' = <<>>
  /\ Takes("ALICE")
  /\ pc' = [pc EXCEPT !["ALICE"] = "run"]
  /\ Done("ALICE")
  /\ UNCHANGED <<program, gates, counter, pool, out>>

-----------------------------------------------------------------------------
(* reveal *)

(* The range revealed is taken from the first wire. *)
BadLsbs(p, c) == [k \in 1 .. c.j - c.i + 1 |-> LSB(wire[p][k])]
Lsbs(p, c) == [k \in 1 .. c.j - c.i + 1 |-> LSB(wire[p][c.i + k - 1])]
Nothing(c) == [k \in 1 .. c.j - c.i + 1 |-> FALSE]
Differ(x, y) == [k \in DOMAIN x |-> x[k] # y[k]]

RevealShare(p) == \E c \in Options(p) :
  /\ c.op = "reveal" /\ c.who = "XOR"
  /\ Do(p, c)
  /\ Gives(p, Lsbs(p, c))
  /\ Done(p)
  /\ UNCHANGED <<pc, net, gates, wire, counter, pool, part>>

(* The party that is not to learn the result: it sends and is done. *)
RevealTo(p) == \E c \in Options(p) :
  /\ c.op = "reveal" /\ c.who = Peer(p)
  /\ Do(p, c)
  /\ Sends(p, <<Msg("lsbs", Lsbs(p, c))>>)
  /\ Gives(p, Nothing(c))
  /\ Done(p)
  /\ UNCHANGED <<pc, gates, wire, counter, pool, part>>

Learn(p) == \E c \in Options(p) :
  /\ c.op = "reveal" /\ c.who = p
  /\ Do(p, c)
  /\ Arrived(p, "lsbs")
  /\ Gives(p, Differ(Data(p), Lsbs(p, c)))
  /\ Takes(p)
  /\ Done(p)
  /\ UNCHANGED <<pc, gates, wire, counter, pool, part>>

(* The garbler does not read back the public result. *)
BadGenRevealPublic == \E c \in Options("ALICE") :
  /\ c.op = "reveal" /\ c.who = "PUBLIC"
  /\ Do("ALICE", c)
  /\ Sends("ALICE", <<Msg("lsbs", Lsbs("ALICE", c))>>)
  /\ Gives("ALICE", Nothing(c))
  /\ Done("ALICE")
  /\ UNCHANGED <<pc, gates, wire, counter, pool, part>>

(* A public result is decoded by the evaluator, which sends it back. *)
GenRevealPublic == \E c \in Options("ALICE") :
  /\ c.op = "reveal" /\ c.who = "PUBLIC"
  /\ Do("ALICE", c)
  /\ Sends("ALICE", <<Msg("lsbs", Lsbs("ALICE", c))>>)
  /\ pc' = [pc EXCEPT !["ALICE"] = "reveal"]
  /\ UNCHANGED <<at, gates, wire, counter, pool, part, out>>

(* The evaluator does not send the public result back. *)
BadEvaRevealPublic == \E c \in Options("BOB") :
  /\ c.op = "reveal" /\ c.who = "PUBLIC"
  /\ Do("BOB", c)
  /\ Arrived("BOB", "lsbs")
  /\ Gives("BOB", Differ(Data("BOB"), Lsbs("BOB", c)))
  /\ Takes("BOB")
  /\ Done("BOB")
  /\ UNCHANGED <<pc, gates, wire, counter, pool, part>>

EvaRevealPublic == \E c \in Options("BOB") :
  LET b == Differ(Data("BOB"), Lsbs("BOB", c)) IN
  /\ c.op = "reveal" /\ c.who = "PUBLIC"
  /\ Do("BOB", c)
  /\ Arrived("BOB", "lsbs")
  /\ Gives("BOB", b)
  /\ net' = [net EXCEPT !["BOB"] = Tail(@), !["ALICE"] = Append(@, Msg("bits", b))]
  /\ Done("BOB")
  /\ UNCHANGED <<pc, gates, wire, counter, pool, part>>

GenRevealed ==
  /\ pc["ALICE"] = "reveal"
  /\ Arrived("ALICE", "bits")
  /\ Gives("ALICE", Data("ALICE"))
  /\ Takes("ALICE")
  /\ pc' = [pc EXCEPT !["ALICE"] = "run"]
  /\ Done("ALICE")
  /\ UNCHANGED <<program, gates, wire, counter, pool, part>>

-----------------------------------------------------------------------------
Finished == Kinds = {} /\ \A p \in Party : pc[p] = "run" /\ at[p] = Len(script) + 1
Terminated == Finished /\ UNCHANGED vars

GenStep == \/ GenConstants \/ GenFirstRefill
           \/ GenAnd \/ GenDirect \/ GenTake \/ GenWrap \/ GenFlip
           \/ GenRevealPublic \/ GenRevealed
EvaStep == \/ EvaConstants \/ EvaFirstRefill
           \/ EvaAnd \/ EvaDirect \/ EvaTake \/ EvaWrap
           \/ EvaRevealPublic
CommonStep(p) == \/ Handshake(p) \/ Local(p) \/ FeedAlice(p)
                 \/ RevealShare(p) \/ RevealTo(p) \/ Learn(p)
PartyStep(p) == \/ CommonStep(p)
                \/ p = "ALICE" /\ GenStep
                \/ p = "BOB" /\ EvaStep

Next == \/ \E p \in Party : PartyStep(p)
        \/ Terminated

Spec == Init /\ [][Next]_vars

(* Each process runs on; what is sent arrives. *)
FairSpec == Spec /\ \A p \in Party : WF_vars(PartyStep(p))
-----------------------------------------------------------------------------
(* Properties *)

(* The labels of a wire differ by delta exactly if its value is 1, through *)
(* every way a wire comes about: the shared PRG, the pool of COTs and its  *)
(* refills, OTs of their own, free gates and garbled ones.                 *)
Both == IF Len(wire["ALICE"]) <= Len(wire["BOB"]) THEN DOMAIN wire["ALICE"]
                                                  ELSE DOMAIN wire["BOB"]
LabelsMatch == \A w \in Both :
  wire["BOB"][w] = Active(wire["ALICE"][w], val[w], delta)

(* What a reveal gives each party is what the program computes in the      *)
(* clear, and no more than it is to learn; the two results of an XOR       *)
(* reveal are shares of it.                                                *)
Clears(c) == SubSeq(val, c.i, c.j)
OutputsCorrect == \A p \in Party : \A k \in DOMAIN script :
  LET c == script[k]
      n == mark[k].reveals + 1
  IN (c.op = "reveal" /\ n \in DOMAIN out[p]) =>
       /\ c.who \in {p, "PUBLIC"} => out[p][n] = Clears(c)
       /\ c.who = Peer(p) => out[p][n] = Nothing(c)
       /\ (c.who = "XOR" /\ n \in DOMAIN out[Peer(p)]) =>
            out[p][n] = Differ(out[Peer(p)][n], Clears(c))

(* Parties that are at the same call agree on every counter their labels   *)
(* are derived from, on the pool, and have left no message unread.         *)
InStep == (at["ALICE"] = at["BOB"] /\ \A p \in Party : pc[p] = "run") =>
  /\ gid["ALICE"] = gid["BOB"]
  /\ counter["ALICE"] = counter["BOB"]
  /\ top["ALICE"] = top["BOB"]
  /\ \A i \in 1 .. Batch : buf["ALICE"][i] = Active(buf["BOB"][i], buff[i], delta)
  /\ \A p \in Party : net[p] = <<>>

(* A party that waits finds, when something arrives, the message it waits  *)
(* for, of the length it reads: nothing on the wire would tell it so.      *)
Expects(p) ==
  IF pc[p] = "setup" THEN Setup[at[p]].kind
  ELSE IF pc[p] = "feed" THEN "flips"
  ELSE IF pc[p] = "reveal" THEN "bits"
  ELSE LET c == script[at[p]] IN
       IF c.op = "and" THEN "table"
       ELSE IF c.op = "reveal" THEN "lsbs"
       ELSE "cot"
Waits(p) ==
  \/ pc[p] = "setup" /\ Setup[at[p]].from # p
  \/ pc[p] \in {"feed", "reveal"}
  \/ /\ pc[p] = "run" /\ at[p] <= Len(script)
     /\ LET c == script[at[p]] IN
          \/ p = "BOB" /\ c.op = "and"
          \/ p = "ALICE" /\ FeedsBob(c) /\ Len(c.bits) > Left(p)
          \/ c.op = "reveal" /\ c.who = p
          \/ p = "BOB" /\ c.op = "reveal" /\ c.who = "PUBLIC"
Size(p) == IF pc[p] = "feed" THEN Len(part)
           ELSE LET c == script[at[p]] IN
                IF c.op = "and" THEN 2
                ELSE IF c.op = "reveal" THEN c.j - c.i + 1
                ELSE IF Len(c.bits) > Batch THEN Len(c.bits) ELSE Batch
Length(m) == IF m.kind = "cot" THEN Len(m.data.t) ELSE Len(m.data)
ReadsItsOwn == \A p \in Party : (Waits(p) /\ net[p] # <<>>) =>
  /\ Head(net[p]).kind = Expects(p)
  /\ pc[p] # "setup" => Length(Head(net[p])) = Size(p)

(* The calls a party has completed *)
Completed == [p \in Party |-> IF pc[p] = "setup" THEN 0 ELSE at[p] - 1]

(* The parties compute a plain circuit: labels, tables, the pool and all   *)
(* messages only bring about its reveals, each once and in its order,      *)
(* however far one party runs ahead (protocol_execution.h 54-206).         *)
Circuit == INSTANCE ClearProgram WITH done <- Completed
ImplementsClearProgram == Circuit!Spec

(* Neither party is left waiting for the other. *)
Termination == <>Finished
=============================================================================
