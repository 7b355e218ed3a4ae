------------------------- MODULE SemiHonest_proofs --------------------------
(***************************************************************************)
(* Every step of the garbling protocol keeps the invariant, one lemma for  *)
(* each action; and what follows of it.  A call that is complete in one    *)
(* step goes by Completes; the garbler's feeds from the pool and her public*)
(* reveals take two steps, that begin and end the call.                    *)
(***************************************************************************)
EXTENDS SemiHonest_invariant

(* A call that has no message to a party, or no output, leaves nothing to  *)
(* be shown of it.                                                         *)
LEMMA Silent == ASSUME IInv, NEW p \in Party, NEW c, Moves(p, c), NEW k, k = at[p]
  PROVE  /\ (c.op # "and" /\ ~(c.op = "reveal" /\ c.who \in {"BOB", "PUBLIC"})) => ToBob(k)'
         /\ (~FeedsBob(c) /\ ~(c.op = "reveal" /\ c.who \in {"ALICE", "PUBLIC"})) => ToAlice(k)'
         /\ c.op # "reveal" => Given(p, k)'
<1>1. script'[k] = c /\ mark'[k] = mark[k]
  BY DEF Moves, Makes
<1>2. ~FeedsBob(c) => mark'[k + 1].stocked = mark[k].stocked
  BY MovesFields
<1>3. (c.op # "and" /\ ~(c.op = "reveal" /\ c.who \in {"BOB", "PUBLIC"})) => ToBob(k)'
  BY <1>1 DEF ToBob
<1>4. (~FeedsBob(c) /\ ~(c.op = "reveal" /\ c.who \in {"ALICE", "PUBLIC"})) => ToAlice(k)'
  BY <1>1, <1>2 DEF ToAlice, FeedsBob
<1>5. c.op # "reveal" => Given(p, k)'
  BY <1>1 DEF Given
<1> QED
  BY <1>3, <1>4, <1>5

(* A gate's and a reveal's wires are there at the party. *)
LEMMA CallWires == ASSUME IInv, NEW p \in Party, NEW c, Moves(p, c),
                          c.op \in {"and", "xor", "not", "reveal"}
  PROVE  /\ c.i \in 1 .. mark[at[p]].wires /\ c.j \in 1 .. mark[at[p]].wires
         /\ c.i \in 1 .. Len(wire[p]) /\ c.j \in 1 .. Len(wire[p])
         /\ wire[p][c.i] \in Block /\ wire[p][c.j] \in Block
         /\ c.op = "not" => c.i = c.j
         /\ c.op = "reveal" => c.i <= c.j
         /\ Len(c.bits) = 0
<1>1. PICK k : k = at[p]
  OBVIOUS
<1>2. /\ c.i \in 1 .. mark[k].wires /\ c.j \in 1 .. mark[k].wires
      /\ c.op = "not" => c.i = c.j
      /\ c.op = "reveal" => c.i <= c.j
      /\ c.bits = <<>>
  BY <1>1, MovesCall
<1>3. Len(wire[p]) = mark[k].wires /\ wire[p] \in Seq(Block)
  BY <1>1, Sizes
<1> QED
  BY <1>1, <1>2, <1>3, SeqAt, EmptySeq

(* Action Local: public_label, and xor_gate and not_gate, which both       *)
(* parties compute without a message. Free xor: labels that differ by delta*)
(* where the value is set are xored to such labels.                        *)
LEMMA LocalStep == ASSUME IInv, NEW p \in Party, Local(p)
  PROVE  IInv'
<1>1. PICK c \in Options(p) :
        /\ c.op \in {"public", "xor", "not"}
        /\ Do(p, c)
        /\ Adds(p, <<LocalLabel(p, c)>>)
        /\ Done(p)
        /\ UNCHANGED <<pc, net, gates, counter, pool, part, out>>
  BY DEF Local
<1>2. /\ pc' = pc /\ net' = net /\ delta' = delta /\ constant' = constant /\ gid' = gid
      /\ counter' = counter /\ out' = out /\ UNCHANGED <<pool, part, delta>>
  BY <1>1 DEF gates
<1>3. Moves(p, c)
  BY <1>1, <1>2, DoMoves
<1>4. PICK k : k = at[p]
  OBVIOUS
<1>5. /\ c.bits \in Seq(BOOLEAN)
      /\ mark'[k + 1].gid = mark[k].gid
      /\ mark'[k + 1].counter = mark[k].counter
      /\ mark'[k + 1].used = mark[k].used
      /\ mark'[k + 1].stocked = mark[k].stocked
      /\ mark'[k + 1].wires = mark[k].wires + 1
      /\ mark'[k + 1].reveals = mark[k].reveals
      /\ mark'[k + 1].to["ALICE"] = mark[k].to["ALICE"]
      /\ mark'[k + 1].to["BOB"] = mark[k].to["BOB"]
      /\ c.op = "public" => Len(c.bits) = 1
  <2>1. c.op = "public" => Len(c.bits) = 1
    BY <1>3, <1>4, MovesCall
  <2>2. ~FeedsBob(c) /\ c.op \in {"public", "xor", "not"}
    BY <1>1 DEF FeedsBob
  <2>3. c.op # "public" => Len(c.bits) = 0
    BY <1>3, <2>2, CallWires
  <2>4. /\ c.bits \in Seq(BOOLEAN)
        /\ mark'[k + 1].gid = mark[k].gid
        /\ mark'[k + 1].counter = mark[k].counter
    BY <1>3, <1>4, <2>2, MovesFields
  <2>5. /\ mark'[k + 1].used = mark[k].used
        /\ mark'[k + 1].stocked = mark[k].stocked
    BY <1>3, <1>4, <2>2, MovesFields
  <2>8. mark'[k + 1].wires = mark[k].wires + 1
    <3>1. CASE c.op = "public"
      <4>1. c.op \notin {"and", "xor", "not"} /\ Len(c.bits) = 1
        BY <2>1, <3>1
      <4>2. mark'[k + 1].wires = mark[k].wires + Len(c.bits)
        BY <1>3, <1>4, <4>1, MovesFields
      <4> QED
        BY <4>1, <4>2
    <3>2. CASE c.op # "public"
      <4>1. c.op \in {"and", "xor", "not"}
        BY <2>2, <3>2
      <4> QED
        BY <1>3, <1>4, <4>1, MovesFields
    <3> QED
      BY <3>1, <3>2
  <2>6. mark'[k + 1].reveals = mark[k].reveals
    BY <1>3, <1>4, <2>2, MovesFields
  <2>7. /\ mark'[k + 1].to["ALICE"] = mark[k].to["ALICE"]
        /\ mark'[k + 1].to["BOB"] = mark[k].to["BOB"]
    BY <1>3, <1>4, <2>2, MovesFields
  <2> QED
    BY <2>1, <2>4, <2>5, <2>8, <2>6, <2>7
<1>6. c.op # "public" =>
        /\ c.i \in 1 .. Len(wire[p]) /\ c.j \in 1 .. Len(wire[p])
        /\ wire[p][c.i] \in Block /\ wire[p][c.j] \in Block
  BY <1>1, <1>3, CallWires
<1>7. PICK label : label = LocalLabel(p, c)
  OBVIOUS
<1>8. /\ c.op = "public" => label = constant[p][c.bits[1]]
      /\ c.op = "xor" => label = XOR(wire[p][c.i], wire[p][c.j])
      /\ c.op = "not" => label = XOR(wire[p][c.i], constant[p][TRUE])
  BY <1>7 DEF LocalLabel
<1>9. label \in Block
  <2>1. \A b \in BOOLEAN : constant[p][b] \in Block
    BY DEF IInv, TypeOK
  <2>2. c.op = "public" => c.bits[1] \in BOOLEAN
    BY <1>5, SeqAt
  <2> QED
    BY <1>1, <1>6, <1>8, <2>1, <2>2, XORBlock
<1>10. /\ Labelled(p)
       /\ wire'[p][mark[k].wires + 1] = label
  <2>1. PICK labels : labels = <<label>>
    OBVIOUS
  <2>2. labels \in Seq(Block) /\ Len(labels) = 1 /\ labels[1] = label
    BY <1>9, <2>1, OneFacts
  <2>3. Adds(p, labels)
    BY <1>1, <1>7, <2>1
  <2> QED
    <3>1. mark'[at[p] + 1].wires = mark[at[p]].wires + Len(labels)
      BY <1>4, <1>5, <2>2
    <3>2. /\ Labelled(p)
          /\ \A i \in 1 .. Len(labels) : wire'[p][mark[at[p]].wires + i] = labels[i]
      BY <1>3, <2>2, <2>3, <3>1, AddsLabelled
    <3>3. 1 \in 1 .. Len(labels)
      BY <2>2
    <3> QED
      BY <1>4, <2>2, <3>2, <3>3
<1>11. Told(p) /\ Counted(p) /\ Mailed /\ Supplied(p)
  <2>1. \A r \in Party : mark'[k + 1].to[r] = mark[k].to[r]
    BY <1>5 DEF Party
  <2>2. Told(p)
    BY <1>2, <1>3, <1>4, <1>5, NotTold
  <2>3. Counted(p)
    BY <1>2, <1>3, <1>4, <1>5, SameCounts
  <2>4. Mailed
    BY <1>2, <1>3, <1>4, <2>1, MailIdle
  <2>5. Supplied(p)
    BY <1>2, <1>3, <1>4, <1>5, PoolIdle
  <2> QED
    BY <2>2, <2>3, <2>4, <2>5
<1>12. CallLabels(p, k)'
  <2>1. script'[k] = c /\ mark'[k] = mark[k]
    BY <1>3, <1>4 DEF Moves, Makes
  <2>2. c.op # "public" => wire'[p][c.i] = wire[p][c.i] /\ wire'[p][c.j] = wire[p][c.j]
    BY <1>6, <1>10 DEF Labelled, Prolongs
  <2>3. /\ c.op = "public" => wire'[p][mark[k].wires + 1] = constant'[p][c.bits[1]]
        /\ c.op = "xor" => wire'[p][mark[k].wires + 1] = XOR(wire'[p][c.i], wire'[p][c.j])
        /\ c.op = "not" => wire'[p][mark[k].wires + 1] = XOR(wire'[p][c.i], constant'[p][TRUE])
    BY <1>2, <1>8, <1>10, <2>2
  <2> QED
    BY <1>1, <2>1, <2>3 DEF CallLabels, FeedsBob
<1>13. /\ ToBob(k)' /\ ToAlice(k)' /\ Given(p, k)'
  BY <1>1, <1>3, <1>4, Silent DEF FeedsBob
<1>14. k < Call(Peer(p)) => NewMatch(k)
  <2>1. Prolongs(stock, stock')
    BY <1>11 DEF Supplied
  <2>2. Onward
    BY <1>2, <1>3, <1>10, <1>11, <2>1, MovesOnward
  <2> QED
    BY <1>1, <1>3, <1>4, <1>12, <2>2, AlikeMatch
<1> QED
  BY <1>2, <1>3, <1>4, <1>10, <1>11, <1>12, <1>13, <1>14, Completes

(* Action FeedAlice: the garbler's bits. Both parties draw the same numbers*)
(* from the shared PRG, whose counters the marks keep together.            *)
LEMMA FeedAliceStep == ASSUME IInv, NEW p \in Party, FeedAlice(p)
  PROVE  IInv'
<1>1. PICK c \in Options(p) :
        /\ c.op = "feed" /\ c.who = "ALICE"
        /\ Do(p, c)
        /\ Adds(p, IF p = "ALICE"
                   THEN [i \in 1 .. Len(c.bits) |-> Active([x \in 1 .. Len(c.bits) |-> Prg(counter[p] + x)][i], c.bits[i], delta)]
                   ELSE [i \in 1 .. Len(c.bits) |-> Prg(counter[p] + i)])
        /\ counter' = [counter EXCEPT ![p] = @ + Len(c.bits)]
        /\ Done(p)
        /\ UNCHANGED <<pc, net, gates, pool, part, out>>
  BY DEF FeedAlice
<1>2. /\ pc' = pc /\ net' = net /\ delta' = delta /\ constant' = constant /\ gid' = gid
      /\ out' = out /\ UNCHANGED <<pool, part, delta>>
  BY <1>1 DEF gates
<1>3. Moves(p, c)
  BY <1>1, <1>2, DoMoves
<1>4. PICK k : k = at[p]
  OBVIOUS
<1>5. PICK n : n = Len(c.bits)
  OBVIOUS
<1>6. /\ c.bits \in Seq(BOOLEAN) /\ n \in Nat
      /\ mark[k].counter \in Nat
      /\ mark'[k + 1].gid = mark[k].gid
      /\ mark'[k + 1].counter = mark[k].counter + n
      /\ mark'[k + 1].used = mark[k].used
      /\ mark'[k + 1].stocked = mark[k].stocked
      /\ mark'[k + 1].wires = mark[k].wires + n
      /\ mark'[k + 1].reveals = mark[k].reveals
      /\ mark'[k + 1].to["ALICE"] = mark[k].to["ALICE"]
      /\ mark'[k + 1].to["BOB"] = mark[k].to["BOB"]
  <2>1. ~FeedsBob(c) /\ c.op = "feed" /\ c.who = "ALICE"
    BY <1>1 DEF FeedsBob
  <2>2. /\ c.bits \in Seq(BOOLEAN) /\ n \in Nat
        /\ mark[k].counter \in Nat
        /\ mark'[k + 1].gid = mark[k].gid
        /\ mark'[k + 1].counter = mark[k].counter + n
    BY <1>3, <1>4, <1>5, <2>1, MovesFields
  <2>3. /\ mark'[k + 1].used = mark[k].used
        /\ mark'[k + 1].stocked = mark[k].stocked
        /\ mark'[k + 1].wires = mark[k].wires + n
        /\ mark'[k + 1].reveals = mark[k].reveals
    BY <1>3, <1>4, <1>5, <2>1, MovesFields
  <2>4. /\ mark'[k + 1].to["ALICE"] = mark[k].to["ALICE"]
        /\ mark'[k + 1].to["BOB"] = mark[k].to["BOB"]
    BY <1>3, <1>4, <2>1, MovesFields
  <2> QED
    BY <2>2, <2>3, <2>4
<1>7. PICK g : g = mark[k].counter
  OBVIOUS
<1>8. counter \in [Party -> Nat] /\ counter[p] = g /\ g \in Nat
  BY <1>3, <1>4, <1>6, <1>7, Sizes
<1>9. PICK labels : labels = [i \in 1 .. n |-> IF p = "ALICE" THEN Active(Prg(g + i), c.bits[i], delta)
                                              ELSE Prg(g + i)]
  OBVIOUS
<1>10. Adds(p, labels)
  <2>1. CASE p = "ALICE"
    BY <1>1, <1>5, <1>8, <1>9, <2>1
  <2>2. CASE p # "ALICE"
    BY <1>1, <1>5, <1>8, <1>9, <2>2
  <2> QED
    BY <2>1, <2>2
<1>11. labels \in Seq(Block) /\ Len(labels) = n
  <2>1. ASSUME NEW i \in 1 .. n
        PROVE  (IF p = "ALICE" THEN Active(Prg(g + i), c.bits[i], delta) ELSE Prg(g + i)) \in Block
    <3>1. g + i \in Nat
      BY <1>6, <1>8
    <3>2. Prg(g + i) \in Block
      BY <3>1, PrgBlock
    <3>3. c.bits[i] \in BOOLEAN
      BY <1>5, <1>6, SeqAt
    <3>4. delta \in Block
      BY DEF IInv, TypeOK
    <3> QED
      BY <3>2, <3>3, <3>4, ActiveBlock
  <2>2. labels \in [1 .. n -> Block]
    BY <1>9, <2>1
  <2> QED
    BY <1>6, <2>2, FunSeq
<1>12. /\ Labelled(p)
       /\ \A i \in 1 .. n : wire'[p][mark[k].wires + i] =
            IF p = "ALICE" THEN Active(Prg(g + i), c.bits[i], delta) ELSE Prg(g + i)
  <2>1. /\ Labelled(p)
        /\ \A i \in 1 .. n : wire'[p][mark[k].wires + i] = labels[i]
    BY <1>3, <1>4, <1>6, <1>10, <1>11, AddsLabelled
  <2> QED
    BY <1>9, <2>1
<1>13. Counted(p)
  <2>1. gid \in [Party -> Nat] /\ gid[p] = mark[k].gid
    BY <1>3, <1>4, Sizes
  <2>2. Peer(p) \in Party /\ Peer(p) # p
    BY PeerFacts
  <2>3. counter' = [counter EXCEPT ![p] = g + n]
    BY <1>1, <1>5, <1>8
  <2>4. g + n \in Nat /\ mark'[k + 1].counter = g + n
    BY <1>6, <1>7, <1>8
  <2> QED
    BY <1>2, <1>4, <1>6, <1>8, <2>1, <2>2, <2>3, <2>4 DEF Counted
<1>14. Told(p) /\ Mailed /\ Supplied(p)
  <2>1. \A r \in Party : mark'[k + 1].to[r] = mark[k].to[r]
    BY <1>6 DEF Party
  <2>2. Told(p)
    BY <1>2, <1>3, <1>4, <1>6, NotTold
  <2>3. Mailed
    BY <1>2, <1>3, <1>4, <2>1, MailIdle
  <2>4. Supplied(p)
    BY <1>2, <1>3, <1>4, <1>6, PoolIdle
  <2> QED
    BY <2>2, <2>3, <2>4
<1>15. CallLabels(p, k)'
  <2>1. script'[k] = c /\ mark'[k] = mark[k]
    BY <1>3, <1>4 DEF Moves, Makes
  <2> QED
    BY <1>1, <1>2, <1>5, <1>7, <1>12, <2>1 DEF CallLabels, FeedsBob
<1>16. /\ ToBob(k)' /\ ToAlice(k)' /\ Given(p, k)'
  BY <1>1, <1>3, <1>4, Silent DEF FeedsBob
<1>17. k < Call(Peer(p)) => NewMatch(k)
  <2>1. Prolongs(stock, stock')
    BY <1>14 DEF Supplied
  <2>2. Onward
    BY <1>2, <1>3, <1>12, <1>14, <2>1, MovesOnward
  <2> QED
    BY <1>1, <1>3, <1>4, <1>15, <2>2, AlikeMatch
<1> QED
  BY <1>2, <1>3, <1>4, <1>12, <1>13, <1>14, <1>15, <1>16, <1>17, Completes

-----------------------------------------------------------------------------
(* Messages *)

(* What a message carries, by its kind. *)
LEMMA MessageData == ASSUME NEW m \in Message
  PROVE  /\ m.kind = "constants" => m.data \in [BOOLEAN -> Block]
         /\ m.kind = "cot" => m.data.r \in Seq(BOOLEAN) /\ m.data.t \in Seq(Block)
         /\ m.kind = "table" => m.data \in Block \X Block
         /\ m.kind \in {"flips", "lsbs", "bits"} => m.data \in Seq(BOOLEAN)
  BY DEF Message

(* The messages are typed. *)
LEMMA MsgTyped ==
  /\ \A d \in [BOOLEAN -> Block] : Msg("constants", d) \in Message
  /\ \A k \in {"block", "A", "B", "res", "seed"} : Msg(k, <<>>) \in Message
  /\ \A d \in [r : Seq(BOOLEAN), t : Seq(Block)] : Msg("cot", d) \in Message
  /\ \A d \in Block \X Block : Msg("table", d) \in Message
  /\ \A d \in Seq(BOOLEAN) : \A k \in {"flips", "lsbs", "bits"} : Msg(k, d) \in Message
<1>1. \A d \in [BOOLEAN -> Block] : Msg("constants", d) \in Message
  BY DEF Message, Msg
<1>2. \A k \in {"block", "A", "B", "res", "seed"} : Msg(k, <<>>) \in Message
  BY DEF Message, Msg
<1>3. \A d \in [r : Seq(BOOLEAN), t : Seq(Block)] : Msg("cot", d) \in Message
  BY DEF Message, Msg
<1>4. \A d \in Block \X Block : Msg("table", d) \in Message
  BY DEF Message, Msg
<1>5. \A d \in Seq(BOOLEAN) : \A k \in {"flips", "lsbs", "bits"} : Msg(k, d) \in Message
  BY DEF Message, Msg
<1> QED
  BY <1>1, <1>2, <1>3, <1>4, <1>5

(* The message that has arrived is that of the peer's call. *)
LEMMA Answers ==
  ASSUME IInv, NEW p \in Party, NEW c, Moves(p, c), NEW k, k = at[p], net[p] # <<>>
  PROVE  /\ k \in 1 .. Len(script) /\ script[k] = c
         /\ k < Reached(Peer(p))
         /\ pc[Peer(p)] # "setup"
         /\ p = "BOB" => ToBob(k)
         /\ (p = "ALICE" /\ k < Call("BOB")) => ToAlice(k)
         /\ p = "ALICE" => k < Call("BOB")
         /\ LSB(delta)
<1> PICK q : q = Peer(p)
  OBVIOUS
<1>0. /\ Placed /\ q \in Party /\ Peer(q) = p /\ (p = "ALICE" => q = "BOB") /\ (p = "BOB" => q = "ALICE")
  BY InvPlaced, PeerFacts, Parties DEF Party
<1>1. /\ k \in Nat /\ Call(p) = k /\ Len(script) \in Nat /\ k \in 1 .. Len(script) + 1
  BY MovesTo
<1>2. pc[p] # "setup"
  BY DEF Moves, Makes
<1>3. k < Reached(q) /\ pc[q] # "setup"
  BY <1>0, <1>1, <1>2, Ahead
<1>4. Reached(q) \in 1 .. Len(script) + 1 /\ Call(q) \in 1 .. Len(script) + 1
      /\ (q = "BOB" => Reached(q) = Call(q))
  BY <1>0, Where
<1>5. k \in 1 .. Len(script)
  BY <1>1, <1>3, <1>4
<1>6. script[k] = c
  BY <1>5 DEF Moves, Makes, Grows
<1>7. p = "BOB" => ToBob(k)
  <2>1. SUFFICES ASSUME p = "BOB" PROVE ToBob(k)
    OBVIOUS
  <2>2. k \in Call("BOB") .. Reached("ALICE") - 1
    BY <1>0, <1>1, <1>3, <1>4, <2>1
  <2> QED
    BY <2>2 DEF IInv, Contents
<1>8. p = "ALICE" => k < Call("BOB")
  BY <1>0, <1>3, <1>4
<1>9. p = "ALICE" => ToAlice(k)
  <2>1. SUFFICES ASSUME p = "ALICE" PROVE ToAlice(k)
    OBVIOUS
  <2>2. k \in Call("ALICE") .. Call("BOB") - 1
    BY <1>0, <1>1, <1>4, <1>8, <2>1
  <2> QED
    BY <2>2 DEF IInv, Contents
<1>10. LSB(delta)
  <2>1. pc["ALICE"] # "setup"
    BY <1>0, <1>2, <1>3 DEF Party
  <2>2. Stage("ALICE") > 1
    BY <1>0, <2>1, StageFacts, Parties
  <2> QED
    BY <2>2 DEF IInv, Constants
<1> QED
  BY <1>3, <1>5, <1>6, <1>7, <1>8, <1>9, <1>10

-----------------------------------------------------------------------------
(* Gates that need a message *)

(* The marks on either side of an AND gate. *)
LEMMA AndFields == ASSUME IInv, NEW p \in Party, NEW c, Moves(p, c), NEW k, k = at[p], c.op = "and"
  PROVE  /\ mark'[k + 1].gid = mark[k].gid + 1
         /\ mark'[k + 1].counter = mark[k].counter
         /\ mark'[k + 1].used = mark[k].used
         /\ mark'[k + 1].stocked = mark[k].stocked
         /\ mark'[k + 1].wires = mark[k].wires + 1
         /\ mark'[k + 1].reveals = mark[k].reveals
         /\ mark'[k + 1].to["ALICE"] = mark[k].to["ALICE"]
         /\ mark'[k + 1].to["BOB"] = mark[k].to["BOB"] + 1
         /\ mark[k].gid \in Nat /\ mark[k].to["BOB"] \in Nat /\ mark[k].wires \in Nat
<1>1. ~FeedsBob(c) /\ c.op # "feed" /\ c.op # "reveal" /\ c.op \in {"and", "xor", "not"}
  BY DEF FeedsBob
<1>2. mark'[k + 1].gid = mark[k].gid + 1 /\ mark'[k + 1].counter = mark[k].counter
  BY <1>1, MovesFields
<1>3. mark'[k + 1].used = mark[k].used /\ mark'[k + 1].stocked = mark[k].stocked
  BY <1>1, MovesFields
<1>4. mark'[k + 1].wires = mark[k].wires + 1
  BY <1>1, MovesFields
<1>5. mark'[k + 1].reveals = mark[k].reveals
  BY <1>1, MovesFields
<1>6. mark'[k + 1].to["ALICE"] = mark[k].to["ALICE"]
  BY <1>1, MovesFields
<1>7. mark'[k + 1].to["BOB"] = mark[k].to["BOB"] + 1
  BY <1>1, MovesFields
<1>8. mark[k].gid \in Nat /\ mark[k].to["BOB"] \in Nat /\ mark[k].wires \in Nat
  BY MovesFields
<1> QED
  BY <1>2, <1>3, <1>4, <1>5, <1>6, <1>7, <1>8

(* What an AND gate does at either party *)
LEMMA AndAdds ==
  ASSUME IInv, NEW p \in Party, NEW c, Moves(p, c), NEW k, k = at[p], c.op = "and",
         NEW label \in Block, NEW labels, labels = <<label>>, Adds(p, labels),
         gid' \in [Party -> Nat], gid'[p] = mark[k].gid + 1, gid'[Peer(p)] = gid[Peer(p)],
         delta' = delta, counter' = counter, out' = out, UNCHANGED <<pool, part, delta>>
  PROVE  /\ Labelled(p) /\ wire'[p][mark[k].wires + 1] = label
         /\ wire'[p][c.i] = wire[p][c.i] /\ wire'[p][c.j] = wire[p][c.j]
         /\ Told(p) /\ Counted(p) /\ Supplied(p)
<1>1. /\ Labelled(p) /\ wire'[p][mark[k].wires + 1] = label
  <2>2. labels \in Seq(Block) /\ Len(labels) = 1 /\ labels[1] = label
    BY OneFacts
  <2>3. mark'[at[p] + 1].wires = mark[at[p]].wires + Len(labels)
    BY <2>2, AndFields
  <2>4. /\ Labelled(p)
        /\ \A i \in 1 .. Len(labels) : wire'[p][mark[at[p]].wires + i] = labels[i]
    BY <2>2, <2>3, AddsLabelled
  <2>5. 1 \in 1 .. Len(labels)
    BY <2>2
  <2> QED
    BY <2>2, <2>4, <2>5
<1>2. wire'[p][c.i] = wire[p][c.i] /\ wire'[p][c.j] = wire[p][c.j]
  <2>1. c.i \in 1 .. Len(wire[p]) /\ c.j \in 1 .. Len(wire[p])
    BY CallWires
  <2> QED
    BY <1>1, <2>1 DEF Labelled, Prolongs
<1>3. Told(p)
  BY AndFields, NotTold
<1>4. Counted(p)
  <2>1. counter \in [Party -> Nat] /\ counter[p] = mark[k].counter
    BY Sizes
  <2>2. mark'[k + 1].gid = mark[k].gid + 1 /\ mark'[k + 1].counter = mark[k].counter
    BY AndFields
  <2> QED
    BY <2>1, <2>2 DEF Counted
<1>5. Supplied(p)
  BY AndFields, PoolIdle
<1> QED
  BY <1>1, <1>2, <1>3, <1>4, <1>5

(* Action GenAnd: the garbler's and_gate sends the table of the gate at her*)
(* counter.                                                                *)
LEMMA GenAndStep == ASSUME IInv, GenAnd
  PROVE  IInv'
<1> PICK p \in Party : p = "ALICE" /\ Peer(p) = "BOB"
  BY Parties
<1>1. PICK c \in Options(p) :
        LET g == Garble(wire[p][c.i], wire[p][c.j], delta, gid[p] + 1)
        IN /\ c.op = "and"
           /\ Do(p, c)
           /\ gid' = [gid EXCEPT ![p] = @ + 1]
           /\ Adds(p, <<g.label>>)
           /\ Sends(p, <<Msg("table", g.table)>>)
           /\ Done(p)
           /\ UNCHANGED <<pc, delta, constant, counter, pool, part, out>>
  BY Zenon DEF GenAnd
<1>2. PICK g : g = Garble(wire[p][c.i], wire[p][c.j], delta, gid[p] + 1)
  OBVIOUS
<1>3. /\ c.op = "and"
      /\ Do(p, c)
      /\ gid' = [gid EXCEPT ![p] = @ + 1]
      /\ Adds(p, <<g.label>>)
      /\ Sends(p, <<Msg("table", g.table)>>)
      /\ Done(p)
      /\ pc' = pc /\ delta' = delta /\ constant' = constant
      /\ counter' = counter /\ out' = out
      /\ UNCHANGED <<pool, part, delta>>
  BY <1>1, <1>2
<1>4. Moves(p, c)
  BY <1>3, DoMoves
<1>5. PICK k : k = at[p]
  OBVIOUS
<1>6. /\ gid[p] = mark[k].gid /\ mark[k].gid \in Nat /\ mark[k].gid + 1 \in Nat
      /\ gid' \in [Party -> Nat] /\ gid'[p] = mark[k].gid + 1 /\ gid'[Peer(p)] = gid[Peer(p)]
  <2>1. gid \in [Party -> Nat] /\ gid[p] = mark[k].gid
    BY <1>4, <1>5, Sizes
  <2>2. mark[k].gid \in Nat /\ mark[k].gid + 1 \in Nat
    BY <1>3, <1>4, <1>5, AndFields
  <2>3. Peer(p) \in Party /\ Peer(p) # p
    BY PeerFacts
  <2> QED
    BY <1>3, <2>1, <2>2, <2>3
<1>7. g.table \in Block \X Block /\ g.label \in Block
  <2>1. wire[p][c.i] \in Block /\ wire[p][c.j] \in Block
    BY <1>3, <1>4, CallWires
  <2>2. delta \in Block
    BY DEF IInv, TypeOK
  <2> QED
    BY <1>2, <1>6, <2>1, <2>2, GarbleBlock
<1>8. /\ Labelled(p) /\ wire'[p][mark[k].wires + 1] = g.label
      /\ wire'[p][c.i] = wire[p][c.i] /\ wire'[p][c.j] = wire[p][c.j]
      /\ Told(p) /\ Counted(p) /\ Supplied(p)
  <2>1. PICK label, labels : label = g.label /\ labels = <<label>>
    OBVIOUS
  <2>2. Adds(p, labels) /\ label \in Block
    BY <1>3, <1>7, <2>1
  <2> QED
    BY <1>3, <1>4, <1>5, <1>6, <2>1, <2>2, AndAdds
<1>9. /\ Mailed
      /\ net'["BOB"][(mark[k].to["BOB"] + 1) - Read("BOB")'] = Msg("table", g.table)
  <2>1. PICK msgs : msgs = <<Msg("table", g.table)>>
    OBVIOUS
  <2>2. Msg("table", g.table) \in Message
    BY <1>7, MsgTyped
  <2>3. msgs \in Seq(Message) /\ Len(msgs) = 1 /\ msgs[1] = Msg("table", g.table) /\ 1 \in 1 .. Len(msgs)
    BY <2>1, <2>2, OneFacts
  <2>4. /\ mark'[k + 1].to[Peer(p)] = mark[k].to[Peer(p)] + Len(msgs)
        /\ mark'[k + 1].to[p] = mark[k].to[p]
    BY <1>3, <1>4, <1>5, <2>3, AndFields
  <2>5. Sends(p, msgs)
    BY <1>3, <2>1
  <2>6. /\ Mailed
        /\ \A i \in 1 .. Len(msgs) :
             net'[Peer(p)][(mark[k].to[Peer(p)] + i) - Read(Peer(p))'] = msgs[i]
    BY <1>4, <1>5, <2>3, <2>4, <2>5, MailSends
  <2> QED
    BY <2>3, <2>6
<1>10. script'[k] = c /\ mark'[k] = mark[k] /\ delta' = delta
  BY <1>3, <1>4, <1>5 DEF Moves, Makes
<1>11. g = Garble(wire'["ALICE"][c.i], wire'["ALICE"][c.j], delta', mark'[k].gid + 1)
  BY <1>2, <1>6, <1>8, <1>10
<1>12. ToBob(k)'
  BY <1>3, <1>9, <1>10, <1>11 DEF ToBob, Due
<1>13. CallLabels(p, k)'
  BY <1>3, <1>8, <1>10, <1>11 DEF CallLabels, FeedsBob
<1>14. Given(p, k)'
  BY <1>3, <1>4, <1>5, Silent
<1>15. ~(k < Call(Peer(p)))
  <2>1. mark'[at[p] + 1].to[Peer(p)] > mark[at[p]].to[Peer(p)]
    BY <1>3, <1>4, <1>5, AndFields
  <2>2. Placed /\ Grows /\ pc[p] = "run"
    BY <1>4, InvPlaced DEF Moves, Makes
  <2>3. Call(Peer(p)) <= k
    BY <1>5, <2>1, <2>2, NotPast
  <2>4. Call("BOB") \in Nat /\ k \in Nat
    BY <1>4, <1>5, <2>2, MovesTo, Where, Parties
  <2> QED
    BY <2>3, <2>4
<1> QED
  BY <1>3, <1>4, <1>5, <1>8, <1>9, <1>12, <1>13, <1>14, <1>15, Completes

(* Action EvaAnd: the evaluator's and_gate takes the table of this gate,   *)
(* made under the same gate counter; AndGateCorrect gives the label.       *)
LEMMA EvaAndStep == ASSUME IInv, EvaAnd
  PROVE  IInv'
<1> PICK p \in Party : p = "BOB" /\ Peer(p) = "ALICE"
  BY Parties
<1>1. PICK c \in Options(p) :
        /\ c.op = "and"
        /\ Do(p, c)
        /\ Arrived(p, "table")
        /\ gid' = [gid EXCEPT ![p] = @ + 1]
        /\ Adds(p, <<Eval(wire[p][c.i], wire[p][c.j], Data(p), gid'[p])>>)
        /\ Takes(p)
        /\ Done(p)
        /\ UNCHANGED <<pc, delta, constant, counter, pool, part, out>>
  BY Zenon DEF EvaAnd
<1>2. /\ pc' = pc /\ delta' = delta /\ constant' = constant
      /\ counter' = counter /\ out' = out
      /\ UNCHANGED <<pool, part, delta>>
  BY <1>1
<1>3. Moves(p, c)
  BY <1>1, <1>2, DoMoves
<1>4. PICK k : k = at[p]
  OBVIOUS
<1>5. PICK m : m = Head(net[p])
  OBVIOUS
<1>6. net[p] # <<>> /\ m.kind = "table" /\ Data(p) = m.data
  BY <1>1, <1>5 DEF Arrived, Data
<1>7. /\ gid'[p] = mark[k].gid + 1 /\ mark[k].gid + 1 \in Nat
      /\ gid' \in [Party -> Nat] /\ gid'[Peer(p)] = gid[Peer(p)]
  <2>1. gid \in [Party -> Nat] /\ gid[p] = mark[k].gid
    BY <1>3, <1>4, Sizes
  <2>2. mark[k].gid \in Nat /\ mark[k].gid + 1 \in Nat
    BY <1>1, <1>3, <1>4, AndFields
  <2>3. Peer(p) \in Party /\ Peer(p) # p
    BY PeerFacts
  <2> QED
    BY <1>1, <2>1, <2>2, <2>3
<1>8. /\ Mailed
      /\ m = Due(p, mark[k].to[p] + 1)
      /\ m \in Message
  <2>1. /\ mark'[k + 1].to[p] = mark[k].to[p] + 1
        /\ mark'[k + 1].to[Peer(p)] = mark[k].to[Peer(p)]
    BY <1>1, <1>3, <1>4, AndFields
  <2> QED
    BY <1>1, <1>3, <1>4, <1>5, <1>6, <2>1, MailTakes
<1>9. k \in 1 .. Len(script) /\ script[k] = c /\ LSB(delta)
      /\ m = Msg("table", Garble(wire["ALICE"][c.i], wire["ALICE"][c.j], delta, mark[k].gid + 1).table)
  <2>1. k \in 1 .. Len(script) /\ script[k] = c /\ LSB(delta) /\ ToBob(k)
    BY <1>3, <1>4, <1>6, Answers
  <2> QED
    BY <1>1, <1>8, <2>1 DEF ToBob
<1>10. PICK label : label = Eval(wire[p][c.i], wire[p][c.j], m.data, mark[k].gid + 1)
  OBVIOUS
<1>11. label \in Block
  <2>1. wire[p][c.i] \in Block /\ wire[p][c.j] \in Block
    BY <1>1, <1>3, CallWires
  <2>2. m.data \in Block \X Block
    BY <1>6, <1>8, MessageData
  <2> QED
    BY <1>7, <1>10, <2>1, <2>2, EvalBlock
<1>12. /\ Labelled(p) /\ wire'[p][mark[k].wires + 1] = label
       /\ wire'[p][c.i] = wire[p][c.i] /\ wire'[p][c.j] = wire[p][c.j]
       /\ Told(p) /\ Counted(p) /\ Supplied(p)
  <2>1. PICK labels : labels = <<label>>
    OBVIOUS
  <2>2. Adds(p, labels)
    BY <1>1, <1>6, <1>7, <1>10, <2>1
  <2> QED
    BY <1>1, <1>2, <1>3, <1>4, <1>7, <1>11, <2>1, <2>2, AndAdds
<1>13. script'[k] = c /\ mark'[k] = mark[k]
  BY <1>3, <1>4 DEF Moves, Makes
<1>14. CallLabels(p, k)'
  BY <1>1, <1>13 DEF CallLabels, FeedsBob
<1>15. Given(p, k)' /\ ToAlice(k)'
  BY <1>1, <1>3, <1>4, Silent DEF FeedsBob
<1>16. ASSUME k < Call(Peer(p))
       PROVE  NewMatch(k)
  <2>1. Onward
    BY <1>2, <1>3, <1>12, MovesOnward DEF Supplied
  <2>2. CallLabels("ALICE", k)'
    BY <1>3, <1>4, <1>16, <2>1, PeerAhead
  <2>3. c.i \in 1 .. mark[k].wires /\ c.j \in 1 .. mark[k].wires
    BY <1>1, <1>3, <1>4, CallWires
  <2>4. PICK a, b, va, vb, d : a = wire["ALICE"][c.i] /\ b = wire["ALICE"][c.j] /\ va = val[c.i]
                               /\ vb = val[c.j] /\ d = delta
    OBVIOUS
  <2>5. /\ wire[p][c.i] = Active(a, va, d) /\ va \in BOOLEAN /\ wire'["ALICE"][c.i] = a /\ val'[c.i] = va
        /\ wire[p][c.j] = Active(b, vb, d) /\ vb \in BOOLEAN /\ wire'["ALICE"][c.j] = b /\ val'[c.j] = vb
    BY <1>3, <1>4, <1>16, <2>1, <2>3, <2>4, PeerAhead
  <2>6. m.data = Garble(a, b, d, mark[k].gid + 1).table
    BY <1>9, <2>4 DEF Msg
  <2>7. PICK g : g = mark[k].gid + 1
    OBVIOUS
  <2>8. label = Active(Garble(a, b, d, g).label, va /\ vb, d)
    <3>1. LSB(d)
      BY <1>9, <2>4
    <3>2. Eval(Active(a, va, d), Active(b, vb, d), Garble(a, b, d, g).table, g) =
            Active(Garble(a, b, d, g).label, va /\ vb, d)
      BY <2>5, <3>1, AndGateCorrect
    <3> QED
      BY <1>10, <2>5, <2>6, <2>7, <3>2
  <2>9. wire'["ALICE"][mark[k].wires + 1] = Garble(a, b, d, g).label
    BY <1>1, <1>2, <1>13, <2>2, <2>4, <2>5, <2>7 DEF CallLabels
  <2>10. val'[mark[k].wires + 1] = (va /\ vb)
    <3>1. val'[mark[k].wires + 1] = (val'[c.i] /\ val'[c.j])
      BY <1>1, <1>3, <1>4, MovesCall
    <3> QED
      BY <2>5, <3>1
  <2>11. wire'["BOB"][mark[k].wires + 1] =
           Active(wire'["ALICE"][mark[k].wires + 1], val'[mark[k].wires + 1], delta')
    BY <1>2, <1>12, <2>4, <2>8, <2>9, <2>10
  <2>12. mark[k].wires \in Nat /\ mark'[k + 1].wires = mark[k].wires + 1
    BY <1>1, <1>3, <1>4, AndFields
  <2>13. \A w \in mark[k].wires + 1 .. mark'[k + 1].wires : w = mark[k].wires + 1
    BY <2>12
  <2> QED
    BY <2>11, <2>13 DEF NewMatch
<1> QED
  BY <1>2, <1>3, <1>4, <1>8, <1>12, <1>14, <1>15, <1>16, Completes

-----------------------------------------------------------------------------
(* reveal *)

(* The marks on either side of a reveal. *)
LEMMA RevealFields == ASSUME IInv, NEW p \in Party, NEW c, Moves(p, c), NEW k, k = at[p], c.op = "reveal"
  PROVE  /\ mark'[k + 1].gid = mark[k].gid
         /\ mark'[k + 1].counter = mark[k].counter
         /\ mark'[k + 1].used = mark[k].used
         /\ mark'[k + 1].stocked = mark[k].stocked
         /\ mark'[k + 1].wires = mark[k].wires
         /\ mark'[k + 1].reveals = mark[k].reveals + 1
         /\ mark'[k + 1].to["ALICE"] = IF c.who \in {"ALICE", "PUBLIC"} THEN mark[k].to["ALICE"] + 1
                                       ELSE mark[k].to["ALICE"]
         /\ mark'[k + 1].to["BOB"] = IF c.who \in {"BOB", "PUBLIC"} THEN mark[k].to["BOB"] + 1
                                     ELSE mark[k].to["BOB"]
         /\ mark[k].to["ALICE"] \in Nat /\ mark[k].to["BOB"] \in Nat /\ mark[k].wires \in Nat
<1>1. ~FeedsBob(c) /\ c.op # "feed" /\ c.op # "and" /\ c.op \notin {"and", "xor", "not"}
  BY DEF FeedsBob
<1>2. mark'[k + 1].gid = mark[k].gid /\ mark'[k + 1].counter = mark[k].counter
  BY <1>1, MovesFields
<1>3. mark'[k + 1].used = mark[k].used /\ mark'[k + 1].stocked = mark[k].stocked
  BY <1>1, MovesFields
<1>4. mark[k].to["ALICE"] \in Nat /\ mark[k].to["BOB"] \in Nat /\ mark[k].wires \in Nat
  BY MovesFields
<1>5. mark'[k + 1].wires = mark[k].wires
  <2>1. mark'[k + 1].wires = mark[k].wires + Len(c.bits)
    BY <1>1, MovesFields
  <2>2. Len(c.bits) = 0
    BY CallWires
  <2> QED
    BY <1>4, <2>1, <2>2
<1>6. mark'[k + 1].reveals = mark[k].reveals + 1
  BY <1>1, MovesFields
<1>7. mark'[k + 1].to["ALICE"] = IF c.who \in {"ALICE", "PUBLIC"} THEN mark[k].to["ALICE"] + 1
                                 ELSE mark[k].to["ALICE"]
  BY <1>1, MovesFields
<1>8. mark'[k + 1].to["BOB"] = IF c.who \in {"BOB", "PUBLIC"} THEN mark[k].to["BOB"] + 1
                               ELSE mark[k].to["BOB"]
  BY <1>1, MovesFields
<1> QED
  BY <1>2, <1>3, <1>4, <1>5, <1>6, <1>7, <1>8

(* The lsbs of a reveal, and the outputs of a party that learns nothing. *)
LEMMA LsbsTyped == ASSUME NEW p, NEW c, NEW n \in Nat, n = c.j - c.i + 1
  PROVE  /\ Lsbs(p, c) \in Seq(BOOLEAN) /\ Len(Lsbs(p, c)) = n
         /\ \A x \in 1 .. n : Lsbs(p, c)[x] = LSB(wire[p][c.i + x - 1])
         /\ Nothing(c) \in Seq(BOOLEAN) /\ Len(Nothing(c)) = n
<1>1. Lsbs(p, c) = [x \in 1 .. n |-> LSB(wire[p][c.i + x - 1])]
  BY DEF Lsbs
<1>2. Nothing(c) = [x \in 1 .. n |-> FALSE]
  BY DEF Nothing
<1>3. Lsbs(p, c) \in [1 .. n -> BOOLEAN]
  BY <1>1, LSBBoolean
<1>4. Nothing(c) \in [1 .. n -> BOOLEAN]
  BY <1>2
<1>5. Lsbs(p, c) \in Seq(BOOLEAN) /\ Len(Lsbs(p, c)) = n
  BY <1>3, FunSeq
<1>6. Nothing(c) \in Seq(BOOLEAN) /\ Len(Nothing(c)) = n
  BY <1>4, FunSeq
<1> QED
  BY <1>1, <1>5, <1>6

(* What a reveal does at either party *)
LEMMA RevealGives ==
  ASSUME IInv, NEW p \in Party, NEW c, Moves(p, c), NEW k, k = at[p], c.op = "reveal",
         NEW bits \in Seq(BOOLEAN), Gives(p, bits),
         wire' = wire, gid' = gid, counter' = counter, UNCHANGED <<pool, part, delta>>
  PROVE  /\ Told(p) /\ out'[p][mark[k].reveals + 1] = bits
         /\ Labelled(p) /\ Counted(p) /\ Supplied(p)
         /\ CallLabels(p, k)'
         /\ NewMatch(k)
<1>1. Told(p) /\ out'[p][mark[k].reveals + 1] = bits
  BY RevealFields, GivesTold
<1>2. Labelled(p)
  BY RevealFields, NoLabels
<1>3. Counted(p)
  BY RevealFields, SameCounts
<1>4. Supplied(p)
  BY RevealFields, PoolIdle
<1>5. CallLabels(p, k)'
  <2>1. script'[k] = c
    BY DEF Moves, Makes
  <2> QED
    BY <2>1 DEF CallLabels, FeedsBob
<1>6. NewMatch(k)
  <2>1. mark'[k + 1].wires = mark[k].wires /\ mark[k].wires \in Nat
    BY RevealFields
  <2>2. mark[k].wires + 1 .. mark'[k + 1].wires = {}
    BY <2>1
  <2> QED
    BY <2>2 DEF NewMatch
<1> QED
  BY <1>1, <1>2, <1>3, <1>4, <1>5, <1>6

(* A reveal asks for a range of wires. *)
LEMMA RevealSize == ASSUME IInv, NEW p \in Party, NEW c, Moves(p, c), c.op = "reveal"
  PROVE  /\ c.j - c.i + 1 \in Nat
         /\ c.i \in 1 .. Len(wire[p]) /\ c.j \in 1 .. Len(wire[p]) /\ c.i <= c.j
         /\ Len(wire[p]) \in Nat
<1>1. c.i \in 1 .. Len(wire[p]) /\ c.j \in 1 .. Len(wire[p]) /\ c.i <= c.j
  BY CallWires
<1>2. Len(wire[p]) \in Nat
  BY LenProperties DEF IInv, TypeOK
<1> QED
  BY <1>1, <1>2

(* Action RevealShare: XOR shares, without a message. *)
LEMMA RevealShareStep == ASSUME IInv, NEW p \in Party, RevealShare(p)
  PROVE  IInv'
<1>1. PICK c \in Options(p) :
        /\ c.op = "reveal" /\ c.who = "XOR"
        /\ Do(p, c)
        /\ Gives(p, Lsbs(p, c))
        /\ Done(p)
        /\ UNCHANGED <<pc, net, gates, wire, counter, pool, part>>
  BY DEF RevealShare
<1>2. /\ pc' = pc /\ net' = net /\ delta' = delta /\ constant' = constant /\ gid' = gid
      /\ counter' = counter /\ wire' = wire /\ UNCHANGED <<pool, part, delta>>
  BY <1>1 DEF gates
<1>3. Moves(p, c)
  BY <1>1, <1>2, DoMoves
<1>4. PICK k : k = at[p]
  OBVIOUS
<1>5. PICK bits : bits = Lsbs(p, c)
  OBVIOUS
<1>6. bits \in Seq(BOOLEAN)
  BY <1>1, <1>3, <1>5, RevealSize, LsbsTyped
<1>7. /\ Told(p) /\ out'[p][mark[k].reveals + 1] = bits
      /\ Labelled(p) /\ Counted(p) /\ Supplied(p)
      /\ CallLabels(p, k)'
      /\ NewMatch(k)
  <2>1. Gives(p, bits)
    BY <1>1, <1>5
  <2> QED
    BY <1>1, <1>2, <1>3, <1>4, <1>6, <2>1, RevealGives
<1>8. Mailed
  <2>1. \A r \in Party : mark'[k + 1].to[r] = mark[k].to[r]
    BY <1>1, <1>3, <1>4, RevealFields DEF Party
  <2> QED
    BY <1>2, <1>3, <1>4, <2>1, MailIdle
<1>9. /\ ToBob(k)' /\ ToAlice(k)'
  BY <1>1, <1>3, <1>4, Silent DEF FeedsBob
<1>10. script'[k] = c /\ mark'[k] = mark[k]
  BY <1>3, <1>4 DEF Moves, Makes
<1>11. Lsbs(p, c)' = bits
  BY <1>2, <1>5 DEF Lsbs
<1>12. Given(p, k)'
  <2>1. c.who # p /\ c.who # "PUBLIC" /\ c.who # Peer(p)
    BY <1>1 DEF Party, Peer
  <2> QED
    BY <1>7, <1>10, <1>11, <2>1 DEF Given
<1> QED
  BY <1>2, <1>3, <1>4, <1>7, <1>8, <1>9, <1>12, Completes

(* Action RevealTo: a party sends its lsbs to the one that learns. *)
LEMMA RevealToStep == ASSUME IInv, NEW p \in Party, RevealTo(p)
  PROVE  IInv'
<1>1. PICK c \in Options(p) :
        /\ c.op = "reveal" /\ c.who = Peer(p)
        /\ Do(p, c)
        /\ Sends(p, <<Msg("lsbs", Lsbs(p, c))>>)
        /\ Gives(p, Nothing(c))
        /\ Done(p)
        /\ UNCHANGED <<pc, gates, wire, counter, pool, part>>
  BY DEF RevealTo
<1>2. /\ pc' = pc /\ delta' = delta /\ constant' = constant /\ gid' = gid
      /\ counter' = counter /\ wire' = wire /\ UNCHANGED <<pool, part, delta>>
  BY <1>1 DEF gates
<1>3. Moves(p, c)
  BY <1>1, <1>2, DoMoves
<1>4. PICK k : k = at[p]
  OBVIOUS
<1>5. PICK bits, sent, q : bits = Nothing(c) /\ sent = Lsbs(p, c) /\ q = Peer(p)
  OBVIOUS
<1>6. bits \in Seq(BOOLEAN) /\ sent \in Seq(BOOLEAN)
  BY <1>1, <1>3, <1>5, RevealSize, LsbsTyped
<1>7. /\ Told(p) /\ out'[p][mark[k].reveals + 1] = bits
      /\ Labelled(p) /\ Counted(p) /\ Supplied(p)
      /\ CallLabels(p, k)'
      /\ NewMatch(k)
  <2>1. Gives(p, bits)
    BY <1>1, <1>5
  <2> QED
    BY <1>1, <1>2, <1>3, <1>4, <1>6, <2>1, RevealGives
<1>8. q \in Party /\ q # p /\ Peer(p) = q /\ p \in {"ALICE", "BOB"} /\ q \in {"ALICE", "BOB"} /\ c.who = q
  BY <1>1, <1>5, PeerFacts DEF Party
<1>9. /\ Mailed
      /\ net'[q][(mark[k].to[q] + 1) - Read(q)'] = Msg("lsbs", sent)
  <2>1. PICK msgs : msgs = <<Msg("lsbs", sent)>>
    OBVIOUS
  <2>2. Msg("lsbs", sent) \in Message
    BY <1>6, MsgTyped
  <2>3. msgs \in Seq(Message) /\ Len(msgs) = 1 /\ msgs[1] = Msg("lsbs", sent) /\ 1 \in 1 .. Len(msgs)
    BY <2>1, <2>2, OneFacts
  <2>4. mark'[k + 1].to[q] = mark[k].to[q] + 1 /\ mark'[k + 1].to[p] = mark[k].to[p]
    BY <1>1, <1>3, <1>4, <1>8, RevealFields
  <2>5. Sends(p, msgs)
    BY <1>1, <1>5, <2>1
  <2>6. /\ Mailed
        /\ \A i \in 1 .. Len(msgs) :
             net'[Peer(p)][(mark[k].to[Peer(p)] + i) - Read(Peer(p))'] = msgs[i]
    BY <1>3, <1>4, <1>8, <2>3, <2>4, <2>5, MailSends
  <2> QED
    BY <1>8, <2>3, <2>6
<1>10. script'[k] = c /\ mark'[k] = mark[k]
  BY <1>3, <1>4 DEF Moves, Makes
<1>11. Lsbs(p, c)' = sent
  BY <1>2, <1>5 DEF Lsbs
<1>12. (p = "ALICE" /\ Call("BOB") <= k) => ToBob(k)'
  <2>1. SUFFICES ASSUME p = "ALICE" PROVE ToBob(k)'
    OBVIOUS
  <2>2. q = "BOB"
    BY <1>5, <2>1, Parties
  <2> QED
    BY <1>1, <1>9, <1>10, <1>11, <2>1, <2>2 DEF ToBob, Due
<1>13. (p = "BOB" /\ Call("ALICE") <= k) => ToAlice(k)'
  <2>1. SUFFICES ASSUME p = "BOB" PROVE ToAlice(k)'
    OBVIOUS
  <2>2. q = "ALICE"
    BY <1>5, <2>1, Parties
  <2>3. mark'[k + 1].to["ALICE"] = mark[k].to["ALICE"] + 1 /\ mark'[k + 1].stocked = mark[k].stocked
    BY <1>1, <1>3, <1>4, <1>8, <2>2, RevealFields
  <2> QED
    BY <1>1, <1>8, <1>9, <1>10, <1>11, <2>1, <2>2, <2>3 DEF ToAlice, Due, FeedsBob
<1>14. Given(p, k)'
  <2>1. c.who # p /\ c.who # "PUBLIC" /\ c.who = Peer(p) /\ c.who # "XOR"
    BY <1>1, <1>8
  <2>2. Nothing(c)' = bits
    BY <1>5
  <2> QED
    BY <1>7, <1>10, <2>1, <2>2 DEF Given
<1> QED
  BY <1>2, <1>3, <1>4, <1>7, <1>9, <1>12, <1>13, <1>14, Completes

-----------------------------------------------------------------------------
(* What a reveal opens: the lsbs of the two labels of a wire differ by its *)
(* value.                                                                  *)
Bits(A, i, j) == [x \in 1 .. j - i + 1 |-> LSB(A[i + x - 1])]
Opening(A, B, v, d, i, j, a, b, s) ==
  /\ v \in Seq(BOOLEAN) /\ LSB(d)
  /\ i \in 1 .. Len(v) /\ j \in 1 .. Len(v) /\ i <= j
  /\ a = Bits(A, i, j) /\ b = Bits(B, i, j) /\ s = SubSeq(v, i, j)
  /\ \A w \in i .. j : B[w] = Active(A[w], v[w], d)

(* A label's lsb and its pair's differ by the value, because delta's lsb is*)
(* set: xor of the two gives the values, and of the values and one of them *)
(* the other.                                                              *)
LEMMA Decode ==
  ASSUME NEW A, NEW B, NEW v, NEW d, NEW i, NEW j, NEW a, NEW b, NEW s,
         Opening(A, B, v, d, i, j, a, b, s)
  PROVE  /\ Differ(a, b) = s /\ Differ(b, a) = s
         /\ Differ(a, s) = b /\ Differ(b, s) = a
<1> PICK n : n = j - i + 1
  OBVIOUS
<1>0. /\ v \in Seq(BOOLEAN) /\ LSB(d)
      /\ i \in 1 .. Len(v) /\ j \in 1 .. Len(v) /\ i <= j
      /\ a = [x \in 1 .. n |-> LSB(A[i + x - 1])] /\ b = [x \in 1 .. n |-> LSB(B[i + x - 1])]
      /\ s = SubSeq(v, i, j)
      /\ \A w \in i .. j : B[w] = Active(A[w], v[w], d)
  BY DEF Bits, Opening
<1>1. n \in Nat /\ i \in Nat /\ j \in Nat /\ Len(v) \in Nat
  BY <1>0, LenProperties
<1>2. s \in Seq(BOOLEAN) /\ Len(s) = n /\ \A x \in 1 .. n : s[x] = v[i + x - 1]
  BY <1>0, Segment
<1>3. DOMAIN s = 1 .. n /\ s = [x \in 1 .. n |-> s[x]]
  <2>1. s \in [1 .. n -> BOOLEAN]
    BY <1>2, LenProperties
  <2> QED
    BY <2>1
<1>4. ASSUME NEW x \in 1 .. n
      PROVE  /\ a[x] \in BOOLEAN /\ b[x] \in BOOLEAN /\ s[x] \in BOOLEAN
             /\ b[x] = (a[x] # s[x])
  <2>1. PICK w : w = i + x - 1
    OBVIOUS
  <2>2. w \in i .. j /\ w \in 1 .. Len(v)
    BY <1>0, <1>1, <2>1
  <2>3. v[w] \in BOOLEAN
    BY <1>0, <2>2, SeqAt
  <2>4. PICK f \in BOOLEAN : f = v[w]
    BY <2>3
  <2>5. PICK y : y = A[w]
    OBVIOUS
  <2>6. B[w] = Active(y, f, d)
    BY <1>0, <2>2, <2>4, <2>5
  <2>7. LSB(Active(y, f, d)) <=> (LSB(y) # f)
    BY <1>0, PermuteBit
  <2>8. a[x] = LSB(y) /\ b[x] = LSB(Active(y, f, d)) /\ s[x] = f
    BY <1>0, <1>2, <2>1, <2>4, <2>5, <2>6
  <2>9. LSB(y) \in BOOLEAN /\ LSB(Active(y, f, d)) \in BOOLEAN
    BY LSBBoolean
  <2> QED
    BY <2>7, <2>8, <2>9
<1>5. DOMAIN a = 1 .. n /\ DOMAIN b = 1 .. n
  BY <1>0
<1>6. ASSUME NEW x \in 1 .. n
      PROVE  /\ (a[x] # b[x]) = s[x] /\ (b[x] # a[x]) = s[x]
             /\ (a[x] # s[x]) = b[x] /\ (b[x] # s[x]) = a[x]
  BY <1>4
<1>7. Differ(a, b) = s /\ Differ(b, a) = s
  BY <1>3, <1>5, <1>6 DEF Differ
<1>8. a = [x \in 1 .. n |-> a[x]] /\ b = [x \in 1 .. n |-> b[x]]
  BY <1>0
<1>9. Differ(a, s) = b /\ Differ(b, s) = a
  BY <1>5, <1>6, <1>8 DEF Differ
<1> QED
  BY <1>7, <1>9

(* The labels of wires that both parties have *)
LEMMA OldMatch ==
  ASSUME IInv, NEW k \in 1 .. Len(script) + 1, k <= Call("ALICE"), k <= Call("BOB"),
         NEW i \in 1 .. mark[k].wires
  PROVE  wire["BOB"][i] = Active(wire["ALICE"][i], val[i], delta)
<1>0. Placed /\ ProgramInv
  BY InvPlaced, InvProgram
<1>1. ASSUME NEW r \in Party
      PROVE  i \in 1 .. Len(wire[r])
  <2>1. Call(r) \in 1 .. Len(script) + 1 /\ Len(wire[r]) = mark[Call(r)].wires /\ k <= Call(r)
    BY <1>0, Where DEF IInv, Counters, Party
  <2>2. mark[k].wires <= mark[Call(r)].wires /\ mark[k].wires \in Nat /\ mark[Call(r)].wires \in Nat
    BY <1>0, <2>1, Marks, MarkTyped
  <2> QED
    BY <2>1, <2>2
<1>2. i \in 1 .. Len(wire["ALICE"]) /\ i \in 1 .. Len(wire["BOB"])
  BY <1>1, Parties
<1>3. wire \in [Party -> Seq(Block)]
  BY DEF IInv, TypeOK
<1>4. i \in Both
  BY <1>2, <1>3, BothFacts
<1> QED
  BY <1>4 DEF IInv, Labels, LabelsMatch

(* The wires of a reveal that both parties can make *)
LEMMA Opens ==
  ASSUME IInv, NEW p \in Party, NEW k \in 1 .. Len(script), script[k].op = "reveal",
         k <= Call(p), k <= Call(Peer(p)), LSB(delta)
  PROVE  LET c == script[k]
         IN /\ Differ(Lsbs(Peer(p), c), Lsbs(p, c)) = Clears(c)
            /\ Differ(Lsbs(p, c), Clears(c)) = Lsbs(Peer(p), c)
            /\ Clears(c) \in Seq(BOOLEAN)
            /\ c.i \in 1 .. Len(val) /\ c.j \in 1 .. Len(val) /\ c.i <= c.j
<1> PICK c : c = script[k]
  OBVIOUS
<1>0. Placed /\ ProgramInv /\ k \in 1 .. Len(script) + 1
  BY InvPlaced, InvProgram, MarkTyped
<1>1. k <= Call("ALICE") /\ k <= Call("BOB")
  BY Parties DEF Party
<1>2. c.i \in 1 .. mark[k].wires /\ c.j \in 1 .. mark[k].wires /\ c.i <= c.j
  BY DEF IInv, Program, CallOK
<1>3. mark[k].wires \in Nat /\ mark[k].wires <= Len(val) /\ Len(val) \in Nat
  <2>1. Len(wire["ALICE"]) = mark[Call("ALICE")].wires /\ Call("ALICE") \in 1 .. Len(script) + 1
    BY <1>0, Where, Parties DEF IInv, Counters
  <2>2. /\ mark[k].wires <= mark[Call("ALICE")].wires /\ mark[k].wires \in Nat
        /\ mark[Call("ALICE")].wires \in Nat
    BY <1>0, <1>1, <2>1, Marks, MarkTyped
  <2>3. Len(wire["ALICE"]) <= Len(val) /\ Len(val) \in Nat
    BY WiresInVal, Parties
  <2> QED
    BY <2>1, <2>2, <2>3
<1>4. c.i \in 1 .. Len(val) /\ c.j \in 1 .. Len(val) /\ c.i \in Nat /\ c.j \in Nat
  BY <1>2, <1>3
<1>5. \A w \in c.i .. c.j : wire["BOB"][w] = Active(wire["ALICE"][w], val[w], delta)
  <2>1. ASSUME NEW w \in c.i .. c.j
        PROVE  w \in 1 .. mark[k].wires
    BY <1>2, <1>3
  <2> QED
    BY <1>0, <1>1, <2>1, OldMatch
<1>6. PICK i, j, v, d, A, B : /\ i = c.i /\ j = c.j /\ v = val /\ d = delta
                              /\ A = wire["ALICE"] /\ B = wire["BOB"]
  OBVIOUS
<1>7. PICK a, b, s : a = Lsbs("ALICE", c) /\ b = Lsbs("BOB", c) /\ s = Clears(c)
  OBVIOUS
<1>8. a = Bits(A, i, j) /\ b = Bits(B, i, j) /\ s = SubSeq(v, i, j)
  BY <1>6, <1>7 DEF Lsbs, Bits, Clears
<1>9. v \in Seq(BOOLEAN)
  BY <1>6 DEF IInv, TypeOK
<1>10. Opening(A, B, v, d, i, j, a, b, s)
  BY <1>2, <1>4, <1>5, <1>6, <1>8, <1>9 DEF Opening
<1>11. s \in Seq(BOOLEAN)
  BY <1>2, <1>4, <1>6, <1>8, <1>9, Segment
<1>12. Differ(a, b) = s /\ Differ(b, a) = s /\ Differ(a, s) = b /\ Differ(b, s) = a
  BY <1>10, Decode
<1>13. /\ p = "ALICE" => Lsbs(p, c) = a /\ Lsbs(Peer(p), c) = b
       /\ p = "BOB" => Lsbs(p, c) = b /\ Lsbs(Peer(p), c) = a
  BY <1>7, Parties
<1> QED
  BY <1>2, <1>4, <1>7, <1>11, <1>12, <1>13 DEF Party

(* Action Learn: the party that learns takes its peer's lsbs of this       *)
(* reveal.                                                                 *)
LEMMA LearnStep == ASSUME IInv, NEW p \in Party, Learn(p)
  PROVE  IInv'
<1>1. PICK c \in Options(p) :
        /\ c.op = "reveal" /\ c.who = p
        /\ Do(p, c)
        /\ Arrived(p, "lsbs")
        /\ Gives(p, Differ(Data(p), Lsbs(p, c)))
        /\ Takes(p)
        /\ Done(p)
        /\ UNCHANGED <<pc, gates, wire, counter, pool, part>>
  BY DEF Learn
<1>2. /\ pc' = pc /\ delta' = delta /\ constant' = constant /\ gid' = gid
      /\ counter' = counter /\ wire' = wire /\ UNCHANGED <<pool, part, delta>>
  BY <1>1 DEF gates
<1>3. Moves(p, c)
  BY <1>1, <1>2, DoMoves
<1>4. PICK k : k = at[p]
  OBVIOUS
<1>5. PICK m, q : m = Head(net[p]) /\ q = Peer(p)
  OBVIOUS
<1>6. net[p] # <<>> /\ Data(p) = m.data
  BY <1>1, <1>5 DEF Arrived, Data
<1>7. q \in Party /\ q # p /\ Peer(p) = q /\ p \in {"ALICE", "BOB"} /\ q \in {"ALICE", "BOB"} /\ c.who = p
  BY <1>1, <1>5, PeerFacts DEF Party
<1>8. mark'[k + 1].to[p] = mark[k].to[p] + 1 /\ mark'[k + 1].to[q] = mark[k].to[q]
  BY <1>1, <1>3, <1>4, <1>7, RevealFields
<1>9. /\ Mailed
      /\ m = Due(p, mark[k].to[p] + 1)
      /\ m \in Message
  BY <1>1, <1>3, <1>4, <1>5, <1>6, <1>8, MailTakes
<1>10. /\ k \in 1 .. Len(script) /\ script[k] = c /\ LSB(delta)
       /\ k < Reached(q)
       /\ p = "BOB" => ToBob(k)
       /\ p = "ALICE" => ToAlice(k)
  BY <1>3, <1>4, <1>5, <1>6, Answers
<1>11. k <= Call(p) /\ k <= Call(q) /\ mark'[k + 1] = mark[k + 1] /\ ProgramInv /\ Grows
  <2>1. Placed /\ ProgramInv
    BY InvPlaced, InvProgram
  <2>2. Call(q) \in 1 .. Len(script) + 1 /\ Reached(q) <= Call(q) + 1 /\ Reached(q) \in 1 .. Len(script) + 1
    BY <1>7, <2>1, Where
  <2>3. Call(p) = k /\ k \in Nat /\ k + 1 \in 1 .. Len(script) + 1
    BY <1>3, <1>4, <1>10, <2>1, MovesTo, CallInRange
  <2>4. mark'[k + 1] = mark[k + 1] /\ Grows
    BY <1>3, <2>3 DEF Moves, Makes, Grows
  <2>5. k <= Call(p)
    BY <2>3
  <2>6. k <= Call(q)
    BY <1>10, <2>2, <2>3
  <2> QED
    BY <2>1, <2>4, <2>5, <2>6
<1>12. m.data = Lsbs(q, c)
  <2>1. CASE p = "BOB"
    <3>1. q = "ALICE"
      BY <1>5, <2>1, Parties
    <3>2. m = Msg("lsbs", Lsbs("ALICE", c))
      BY <1>1, <1>9, <1>10, <2>1 DEF ToBob
    <3> QED
      BY <3>1, <3>2 DEF Msg
  <2>2. CASE p = "ALICE"
    <3>1. q = "BOB"
      BY <1>5, <2>2, Parties
    <3>2. mark[k + 1].to["ALICE"] = mark[k].to["ALICE"] + 1
      BY <1>8, <1>11, <2>2
    <3>3. m = Msg("lsbs", Lsbs("BOB", c))
      BY <1>1, <1>9, <1>10, <2>2, <3>2 DEF ToAlice
    <3> QED
      BY <3>1, <3>3 DEF Msg
  <2> QED
    BY <1>7, <2>1, <2>2
<1>13. PICK bits : bits = Clears(c)
  OBVIOUS
<1>14. /\ Differ(Lsbs(q, c), Lsbs(p, c)) = bits /\ bits \in Seq(BOOLEAN)
       /\ c.i \in 1 .. Len(val) /\ c.j \in 1 .. Len(val) /\ c.i <= c.j
  BY <1>1, <1>5, <1>10, <1>11, <1>13, Opens
<1>15. /\ Told(p) /\ out'[p][mark[k].reveals + 1] = bits
       /\ Labelled(p) /\ Counted(p) /\ Supplied(p)
       /\ CallLabels(p, k)'
       /\ NewMatch(k)
  <2>1. Gives(p, bits)
    BY <1>1, <1>6, <1>12, <1>14
  <2> QED
    BY <1>1, <1>2, <1>3, <1>4, <1>14, <2>1, RevealGives
<1>16. Clears(c)' = bits
  <2>1. val' \in Seq(BOOLEAN)
    BY <1>3 DEF Moves, Makes, ProgramInv, ProgramTyped
  <2> QED
    BY <1>11, <1>13, <1>14, <2>1, ClearsStay
<1>17. Given(p, k)'
  <2>1. script'[k] = c /\ mark'[k] = mark[k]
    BY <1>3, <1>4 DEF Moves, Makes
  <2>2. c.who # Peer(p) /\ c.who # "XOR"
    BY <1>7
  <2> QED
    BY <1>15, <1>16, <2>1, <2>2 DEF Given
<1>18. /\ p = "ALICE" => ToBob(k)'
       /\ p = "BOB" => ToAlice(k)'
  BY <1>1, <1>3, <1>4, Silent DEF FeedsBob
<1> QED
  BY <1>2, <1>3, <1>4, <1>9, <1>15, <1>17, <1>18, Completes

Swaps(p, e) == net' = [net EXCEPT ![p] = Tail(@), ![Peer(p)] = Append(@, e)]

(* A call that takes a message and sends one. *)
LEMMA MailSwaps ==
  ASSUME IInv, NEW p \in Party, NEW c, Moves(p, c), net[p] # <<>>, NEW e \in Message,
         NEW q, q = Peer(p), Swaps(p, e),
         mark'[at[p] + 1].to[p] = mark[at[p]].to[p] + 1,
         mark'[at[p] + 1].to[q] = mark[at[p]].to[q] + 1
  PROVE  /\ Mailed
         /\ Head(net[p]) = Due(p, mark[at[p]].to[p] + 1)
         /\ Head(net[p]) \in Message
         /\ net'[q][(mark[at[p]].to[q] + 1) - Read(q)'] = e
<1>0. Placed /\ q \in Party /\ q # p /\ Peer(p) = q
  BY InvPlaced, PeerFacts
<1>1. /\ Read(p) = mark[at[p]].to[p] /\ Read(p)' = mark'[at[p] + 1].to[p]
      /\ Sent(q) = mark[at[p]].to[q] /\ Sent(q)' = mark'[at[p] + 1].to[q]
      /\ Read(q)' = Read(q) /\ Sent(p)' = Sent(p)
  BY <1>0, MovesTo
<1>2. Read(p)' = Read(p) + 1 /\ Sent(q)' = Sent(q) + 1
  BY <1>0, <1>1
<1>3. /\ net \in [Party -> Seq(Message)]
      /\ net' = [net EXCEPT ![p] = Tail(@), ![q] = Append(@, e)]
  BY <1>0 DEF Placed, Swaps
<1>4. PICK msgs : msgs = <<e>>
  OBVIOUS
<1>5. msgs \in Seq(Message) /\ Len(msgs) = 1 /\ msgs[1] = e /\ 1 \in 1 .. Len(msgs)
  BY <1>4, OneFacts
<1>6. net'[p] = Tail(net[p]) /\ net'[q] = net[q] \o msgs
  <2>1. net[q] \in Seq(Message)
    BY <1>0, <1>3
  <2>2. Append(net[q], e) = net[q] \o <<e>>
    BY <2>1, AppendIsConcat
  <2> QED
    BY <1>0, <1>3, <1>4, <2>2
<1>7. /\ DueKept(p)
      /\ net'[p] \in Seq(Message)
      /\ Len(net'[p]) = Len(net[p]) - 1
      /\ Head(net[p]) = Due(p, Read(p) + 1)
      /\ Head(net[p]) \in Message
  BY <1>0, <1>2, <1>6, QueueTakes
<1>8. /\ DueKept(q)
      /\ net'[q] \in Seq(Message)
      /\ Len(net'[q]) = Len(net[q]) + Len(msgs)
      /\ \A i \in 1 .. Len(msgs) : net'[q][Sent(q) + i - Read(q)'] = msgs[i]
  BY <1>0, <1>1, <1>5, <1>6, QueueSends
<1>9. net' \in [Party -> Seq(Message)]
  <2>1. PICK s, t : s = Tail(net[p]) /\ t = Append(net[q], e)
    OBVIOUS
  <2>2. net[q] \in Seq(Message)
    BY <1>0, <1>3
  <2>3. s \in Seq(Message) /\ t \in Seq(Message)
    BY <1>6, <1>7, <2>1, <2>2, AppendFacts
  <2>4. net' = [net EXCEPT ![p] = s, ![q] = t]
    BY <1>0, <1>3, <2>1
  <2> QED
    BY <1>0, <1>3, <2>3, <2>4
<1>10. /\ Sent(p) \in Nat /\ Read(p) \in Nat /\ Len(net[p]) = Sent(p) - Read(p)
       /\ Sent(q) \in Nat /\ Read(q) \in Nat /\ Len(net[q]) = Sent(q) - Read(q)
  BY <1>0, Counts
<1>11. Queues'
  <2>1. Len(net'[p]) = Sent(p)' - Read(p)'
    BY <1>1, <1>2, <1>7, <1>10
  <2>2. Len(net'[q]) = Sent(q)' - Read(q)'
    BY <1>1, <1>2, <1>5, <1>8, <1>10
  <2> QED
    BY <1>0, <2>1, <2>2, BothQueues
<1>12. net'[q][(mark[at[p]].to[q] + 1) - Read(q)'] = e
  <2>1. (Sent(q) + 1) - Read(q)' = Sent(q) + 1 - Read(q)'
    <3>1. PICK s, r : s = Sent(q) /\ r = Read(q)'
      OBVIOUS
    <3>2. s \in Nat /\ r \in Nat
      BY <1>1, <1>10, <3>1
    <3>3. (s + 1) - r = s + 1 - r
      BY ONLY <3>2
    <3> QED
      BY <3>1, <3>3
  <2> QED
    BY <1>1, <1>5, <1>8, <2>1
<1> QED
  BY <1>0, <1>1, <1>7, <1>8, <1>9, <1>11, <1>12, BothKept DEF Mailed

(* Action EvaRevealPublic: the evaluator takes the lsbs and returns the    *)
(* bits.                                                                   *)
LEMMA EvaRevealPublicStep == ASSUME IInv, EvaRevealPublic
  PROVE  IInv'
<1> PICK p \in Party, q \in Party : p = "BOB" /\ q = "ALICE" /\ Peer(p) = q
  BY Parties
<1>1. PICK c \in Options(p) :
        /\ c.op = "reveal" /\ c.who = "PUBLIC"
        /\ Do(p, c)
        /\ Arrived(p, "lsbs")
        /\ Gives(p, Differ(Data(p), Lsbs(p, c)))
        /\ net' = [net EXCEPT ![p] = Tail(@), ![q] = Append(@, Msg("bits", Differ(Data(p), Lsbs(p, c))))]
        /\ Done(p)
        /\ UNCHANGED <<pc, gates, wire, counter, pool, part>>
  BY DEF EvaRevealPublic
<1>2. /\ pc' = pc /\ delta' = delta /\ constant' = constant /\ gid' = gid
      /\ counter' = counter /\ wire' = wire /\ UNCHANGED <<pool, part, delta>>
  BY <1>1 DEF gates
<1>3. Moves(p, c)
  BY <1>1, <1>2, DoMoves
<1>4. PICK k : k = at[p]
  OBVIOUS
<1>5. PICK m : m = Head(net[p])
  OBVIOUS
<1>6. net[p] # <<>> /\ Data(p) = m.data
  BY <1>1, <1>5 DEF Arrived, Data
<1>7. mark'[k + 1].to[p] = mark[k].to[p] + 1 /\ mark'[k + 1].to[q] = mark[k].to[q] + 1
  BY <1>1, <1>3, <1>4, RevealFields
<1>8. /\ k \in 1 .. Len(script) /\ script[k] = c /\ LSB(delta)
      /\ k < Reached(q)
      /\ ToBob(k)
  BY <1>3, <1>4, <1>5, <1>6, Answers
<1>9. k <= Call(p) /\ k <= Call(q) /\ ProgramInv /\ Grows
  <2>1. Placed /\ ProgramInv
    BY InvPlaced, InvProgram
  <2>2. Call(q) \in 1 .. Len(script) + 1 /\ Reached(q) <= Call(q) + 1 /\ Reached(q) \in 1 .. Len(script) + 1
    BY <2>1, Where
  <2>3. Call(p) = k /\ k \in Nat
    BY <1>3, <1>4, MovesTo
  <2>4. Grows
    BY <1>3 DEF Moves, Makes
  <2>5. k <= Call(p)
    BY <2>3
  <2>6. k <= Call(q)
    BY <1>8, <2>2, <2>3
  <2> QED
    BY <2>1, <2>4, <2>5, <2>6
<1>10. Due(p, mark[k].to[p] + 1) = Msg("lsbs", Lsbs(q, c))
  BY <1>1, <1>8 DEF ToBob
<1>11. PICK bits : bits = Clears(c)
  OBVIOUS
<1>12. /\ Differ(Lsbs(q, c), Lsbs(p, c)) = bits /\ bits \in Seq(BOOLEAN)
       /\ c.i \in 1 .. Len(val) /\ c.j \in 1 .. Len(val) /\ c.i <= c.j
  BY <1>1, <1>8, <1>9, <1>11, Opens
<1>13. m = Due(p, mark[k].to[p] + 1)
  <2>1. Placed /\ Read(p) = mark[k].to[p]
    BY <1>3, <1>4, InvPlaced, MovesTo
  <2>2. net[p] \in Seq(Message) /\ Read(p) \in Nat
    BY <2>1, Counts DEF Placed
  <2>3. Read(p) + 1 - Read(p) = 1
    BY <2>2
  <2> QED
    BY <1>5, <1>6, <2>1, <2>2, <2>3, TailFacts DEF Due
<1>14. Differ(Data(p), Lsbs(p, c)) = bits
  BY <1>6, <1>10, <1>12, <1>13 DEF Msg
<1>15. /\ Mailed
       /\ net'[q][(mark[k].to[q] + 1) - Read(q)'] = Msg("bits", bits)
  <2>1. PICK e : e = Msg("bits", bits)
    OBVIOUS
  <2>2. e \in Message
    BY <1>12, <2>1, MsgTyped
  <2>3. Swaps(p, e)
    BY <1>1, <1>14, <2>1 DEF Swaps
  <2> QED
    BY <1>3, <1>4, <1>6, <1>7, <2>1, <2>2, <2>3, MailSwaps
<1>16. /\ Told(p) /\ out'[p][mark[k].reveals + 1] = bits
       /\ Labelled(p) /\ Counted(p) /\ Supplied(p)
       /\ CallLabels(p, k)'
       /\ NewMatch(k)
  <2>1. Gives(p, bits)
    BY <1>1, <1>14
  <2> QED
    BY <1>1, <1>2, <1>3, <1>4, <1>12, <2>1, RevealGives
<1>17. Clears(c)' = bits
  <2>1. val' \in Seq(BOOLEAN)
    BY <1>3 DEF Moves, Makes, ProgramInv, ProgramTyped
  <2> QED
    BY <1>9, <1>11, <1>12, <2>1, ClearsStay
<1>18. script'[k] = c /\ mark'[k] = mark[k]
  BY <1>3, <1>4 DEF Moves, Makes
<1>19. Given(p, k)'
  <2>1. c.who # Peer(p) /\ c.who # "XOR"
    BY <1>1
  <2> QED
    BY <1>16, <1>17, <1>18, <2>1 DEF Given
<1>20. ToAlice(k)'
  <2>1. mark'[k + 1].stocked = mark[k].stocked
    BY <1>1, <1>3, <1>4, RevealFields
  <2> QED
    BY <1>1, <1>7, <1>15, <1>17, <1>18, <2>1 DEF ToAlice, Due, FeedsBob
<1> QED
  BY <1>2, <1>3, <1>4, <1>15, <1>16, <1>19, <1>20, Completes

-----------------------------------------------------------------------------
(* The evaluator's bits, with COTs of their own *)

(* The marks on either side of a feed of the evaluator's bits. *)
LEMMA FeedFields ==
  ASSUME IInv, NEW p \in Party, NEW c, Makes(p, c), NEW k, k = at[p], FeedsBob(c), NEW n, n = Len(c.bits)
  PROVE  /\ c.bits \in Seq(BOOLEAN) /\ n \in Nat /\ c.op = "feed" /\ c.who = "BOB"
         /\ mark[k].wires \in Nat /\ mark[k].used \in Nat /\ mark[k].stocked \in Nat
         /\ mark[k].to["ALICE"] \in Nat
         /\ mark'[k + 1].gid = mark[k].gid
         /\ mark'[k + 1].counter = mark[k].counter
         /\ mark'[k + 1].wires = mark[k].wires + n
         /\ mark'[k + 1].reveals = mark[k].reveals
         /\ mark'[k + 1].to["BOB"] = mark[k].to["BOB"]
<1>1. /\ c.op = "feed" /\ c.who = "BOB" /\ c.op \notin {"and", "xor", "not"} /\ c.op # "and"
      /\ c.op # "reveal" /\ c.who # "ALICE"
  BY DEF FeedsBob
<1>2. c.bits \in Seq(BOOLEAN) /\ n \in Nat
  BY MakesFields
<1>3. /\ mark[k].wires \in Nat /\ mark[k].used \in Nat /\ mark[k].stocked \in Nat
      /\ mark[k].to["ALICE"] \in Nat
  BY MakesFields
<1>4. mark'[k + 1].gid = mark[k].gid /\ mark'[k + 1].counter = mark[k].counter
  BY <1>1, MakesFields
<1>5. mark'[k + 1].wires = mark[k].wires + n
  BY <1>1, MakesFields
<1>6. mark'[k + 1].reveals = mark[k].reveals
  BY <1>1, MakesFields
<1>7. mark'[k + 1].to["BOB"] = mark[k].to["BOB"]
  BY <1>1, MakesFields
<1> QED
  BY ONLY <1>1, <1>2, <1>3, <1>4, <1>5, <1>6, <1>7, Zenon

(* What a feed of the evaluator's does to the pool and to what it sends *)
LEMMA PoolFields ==
  ASSUME IInv, NEW p \in Party, NEW c, Makes(p, c), NEW k, k = at[p], FeedsBob(c), NEW n, n = Len(c.bits)
  PROVE  /\ n > Batch => /\ mark'[k + 1].used = mark[k].used
                         /\ mark'[k + 1].stocked = mark[k].stocked
                         /\ mark'[k + 1].to["ALICE"] = mark[k].to["ALICE"] + 1
         /\ n <= Batch => mark'[k + 1].used = mark[k].used + n
         /\ (n <= Batch /\ mark[k].used + n <= mark[k].stocked) =>
              /\ mark'[k + 1].stocked = mark[k].stocked
              /\ mark'[k + 1].to["ALICE"] = mark[k].to["ALICE"] + 1
         /\ (n <= Batch /\ mark[k].used + n > mark[k].stocked) =>
              /\ mark'[k + 1].stocked = mark[k].stocked + Batch
              /\ mark'[k + 1].to["ALICE"] = mark[k].to["ALICE"] + 2
<1>1. n \in Nat /\ mark[k].used \in Nat /\ mark[k].stocked \in Nat /\ Batch \in Nat
  BY FeedFields, BatchFacts
<1>2. mark'[k + 1].used = IF n <= Batch THEN mark[k].used + n ELSE mark[k].used
  BY MakesFields
<1>3. mark'[k + 1].stocked = IF n <= Batch /\ mark[k].used + n > mark[k].stocked
                             THEN mark[k].stocked + Batch ELSE mark[k].stocked
  BY MakesFields
<1>4. mark'[k + 1].to["ALICE"] = IF n <= Batch /\ mark[k].used + n > mark[k].stocked
                                 THEN mark[k].to["ALICE"] + 2 ELSE mark[k].to["ALICE"] + 1
  BY MakesFields
<1>5. ASSUME n > Batch PROVE ~(n <= Batch)
  BY ONLY <1>1, <1>5
<1>6. ASSUME mark[k].used + n <= mark[k].stocked PROVE ~(mark[k].used + n > mark[k].stocked)
  BY ONLY <1>1, <1>6
<1> QED
  BY ONLY <1>2, <1>3, <1>4, <1>5, <1>6, Zenon

(* The blocks of a recv_cot. *)
LEMMA CotTyped == ASSUME cots \in Nat, NEW n \in Nat, NEW t, t = CotBlocks(n)
  PROVE  t \in Seq(Block) /\ Len(t) = n
<1>1. \A i \in 1 .. n : Cot(cots + i) \in Block
  BY CotBlock
<1>2. t \in [1 .. n -> Block]
  BY <1>1 DEF CotBlocks
<1> QED
  BY <1>2, FunSeq

(* Action EvaDirect: more bits than the pool holds, with COTs of their own. *)
LEMMA EvaDirectStep == ASSUME IInv, EvaDirect
  PROVE  IInv'
<1> PICK p \in Party, q \in Party : p = "BOB" /\ q = "ALICE" /\ Peer(p) = q
  BY Parties
<1>1. PICK c \in Options(p) :
        /\ FeedsBob(c) /\ Len(c.bits) > Batch
        /\ Do(p, c)
        /\ Adds(p, CotBlocks(Len(c.bits)))
        /\ cots' = cots + Len(c.bits)
        /\ Sends(p, <<CotMsg(Len(c.bits), c.bits)>>)
        /\ Done(p)
        /\ UNCHANGED <<pc, gates, counter, buf, buff, stock, top, part, out>>
  BY DEF EvaDirect
<1>2. /\ pc' = pc /\ delta' = delta /\ constant' = constant /\ gid' = gid
      /\ counter' = counter /\ out' = out /\ top' = top /\ UNCHANGED <<buf, buff, stock, part, delta>>
  BY <1>1 DEF gates
<1>3. Moves(p, c) /\ Makes(p, c)
  BY <1>1, <1>2, DoMoves DEF Moves
<1>4. PICK k : k = at[p]
  OBVIOUS
<1>5. PICK n : n = Len(c.bits)
  OBVIOUS
<1>6. /\ c.bits \in Seq(BOOLEAN) /\ n \in Nat /\ c.op = "feed" /\ c.who = "BOB" /\ n > Batch
      /\ mark[k].to["ALICE"] \in Nat
      /\ mark'[k + 1].gid = mark[k].gid
      /\ mark'[k + 1].counter = mark[k].counter
      /\ mark'[k + 1].wires = mark[k].wires + n
      /\ mark'[k + 1].reveals = mark[k].reveals
      /\ mark'[k + 1].to["BOB"] = mark[k].to["BOB"]
      /\ mark'[k + 1].used = mark[k].used
      /\ mark'[k + 1].stocked = mark[k].stocked
      /\ mark'[k + 1].to["ALICE"] = mark[k].to["ALICE"] + 1
  <2>1. FeedsBob(c) /\ n = Len(c.bits) /\ n > Batch
    BY <1>1, <1>5
  <2>2. /\ c.bits \in Seq(BOOLEAN) /\ n \in Nat /\ c.op = "feed" /\ c.who = "BOB"
        /\ mark[k].to["ALICE"] \in Nat /\ mark[k].wires \in Nat
    BY <1>3, <1>4, <2>1, FeedFields
  <2>3. /\ mark'[k + 1].gid = mark[k].gid
        /\ mark'[k + 1].counter = mark[k].counter
        /\ mark'[k + 1].wires = mark[k].wires + n
        /\ mark'[k + 1].reveals = mark[k].reveals
        /\ mark'[k + 1].to["BOB"] = mark[k].to["BOB"]
    BY <1>3, <1>4, <2>1, FeedFields
  <2>4. /\ mark'[k + 1].used = mark[k].used
        /\ mark'[k + 1].stocked = mark[k].stocked
        /\ mark'[k + 1].to["ALICE"] = mark[k].to["ALICE"] + 1
    BY <1>3, <1>4, <2>1, PoolFields
  <2> QED
    BY <2>1, <2>2, <2>3, <2>4
<1>7. cots \in Nat /\ top \in [Party -> 0 .. Batch]
  BY DEF IInv, TypeOK
<1>8. PICK t : t = CotBlocks(n)
  OBVIOUS
<1>9. t \in Seq(Block) /\ Len(t) = n
  BY <1>6, <1>7, <1>8, CotTyped
<1>10. /\ Labelled(p)
       /\ \A i \in 1 .. n : wire'[p][mark[k].wires + i] = t[i]
  <2>1. Adds(p, t)
    BY <1>1, <1>5, <1>8
  <2> QED
    BY <1>3, <1>4, <1>6, <1>9, <2>1, AddsLabelled
<1>11. PICK e : e = Msg("cot", [r |-> c.bits, t |-> t])
  OBVIOUS
<1>12. /\ Mailed
       /\ net'[q][(mark[k].to[q] + 1) - Read(q)'] = e
  <2>1. e \in Message
    BY <1>6, <1>9, <1>11, MsgTyped
  <2>2. PICK msgs : msgs = <<e>>
    OBVIOUS
  <2>3. msgs \in Seq(Message) /\ Len(msgs) = 1 /\ msgs[1] = e /\ 1 \in 1 .. Len(msgs)
    BY <2>1, <2>2, OneFacts
  <2>4. Sends(p, msgs)
    BY <1>1, <1>5, <1>8, <1>11, <2>2 DEF CotMsg
  <2>5. /\ mark'[k + 1].to[Peer(p)] = mark[k].to[Peer(p)] + Len(msgs)
        /\ mark'[k + 1].to[p] = mark[k].to[p]
    BY <1>6, <2>3
  <2>6. /\ Mailed
        /\ \A i \in 1 .. Len(msgs) :
             net'[Peer(p)][(mark[k].to[Peer(p)] + i) - Read(Peer(p))'] = msgs[i]
    BY <1>3, <1>4, <2>3, <2>4, <2>5, MailSends
  <2> QED
    BY <2>3, <2>6
<1>13. Told(p) /\ Counted(p)
  BY <1>2, <1>3, <1>4, <1>6, NotTold, SameCounts
<1>14. Supplied(p)
  <2>1. cots' \in Nat
    BY <1>1, <1>5, <1>6, <1>7
  <2>2. top[p] = Batch - (mark[k].stocked - mark[k].used)
    BY <1>3, <1>4, Sizes
  <2> QED
    BY <1>2, <1>3, <1>4, <1>6, <1>7, <2>1, <2>2, PoolKept
<1>15. script'[k] = c /\ mark'[k] = mark[k]
  BY <1>3, <1>4 DEF Makes
<1>16. ~(n <= Batch)
  BY ONLY <1>6, BatchFacts
<1>17. CallLabels(p, k)'
  BY <1>5, <1>6, <1>15, <1>16 DEF CallLabels
<1>18. ToAlice(k)'
  <2>1. Due("ALICE", mark[k + 1].to["ALICE"])' = e
    BY <1>6, <1>12 DEF Due
  <2>2. e.kind = "cot" /\ e.data.t = t /\ e.data.r = c.bits
    BY <1>11 DEF Msg
  <2> QED
    BY <1>5, <1>6, <1>9, <1>10, <1>15, <1>16, <2>1, <2>2 DEF ToAlice
<1>19. Given(p, k)'
  BY <1>3, <1>4, <1>6, Silent
<1>20. ~(k < Call(Peer(p)))
  <2>1. mark'[at[p] + 1].to[Peer(p)] > mark[at[p]].to[Peer(p)]
    BY <1>4, <1>6
  <2>2. Placed /\ Grows /\ pc[p] = "run"
    BY <1>3, InvPlaced DEF Makes
  <2>3. Call(Peer(p)) <= k
    BY <1>4, <2>1, <2>2, NotPast
  <2>4. Call(q) \in Nat /\ k \in Nat
    BY <1>3, <1>4, <2>2, MovesTo, Where
  <2> QED
    BY <2>3, <2>4
<1> QED
  BY <1>2, <1>3, <1>4, <1>10, <1>12, <1>13, <1>14, <1>17, <1>18, <1>19, <1>20, Completes

(* What the garbler makes of the message *)
LEMMA GenTyped ==
  ASSUME NEW d \in [r : Seq(BOOLEAN), t : Seq(Block)], Len(d.r) = Len(d.t), delta \in Block,
         NEW labels, labels = GenBlocks(d)
  PROVE  /\ labels \in Seq(Block) /\ Len(labels) = Len(d.t)
         /\ labels \in [1 .. Len(d.t) -> Block]
         /\ \A i \in 1 .. Len(d.t) : labels[i] = Active(d.t[i], d.r[i], delta)
<1>1. DOMAIN d.t = 1 .. Len(d.t) /\ Len(d.t) \in Nat
  BY LenProperties
<1>2. \A i \in 1 .. Len(d.t) : d.t[i] \in Block /\ d.r[i] \in BOOLEAN
  BY SeqAt
<1>3. \A i \in 1 .. Len(d.t) : Active(d.t[i], d.r[i], delta) \in Block
  BY <1>2, ActiveBlock
<1>4. labels = [i \in 1 .. Len(d.t) |-> Active(d.t[i], d.r[i], delta)]
  BY <1>1 DEF GenBlocks
<1>5. labels \in [1 .. Len(d.t) -> Block]
  BY <1>3, <1>4
<1> QED
  BY <1>1, <1>4, <1>5, FunSeq

(* Action GenDirect: the garbler's side of those COTs. *)
LEMMA GenDirectStep == ASSUME IInv, GenDirect
  PROVE  IInv'
<1> PICK p \in Party, q \in Party : p = "ALICE" /\ q = "BOB" /\ Peer(p) = q
  BY Parties
<1>1. PICK c \in Options(p) :
        /\ FeedsBob(c) /\ Len(c.bits) > Batch
        /\ Do(p, c)
        /\ Arrived(p, "cot")
        /\ Adds(p, GenBlocks(Data(p)))
        /\ Takes(p)
        /\ Done(p)
        /\ UNCHANGED <<pc, gates, counter, pool, part, out>>
  BY DEF GenDirect
<1>2. /\ pc' = pc /\ delta' = delta /\ constant' = constant /\ gid' = gid
      /\ counter' = counter /\ out' = out /\ UNCHANGED <<pool, part, delta>>
  BY <1>1 DEF gates
<1>3. Moves(p, c) /\ Makes(p, c)
  BY <1>1, <1>2, DoMoves DEF Moves
<1>4. PICK k : k = at[p]
  OBVIOUS
<1>5. PICK n, m : n = Len(c.bits) /\ m = Head(net[p])
  OBVIOUS
<1>6. /\ c.bits \in Seq(BOOLEAN) /\ n \in Nat /\ c.op = "feed" /\ c.who = "BOB" /\ n > Batch
      /\ mark[k].to["ALICE"] \in Nat /\ mark[k].wires \in Nat
      /\ mark'[k + 1].gid = mark[k].gid
      /\ mark'[k + 1].counter = mark[k].counter
      /\ mark'[k + 1].wires = mark[k].wires + n
      /\ mark'[k + 1].reveals = mark[k].reveals
      /\ mark'[k + 1].to["BOB"] = mark[k].to["BOB"]
      /\ mark'[k + 1].used = mark[k].used
      /\ mark'[k + 1].stocked = mark[k].stocked
      /\ mark'[k + 1].to["ALICE"] = mark[k].to["ALICE"] + 1
  <2>1. FeedsBob(c) /\ n = Len(c.bits) /\ n > Batch
    BY <1>1, <1>5
  <2>2. /\ c.bits \in Seq(BOOLEAN) /\ n \in Nat /\ c.op = "feed" /\ c.who = "BOB"
        /\ mark[k].to["ALICE"] \in Nat /\ mark[k].wires \in Nat
    BY <1>3, <1>4, <2>1, FeedFields
  <2>3. /\ mark'[k + 1].gid = mark[k].gid
        /\ mark'[k + 1].counter = mark[k].counter
        /\ mark'[k + 1].wires = mark[k].wires + n
        /\ mark'[k + 1].reveals = mark[k].reveals
        /\ mark'[k + 1].to["BOB"] = mark[k].to["BOB"]
    BY <1>3, <1>4, <2>1, FeedFields
  <2>4. /\ mark'[k + 1].used = mark[k].used
        /\ mark'[k + 1].stocked = mark[k].stocked
        /\ mark'[k + 1].to["ALICE"] = mark[k].to["ALICE"] + 1
    BY <1>3, <1>4, <2>1, PoolFields
  <2> QED
    BY <2>1, <2>2, <2>3, <2>4
<1>7. net[p] # <<>> /\ m.kind = "cot" /\ Data(p) = m.data
  BY <1>1, <1>5 DEF Arrived, Data
<1>8. /\ Mailed
      /\ m = Due(p, mark[k].to[p] + 1)
      /\ m \in Message
  <2>1. /\ mark'[k + 1].to[p] = mark[k].to[p] + 1
        /\ mark'[k + 1].to[Peer(p)] = mark[k].to[Peer(p)]
    BY <1>6
  <2> QED
    BY <1>1, <1>3, <1>4, <1>5, <1>7, <2>1, MailTakes
<1>9. k \in 1 .. Len(script) /\ script[k] = c /\ ToAlice(k) /\ k < Call(q)
  BY <1>3, <1>4, <1>7, Answers
<1>10. mark[k + 1] = mark'[k + 1]
  <2>1. k + 1 \in 1 .. Len(script) + 1
    BY <1>9, InvProgram, CallInRange
  <2> QED
    BY <1>3, <2>1 DEF Makes, Grows
<1>11. /\ Len(m.data.t) = n /\ Len(m.data.r) = n
       /\ \A i \in 1 .. n : m.data.t[i] = wire["BOB"][mark[k].wires + i] /\ m.data.r[i] = c.bits[i]
  <2>1. m = Due("ALICE", mark[k + 1].to["ALICE"])
    BY <1>6, <1>8, <1>10
  <2>2. FeedsBob(script[k]) /\ Len(script[k].bits) > Batch /\ script[k].bits = c.bits /\ Len(script[k].bits) = n
    BY <1>1, <1>5, <1>9
  <2> QED
    BY <1>9, <2>1, <2>2 DEF ToAlice
<1>12. PICK labels : labels = GenBlocks(m.data)
  OBVIOUS
<1>13. /\ labels \in Seq(Block) /\ Len(labels) = n
       /\ \A i \in 1 .. n : labels[i] = Active(m.data.t[i], m.data.r[i], delta)
  <2>1. m.data \in [r : Seq(BOOLEAN), t : Seq(Block)]
    BY <1>7, <1>8 DEF Message
  <2>2. delta \in Block
    BY DEF IInv, TypeOK
  <2> QED
    BY <1>11, <1>12, <2>1, <2>2, GenTyped
<1>14. /\ Labelled(p)
       /\ \A i \in 1 .. n : wire'[p][mark[k].wires + i] = labels[i]
  <2>1. Adds(p, labels)
    BY <1>1, <1>7, <1>12
  <2> QED
    BY <1>3, <1>4, <1>6, <1>13, <2>1, AddsLabelled
<1>15. Told(p) /\ Counted(p) /\ Supplied(p)
  BY <1>2, <1>3, <1>4, <1>6, NotTold, SameCounts, PoolIdle
<1>16. script'[k] = c /\ mark'[k] = mark[k]
  BY <1>3, <1>4 DEF Makes
<1>17. ~(n <= Batch)
  BY ONLY <1>6, BatchFacts
<1>18. CallLabels(p, k)'
  BY <1>5, <1>6, <1>16, <1>17 DEF CallLabels
<1>19. ToBob(k)' /\ Given(p, k)'
  BY <1>3, <1>4, <1>6, Silent
<1>20. NewMatch(k)
  <2>1. ASSUME NEW w \in mark[k].wires + 1 .. mark'[k + 1].wires
        PROVE  wire'["BOB"][w] = Active(wire'["ALICE"][w], val'[w], delta')
    <3>1. PICK i \in 1 .. n : w = mark[k].wires + i
      <4>1. w - mark[k].wires \in 1 .. n /\ w = mark[k].wires + (w - mark[k].wires)
        BY <1>6
      <4> QED
        BY <4>1
    <3>2. PICK b, x : b = c.bits[i] /\ x = wire["BOB"][w]
      OBVIOUS
    <3>3. b \in BOOLEAN
      BY <1>5, <1>6, <3>2, SeqAt
    <3>4. wire'["ALICE"][w] = Active(x, b, delta)
      BY <1>11, <1>13, <1>14, <3>1, <3>2
    <3>5. val'[w] = b
      BY <1>3, <1>4, <1>5, <1>6, <3>1, <3>2, MovesCall
    <3>6. wire'["BOB"][w] = x
      BY <1>14, <3>2 DEF Labelled
    <3>7. Active(Active(x, b, delta), b, delta) = x
      BY <3>3, Undone
    <3> QED
      BY <1>2, <3>4, <3>5, <3>6, <3>7
  <2> QED
    BY <2>1 DEF NewMatch
<1> QED
  BY <1>2, <1>3, <1>4, <1>8, <1>14, <1>15, <1>18, <1>19, <1>20, Completes

-----------------------------------------------------------------------------
(* The evaluator's bits, with COTs from the pool                           *)

(* A pool of Batch blocks, the last of s of which u are used, t of them    *)
(* from this pool.                                                         *)
Pooling(u, s, t) == /\ u \in Nat /\ s \in Nat
                    /\ u <= s /\ s <= u + Batch /\ Batch <= s
                    /\ t = Batch - (s - u)
(* The values of x and of z, as those of V from its o-th on *)
Holds(S, x, V, o) == \A i \in 1 .. Batch : x[i] \in S /\ x[i] = V[o + i]
Follows(S, z, V, u, n) == z \in Seq(S) /\ Len(z) = n /\ \A i \in 1 .. n : z[i] = V[u + i]

(* Where the pool stands, in numbers. *)
LEMMA Position == ASSUME NEW u, NEW s, NEW t, Pooling(u, s, t)
  PROVE  /\ t \in 0 .. Batch /\ t \in Nat /\ Batch - t = s - u /\ s - u \in Nat /\ Batch \in Nat
         /\ u \in Nat /\ s \in Nat
  BY BatchFacts DEF Pooling

(* The i-th block that is left in the pool is the i-th not yet used. *)
LEMMA PositionAt == ASSUME NEW u, NEW s, NEW t, Pooling(u, s, t), NEW i \in 1 .. s - u
  PROVE  t + i \in 1 .. Batch /\ (s - Batch) + (t + i) = u + i
  BY BatchFacts DEF Pooling

(* The next n of them, without a refill and with one *)
LEMMA Taken ==
  ASSUME NEW S, NEW V, NEW x, NEW u, NEW s, NEW t, Pooling(u, s, t), Holds(S, x, V, s - Batch),
         NEW n \in Nat, n <= Batch - t, NEW z, z = SubSeq(x, t + 1, t + n)
  PROVE  Follows(S, z, V, u, n)
<1>1. t \in Nat /\ Batch - t = s - u /\ Batch \in Nat /\ s - u \in Nat
  BY Position
<1>2. ASSUME NEW i \in 1 .. n PROVE x[t + i] \in S /\ x[t + i] = V[u + i]
  <2>1. i \in 1 .. s - u
    BY <1>1
  <2>2. t + i \in 1 .. Batch /\ (s - Batch) + (t + i) = u + i
    BY <2>1, PositionAt
  <2>3. x[t + i] \in S /\ x[t + i] = V[(s - Batch) + (t + i)]
    BY <2>2 DEF Holds
  <2> QED
    BY <2>2, <2>3
<1>3. ASSUME NEW i \in t + 1 .. t + n PROVE x[i] \in S
  <2>1. PICK j \in 1 .. n : i = t + j
    <3>1. i - t \in 1 .. n /\ i = t + (i - t)
      BY <1>1
    <3> QED
      BY <3>1
  <2> QED
    BY <1>2, <2>1
<1>4. z \in Seq(S)
  BY <1>1, <1>3, SubSeqFacts
<1>5. Len(z) = n
  BY <1>1, <1>3, SubSeqFacts
<1>6. ASSUME NEW i \in 1 .. n PROVE z[i] = x[t + i]
  BY <1>1, <1>3, SubSeqFacts
<1>7. \A i \in 1 .. n : z[i] = V[u + i]
  BY <1>2, <1>6
<1> QED
  BY <1>4, <1>5, <1>7 DEF Follows

(* Taking no more than is left. *)
LEMMA StillPooling == ASSUME NEW u, NEW s, NEW t, Pooling(u, s, t), NEW n \in Nat, n <= Batch - t
  PROVE  u + n <= s /\ t + n \in 0 .. Batch /\ t + n = Batch - (s - (u + n)) /\ n <= Batch
  BY BatchFacts DEF Pooling

(* What is left of one pool and the first of the next, one after the other,*)
(* are the blocks that follow: the two memcpys of the feed that wraps.     *)
LEMMA Spliced ==
  ASSUME NEW S, NEW V, NEW x, NEW y, NEW u, NEW s, NEW t, Pooling(u, s, t),
         Holds(S, x, V, s - Batch), Holds(S, y, V, s), NEW more \in 0 .. Batch,
         NEW n, n = (s - u) + more,
         NEW z, z = SubSeq(x, t + 1, Batch) \o SubSeq(y, 1, more)
  PROVE  Follows(S, z, V, u, n)
<1> PICK l : l = s - u
  OBVIOUS
<1>1. l \in Nat /\ l <= Batch - t /\ t + l = Batch /\ t \in Nat /\ more \in Nat /\ Batch \in Nat
      /\ n = l + more /\ u + l = s /\ u \in Nat
  <2>1. /\ t \in Nat /\ Batch - t = s - u /\ s - u \in Nat /\ Batch \in Nat
        /\ u \in Nat /\ s \in Nat
    BY Position
  <2>2. l = s - u /\ more \in 0 .. Batch /\ n = (s - u) + more
    OBVIOUS
  <2> QED
    BY ONLY <2>1, <2>2
<1> PICK a : a = SubSeq(x, t + 1, t + l)
  OBVIOUS
<1>2. a \in Seq(S) /\ Len(a) = l /\ \A i \in 1 .. l : a[i] = V[u + i]
  <2>1. Follows(S, a, V, u, l)
    BY <1>1, Taken
  <2> QED
    BY <2>1 DEF Follows
<1> PICK b : b = SubSeq(y, 0 + 1, 0 + more)
  OBVIOUS
<1>3. ASSUME NEW i \in 0 + 1 .. 0 + more PROVE y[i] \in S
  <2>1. i \in 1 .. Batch
    BY <1>1
  <2> QED
    BY <2>1 DEF Holds
<1>4. b \in Seq(S) /\ Len(b) = more
  <2>1. /\ SubSeq(y, 0 + 1, 0 + more) \in Seq(S)
        /\ Len(SubSeq(y, 0 + 1, 0 + more)) = more
    <3>1. more \in Nat /\ 0 \in Nat /\ \A i \in 0 + 1 .. 0 + more : y[i] \in S
      BY <1>1, <1>3
    <3>2. SubSeq(y, 0 + 1, 0 + more) \in Seq(S)
      BY ONLY <3>1, SubSeqFacts
    <3>3. Len(SubSeq(y, 0 + 1, 0 + more)) = more
      BY ONLY <3>1, SubSeqFacts
    <3> QED
      BY <3>2, <3>3
  <2> QED
    BY <2>1
<1>5. ASSUME NEW i \in 1 .. more PROVE b[i] = V[s + i]
  <2>1. b[i] = y[0 + i]
    BY <1>1, <1>3, SubSeqFacts
  <2>2. i \in 1 .. Batch /\ 0 + i = i
    BY <1>1
  <2> QED
    BY <2>1, <2>2 DEF Holds
<1>6. z = a \o b
  <2>1. 0 + 1 = 1 /\ 0 + more = more /\ t + l = Batch
    BY <1>1
  <2> QED
    BY <2>1
<1>7. z \in Seq(S) /\ Len(z) = n
  <2>1. a \in Seq(S) /\ b \in Seq(S) /\ z = a \o b
    BY <1>2, <1>4, <1>6
  <2>2. z \in Seq(S) /\ Len(z) = Len(a) + Len(b)
    BY ONLY <2>1, ConcatIs
  <2> QED
    BY <1>1, <1>2, <1>4, <2>2
<1>11. a \in Seq(S) /\ b \in Seq(S) /\ Len(a) = l /\ Len(b) = more
  BY <1>2, <1>4
<1>8. ASSUME NEW i \in 1 .. l PROVE z[i] = V[u + i]
  <2>1. (a \o b)[i] = a[i]
    BY ONLY <1>11, ConcatFacts, i \in 1 .. l
  <2> QED
    BY <1>2, <1>6, <2>1
<1>9. ASSUME NEW j \in 1 .. more PROVE z[l + j] = V[u + (l + j)]
  <2>1. (a \o b)[Len(a) + j] = b[j]
    BY ONLY <1>11, ConcatFacts, j \in 1 .. more
  <2>2. s + j = u + (l + j)
    BY <1>1
  <2> QED
    BY <1>2, <1>5, <1>6, <2>1, <2>2
<1>10. ASSUME NEW i \in 1 .. n
       PROVE  z[i] = V[u + i]
  <2>1. CASE i <= l
    <3>1. i \in 1 .. l
      BY <1>1, <2>1
    <3> QED
      BY <1>8, <3>1
  <2>2. CASE ~(i <= l)
    <3>1. i - l \in 1 .. more /\ i = l + (i - l)
      BY ONLY <1>1, <2>2, i \in 1 .. n
    <3> QED
      BY <1>9, <3>1
  <2> QED
    BY <2>1, <2>2
<1> QED
  BY <1>7, <1>10 DEF Follows

(* A feed from the pool leaves the garbler the corrections and, if it *)
(* refilled the pool, the refill before them.                         *)
LEMMA ToldFlips ==
  ASSUME NEW k, NEW c, NEW n, NEW e,
         script'[k] = c, n = Len(c.bits), ~(n > Batch), c.op = "feed",
         Due("ALICE", mark[k + 1].to["ALICE"])' = e,
         e = Msg("flips", [i \in 1 .. n |-> stock'[mark'[k].used + i].r # c.bits[i]]),
         \/ mark'[k].stocked = mark'[k + 1].stocked
         \/ Refills(Due("ALICE", mark[k].to["ALICE"] + 1), mark[k].stocked)'
  PROVE  ToAlice(k)'
BY DEF ToAlice

(* The message that corrects the pool's choice bits to the evaluator's. *)
LEMMA FlipsMessage ==
  ASSUME NEW bits \in Seq(BOOLEAN), NEW n, n = Len(bits), NEW ch, NEW R, NEW u,
         Follows(BOOLEAN, ch, R, u, n), NEW e, e = Flips(ch, bits),
         NEW f, f = [i \in 1 .. n |-> R[u + i] # bits[i]]
  PROVE  /\ e \in Message
         /\ e = Msg("flips", f)
<1>1. DOMAIN bits = 1 .. n /\ n \in Nat
  BY LenProperties
<1>2. [i \in DOMAIN bits |-> ch[i] # bits[i]] = [i \in 1 .. n |-> R[u + i] # bits[i]]
  BY <1>1 DEF Follows
<1>4. f \in [1 .. n -> BOOLEAN]
  OBVIOUS
<1>5. f \in Seq(BOOLEAN)
  BY <1>1, <1>4, FunSeq
<1>6. e = Msg("flips", f)
  BY <1>2 DEF Flips
<1> QED
  BY <1>5, <1>6, MsgTyped

(* The evaluator's pool, by what has been put into it *)
Blocks == [j \in Nat |-> stock[j].t]
Choices == [j \in Nat |-> stock[j].r]

(* What the evaluator's pool holds: the last of what was put into it. *)
LEMMA EvaPool ==
  ASSUME IInv, NEW p, p = "BOB", pc[p] = "run", NEW k, k = at[p],
         NEW u, u = mark[k].used, NEW s, s = mark[k].stocked, NEW t, t = top[p],
         NEW x, x = buf[p], NEW y, y = buff
  PROVE  /\ Pooling(u, s, t) /\ Len(stock) = s
         /\ Holds(Block, x, Blocks, s - Batch) /\ Holds(BOOLEAN, y, Choices, s - Batch)
<1>1. Call(p) = k /\ Pooled(p) = mark[k] /\ p \in Party
  BY Parties DEF Call, Pooled
<1>2. ProgramInv /\ k \in 1 .. Len(script) + 1
  BY <1>1, InvProgram, InvPlaced, Where
<1>3. u \in Nat /\ s \in Nat /\ u <= s /\ s <= u + Batch /\ Batch <= s
  BY <1>2, MarkTyped
<1>4. t = Batch - (s - u)
  BY <1>1 DEF IInv, Counters
<1>5. /\ Len(stock) = s
      /\ \A i \in 1 .. Batch : x[i] = stock[(s - Batch) + i].t /\ y[i] = stock[(s - Batch) + i].r
  BY <1>1 DEF IInv, Pool
<1>6. \A i \in 1 .. Batch : x[i] \in Block /\ y[i] \in BOOLEAN
  BY <1>1 DEF IInv, TypeOK
<1>7. \A i \in 1 .. Batch : (s - Batch) + i \in Nat
  BY ONLY <1>3, BatchFacts
<1> QED
  BY <1>3, <1>4, <1>5, <1>6, <1>7 DEF Pooling, Holds, Blocks, Choices

(* Action EvaTake: the evaluator's bits, with blocks left in his pool. *)
LEMMA EvaTakeStep == ASSUME IInv, EvaTake
  PROVE  IInv'
<1> PICK p \in Party, q \in Party : p = "BOB" /\ q = "ALICE" /\ Peer(p) = q
  BY Parties
<1>1. PICK c \in Options(p) :
        /\ FeedsBob(c) /\ Len(c.bits) <= Left(p)
        /\ Do(p, c)
        /\ Adds(p, SubSeq(buf[p], top[p] + 1, top[p] + Len(c.bits)))
        /\ Sends(p, <<Flips(SubSeq(buff, top[p] + 1, top[p] + Len(c.bits)), c.bits)>>)
        /\ top' = [top EXCEPT ![p] = @ + Len(c.bits)]
        /\ Done(p)
        /\ UNCHANGED <<pc, gates, counter, cots, buf, buff, stock, part, out>>
  BY DEF EvaTake
<1>2. /\ pc' = pc /\ delta' = delta /\ constant' = constant /\ gid' = gid /\ stock' = stock
      /\ counter' = counter /\ out' = out /\ cots' = cots /\ UNCHANGED <<buf, buff, stock, part, delta>>
  BY <1>1 DEF gates
<1>3. Moves(p, c) /\ Makes(p, c) /\ pc[p] = "run"
  BY <1>1, <1>2, DoMoves DEF Moves, Makes
<1>4. PICK k, n : k = at[p] /\ n = Len(c.bits)
  OBVIOUS
<1>5. PICK u, s, t : u = mark[k].used /\ s = mark[k].stocked /\ t = top[p]
  OBVIOUS
<1>12. PICK labels, ch, x, y, Ts, Rs :
         /\ x = buf[p] /\ y = buff /\ Ts = Blocks /\ Rs = Choices
         /\ labels = SubSeq(x, t + 1, t + n) /\ ch = SubSeq(y, t + 1, t + n)
  OBVIOUS
<1>6. /\ Pooling(u, s, t) /\ Len(stock) = s
      /\ Holds(Block, x, Ts, s - Batch) /\ Holds(BOOLEAN, y, Rs, s - Batch)
  BY <1>3, <1>4, <1>5, <1>12, EvaPool
<1>7. FeedsBob(c) /\ n <= Batch - t
  BY <1>1, <1>4, <1>5 DEF Left
<1>8. /\ c.bits \in Seq(BOOLEAN) /\ n \in Nat /\ c.op = "feed" /\ c.who = "BOB"
      /\ mark[k].to["ALICE"] \in Nat /\ mark[k].wires \in Nat
  BY <1>3, <1>4, <1>7, FeedFields
<1>9. /\ mark'[k + 1].gid = mark[k].gid
      /\ mark'[k + 1].counter = mark[k].counter
      /\ mark'[k + 1].wires = mark[k].wires + n
      /\ mark'[k + 1].reveals = mark[k].reveals
      /\ mark'[k + 1].to["BOB"] = mark[k].to["BOB"]
  BY <1>3, <1>4, <1>7, FeedFields
<1>10. u + n <= s /\ t + n \in 0 .. Batch /\ t + n = Batch - (s - (u + n)) /\ n <= Batch
  BY <1>6, <1>7, <1>8, StillPooling
<1>13. Follows(Block, labels, Ts, u, n)
  BY <1>6, <1>7, <1>8, <1>12, Taken
<1>14. Follows(BOOLEAN, ch, Rs, u, n)
  BY <1>6, <1>7, <1>8, <1>12, Taken
<1>15. labels \in Seq(Block) /\ Len(labels) = n /\ \A i \in 1 .. n : labels[i] = Ts[u + i]
  BY <1>13 DEF Follows
<1>16. /\ mark'[k + 1].used = u + n
       /\ mark'[k + 1].stocked = s
       /\ mark'[k + 1].to["ALICE"] = mark[k].to["ALICE"] + 1
  BY <1>3, <1>4, <1>5, <1>7, <1>10, PoolFields
<1>17. \A i \in 1 .. n : Ts[u + i] = stock[u + i].t /\ Rs[u + i] = stock[u + i].r
  <2>1. u \in Nat
    BY <1>6, Position
  <2> QED
    BY <1>8, <1>12, <2>1 DEF Blocks, Choices
<1>18. /\ Labelled(p)
       /\ \A i \in 1 .. n : wire'[p][mark[k].wires + i] = stock[u + i].t
  <2>1. Adds(p, labels)
    BY <1>1, <1>4, <1>5, <1>12
  <2>2. /\ Labelled(p)
        /\ \A i \in 1 .. n : wire'[p][mark[k].wires + i] = labels[i]
    BY <1>3, <1>4, <1>9, <1>15, <2>1, AddsLabelled
  <2> QED
    BY <1>15, <1>17, <2>2
<1> PICK bits : bits = c.bits
  OBVIOUS
<1> PICK e : e = Flips(ch, bits)
  OBVIOUS
<1> PICK f : f = [i \in 1 .. n |-> Rs[u + i] # bits[i]]
  OBVIOUS
<1>20. e = Flips(ch, bits) /\ bits = c.bits /\ f = [i \in 1 .. n |-> Rs[u + i] # bits[i]]
  OBVIOUS
<1>21. e \in Message /\ e = Msg("flips", f)
  <2>1. bits \in Seq(BOOLEAN) /\ n = Len(bits)
    BY <1>4, <1>8, <1>20
  <2> QED
    BY <1>14, <1>20, <2>1, FlipsMessage
<1>22. /\ Mailed
       /\ net'[q][(mark[k].to[q] + 1) - Read(q)'] = e
  <2>1. PICK msgs : msgs = <<e>>
    OBVIOUS
  <2>2. msgs \in Seq(Message) /\ Len(msgs) = 1 /\ msgs[1] = e /\ 1 \in 1 .. Len(msgs)
    BY <1>21, <2>1, OneFacts
  <2>3. Sends(p, msgs)
    BY <1>1, <1>4, <1>5, <1>12, <1>20, <2>1
  <2>4. /\ mark'[k + 1].to[Peer(p)] = mark[k].to[Peer(p)] + Len(msgs)
        /\ mark'[k + 1].to[p] = mark[k].to[p]
    BY <1>9, <1>16, <2>2
  <2>5. /\ Mailed
        /\ \A i \in 1 .. Len(msgs) :
             net'[Peer(p)][(mark[k].to[Peer(p)] + i) - Read(Peer(p))'] = msgs[i]
    BY <1>3, <1>4, <2>2, <2>3, <2>4, MailSends
  <2> QED
    BY <2>2, <2>5
<1>23. Told(p) /\ Counted(p)
  BY <1>2, <1>3, <1>4, <1>9, NotTold, SameCounts
<1>24. Supplied(p)
  <2>1. cots' \in Nat
    BY <1>2 DEF IInv, TypeOK
  <2>2. top' = [top EXCEPT ![p] = t + n]
    BY <1>1, <1>4, <1>5
  <2>3. top' \in [Party -> 0 .. Batch] /\ top'[p] = t + n /\ top'[Peer(p)] = top[Peer(p)]
    <3>1. top \in [Party -> 0 .. Batch] /\ Peer(p) # p /\ Peer(p) \in Party
      BY PeerFacts DEF IInv, TypeOK
    <3> QED
      BY <1>10, <2>2, <3>1
  <2>4. top'[p] = Batch - (mark'[k + 1].stocked - mark'[k + 1].used)
    BY <1>10, <1>16, <2>3
  <2>5. mark'[k + 1].stocked = mark[k].stocked
    BY <1>5, <1>16
  <2> QED
    BY <1>2, <1>3, <1>4, <2>1, <2>3, <2>4, <2>5, PoolKept
<1>25. script'[k] = c /\ mark'[k] = mark[k]
  BY <1>3, <1>4 DEF Makes
<1>26. CallLabels(p, k)'
  BY <1>2, <1>4, <1>5, <1>8, <1>18, <1>25 DEF CallLabels
<1>27. ToAlice(k)'
  <2>1. Due("ALICE", mark[k + 1].to["ALICE"])' = e
    BY <1>16, <1>22 DEF Due
  <2>2. e = Msg("flips", [i \in 1 .. n |-> stock'[u + i].r # c.bits[i]])
    BY <1>2, <1>17, <1>20, <1>21
  <2>3. ~(n > Batch)
    BY ONLY <1>8, <1>10, BatchFacts
  <2>4. mark'[k].stocked = mark'[k + 1].stocked
    BY <1>5, <1>16, <1>25
  <2>5. script'[k] = c /\ n = Len(c.bits) /\ c.op = "feed" /\ mark'[k].used = u
    BY <1>4, <1>5, <1>8, <1>25
  <2> QED
    BY ONLY <2>1, <2>2, <2>3, <2>4, <2>5, ToldFlips
<1>28. Given(p, k)'
  BY <1>3, <1>4, <1>8, Silent
<1>29. ~(k < Call(Peer(p)))
  <2>1. mark'[at[p] + 1].to[Peer(p)] > mark[at[p]].to[Peer(p)]
    BY <1>4, <1>8, <1>16
  <2>2. Placed /\ Grows
    BY <1>3, InvPlaced DEF Makes
  <2>3. Call(Peer(p)) <= k
    BY <1>3, <1>4, <2>1, <2>2, NotPast
  <2>4. Call(q) \in Nat /\ k \in Nat
    BY <1>3, <1>4, <2>2, MovesTo, Where
  <2> QED
    BY <2>3, <2>4
<1> QED
  BY <1>2, <1>3, <1>4, <1>18, <1>22, <1>23, <1>24, <1>26, <1>27, <1>28, <1>29, Completes

-----------------------------------------------------------------------------
(* A refill of the pool *)

(* There have been s, and there come the choices r and the blocks t.       *)
Restocked(s, r, t) ==
  /\ t \in Seq(Block) /\ Len(t) = Batch
  /\ cots' \in Nat
  /\ buff' = r /\ buff' \in [1 .. Batch -> BOOLEAN]
  /\ buf' \in [Party -> [1 .. Batch -> Block]]
  /\ buf'["BOB"] = t /\ buf'["ALICE"] = buf["ALICE"]
  /\ stock' \in Seq([t : Block, r : BOOLEAN])
  /\ Prolongs(stock, stock')
  /\ Len(stock') = s + Batch
  /\ \A i \in 1 .. Batch : stock'[s + i].t = t[i] /\ stock'[s + i].r = r[i]

(* A refill puts a pool of blocks after those there have been. *)
LEMMA Restocks ==
  ASSUME TypeOK, NEW r \in [1 .. Batch -> BOOLEAN], EvaRefill(r),
         NEW s, s = Len(stock), NEW t, t = CotBlocks(Batch)
  PROVE  Restocked(s, r, t)
<1> DEFINE R == [t : Block, r : BOOLEAN]
<1>1. /\ cots \in Nat /\ buf \in [Party -> [1 .. Batch -> Block]] /\ stock \in Seq(R)
      /\ Batch \in Nat
  BY BatchFacts DEF TypeOK
<1>2. /\ buff' = r /\ cots' = cots + Batch
      /\ buf' = [buf EXCEPT !["BOB"] = t]
      /\ stock' = stock \o [i \in 1 .. Batch |-> [t |-> Cot(cots + i), r |-> r[i]]]
  BY DEF EvaRefill, Stocks
<1>3. PICK new : new = [i \in 1 .. Batch |-> [t |-> Cot(cots + i), r |-> r[i]]]
  OBVIOUS
<1>4. t \in Seq(Block) /\ Len(t) = Batch /\ t = [i \in 1 .. Batch |-> Cot(cots + i)]
  BY <1>1, CotTyped DEF CotBlocks
<1>5. t \in [1 .. Batch -> Block]
  <2>1. \A i \in 1 .. Batch : Cot(cots + i) \in Block
    BY <1>1, CotBlock
  <2> QED
    BY <1>4, <2>1
<1>6. /\ buf' \in [Party -> [1 .. Batch -> Block]]
      /\ buf'["BOB"] = t /\ buf'["ALICE"] = buf["ALICE"]
  BY <1>1, <1>2, <1>5, Parties
<1>7. /\ new \in Seq(R) /\ Len(new) = Batch
      /\ \A i \in 1 .. Batch : new[i].t = t[i] /\ new[i].r = r[i]
  <2>1. \A i \in 1 .. Batch : [t |-> Cot(cots + i), r |-> r[i]] \in R
    BY <1>1, CotBlock
  <2>2. new \in [1 .. Batch -> R]
    BY <1>3, <2>1
  <2>3. \A i \in 1 .. Batch : new[i].t = t[i] /\ new[i].r = r[i]
    BY <1>3, <1>4
  <2> HIDE DEF R
  <2> QED
    BY <1>1, <2>2, <2>3, FunSeq
<1> HIDE DEF R
<1>8. PICK T : T = stock \o new
  OBVIOUS
<1>9. /\ T \in Seq(R) /\ Len(T) = Len(stock) + Len(new) /\ Prolongs(stock, T)
      /\ \A i \in 1 .. Len(new) : T[Len(stock) + i] = new[i]
  <2>1. stock \in Seq(R) /\ new \in Seq(R) /\ T = stock \o new
    BY <1>1, <1>7, <1>8
  <2>2. T \in Seq(R) /\ Len(T) = Len(stock) + Len(new)
    BY ONLY <2>1, ConcatIs
  <2>3. Prolongs(stock, T)
    BY ONLY <2>1, ConcatIs
  <2>4. \A i \in 1 .. Len(new) : T[Len(stock) + i] = new[i]
    BY ONLY <2>1, ConcatIs
  <2> QED
    BY <2>2, <2>3, <2>4
<1>10. stock' = T
  BY <1>2, <1>3, <1>8
<1>11. \A i \in 1 .. Batch : stock'[s + i].t = t[i] /\ stock'[s + i].r = r[i]
  BY <1>7, <1>9, <1>10
<1>12. /\ stock' \in Seq(R) /\ Prolongs(stock, stock') /\ Len(stock') = s + Batch
  BY <1>7, <1>9, <1>10
<1>13. cots' \in Nat /\ buff' = r /\ buff' \in [1 .. Batch -> BOOLEAN]
  BY <1>1, <1>2
<1>14. t \in Seq(Block) /\ Len(t) = Batch
  BY <1>4
<1> QED
  BY ONLY <1>6, <1>11, <1>12, <1>13, <1>14, Zenon DEF Restocked, R

(* The garbler's side of the pool is not changed by it. *)
LEMMA PoolRefilled ==
  ASSUME IInv, NEW p, p = "BOB", NEW c, Moves(p, c), NEW k, k = at[p],
         NEW s, s = mark[k].stocked, NEW r, NEW t, Restocked(s, r, t),
         delta' = delta, part' = part, top' \in [Party -> 0 .. Batch],
         mark'[k + 1].stocked = s + Batch,
         top'[p] = Batch - (mark'[k + 1].stocked - mark'[k + 1].used),
         top'[Peer(p)] = top[Peer(p)]
  PROVE  Supplied(p)
<1> PICK q : q = Peer(p)
  OBVIOUS
<1>0. Placed /\ p \in Party /\ q \in Party /\ q # p /\ Peer(p) = q /\ q = "ALICE"
  BY InvPlaced, Parties
<1>1. pc' = pc /\ Grows
  BY DEF Moves, Makes
<1>2. PoolTyped' /\ Prolongs(stock, stock')
  BY DEF IInv, TypeOK, PoolTyped, Restocked
<1>4. /\ Call(p) = k /\ Call(p)' = k + 1
      /\ Pooled(q)' = Pooled(q) /\ at'[q] = at[q] /\ pc[p] = "run" /\ k \in 1 .. Len(script) + 1
  <2>1. /\ Call(p) = k /\ Call(p)' = k + 1 /\ k \in 1 .. Len(script) + 1
        /\ Pooled(Peer(p))' = Pooled(Peer(p)) /\ at'[Peer(p)] = at[Peer(p)]
    BY <1>0, MovesTo
  <2>2. pc[p] = "run"
    BY DEF Moves, Makes
  <2> QED
    BY <1>0, <2>1, <2>2
<1>5. Len(stock) = s /\ s \in Nat /\ Batch <= s /\ Batch \in Nat
  <2>1. Len(stock) = s
    BY <1>4 DEF IInv, Pool
  <2>2. s \in Nat /\ Batch <= s
    BY <1>4, MarkTyped, InvProgram
  <2> QED
    BY <2>1, <2>2, BatchFacts
<1>6. \A j \in 1 .. s : stock'[j] = stock[j]
  BY <1>2, <1>5 DEF Prolongs
<1>7. Len(stock') = s + Batch
  BY DEF Restocked
<1>8. \A i \in 1 .. Batch : /\ buf'["BOB"][i] = stock'[((s + Batch) - Batch) + i].t
                            /\ buff'[i] = stock'[((s + Batch) - Batch) + i].r
  <2>1. (s + Batch) - Batch = s
    BY <1>5
  <2>2. \A i \in 1 .. Batch : buf'["BOB"][i] = stock'[s + i].t /\ buff'[i] = stock'[s + i].r
    BY DEF Restocked
  <2> QED
    BY ONLY <2>1, <2>2
<1>9. ASSUME pc["ALICE"] # "setup"
      PROVE  /\ Pooled("ALICE")'.stocked <= Len(stock')
             /\ \A i \in 1 .. Batch :
                  LET e == stock'[Pooled("ALICE")'.stocked - Batch + i]
                  IN buf'["ALICE"][i] = Active(e.t, e.r, delta')
  <2>1. PICK x : x = Pooled("ALICE").stocked
    OBVIOUS
  <2>2. x <= s /\ \A i \in 1 .. Batch : buf["ALICE"][i] = Active(stock[x - Batch + i].t, stock[x - Batch + i].r, delta)
    BY <1>5, <1>9, <2>1 DEF IInv, Pool
  <2>3. x \in Nat /\ Batch <= x
    <3>1. Pooled("ALICE") = mark[Call("ALICE")] \/ (pc["ALICE"] = "feed" /\ Pooled("ALICE") = mark[at["ALICE"] + 1])
      BY DEF Pooled
    <3>2. Call("ALICE") \in 1 .. Len(script) + 1
      BY <1>0, Where
    <3>3. pc["ALICE"] = "feed" => at["ALICE"] + 1 \in 1 .. Len(script) + 1
      <4>1. pc["ALICE"] = "feed" => at["ALICE"] \in 1 .. Len(script)
        BY <1>0, MidReads DEF Placed, Mid
      <4>2. Len(script) \in Nat
        BY MarkTyped, InvProgram
      <4> QED
        BY ONLY <4>1, <4>2
    <3>4. PICK j \in 1 .. Len(script) + 1 : Pooled("ALICE") = mark[j]
      BY <3>1, <3>2, <3>3
    <3>5. mark[j].stocked \in Nat /\ Batch <= mark[j].stocked
      BY MarkTyped, InvProgram
    <3> QED
      BY ONLY <2>1, <3>4, <3>5
  <2>4. x <= s + Batch
    BY ONLY <1>5, <2>2, <2>3
  <2>5. ASSUME NEW i \in 1 .. Batch PROVE stock'[x - Batch + i] = stock[x - Batch + i]
    <3>1. x - Batch + i \in 1 .. s
      BY ONLY <1>5, <2>2, <2>3, i \in 1 .. Batch
    <3> QED
      BY <1>6, <3>1
  <2>6. Pooled("ALICE")'.stocked = x
    BY <1>0, <1>4, <2>1
  <2>7. buf'["ALICE"] = buf["ALICE"]
    BY DEF Restocked
  <2> QED
    BY <1>7, <2>2, <2>4, <2>5, <2>6, <2>7
<1>10. ASSUME pc["ALICE"] = "feed"
       PROVE  LET d == script'[at'["ALICE"]]
                  u == mark'[at'["ALICE"]].used
              IN /\ Len(part') = Len(d.bits)
                 /\ \A i \in 1 .. Len(part') : part'[i] = Active(stock'[u + i].t, stock'[u + i].r, delta')
  <2>1. PICK j : j = at["ALICE"]
    OBVIOUS
  <2>2. j \in 1 .. Len(script) /\ FeedsBob(script[j]) /\ Len(script[j].bits) <= Batch /\ Pooled("ALICE") = mark[j + 1]
    BY <1>0, <1>10, <2>1, MidReads DEF Placed, Positions, Mid, Pooled
  <2>3. script'[j] = script[j] /\ mark'[j] = mark[j] /\ at'["ALICE"] = j
    <3>1. j \in 1 .. Len(script) + 1
      BY <1>0, <2>2, Where
    <3> QED
      BY <1>0, <1>1, <1>4, <2>1, <2>2, <3>1 DEF Grows
  <2>4. PICK n, u : n = Len(script[j].bits) /\ u = mark[j].used
    OBVIOUS
  <2>5. Len(part) = n /\ \A i \in 1 .. n : part[i] = Active(stock[u + i].t, stock[u + i].r, delta)
    BY <1>10, <2>1, <2>4 DEF IInv, Pool
  <2>6. /\ mark[j + 1].used = u + n /\ u \in Nat /\ n \in Nat
        /\ mark[j + 1].used <= mark[j + 1].stocked
        /\ mark[j + 1].stocked \in Nat
    <3>1. u \in Nat /\ n \in Nat
      BY <2>2, <2>4, CallAfter, InvProgram
    <3>2. mark[j + 1].used = u + n
      BY <2>2, <2>4, CallAfter, InvProgram
    <3>3. j + 1 \in 1 .. Len(script) + 1
      BY <2>2, CallInRange, InvProgram
    <3> QED
      BY <3>1, <3>2, <3>3, MarkTyped, InvProgram
  <2>7. mark[j + 1].stocked <= s
    BY <1>5, <1>10, <2>2 DEF IInv, Pool
  <2>8. ASSUME NEW i \in 1 .. n PROVE stock'[u + i] = stock[u + i]
    <3>1. u + n <= s
      BY ONLY <1>5, <2>6, <2>7
    <3>2. u + i \in 1 .. s
      BY ONLY <1>5, <2>6, <3>1, i \in 1 .. n
    <3> QED
      BY <1>6, <3>2
  <2> QED
    BY <2>3, <2>4, <2>5, <2>8
<1>11. Pool'
  BY <1>1, <1>4, <1>7, <1>8, <1>9, <1>10 DEF Pool
<1> QED
  BY <1>0, <1>2, <1>11 DEF Supplied

(* Action EvaWrap: the pool runs out within the feed, and is refilled in   *)
(* the middle of it.                                                       *)
LEMMA EvaWrapStep == ASSUME IInv, EvaWrap
  PROVE  IInv'
<1> PICK p \in Party, q \in Party : p = "BOB" /\ q = "ALICE" /\ Peer(p) = q
  BY Parties
<1>1. PICK c \in Options(p), r \in [1 .. Batch -> BOOLEAN] :
        LET more == Len(c.bits) - Left(p)
        IN /\ FeedsBob(c) /\ Len(c.bits) <= Batch /\ more > 0
           /\ Do(p, c)
           /\ EvaRefill(r)
           /\ Adds(p, Rest(p) \o SubSeq(buf'[p], 1, more))
           /\ Sends(p, << CotMsg(Batch, r),
                          Flips(SubSeq(buff, top[p] + 1, Batch) \o SubSeq(r, 1, more), c.bits) >>)
           /\ top' = [top EXCEPT ![p] = more]
           /\ Done(p)
           /\ UNCHANGED <<pc, gates, counter, part, out>>
  BY DEF EvaWrap
<1>2. /\ pc' = pc /\ delta' = delta /\ constant' = constant /\ gid' = gid
      /\ counter' = counter /\ out' = out /\ part' = part
  BY <1>1 DEF gates
<1>3. Moves(p, c) /\ Makes(p, c) /\ pc[p] = "run"
  <2>1. Do(p, c) /\ Done(p)
    BY <1>1
  <2> QED
    BY <1>2, <2>1, DoMoves DEF Moves, Makes
<1>4. PICK k, n : k = at[p] /\ n = Len(c.bits)
  OBVIOUS
<1>5. PICK u, s, t : u = mark[k].used /\ s = mark[k].stocked /\ t = top[p]
  OBVIOUS
<1>6. PICK x, y, d : x = buf[p] /\ y = buff /\ d = CotBlocks(Batch)
  OBVIOUS
<1>7. PICK Ts, Rs : Ts = Blocks /\ Rs = Choices
  OBVIOUS
<1>8. /\ Pooling(u, s, t) /\ Len(stock) = s
      /\ Holds(Block, x, Ts, s - Batch) /\ Holds(BOOLEAN, y, Rs, s - Batch)
  BY <1>3, <1>4, <1>5, <1>6, <1>7, EvaPool
<1>9. PICK more : more = n - (Batch - t)
  OBVIOUS
<1>10. /\ FeedsBob(c) /\ n <= Batch /\ more > 0
       /\ EvaRefill(r)
       /\ Adds(p, SubSeq(x, t + 1, Batch) \o SubSeq(buf'[p], 1, more))
       /\ Sends(p, << CotMsg(Batch, r), Flips(SubSeq(y, t + 1, Batch) \o SubSeq(r, 1, more), c.bits) >>)
       /\ top' = [top EXCEPT ![p] = more]
  BY <1>1, <1>4, <1>5, <1>6, <1>9 DEF Left, Rest
<1>11. /\ c.bits \in Seq(BOOLEAN) /\ n \in Nat /\ c.op = "feed" /\ c.who = "BOB"
       /\ mark[k].to["ALICE"] \in Nat /\ mark[k].wires \in Nat
  BY <1>3, <1>4, <1>10, FeedFields
<1>12. /\ mark'[k + 1].gid = mark[k].gid
       /\ mark'[k + 1].counter = mark[k].counter
       /\ mark'[k + 1].wires = mark[k].wires + n
       /\ mark'[k + 1].reveals = mark[k].reveals
       /\ mark'[k + 1].to["BOB"] = mark[k].to["BOB"]
  BY <1>3, <1>4, <1>10, FeedFields
<1>13. /\ t \in 0 .. Batch /\ Batch - t = s - u /\ s - u \in Nat /\ Batch \in Nat \ {0}
       /\ u \in Nat /\ s \in Nat
  <2>1. /\ t \in 0 .. Batch /\ Batch - t = s - u /\ s - u \in Nat /\ u \in Nat /\ s \in Nat
    BY <1>8, Position
  <2> QED
    BY <2>1, BatchFacts
<1>14. /\ more \in 0 .. Batch /\ n = (s - u) + more /\ u + n > s
       /\ more = Batch - ((s + Batch) - (u + n))
  BY ONLY <1>9, <1>10, <1>11, <1>13
<1>15. /\ mark'[k + 1].used = u + n
       /\ mark'[k + 1].stocked = s + Batch
       /\ mark'[k + 1].to["ALICE"] = mark[k].to["ALICE"] + 2
  <2>1. FeedsBob(c) /\ n = Len(c.bits) /\ n <= Batch /\ mark[k].used + n > mark[k].stocked
    BY <1>4, <1>5, <1>10, <1>14
  <2>2. mark'[k + 1].used = mark[k].used + n
    BY <1>3, <1>4, <2>1, PoolFields
  <2>3. mark'[k + 1].stocked = mark[k].stocked + Batch
    BY <1>3, <1>4, <2>1, PoolFields
  <2>4. mark'[k + 1].to["ALICE"] = mark[k].to["ALICE"] + 2
    BY <1>3, <1>4, <2>1, PoolFields
  <2> QED
    BY <1>5, <2>2, <2>3, <2>4
<1>16. Restocked(s, r, d)
  BY <1>6, <1>8, <1>10, Restocks DEF IInv
<1>17. /\ d \in Seq(Block) /\ Len(d) = Batch
       /\ buf'["BOB"] = d /\ buff' = r
       /\ Prolongs(stock, stock')
       /\ \A i \in 1 .. Batch : stock'[s + i].t = d[i] /\ stock'[s + i].r = r[i]
  BY <1>16 DEF Restocked
<1>18. PICK Us, Vs : Us = [j \in Nat |-> stock'[j].t] /\ Vs = [j \in Nat |-> stock'[j].r]
  OBVIOUS
<1>19. Holds(Block, x, Us, s - Batch) /\ Holds(BOOLEAN, y, Vs, s - Batch)
  <2>1. ASSUME NEW i \in 1 .. Batch
        PROVE  Us[(s - Batch) + i] = Ts[(s - Batch) + i] /\ Vs[(s - Batch) + i] = Rs[(s - Batch) + i]
    <3>1. (s - Batch) + i \in Nat /\ (s - Batch) + i \in 1 .. Len(stock)
      <4>1. Batch <= s /\ s \in Nat /\ Batch \in Nat /\ Len(stock) = s
        BY <1>8, <1>13 DEF Pooling
      <4> QED
        BY ONLY <4>1, i \in 1 .. Batch
    <3>2. stock'[(s - Batch) + i] = stock[(s - Batch) + i]
      BY <1>17, <3>1 DEF Prolongs
    <3> QED
      BY <1>7, <1>18, <3>1, <3>2 DEF Blocks, Choices
  <2> QED
    BY <1>8, <2>1 DEF Holds
<1>20. Holds(Block, d, Us, s) /\ Holds(BOOLEAN, r, Vs, s)
  <2>1. ASSUME NEW i \in 1 .. Batch
        PROVE  d[i] \in Block /\ d[i] = Us[s + i] /\ r[i] \in BOOLEAN /\ r[i] = Vs[s + i]
    <3>1. s + i \in Nat
      BY <1>13
    <3>2. d[i] \in Block
      BY <1>17, SeqAt
    <3> QED
      BY <1>17, <1>18, <3>1, <3>2
  <2> QED
    BY <2>1 DEF Holds
<1>21. PICK labels, ch :
         /\ labels = SubSeq(x, t + 1, Batch) \o SubSeq(d, 1, more)
         /\ ch = SubSeq(y, t + 1, Batch) \o SubSeq(r, 1, more)
  OBVIOUS
<1>22. Follows(Block, labels, Us, u, n)
  <2>1. labels = SubSeq(x, t + 1, Batch) \o SubSeq(d, 1, more)
    BY <1>21
  <2> QED
    BY ONLY <1>8, <1>14, <1>19, <1>20, <2>1, Spliced
<1>23. Follows(BOOLEAN, ch, Vs, u, n)
  <2>1. ch = SubSeq(y, t + 1, Batch) \o SubSeq(r, 1, more)
    BY <1>21
  <2> QED
    BY ONLY <1>8, <1>14, <1>19, <1>20, <2>1, Spliced
<1>24. labels \in Seq(Block) /\ Len(labels) = n /\ \A i \in 1 .. n : labels[i] = Us[u + i]
  BY <1>22 DEF Follows
<1>25. \A i \in 1 .. n : Us[u + i] = stock'[u + i].t /\ Vs[u + i] = stock'[u + i].r
  BY <1>11, <1>13, <1>18
<1>26. /\ Labelled(p)
       /\ \A i \in 1 .. n : wire'[p][mark[k].wires + i] = stock'[u + i].t
  <2>1. Adds(p, labels)
    BY <1>10, <1>17, <1>21
  <2>2. /\ Labelled(p)
        /\ \A i \in 1 .. n : wire'[p][mark[k].wires + i] = labels[i]
    BY <1>3, <1>4, <1>12, <1>24, <2>1, AddsLabelled
  <2> QED
    BY <1>24, <1>25, <2>2
<1> PICK bits : bits = c.bits
  OBVIOUS
<1> PICK e : e = Flips(ch, bits)
  OBVIOUS
<1> PICK f : f = [i \in 1 .. n |-> Vs[u + i] # bits[i]]
  OBVIOUS
<1>27. e \in Message /\ e = Msg("flips", f)
  <2>1. bits \in Seq(BOOLEAN) /\ n = Len(bits)
    BY <1>4, <1>11
  <2> QED
    BY <1>23, <2>1, FlipsMessage
<1> PICK g : g = Msg("cot", [r |-> r, t |-> d])
  OBVIOUS
<1>28. /\ g \in Message /\ g.kind = "cot" /\ g.data.t = d /\ g.data.r = r
       /\ Len(d) = Batch /\ Len(r) = Batch
  <2>1. r \in Seq(BOOLEAN) /\ Len(r) = Batch
    BY <1>13, FunSeq
  <2>2. g \in Message
    BY <1>17, <2>1, MsgTyped
  <2>3. g.kind = "cot" /\ g.data.t = d /\ g.data.r = r
    BY DEF Msg
  <2> QED
    BY <1>17, <2>1, <2>2, <2>3
<1>29. /\ Mailed
       /\ net'[q][(mark[k].to[q] + 1) - Read(q)'] = g
       /\ net'[q][(mark[k].to[q] + 2) - Read(q)'] = e
  <2>1. PICK msgs : msgs = <<g, e>>
    OBVIOUS
  <2>2. /\ msgs \in Seq(Message) /\ Len(msgs) = 2 /\ msgs[1] = g /\ msgs[2] = e
        /\ 1 \in 1 .. Len(msgs) /\ 2 \in 1 .. Len(msgs)
    BY <1>27, <1>28, <2>1, TwoFacts
  <2>3. Sends(p, msgs)
    BY <1>6, <1>10, <1>21, <2>1 DEF CotMsg
  <2>4. /\ mark'[k + 1].to[Peer(p)] = mark[k].to[Peer(p)] + Len(msgs)
        /\ mark'[k + 1].to[p] = mark[k].to[p]
    BY <1>12, <1>15, <2>2
  <2>5. /\ Mailed
        /\ \A i \in 1 .. Len(msgs) :
             net'[Peer(p)][(mark[k].to[Peer(p)] + i) - Read(Peer(p))'] = msgs[i]
    BY <1>3, <1>4, <2>2, <2>3, <2>4, MailSends
  <2> QED
    BY <2>2, <2>5
<1>30. Told(p) /\ Counted(p)
  BY <1>2, <1>3, <1>4, <1>12, NotTold, SameCounts
<1>31. Supplied(p)
  <2>1. top' \in [Party -> 0 .. Batch] /\ top'[p] = more /\ top'[Peer(p)] = top[Peer(p)]
    <3>1. top \in [Party -> 0 .. Batch] /\ Peer(p) # p /\ Peer(p) \in Party
      BY PeerFacts DEF IInv, TypeOK
    <3> QED
      BY <1>10, <1>14, <3>1
  <2>2. top'[p] = Batch - (mark'[k + 1].stocked - mark'[k + 1].used)
    BY <1>14, <1>15, <2>1
  <2> QED
    BY <1>2, <1>3, <1>4, <1>5, <1>15, <1>16, <2>1, <2>2, PoolRefilled
<1>32. script'[k] = c /\ mark'[k] = mark[k]
  BY <1>3, <1>4 DEF Makes
<1>33. CallLabels(p, k)'
  BY <1>4, <1>5, <1>11, <1>26, <1>32 DEF CallLabels
<1>34. ToAlice(k)'
  <2>1. Due("ALICE", mark[k + 1].to["ALICE"])' = e
    BY <1>15, <1>29 DEF Due
  <2>2. Due("ALICE", mark[k].to["ALICE"] + 1)' = g
    BY <1>29, <1>32 DEF Due
  <2>3. e = Msg("flips", [i \in 1 .. n |-> stock'[u + i].r # c.bits[i]])
    BY <1>25, <1>27
  <2>4. ~(n > Batch)
    BY ONLY <1>10, <1>11, <1>13
  <2>5. Refills(g, s)'
    BY <1>17, <1>28 DEF Refills
  <2>6. Refills(Due("ALICE", mark[k].to["ALICE"] + 1), mark[k].stocked)'
    BY <1>5, <1>32, <2>2, <2>5 DEF Refills
  <2>7. script'[k] = c /\ n = Len(c.bits) /\ c.op = "feed" /\ mark'[k].used = u
    BY <1>4, <1>5, <1>11, <1>32
  <2> QED
    BY ONLY <2>1, <2>3, <2>4, <2>6, <2>7, ToldFlips
<1>35. Given(p, k)'
  BY <1>3, <1>4, <1>11, Silent
<1>36. ~(k < Call(Peer(p)))
  <2>1. mark'[at[p] + 1].to[Peer(p)] > mark[at[p]].to[Peer(p)]
    BY <1>4, <1>11, <1>15
  <2>2. Placed /\ Grows
    BY <1>3, InvPlaced DEF Makes
  <2>3. Call(Peer(p)) <= k
    BY <1>3, <1>4, <2>1, <2>2, NotPast
  <2>4. Call(q) \in Nat /\ k \in Nat
    BY <1>3, <1>4, <2>2, MovesTo, Where
  <2> QED
    BY <2>3, <2>4
<1> QED
  BY <1>2, <1>3, <1>4, <1>26, <1>29, <1>30, <1>31, <1>33, <1>34, <1>35, <1>36, Completes

-----------------------------------------------------------------------------
(* The garbler begins a call that it will complete in another step. *)

Enters(c, s) ==
  /\ Makes("ALICE", c)
  /\ pc' = [pc EXCEPT !["ALICE"] = s]
  /\ at' = at
  /\ \/ s = "feed" /\ FeedsBob(c) /\ Len(c.bits) <= Batch
     \/ s = "reveal" /\ c.op = "reveal" /\ c.who = "PUBLIC"

(* Where the garbler is when she has begun a call. *)
LEMMA EntersTo ==
  ASSUME IInv, NEW c, NEW s, Enters(c, s), NEW k, k = at["ALICE"]
  PROVE  /\ k \in Nat /\ k \in 1 .. Len(script) + 1 /\ k \in 1 .. Len(script') /\ k + 1 \in 1 .. Len(script') + 1
         /\ Call("ALICE") = k /\ Call("ALICE")' = k
         /\ Reached("ALICE") = k /\ Reached("ALICE")' = IF s = "reveal" THEN k + 1 ELSE k
         /\ Pooled("ALICE")' = IF s = "feed" THEN mark'[k + 1] ELSE mark'[k]
         /\ Pooled("ALICE") = mark[k] /\ mark'[k] = mark[k]
         /\ Call("BOB")' = Call("BOB")
         /\ Reached("BOB")' = Reached("BOB")
         /\ Pooled("BOB")' = Pooled("BOB")
         /\ Read("ALICE") = mark[k].to["ALICE"]
         /\ Read("ALICE")' = mark'[k + 1].to["ALICE"] - 1
         /\ Sent("BOB") = mark[k].to["BOB"]
         /\ Sent("BOB")' = IF s = "reveal" THEN mark'[k + 1].to["BOB"] ELSE mark'[k].to["BOB"]
         /\ Read("BOB")' = Read("BOB") /\ Sent("ALICE")' = Sent("ALICE")
         /\ pc["BOB"] # "setup" /\ pc'["BOB"] = pc["BOB"] /\ pc'["ALICE"] = s
         /\ pc' \in [Party -> {"setup", "run", "feed", "reveal"}]
         /\ Positions'
<1> DEFINE p == "ALICE"
           q == "BOB"
<1>0. /\ Placed /\ p \in Party /\ q \in Party /\ q # p /\ Peer(p) = q /\ Peer(q) = p
      /\ \A r \in Party : r = p \/ r = q
  BY InvPlaced, Parties DEF Party
<1>1. /\ pc[p] = "run" /\ at[p] = k /\ k \in 1 .. Len(script) + 1 /\ k \in 1 .. Len(script')
      /\ Grows /\ ProgramInv' /\ at' = at /\ mark'[k] = mark[k] /\ script'[k] = c
      /\ s \in {"feed", "reveal"}
  BY <1>0 DEF Enters, Makes, Placed
<1>2. /\ Len(script) \in Nat /\ Len(script') \in Nat /\ Len(script) <= Len(script')
      /\ k \in Nat /\ k + 1 \in 1 .. Len(script') + 1
  <2>1. Len(script) \in Nat /\ Len(script') \in Nat
    BY <1>0, <1>1, LenProperties DEF Placed, ProgramInv, ProgramTyped
  <2> QED
    BY <1>1, <2>1 DEF Grows
<1>3. /\ pc' \in [Party -> {"setup", "run", "feed", "reveal"}]
      /\ pc'[q] = pc[q] /\ pc'[p] = s
  BY <1>0, <1>1 DEF Enters, Placed
<1>4. /\ Call(p) = k /\ Reached(p) = k /\ Pooled(p) = mark[k]
      /\ Call(p)' = k /\ Reached(p)' = IF s = "reveal" THEN k + 1 ELSE k
      /\ Pooled(p)' = IF s = "feed" THEN mark'[k + 1] ELSE mark'[k]
  BY <1>1, <1>3 DEF Call, Reached, Pooled
<1>5. pc[q] = "run"
  <2>1. pc[q] # "setup"
    BY <1>0, <1>1, InSetup
  <2> QED
    BY <1>0, <2>1, Where
<1>6. at[q] \in 1 .. Len(script) + 1
  BY <1>0, <1>5, Where
<1>7. mark'[at[q]] = mark[at[q]]
  BY <1>1, <1>6 DEF Grows
<1>8. Call(q)' = Call(q) /\ Reached(q)' = Reached(q) /\ Pooled(q)' = Pooled(q)
  BY <1>1, <1>3, <1>5, <1>7 DEF Call, Reached, Pooled
<1>9. /\ Read(p) = mark[k].to[p] /\ Read(p)' = mark'[k + 1].to[p] - 1
      /\ Read(q)' = Read(q)
  BY <1>1, <1>3, <1>5, <1>7 DEF Read, Mid
<1>10. /\ Sent(q) = mark[k].to[q]
       /\ Sent(q)' = IF s = "reveal" THEN mark'[k + 1].to[q] ELSE mark'[k].to[q]
  BY <1>0, <1>1, <1>3, <1>4 DEF Sent
<1>11. Sent(p)' = Sent(p)
  BY <1>0, <1>1, <1>3, <1>5, <1>7, <1>8 DEF Sent, Reached, Call
<1>12. Positions'
  <2>1. pc'[q] \in {"setup", "run"} /\ pc'[q] = "run"
    BY <1>3, <1>5
  <2>2. ASSUME NEW r \in Party
        PROVE  at'[r] \in IF pc'[r] = "setup" THEN 1 .. Len(Setup)
                          ELSE IF Mid(r)' THEN 1 .. Len(script')
                          ELSE 1 .. Len(script') + 1
    <3>1. CASE r = p
      BY <1>1, <1>3, <3>1 DEF Mid
    <3>2. CASE r = q
      <4>1. at'[q] \in 1 .. Len(script') + 1
        BY <1>1, <1>2, <1>6
      <4> QED
        BY <2>1, <3>2, <4>1 DEF Mid
    <3> QED
      BY <1>0, <3>1, <3>2
  <2>3. pc'[p] = "feed" => FeedsBob(script'[at'[p]]) /\ Len(script'[at'[p]].bits) <= Batch
    BY <1>1, <1>3 DEF Enters
  <2>4. pc'[p] = "reveal" => script'[at'[p]].op = "reveal" /\ script'[at'[p]].who = "PUBLIC"
    BY <1>1, <1>3 DEF Enters
  <2>5. \A d : FeedsBob(d)' <=> FeedsBob(d)
    BY DEF FeedsBob
  <2> QED
    BY <2>1, <2>2, <2>3, <2>4, <2>5 DEF Positions, FeedsBob
<1> QED
  BY <1>1, <1>2, <1>3, <1>4, <1>5, <1>8, <1>9, <1>10, <1>11, <1>12

(* The pool of the garbler in the middle of a call *)
Stocked == /\ PoolTyped'
           /\ Prolongs(stock, stock')
           /\ top'["ALICE"] = Batch - (Pooled("ALICE")'.stocked - Pooled("ALICE")'.used)
           /\ top'["BOB"] = top["BOB"]
           /\ Pool'

(* Beginning a call keeps the invariant, if the pool is what it says, and  *)
(* her message too when she is to send one.                                *)
LEMMA Begins ==
  ASSUME IInv, NEW c, NEW s, Enters(c, s), NEW k, k = at["ALICE"],
         UNCHANGED <<delta, constant, wire, gid, counter, out>>,
         Mailed, Stocked,
         (s = "reveal" /\ Call("BOB") <= k) => ToBob(k)'
  PROVE  IInv'
<1> DEFINE p == "ALICE"
           q == "BOB"
<1>0. /\ Placed /\ p \in Party /\ q \in Party /\ q # p
      /\ \A r \in Party : r = p \/ r = q
  BY InvPlaced, Parties DEF Party
<1>1. /\ k \in Nat /\ k \in 1 .. Len(script) + 1
      /\ Call(p) = k /\ Call(p)' = k /\ Call(q)' = Call(q)
      /\ Reached(p) = k /\ Reached(p)' = IF s = "reveal" THEN k + 1 ELSE k
      /\ Pooled(q)' = Pooled(q) /\ mark'[k] = mark[k]
      /\ pc["BOB"] # "setup" /\ pc'["BOB"] = pc["BOB"] /\ pc'["ALICE"] = s
      /\ pc' \in [Party -> {"setup", "run", "feed", "reveal"}]
      /\ Positions'
  BY EntersTo
<1>2. ProgramInv' /\ Grows /\ pc[p] = "run" /\ at' = at /\ s \in {"feed", "reveal"}
  BY DEF Enters, Makes
<1>3. /\ delta' = delta /\ constant' = constant /\ wire' = wire /\ gid' = gid
      /\ counter' = counter /\ out' = out
  OBVIOUS
<1>4. TypeOK'
  <2>1. /\ at \in [Party -> Nat] /\ delta \in Block /\ constant \in [Party -> [BOOLEAN -> Block]]
        /\ wire \in [Party -> Seq(Block)] /\ gid \in [Party -> Nat] /\ counter \in [Party -> Nat]
        /\ out \in [Party -> Seq(Seq(BOOLEAN))]
    BY DEF IInv, TypeOK
  <2>2. /\ script' \in Seq(CallType) /\ val' \in Seq(BOOLEAN) /\ mark' \in Seq(Mark)
    BY <1>2 DEF ProgramInv, ProgramTyped
  <2>3. net' \in [Party -> Seq(Message)]
    BY DEF Mailed
  <2>4. /\ cots' \in Nat
        /\ buf' \in [Party -> [1 .. Batch -> Block]]
        /\ buff' \in [1 .. Batch -> BOOLEAN]
        /\ stock' \in Seq([t : Block, r : BOOLEAN])
        /\ top' \in [Party -> 0 .. Batch]
        /\ part' \in Seq(Block)
    BY DEF Stocked, PoolTyped
  <2> QED
    BY <1>1, <1>2, <1>3, <2>1, <2>2, <2>3, <2>4 DEF TypeOK
<1>5. Counters'
  <2>1. \A r \in Party : mark'[Call(r)'] = mark[Call(r)]
    <3>1. Call(q) \in 1 .. Len(script) + 1
      BY <1>0, Where
    <3> QED
      BY <1>0, <1>1, <1>2, <3>1 DEF Grows
  <2>2. \A r \in Party :
          /\ gid[r] = mark[Call(r)].gid /\ counter[r] = mark[Call(r)].counter
          /\ Len(wire[r]) = mark[Call(r)].wires /\ Len(out[r]) = mark[Call(r)].reveals
    BY DEF IInv, Counters
  <2>3. top'[p] = Batch - (Pooled(p)'.stocked - Pooled(p)'.used)
    BY DEF Stocked
  <2>4. top'[q] = Batch - (Pooled(q)'.stocked - Pooled(q)'.used)
    <3>1. top[q] = Batch - (Pooled(q).stocked - Pooled(q).used)
      BY <1>0 DEF IInv, Counters
    <3> QED
      BY <1>1, <3>1 DEF Stocked
  <2>5. \A r \in Party :
          /\ gid'[r] = mark'[Call(r)'].gid /\ counter'[r] = mark'[Call(r)'].counter
          /\ Len(wire'[r]) = mark'[Call(r)'].wires /\ Len(out'[r]) = mark'[Call(r)'].reveals
    BY <1>3, <2>1, <2>2
  <2> QED
    BY <1>0, <2>3, <2>4, <2>5 DEF Counters
<1>6. Onward
  <2>1. \A r \in Party : wire[r] \in Seq(Block) /\ out[r] \in Seq(Seq(BOOLEAN))
    BY DEF IInv, TypeOK
  <2>2. \A r \in Party : Prolongs(wire[r], wire'[r]) /\ Prolongs(out[r], out'[r])
    BY <1>3, <2>1, ProlongsSelf
  <2> QED
    BY <1>2, <1>3, <2>2 DEF Onward, Stocked
<1>7. NewLabelsMatch
  <2>1. Len(wire["ALICE"]) \in Nat /\ Len(wire["BOB"]) \in Nat
    BY Parties, LenProperties DEF IInv, TypeOK
  <2> QED
    BY <1>3, <2>1 DEF NewLabelsMatch
<1>8. Call(p) \in Nat /\ Call(q) \in Nat
  BY <1>0, <1>1, Where
<1>9. ASSUME NEW r \in Party, NEW j \in Call(r) .. Call(r)' - 1
      PROVE  CallLabels(r, j)' /\ Given(r, j)'
  BY <1>0, <1>1, <1>8, <1>9
<1>10. ASSUME NEW j \in Reached("ALICE") .. Reached("ALICE")' - 1, Call("BOB")' <= j
       PROVE  ToBob(j)'
  <2>1. s = "reveal" /\ j = k
    BY <1>1, <1>10
  <2> QED
    BY <1>1, <1>10, <2>1
<1>11. ASSUME NEW j \in Call("BOB") .. Call("BOB")' - 1, Call("ALICE")' <= j
       PROVE  ToAlice(j)'
  BY <1>1, <1>8, <1>11
<1>12. Call("ALICE") <= Call("ALICE")' /\ Call("BOB") <= Call("BOB")'
  BY <1>1, <1>8
<1>13. Queues' /\ DueKept("ALICE") /\ DueKept("BOB") /\ Pool'
  BY DEF Mailed, Stocked
<1> QED
  BY <1>1, <1>2, <1>4, <1>5, <1>6, <1>7, <1>9, <1>10, <1>11, <1>12, <1>13, Keeps

-----------------------------------------------------------------------------
(* The garbler completes the call it is in the middle of. *)

(* The marks on either side of the call the garbler is in the middle of. *)
LEMMA MidFields ==
  ASSUME IInv, Mid("ALICE"), NEW k, k = at["ALICE"], NEW c, c = script[k], NEW n, n = Len(c.bits)
  PROVE  /\ k \in 1 .. Len(script) /\ k \in Nat /\ k + 1 \in 1 .. Len(script) + 1
         /\ c \in CallType /\ CallOK(k)
         /\ c.bits \in Seq(BOOLEAN) /\ n \in Nat
         /\ mark[k].wires \in Nat /\ mark[k].reveals \in Nat /\ mark[k].used \in Nat
         /\ mark[k].to["ALICE"] \in Nat
         /\ mark[k + 1].gid = mark[k].gid
         /\ mark[k + 1].counter = mark[k].counter
         /\ mark[k + 1].wires = mark[k].wires + n
         /\ pc["ALICE"] = "feed" =>
              /\ FeedsBob(c) /\ n <= Batch /\ c.op = "feed" /\ c.who = "BOB"
              /\ mark[k + 1].reveals = mark[k].reveals
              /\ mark[k + 1].to["BOB"] = mark[k].to["BOB"]
         /\ pc["ALICE"] = "reveal" =>
              /\ c.op = "reveal" /\ c.who = "PUBLIC" /\ n = 0
              /\ mark[k + 1].used = mark[k].used
              /\ mark[k + 1].stocked = mark[k].stocked
              /\ mark[k + 1].reveals = mark[k].reveals + 1
              /\ mark[k + 1].to["ALICE"] = mark[k].to["ALICE"] + 1
<1>0. Placed /\ ProgramInv
  BY InvPlaced, InvProgram
<1>1. /\ k \in 1 .. Len(script)
      /\ pc["ALICE"] = "feed" => mark[k + 1].to["BOB"] = mark[k].to["BOB"]
      /\ pc["ALICE"] = "reveal" => mark[k + 1].to["ALICE"] = mark[k].to["ALICE"] + 1
  <2>1. ProgramInv /\ Positions /\ at["ALICE"] \in Nat
    BY <1>0, Parties DEF Placed
  <2> QED
    BY <2>1, MidReads
<1>2. /\ k \in Nat /\ k + 1 \in 1 .. Len(script) + 1 /\ c \in CallType /\ CallOK(k)
      /\ mark[k + 1] = After(mark[k], c) /\ n \in Nat
  BY <1>0, <1>1, CallInRange
<1>3. c.bits \in Seq(BOOLEAN)
  BY <1>2 DEF CallType
<1>4. /\ mark[k] \in Mark /\ mark[k].wires \in Nat /\ mark[k].reveals \in Nat
      /\ mark[k].used \in Nat /\ mark[k].to["ALICE"] \in Nat
  BY <1>0, <1>1, CallAfter
<1>5. /\ pc["ALICE"] = "feed" => FeedsBob(c) /\ n <= Batch /\ c.op = "feed" /\ c.who = "BOB"
      /\ pc["ALICE"] = "reveal" => c.op = "reveal" /\ c.who = "PUBLIC"
  BY <1>0 DEF Placed, Positions, FeedsBob
<1>6. /\ c.op \notin {"and", "xor", "not"} /\ c.op # "and" /\ ~(c.op = "feed" /\ c.who = "ALICE")
  BY <1>5 DEF Mid
<1>12. PICK m : m = mark[k]
  OBVIOUS
<1>13. /\ After(m, c).gid = m.gid
       /\ After(m, c).counter = m.counter
       /\ After(m, c).wires = m.wires + Len(c.bits)
  <2>1. /\ m \in Mark /\ c \in CallType
        /\ c.op \notin {"and", "xor", "not"} /\ c.op # "and"
        /\ ~(c.op = "feed" /\ c.who = "ALICE")
    BY <1>2, <1>4, <1>6, <1>12
  <2> QED
    BY ONLY <2>1, AfterFields
<1>7. mark[k + 1].gid = mark[k].gid
  BY <1>2, <1>12, <1>13
<1>8. mark[k + 1].counter = mark[k].counter
  BY <1>2, <1>12, <1>13
<1>9. mark[k + 1].wires = mark[k].wires + n
  BY <1>2, <1>12, <1>13
<1>10. ASSUME pc["ALICE"] = "feed" PROVE mark[k + 1].reveals = mark[k].reveals
  <2>1. c.op # "reveal"
    BY <1>5, <1>10
  <2> QED
    BY <1>2, <1>4, <2>1, AfterFields
<1>11. ASSUME pc["ALICE"] = "reveal"
       PROVE  /\ n = 0
              /\ mark[k + 1].used = mark[k].used
              /\ mark[k + 1].stocked = mark[k].stocked
              /\ mark[k + 1].reveals = mark[k].reveals + 1
  <2>1. c.op = "reveal" /\ ~FeedsBob(c)
    BY <1>5, <1>11 DEF FeedsBob
  <2>2. n = 0
    BY <1>2, <2>1, EmptySeq DEF CallOK
  <2>3. mark[k + 1].used = mark[k].used
    BY <1>2, <1>4, <2>1, AfterFields
  <2>4. mark[k + 1].stocked = mark[k].stocked
    BY <1>2, <1>4, <2>1, AfterFields
  <2>5. mark[k + 1].reveals = mark[k].reveals + 1
    BY <1>2, <1>4, <2>1, AfterFields
  <2> QED
    BY <2>2, <2>3, <2>4, <2>5
<1> QED
  BY <1>1, <1>2, <1>3, <1>4, <1>5, <1>7, <1>8, <1>9, <1>10, <1>11

(* The types of what such a call changes, and the wires it makes, by the *)
(* name the state gives to it.                                           *)
LEMMA MidWires ==
  ASSUME IInv, Mid("ALICE")
  PROVE  LET k == at["ALICE"]
         IN /\ k + 1 \in 1 .. Len(script) + 1
            /\ CallOK(k)
            /\ script[k].bits \in Seq(BOOLEAN) /\ Len(script[k].bits) \in Nat
            /\ mark[k].wires \in Nat /\ mark[k].reveals \in Nat /\ mark[k].used \in Nat
            /\ mark[k + 1].wires = mark[k].wires + Len(script[k].bits)
<1> PICK k, c, n : k = at["ALICE"] /\ c = script[k] /\ n = Len(c.bits)
  OBVIOUS
<1> QED
  BY MidFields, Zenon

Leaves(s) ==
  /\ pc["ALICE"] = s
  /\ s \in {"feed", "reveal"}
  /\ pc' = [pc EXCEPT !["ALICE"] = "run"]
  /\ at' = [at EXCEPT !["ALICE"] = @ + 1]
  /\ UNCHANGED program

(* Where the garbler is when she has completed it. *)
LEMMA LeavesTo ==
  ASSUME IInv, NEW s, Leaves(s), NEW k, k = at["ALICE"]
  PROVE  /\ Call("ALICE") = k /\ Call("ALICE")' = k + 1
         /\ Reached("ALICE") = IF s = "reveal" THEN k + 1 ELSE k
         /\ Reached("ALICE")' = k + 1
         /\ Pooled("ALICE") = IF s = "feed" THEN mark[k + 1] ELSE mark[k]
         /\ Pooled("ALICE")' = mark[k + 1]
         /\ Call("BOB")' = Call("BOB")
         /\ Reached("BOB")' = Reached("BOB")
         /\ Pooled("BOB")' = Pooled("BOB")
         /\ Read("ALICE") = mark[k + 1].to["ALICE"] - 1
         /\ Read("ALICE")' = mark[k + 1].to["ALICE"]
         /\ Sent("BOB")' = Sent("BOB")
         /\ Read("BOB")' = Read("BOB") /\ Sent("ALICE")' = Sent("ALICE")
         /\ pc["BOB"] = "run" /\ pc'["BOB"] = "run" /\ pc'["ALICE"] = "run"
         /\ pc' \in [Party -> {"setup", "run", "feed", "reveal"}]
         /\ at' \in [Party -> Nat] /\ at'["ALICE"] = k + 1 /\ at'["BOB"] = at["BOB"]
         /\ Positions'
<1> DEFINE p == "ALICE"
           q == "BOB"
<1>0. /\ Placed /\ p \in Party /\ q \in Party /\ q # p /\ Peer(p) = q /\ Peer(q) = p
      /\ \A r \in Party : r = p \/ r = q
  BY InvPlaced, Parties DEF Party
<1>1. /\ pc[p] = s /\ s \in {"feed", "reveal"} /\ at[p] = k
      /\ script' = script /\ val' = val /\ mark' = mark /\ Mid(p)
  BY DEF Leaves, Mid, program
<1>2. /\ k \in 1 .. Len(script) /\ k \in Nat /\ k + 1 \in 1 .. Len(script) + 1
      /\ s = "feed" => mark[k + 1].to[q] = mark[k].to[q]
  BY <1>1, MidFields
<1>3. /\ pc' \in [Party -> {"setup", "run", "feed", "reveal"}]
      /\ pc'[q] = pc[q] /\ pc'[p] = "run"
      /\ at' \in [Party -> Nat] /\ at'[p] = k + 1 /\ at'[q] = at[q]
  BY <1>0, <1>1, <1>2 DEF Leaves, Placed
<1>4. /\ Call(p) = k /\ Reached(p) = IF s = "reveal" THEN k + 1 ELSE k
      /\ Pooled(p) = IF s = "feed" THEN mark[k + 1] ELSE mark[k]
      /\ Call(p)' = k + 1 /\ Reached(p)' = k + 1 /\ Pooled(p)' = mark[k + 1]
  BY <1>1, <1>3 DEF Call, Reached, Pooled
<1>5. pc[q] = "run"
  <2>1. pc[q] # "setup"
    BY <1>0, <1>1, InSetup
  <2> QED
    BY <1>0, <2>1, Where
<1>6. at[q] \in 1 .. Len(script) + 1
  BY <1>0, <1>5, Where
<1>8. Call(q)' = Call(q) /\ Reached(q)' = Reached(q) /\ Pooled(q)' = Pooled(q)
  BY <1>1, <1>3, <1>5 DEF Call, Reached, Pooled
<1>9. /\ Read(p) = mark[k + 1].to[p] - 1 /\ Read(p)' = mark[k + 1].to[p]
      /\ Read(q)' = Read(q)
  BY <1>1, <1>3, <1>5 DEF Read, Mid
<1>10. Sent(q)' = Sent(q)
  <2>1. Sent(q) = mark[Reached(p)].to[q] /\ Sent(q)' = mark[k + 1].to[q]
    BY <1>0, <1>1, <1>3, <1>4 DEF Sent
  <2> QED
    BY <1>1, <1>2, <1>4, <2>1
<1>11. Sent(p)' = Sent(p)
  BY <1>0, <1>1, <1>3, <1>5, <1>8 DEF Sent
<1>12. Positions'
  BY <1>0, <1>1, <1>2, <1>3, <1>5, <1>6 DEF Positions, Mid
<1> QED
  BY <1>3, <1>4, <1>5, <1>8, <1>9, <1>10, <1>11, <1>12

(* Completing the call keeps the invariant, if its labels and its output   *)
(* are what the invariant says, and match the evaluator's, who has made it.*)
LEMMA Ends ==
  ASSUME IInv, NEW s, Leaves(s), NEW k, k = at["ALICE"], net["ALICE"] # <<>>, Takes("ALICE"),
         UNCHANGED <<delta, constant, gid, counter, pool>>, part' \in Seq(Block),
         Labelled("ALICE"), Told("ALICE"),
         CallLabels("ALICE", k)', Given("ALICE", k)', NewMatch(k)
  PROVE  IInv'
<1> PICK p, q : p = "ALICE" /\ q = "BOB"
  OBVIOUS
<1> PICK c : c = script[k]
  OBVIOUS
<1>0. /\ Placed /\ ProgramInv /\ p \in Party /\ q \in Party /\ q # p /\ Peer(p) = q
      /\ \A r \in Party : r = p \/ r = q
  BY InvPlaced, InvProgram, Parties DEF Party
<1>1. /\ Mid("ALICE") /\ script' = script /\ val' = val /\ mark' = mark
      /\ s \in {"feed", "reveal"} /\ pc[p] = s
  BY DEF Leaves, Mid, program
<1>2. /\ k \in 1 .. Len(script) /\ k \in Nat /\ k + 1 \in 1 .. Len(script) + 1
      /\ mark[k + 1].gid = mark[k].gid
      /\ mark[k + 1].counter = mark[k].counter
      /\ pc[p] = "feed" => FeedsBob(c) /\ c.op = "feed"
      /\ pc[p] = "reveal" => /\ mark[k + 1].used = mark[k].used
                             /\ mark[k + 1].stocked = mark[k].stocked
  <2>1. /\ k \in 1 .. Len(script) /\ k \in Nat /\ k + 1 \in 1 .. Len(script) + 1
        /\ mark[k + 1].gid = mark[k].gid /\ mark[k + 1].counter = mark[k].counter
    BY <1>1, MidFields
  <2>2. pc[p] = "feed" => FeedsBob(c) /\ c.op = "feed"
    BY <1>1, MidFields
  <2>3. pc[p] = "reveal" => mark[k + 1].used = mark[k].used /\ mark[k + 1].stocked = mark[k].stocked
    BY <1>1, MidFields
  <2> QED
    BY <2>1, <2>2, <2>3
<1>3. /\ Call(p) = k /\ Call(p)' = k + 1
      /\ Reached(p) = (IF s = "reveal" THEN k + 1 ELSE k)
      /\ Reached(p)' = k + 1
      /\ Pooled(p) = (IF s = "feed" THEN mark[k + 1] ELSE mark[k])
      /\ Pooled(p)' = mark[k + 1]
      /\ Call(q)' = Call(q)
      /\ Pooled(q)' = Pooled(q)
  BY LeavesTo
<1>4. /\ Read(p) = mark[k + 1].to[p] - 1
      /\ Read(p)' = mark[k + 1].to[p]
      /\ Sent(q)' = Sent(q)
      /\ Read(q)' = Read(q) /\ Sent(p)' = Sent(p)
  BY LeavesTo
<1>5. /\ pc["BOB"] = "run" /\ pc'["BOB"] = "run" /\ pc'["ALICE"] = "run"
      /\ pc' \in [Party -> {"setup", "run", "feed", "reveal"}]
      /\ at' \in [Party -> Nat]
      /\ Positions'
  BY LeavesTo
<1>6. /\ delta' = delta /\ constant' = constant /\ gid' = gid /\ counter' = counter
      /\ cots' = cots /\ buf' = buf /\ buff' = buff /\ stock' = stock /\ top' = top
  BY DEF pool
<1>7. /\ Grows /\ ProgramInv'
  <2>1. ProgramInv'
    <3>1. ProgramTyped /\ Program /\ Monotone
      BY <1>0 DEF ProgramInv
    <3>2. ProgramTyped'
      BY <1>1, <3>1 DEF ProgramTyped
    <3>3. Monotone'
      BY <1>1, <3>1 DEF Monotone
    <3>4. \A j : CallOK(j)' = CallOK(j)
      BY <1>1 DEF CallOK
    <3>5. Program'
      BY <1>1, <3>1, <3>4 DEF Program
    <3> QED
      BY <3>2, <3>3, <3>5 DEF ProgramInv
  <2>2. Len(script) \in Nat /\ Len(val) \in Nat
    BY <1>0, LenProperties DEF ProgramInv, ProgramTyped
  <2> QED
    BY <1>1, <2>1, <2>2 DEF Grows
<1>8. /\ wire' \in [Party -> Seq(Block)] /\ wire'[q] = wire[q] /\ Prolongs(wire[p], wire'[p])
      /\ Len(wire'[p]) = mark[k + 1].wires
  BY <1>0, <1>1 DEF Labelled
<1>9. /\ out' \in [Party -> Seq(Seq(BOOLEAN))] /\ out'[q] = out[q] /\ Prolongs(out[p], out'[p])
      /\ Len(out'[p]) = mark[k + 1].reveals
  BY <1>0, <1>1 DEF Told
<1>10. /\ net' \in [Party -> Seq(Message)] /\ DueKept(p) /\ DueKept(q) /\ Queues'
  <2>1. net \in [Party -> Seq(Message)] /\ net' = [net EXCEPT ![p] = Tail(@)] /\ net[p] # <<>>
    BY <1>0 DEF Takes, Placed
  <2>2. net'[p] = Tail(net[p]) /\ net'[q] = net[q]
    BY <1>0, <2>1
  <2>3. Read(p)' = Read(p) + 1
    <3>1. Read(p) \in Nat
      BY <1>0, Counts
    <3>2. mark[k + 1].to[p] \in Nat
      BY <1>0, <1>2, MarkTyped
    <3> QED
      BY ONLY <1>4, <3>1, <3>2
  <2>4. DueKept(p) /\ net'[p] \in Seq(Message) /\ Len(net'[p]) = Len(net[p]) - 1
    BY <1>0, <2>1, <2>2, <2>3, QueueTakes
  <2>5. DueKept(q)
    BY <1>0, <1>4, <2>2, QueueSame
  <2>6. net' \in [Party -> Seq(Message)]
    <3>1. PICK m : m = Tail(net[p])
      OBVIOUS
    <3>2. m \in Seq(Message) /\ net' = [net EXCEPT ![p] = m]
      BY <2>1, <2>2, <2>4, <3>1
    <3> QED
      BY <1>0, <2>1, <3>2
  <2>7. Len(net'[q]) = Sent(q)' - Read(q)'
    BY <1>0, <1>4, <2>2, Counts
  <2>8. Len(net'[p]) = Sent(p)' - Read(p)'
    <3>1. Len(net[p]) = Sent(p) - Read(p) /\ Sent(p) \in Nat /\ Read(p) \in Nat
      BY <1>0, Counts
    <3> PICK a, b, d : a = Sent(p) /\ b = Read(p) /\ d = Len(net'[p])
      OBVIOUS
    <3>2. d = (a - b) - 1 /\ a \in Nat /\ b \in Nat
      BY <2>4, <3>1
    <3>3. d = a - (b + 1)
      BY ONLY <3>2
    <3> QED
      BY <1>4, <2>3, <3>3
  <2> QED
    BY <1>0, <2>4, <2>5, <2>6, <2>7, <2>8, BothQueues
<1>11. TypeOK'
  <2>1. /\ delta \in Block /\ constant \in [Party -> [BOOLEAN -> Block]]
        /\ gid \in [Party -> Nat] /\ counter \in [Party -> Nat]
        /\ cots \in Nat
        /\ buf \in [Party -> [1 .. Batch -> Block]]
        /\ buff \in [1 .. Batch -> BOOLEAN]
        /\ stock \in Seq([t : Block, r : BOOLEAN])
        /\ top \in [Party -> 0 .. Batch]
    BY DEF IInv, TypeOK
  <2>2. /\ script' \in Seq(CallType) /\ val' \in Seq(BOOLEAN) /\ mark' \in Seq(Mark)
    BY <1>7 DEF ProgramInv, ProgramTyped
  <2> QED
    BY <1>5, <1>6, <1>8, <1>9, <1>10, <2>1, <2>2 DEF TypeOK
<1>12. Counters'
  <2>1. \A r \in Party :
          /\ gid[r] = mark[Call(r)].gid /\ counter[r] = mark[Call(r)].counter
          /\ Len(wire[r]) = mark[Call(r)].wires /\ Len(out[r]) = mark[Call(r)].reveals
          /\ top[r] = Batch - (Pooled(r).stocked - Pooled(r).used)
    BY DEF IInv, Counters
  <2>2. /\ gid'[q] = mark'[Call(q)'].gid /\ counter'[q] = mark'[Call(q)'].counter
        /\ Len(wire'[q]) = mark'[Call(q)'].wires /\ Len(out'[q]) = mark'[Call(q)'].reveals
        /\ top'[q] = Batch - (Pooled(q)'.stocked - Pooled(q)'.used)
    BY <1>0, <1>1, <1>3, <1>6, <1>8, <1>9, <2>1
  <2>3. gid'[p] = mark'[k + 1].gid /\ counter'[p] = mark'[k + 1].counter
    BY <1>0, <1>1, <1>2, <1>3, <1>6, <2>1
  <2>4. top'[p] = Batch - (mark[k + 1].stocked - mark[k + 1].used)
    BY <1>0, <1>1, <1>2, <1>3, <1>6, <2>1
  <2> QED
    BY <1>0, <1>1, <1>3, <1>8, <1>9, <2>2, <2>3, <2>4 DEF Counters
<1>13. Onward
  <2>1. wire[q] \in Seq(Block) /\ out[q] \in Seq(Seq(BOOLEAN)) /\ stock \in Seq([t : Block, r : BOOLEAN])
    BY <1>0 DEF IInv, TypeOK
  <2>2. Prolongs(wire[q], wire'[q]) /\ Prolongs(out[q], out'[q]) /\ Prolongs(stock, stock')
    BY <1>6, <1>8, <1>9, <2>1, ProlongsSelf
  <2> QED
    BY <1>0, <1>6, <1>7, <1>8, <1>9, <2>2 DEF Onward
<1>14. Pool'
  <2>1. Pool
    BY DEF IInv
  <2>2. Pooled("ALICE")'.stocked = Pooled("ALICE").stocked
    BY <1>1, <1>2, <1>3
  <2> QED
    BY <1>1, <1>3, <1>5, <1>6, <2>1, <2>2 DEF Pool
<1>15. NewLabelsMatch
  <2>1. Len(wire["ALICE"]) = mark[k].wires /\ Len(wire["BOB"]) = mark[Call("BOB")].wires
    BY <1>3, Parties DEF IInv, Counters
  <2>2. ASSUME NEW w \in 1 .. Len(wire'["ALICE"]), w <= Len(wire'["BOB"]),
               Len(wire["ALICE"]) < w \/ Len(wire["BOB"]) < w
        PROVE  wire'["BOB"][w] = Active(wire'["ALICE"][w], val'[w], delta')
    <3>1. mark[k].wires \in Nat /\ mark[k + 1].wires \in Nat /\ mark[Call(q)].wires \in Nat
      <4>1. Call(q) \in 1 .. Len(script) + 1 /\ k \in 1 .. Len(script) + 1
        BY <1>0, <1>2, <1>3, Where
      <4> QED
        BY <1>0, <1>2, <4>1, MarkTyped
    <3>2. w \in mark[k].wires + 1 .. mark'[k + 1].wires
      BY <1>1, <1>8, <2>1, <2>2, <3>1
    <3> QED
      BY <3>2 DEF NewMatch
  <2> QED
    BY <2>2 DEF NewLabelsMatch
<1>16. Call(q) \in Nat
  BY <1>0, Where
<1>17. ASSUME NEW r \in Party, NEW j \in Call(r) .. Call(r)' - 1
       PROVE  CallLabels(r, j)' /\ Given(r, j)'
  <2>1. r = p /\ j = k
    BY <1>0, <1>2, <1>3, <1>16, <1>17
  <2> QED
    BY <2>1
<1>18. ASSUME NEW j \in Reached("ALICE") .. Reached("ALICE")' - 1, Call("BOB")' <= j
       PROVE  ToBob(j)'
  <2>1. s = "feed" /\ j = k
    BY <1>1, <1>2, <1>3, <1>18
  <2>2. script'[j].op = "feed"
    BY <1>1, <1>2, <2>1
  <2> QED
    BY <2>2 DEF ToBob
<1>19. ASSUME NEW j \in Call("BOB") .. Call("BOB")' - 1, Call("ALICE")' <= j
       PROVE  ToAlice(j)'
  BY <1>3, <1>16, <1>19
<1>20. Call("ALICE") <= Call("ALICE")' /\ Call("BOB") <= Call("BOB")'
  BY <1>2, <1>3, <1>16
<1>21. /\ pc["ALICE"] # "setup" /\ pc'["ALICE"] # "setup" /\ pc["BOB"] # "setup" /\ pc'["BOB"] # "setup"
       /\ DueKept("ALICE") /\ DueKept("BOB") /\ Queues'
  BY <1>1, <1>5, <1>10
<1> QED
  BY <1>5, <1>7, <1>11, <1>12, <1>13, <1>14, <1>15, <1>17, <1>18, <1>19, <1>20, <1>21, Keeps

-----------------------------------------------------------------------------
(* The evaluator's bits at the garbler, with COTs from the pool *)

(* What the garbler gets of the stock *)
Pairs == [j \in Nat |-> Active(stock[j].t, stock[j].r, delta)]

(* What the garbler's pool holds: of the last blocks put into the          *)
(* evaluator's, hers.                                                      *)
LEMMA GenPool ==
  ASSUME IInv, NEW p, p = "ALICE", pc[p] = "run", NEW k, k = at[p],
         NEW u, u = mark[k].used, NEW s, s = mark[k].stocked, NEW t, t = top[p],
         NEW x, x = buf[p]
  PROVE  /\ Pooling(u, s, t) /\ s <= Len(stock)
         /\ Holds(Block, x, Pairs, s - Batch)
<1>1. Call(p) = k /\ Pooled(p) = mark[k] /\ p \in Party
  BY Parties DEF Call, Pooled
<1>2. ProgramInv /\ k \in 1 .. Len(script) + 1
  BY <1>1, InvProgram, InvPlaced, Where
<1>3. u \in Nat /\ s \in Nat /\ u <= s /\ s <= u + Batch /\ Batch <= s
  BY <1>2, MarkTyped
<1>4. t = Batch - (s - u)
  BY <1>1 DEF IInv, Counters
<1>5. /\ s <= Len(stock)
      /\ \A i \in 1 .. Batch : x[i] = Active(stock[(s - Batch) + i].t, stock[(s - Batch) + i].r, delta)
  BY <1>1 DEF IInv, Pool
<1>6. \A i \in 1 .. Batch : x[i] \in Block
  BY <1>1 DEF IInv, TypeOK
<1>7. \A i \in 1 .. Batch : (s - Batch) + i \in Nat
  BY ONLY <1>3, BatchFacts
<1> QED
  BY <1>3, <1>4, <1>5, <1>6, <1>7 DEF Pooling, Holds, Pairs

(* After it z have been put into the pool *)
Draws(k, n, u, z) ==
  /\ delta' = delta /\ stock' = stock /\ cots' = cots /\ buff' = buff
  /\ buf' \in [Party -> [1 .. Batch -> Block]]
  /\ buf'["BOB"] = buf["BOB"]
  /\ top' \in [Party -> 0 .. Batch]
  /\ top'["BOB"] = top["BOB"]
  /\ top'["ALICE"] = Batch - (z - (u + n))
  /\ mark'[k + 1].used = u + n
  /\ mark'[k + 1].stocked = z
  /\ Batch <= z /\ z \in Nat /\ z <= Len(stock)
  /\ Holds(Block, buf'["ALICE"], Pairs, z - Batch)
  /\ u \in Nat /\ n \in Nat
  /\ Follows(Block, part', Pairs, u, n)

(* Drawing a feed's blocks from the pool. *)
LEMMA Drawn ==
  ASSUME IInv, NEW c, Enters(c, "feed"), NEW k, k = at["ALICE"], NEW n, n = Len(c.bits),
         NEW u, u = mark[k].used, NEW z, Draws(k, n, u, z)
  PROVE  Stocked
<1>0. Placed /\ "ALICE" \in Party /\ "BOB" \in Party
  BY InvPlaced, Parties
<1>1. /\ Pooled("ALICE")' = mark'[k + 1] /\ mark'[k] = mark[k]
      /\ Call("BOB")' = Call("BOB") /\ pc["BOB"] # "setup" /\ pc'["BOB"] = pc["BOB"]
      /\ pc'["ALICE"] = "feed" /\ Grows /\ at'["ALICE"] = k /\ script'[k] = c
  BY EntersTo DEF Enters, Makes
<1>2. PoolTyped' /\ Prolongs(stock, stock')
  <2>1. /\ cots \in Nat /\ buff \in [1 .. Batch -> BOOLEAN] /\ stock \in Seq([t : Block, r : BOOLEAN])
    BY DEF IInv, TypeOK
  <2>2. /\ cots' = cots /\ buff' = buff /\ stock' = stock
        /\ buf' \in [Party -> [1 .. Batch -> Block]] /\ top' \in [Party -> 0 .. Batch]
    BY DEF Draws
  <2>3. part' \in Seq(Block)
    BY DEF Draws, Follows
  <2> QED
    BY <2>1, <2>2, <2>3, ProlongsSelf DEF PoolTyped
<1>3. top'["ALICE"] = Batch - (Pooled("ALICE")'.stocked - Pooled("ALICE")'.used) /\ top'["BOB"] = top["BOB"]
  BY <1>1 DEF Draws
<1>4. mark'[Call("BOB")'] = mark[Call("BOB")]
  BY <1>0, <1>1, Where DEF Grows
<1>5. Pool
  BY DEF IInv
<1>6. /\ Len(stock') = IF pc'["BOB"] = "setup" THEN 0 ELSE mark'[Call("BOB")'].stocked
      /\ pc'["BOB"] # "setup" => \A i \in 1 .. Batch :
           LET s == stock'[mark'[Call("BOB")'].stocked - Batch + i]
           IN buf'["BOB"][i] = s.t /\ buff'[i] = s.r
  BY <1>1, <1>4, <1>5 DEF Pool, Draws
<1>7. /\ Pooled("ALICE")'.stocked <= Len(stock')
      /\ \A i \in 1 .. Batch :
           LET s == stock'[Pooled("ALICE")'.stocked - Batch + i]
           IN buf'["ALICE"][i] = Active(s.t, s.r, delta')
  <2>1. Pooled("ALICE")'.stocked = z /\ z <= Len(stock) /\ stock' = stock /\ delta' = delta
        /\ Batch <= z /\ z \in Nat
    BY <1>1 DEF Draws
  <2>2. ASSUME NEW i \in 1 .. Batch
        PROVE  buf'["ALICE"][i] = Active(stock[z - Batch + i].t, stock[z - Batch + i].r, delta)
    <3>1. z - Batch + i \in Nat
      BY ONLY <2>1, BatchFacts, i \in 1 .. Batch
    <3>2. buf'["ALICE"][i] = Pairs[z - Batch + i]
      BY DEF Draws, Holds
    <3> QED
      BY <3>1, <3>2 DEF Pairs
  <2> QED
    BY <2>1, <2>2
<1>8. LET d == script'[at'["ALICE"]]
          v == mark'[at'["ALICE"]].used
      IN /\ Len(part') = Len(d.bits)
         /\ \A i \in 1 .. Len(part') : part'[i] = Active(stock'[v + i].t, stock'[v + i].r, delta')
  <2>1. /\ Len(part') = n /\ stock' = stock /\ delta' = delta /\ u \in Nat /\ n \in Nat
        /\ \A i \in 1 .. n : part'[i] = Pairs[u + i]
    BY DEF Draws, Follows
  <2>2. ASSUME NEW i \in 1 .. n PROVE part'[i] = Active(stock[u + i].t, stock[u + i].r, delta)
    <3>1. u + i \in Nat
      BY <2>1
    <3> QED
      BY <2>1, <3>1 DEF Pairs
  <2> QED
    BY <1>1, <2>1, <2>2
<1>9. Pool'
  BY <1>1, <1>6, <1>7, <1>8 DEF Pool
<1> QED
  BY <1>2, <1>3, <1>9 DEF Stocked

(* Action GenTake: the garbler draws from the pool and waits for the       *)
(* corrections.                                                            *)
LEMMA GenTakeStep == ASSUME IInv, GenTake
  PROVE  IInv'
<1> PICK p \in Party, q \in Party : p = "ALICE" /\ q = "BOB" /\ Peer(p) = q /\ Peer(q) = p
  BY Parties
<1>1. PICK c \in Options(p) :
        /\ FeedsBob(c) /\ Len(c.bits) <= Left(p)
        /\ Do(p, c)
        /\ part' = SubSeq(buf[p], top[p] + 1, top[p] + Len(c.bits))
        /\ top' = [top EXCEPT ![p] = @ + Len(c.bits)]
        /\ pc' = [pc EXCEPT ![p] = "feed"]
        /\ UNCHANGED <<at, net, gates, wire, counter, cots, buf, buff, stock, out>>
  BY DEF GenTake
<1>2. /\ delta' = delta /\ constant' = constant /\ gid' = gid /\ wire' = wire
      /\ counter' = counter /\ out' = out /\ at' = at /\ net' = net
      /\ cots' = cots /\ buf' = buf /\ buff' = buff /\ stock' = stock
  BY <1>1 DEF gates
<1>3. Makes(p, c) /\ pc[p] = "run"
  BY <1>1, DoMakes DEF Makes
<1>4. PICK k, n : k = at[p] /\ n = Len(c.bits)
  OBVIOUS
<1>5. PICK u, s, t, x : u = mark[k].used /\ s = mark[k].stocked /\ t = top[p] /\ x = buf[p]
  OBVIOUS
<1>6. Pooling(u, s, t) /\ s <= Len(stock) /\ Holds(Block, x, Pairs, s - Batch)
  BY <1>3, <1>4, <1>5, GenPool
<1>7. FeedsBob(c) /\ n <= Batch - t
  BY <1>1, <1>4, <1>5 DEF Left
<1>8. /\ n \in Nat /\ mark[k].to["ALICE"] \in Nat
      /\ mark'[k + 1].to["BOB"] = mark[k].to["BOB"]
  BY <1>3, <1>4, <1>7, FeedFields
<1>9. u + n <= s /\ t + n \in 0 .. Batch /\ t + n = Batch - (s - (u + n)) /\ n <= Batch
  BY <1>6, <1>7, <1>8, StillPooling
<1>10. /\ mark'[k + 1].used = u + n
       /\ mark'[k + 1].stocked = s
       /\ mark'[k + 1].to["ALICE"] = mark[k].to["ALICE"] + 1
  BY <1>3, <1>4, <1>5, <1>7, <1>9, PoolFields
<1>11. Enters(c, "feed")
  BY <1>1, <1>2, <1>3, <1>4, <1>9 DEF Enters
<1>12. Follows(Block, part', Pairs, u, n)
  <2>1. PICK z : z = SubSeq(x, t + 1, t + n)
    OBVIOUS
  <2> PICK V : V = Pairs
    OBVIOUS
  <2>2. Follows(Block, z, V, u, n)
    BY <1>6, <1>7, <1>8, <2>1, Taken
  <2> QED
    BY <1>1, <1>4, <1>5, <2>1, <2>2
<1>13. Draws(k, n, u, s)
  <2>1. /\ top' \in [Party -> 0 .. Batch] /\ top'["BOB"] = top["BOB"] /\ top'["ALICE"] = Batch - (s - (u + n))
    <3>1. top \in [Party -> 0 .. Batch] /\ p # q
      BY DEF IInv, TypeOK
    <3>2. top' = [top EXCEPT ![p] = t + n]
      BY <1>1, <1>4, <1>5
    <3> QED
      BY <1>9, <3>1, <3>2
  <2>2. u \in Nat /\ s \in Nat /\ Batch <= s
    BY <1>6 DEF Pooling
  <2>3. buf \in [Party -> [1 .. Batch -> Block]]
    BY DEF IInv, TypeOK
  <2>4. Holds(Block, buf'["ALICE"], Pairs, s - Batch)
    BY <1>2, <1>5, <1>6
  <2> QED
    BY <1>2, <1>6, <1>8, <1>10, <1>12, <2>1, <2>2, <2>3, <2>4 DEF Draws
<1>14. Stocked
  BY <1>4, <1>5, <1>11, <1>13, Drawn
<1>15. /\ Read(p) = mark[k].to[p] /\ Read(p)' = mark'[k + 1].to[p] - 1
       /\ Sent(q) = mark[k].to[q] /\ Sent(q)' = mark'[k].to[q] /\ mark'[k] = mark[k]
       /\ Read(q)' = Read(q) /\ Sent(p)' = Sent(p)
  BY <1>4, <1>11, EntersTo
<1>16. Mailed
  <2>1. Placed
    BY InvPlaced
  <2>2. Read(p)' = Read(p) /\ Sent(q)' = Sent(q)
    BY <1>8, <1>10, <1>15
  <2>3. DueKept(p) /\ DueKept(q)
    BY <1>2, <1>15, <2>1, <2>2, QueueSame
  <2>4. Queues'
    BY <1>2, <1>15, <2>1, <2>2, BothQueues DEF Placed, Queues
  <2> QED
    BY <1>2, <2>1, <2>3, <2>4 DEF Mailed, Placed
<1> QED
  BY <1>2, <1>4, <1>11, <1>14, <1>16, Begins

(* The message the garbler gets in the call it begins or is in the middle  *)
(* of: the evaluator has been there.                                       *)
LEMMA Awaited ==
  ASSUME IInv, NEW p, p = "ALICE", pc[p] # "setup", net[p] # <<>>, NEW k, k = at[p]
  PROVE  /\ k \in 1 .. Len(script) /\ k \in Nat /\ k + 1 \in 1 .. Len(script) + 1
         /\ k < Call("BOB") /\ pc["BOB"] = "run"
         /\ ToAlice(k)
         /\ mark[k + 1].stocked <= Len(stock)
         /\ LSB(delta)
<1>0. Placed /\ p \in Party /\ "BOB" \in Party /\ Peer(p) = "BOB"
  BY InvPlaced, Parties
<1>1. k < Reached("BOB") /\ pc["BOB"] # "setup" /\ Call(p) = k
  BY <1>0, Ahead DEF Call
<1>2. /\ Call(p) \in 1 .. Len(script) + 1 /\ Len(script) \in Nat
      /\ Call("BOB") \in 1 .. Len(script) + 1 /\ Reached("BOB") = Call("BOB")
      /\ pc["BOB"] = "run"
  BY <1>0, <1>1, Where
<1>3. /\ k \in 1 .. Len(script) /\ k \in Nat /\ k + 1 \in 1 .. Len(script) + 1
      /\ k < Call("BOB")
  BY <1>1, <1>2
<1>4. ToAlice(k)
  <2>1. k \in Call("ALICE") .. Call("BOB") - 1
    BY <1>1, <1>2, <1>3
  <2> QED
    BY <2>1 DEF IInv, Contents
<1>5. mark[k + 1].stocked <= Len(stock)
  <2>1. k \in 1 .. Call("BOB") - 1
    BY <1>2, <1>3
  <2> QED
    BY <1>0, <2>1, PastCall
<1>6. LSB(delta)
  <2>1. Stage("ALICE") > 1
    BY <1>0, StageFacts, Parties
  <2> QED
    BY <2>1 DEF IInv, Constants
<1> QED
  BY <1>2, <1>3, <1>4, <1>5, <1>6

(* What is left of the pool, and a message that refills it *)
LEMMA Refilled ==
  ASSUME TypeOK, NEW m \in Message, NEW s \in Nat, Refills(m, s), s + Batch <= Len(stock),
         NEW y, y = GenBlocks(m.data)
  PROVE  y \in [1 .. Batch -> Block] /\ Holds(Block, y, Pairs, s)
<1>1. m.kind = "cot" /\ Len(m.data.t) = Batch /\ Len(m.data.r) = Batch
  BY DEF Refills
<1>2. m.data \in [r : Seq(BOOLEAN), t : Seq(Block)]
  BY <1>1 DEF Message
<1>3. /\ y \in [1 .. Batch -> Block]
      /\ \A i \in 1 .. Batch : y[i] = Active(m.data.t[i], m.data.r[i], delta)
  BY <1>1, <1>2, GenTyped DEF TypeOK
<1>4. ASSUME NEW i \in 1 .. Batch PROVE y[i] \in Block /\ y[i] = Pairs[s + i]
  <2>1. s + i \in Nat
    OBVIOUS
  <2>2. m.data.t[i] = stock[s + i].t /\ m.data.r[i] = stock[s + i].r
    BY DEF Refills
  <2> QED
    BY <1>3, <2>1, <2>2 DEF Pairs
<1> QED
  BY <1>3, <1>4 DEF Holds

(* Action GenWrap: her pool runs out within the feed; the refill she reads *)
(* is the one the evaluator made in this call.                             *)
LEMMA GenWrapStep == ASSUME IInv, GenWrap
  PROVE  IInv'
<1> PICK p \in Party, q \in Party : p = "ALICE" /\ q = "BOB" /\ Peer(p) = q /\ Peer(q) = p
  BY Parties
<1>1. PICK c \in Options(p) :
        LET more == Len(c.bits) - Left(p)
        IN /\ FeedsBob(c) /\ Len(c.bits) <= Batch /\ more > 0
           /\ Do(p, c)
           /\ Arrived(p, "cot")
           /\ buf' = [buf EXCEPT ![p] = GenBlocks(Data(p))]
           /\ UNCHANGED <<cots, buff, stock>>
           /\ part' = Rest(p) \o SubSeq(buf'[p], 1, more)
           /\ top' = [top EXCEPT ![p] = more]
           /\ Takes(p)
           /\ pc' = [pc EXCEPT ![p] = "feed"]
           /\ UNCHANGED <<at, gates, wire, counter, out>>
  BY DEF GenWrap, GenRefill
<1>2. /\ delta' = delta /\ constant' = constant /\ gid' = gid /\ wire' = wire
      /\ counter' = counter /\ out' = out /\ at' = at
      /\ cots' = cots /\ buff' = buff /\ stock' = stock
  BY <1>1 DEF gates
<1>3. Makes(p, c) /\ pc[p] = "run"
  <2>1. Do(p, c)
    BY <1>1
  <2> QED
    BY <2>1, DoMakes DEF Makes
<1>4. PICK k, n : k = at[p] /\ n = Len(c.bits)
  OBVIOUS
<1>5. PICK u, s, t, x : u = mark[k].used /\ s = mark[k].stocked /\ t = top[p] /\ x = buf[p]
  OBVIOUS
<1>6. Pooling(u, s, t) /\ s <= Len(stock) /\ Holds(Block, x, Pairs, s - Batch)
  BY <1>3, <1>4, <1>5, GenPool
<1>7. PICK m, y, more : m = Head(net[p]) /\ y = GenBlocks(m.data) /\ more = n - (Batch - t)
  OBVIOUS
<1>8. /\ FeedsBob(c) /\ n <= Batch /\ more > 0
      /\ net[p] # <<>> /\ m.kind = "cot"
      /\ buf' = [buf EXCEPT ![p] = y]
      /\ part' = SubSeq(x, t + 1, Batch) \o SubSeq(buf'[p], 1, more)
      /\ top' = [top EXCEPT ![p] = more]
      /\ Takes(p)
      /\ pc' = [pc EXCEPT ![p] = "feed"]
  BY <1>1, <1>4, <1>5, <1>7 DEF Left, Rest, Arrived, Data
<1>9. /\ n \in Nat /\ mark[k].to["ALICE"] \in Nat
      /\ mark'[k + 1].to["BOB"] = mark[k].to["BOB"]
  BY <1>3, <1>4, <1>8, FeedFields
<1>10. /\ t \in 0 .. Batch /\ Batch - t = s - u /\ s - u \in Nat /\ Batch \in Nat \ {0}
       /\ u \in Nat /\ s \in Nat
  <2>1. /\ t \in 0 .. Batch /\ Batch - t = s - u /\ s - u \in Nat /\ u \in Nat /\ s \in Nat
    BY <1>6, Position
  <2> QED
    BY <2>1, BatchFacts
<1>11. /\ more \in 0 .. Batch /\ n = (s - u) + more /\ u + n > s
       /\ more = Batch - ((s + Batch) - (u + n))
  BY ONLY <1>7, <1>8, <1>9, <1>10
<1>12. /\ mark'[k + 1].used = u + n
       /\ mark'[k + 1].stocked = s + Batch
       /\ mark'[k + 1].to["ALICE"] = mark[k].to["ALICE"] + 2
  <2>1. FeedsBob(c) /\ n = Len(c.bits) /\ n <= Batch /\ mark[k].used + n > mark[k].stocked
    BY <1>4, <1>5, <1>8, <1>11
  <2>2. mark'[k + 1].used = mark[k].used + n
    BY <1>3, <1>4, <2>1, PoolFields
  <2>3. mark'[k + 1].stocked = mark[k].stocked + Batch
    BY <1>3, <1>4, <2>1, PoolFields
  <2>4. mark'[k + 1].to["ALICE"] = mark[k].to["ALICE"] + 2
    BY <1>3, <1>4, <2>1, PoolFields
  <2> QED
    BY <1>5, <2>2, <2>3, <2>4
<1>13. Enters(c, "feed")
  BY <1>2, <1>3, <1>4, <1>8 DEF Enters
<1>14. /\ k \in 1 .. Len(script) /\ k + 1 \in 1 .. Len(script) + 1
       /\ ToAlice(k)
       /\ mark[k + 1].stocked <= Len(stock)
  BY <1>3, <1>4, <1>8, Awaited
<1>15. mark'[k + 1] = mark[k + 1] /\ script[k] = c
  BY <1>3, <1>4, <1>14 DEF Makes, Grows
<1>16. /\ Read(p) = mark[k].to[p] /\ Read(p)' = mark'[k + 1].to[p] - 1
       /\ Sent(q) = mark[k].to[q] /\ Sent(q)' = mark'[k].to[q] /\ mark'[k] = mark[k]
       /\ Read(q)' = Read(q) /\ Sent(p)' = Sent(p)
  BY <1>4, <1>13, EntersTo
<1>17. Read(p)' = Read(p) + 1 /\ Sent(q)' = Sent(q)
  BY <1>9, <1>12, <1>16
<1>18. /\ net' = [net EXCEPT ![p] = Tail(@)] /\ net \in [Party -> Seq(Message)]
       /\ net'[p] = Tail(net[p]) /\ net'[q] = net[q]
  <2>1. net \in [Party -> Seq(Message)] /\ p # q
    BY DEF IInv, TypeOK
  <2> QED
    BY <1>8, <2>1 DEF Takes
<1>19. Placed
  BY InvPlaced
<1>20. /\ DueKept(p)
       /\ net'[p] \in Seq(Message)
       /\ Len(net'[p]) = Len(net[p]) - 1
       /\ m = Due(p, Read(p) + 1)
       /\ m \in Message
  BY <1>7, <1>8, <1>17, <1>18, <1>19, QueueTakes
<1>21. Mailed
  <2>1. DueKept(q)
    BY <1>16, <1>18, <1>19, QueueSame
  <2>2. net' \in [Party -> Seq(Message)]
    <3>1. PICK v : v = Tail(net[p])
      OBVIOUS
    <3>2. v \in Seq(Message) /\ net' = [net EXCEPT ![p] = v]
      BY <1>18, <1>20, <3>1
    <3> QED
      BY <1>18, <3>2
  <2>3. Len(net'[q]) = Sent(q)' - Read(q)'
    BY <1>16, <1>17, <1>18, <1>19, Counts
  <2>4. Len(net'[p]) = Sent(p)' - Read(p)'
    <3>1. Len(net[p]) = Sent(p) - Read(p) /\ Sent(p) \in Nat /\ Read(p) \in Nat
      BY <1>19, Counts
    <3> PICK a, b, d : a = Sent(p) /\ b = Read(p) /\ d = Len(net'[p])
      OBVIOUS
    <3>2. d = (a - b) - 1 /\ a \in Nat /\ b \in Nat
      BY <1>20, <3>1
    <3>3. d = a - (b + 1)
      BY ONLY <3>2
    <3> QED
      BY <1>16, <1>17, <3>3
  <2>5. Queues'
    BY <2>3, <2>4, BothQueues
  <2> QED
    BY <1>20, <2>1, <2>2, <2>5 DEF Mailed
<1>22. Refills(m, s)
  <2>1. m = Due("ALICE", mark[k].to["ALICE"] + 1)
    BY <1>16, <1>20
  <2>2. mark[k].stocked # mark[k + 1].stocked
    <3>1. s # s + Batch
      BY ONLY <1>10
    <3> QED
      BY <1>5, <1>12, <1>15, <3>1
  <2>3. Read("ALICE") <= mark[k].to["ALICE"]
    BY <1>9, <1>16
  <2> QED
    BY <1>5, <1>14, <2>1, <2>2, <2>3 DEF ToAlice
<1>23. s + Batch <= Len(stock)
  BY <1>12, <1>14, <1>15
<1>24. y \in [1 .. Batch -> Block] /\ Holds(Block, y, Pairs, s)
  BY <1>7, <1>10, <1>20, <1>22, <1>23, Refilled DEF IInv
<1>25. /\ buf' \in [Party -> [1 .. Batch -> Block]]
       /\ buf'[p] = y /\ buf'[q] = buf[q]
  <2>1. buf \in [Party -> [1 .. Batch -> Block]] /\ p # q
    BY DEF IInv, TypeOK
  <2> QED
    BY <1>8, <1>24, <2>1
<1>26. Follows(Block, part', Pairs, u, n)
  <2> PICK V : V = Pairs
    OBVIOUS
  <2>1. PICK z : z = SubSeq(x, t + 1, Batch) \o SubSeq(y, 1, more)
    OBVIOUS
  <2>2. Holds(Block, x, V, s - Batch) /\ Holds(Block, y, V, s)
    BY <1>6, <1>24
  <2>3. Follows(Block, z, V, u, n)
    BY ONLY <1>6, <1>11, <2>1, <2>2, Spliced
  <2> QED
    BY <1>8, <1>25, <2>1, <2>3
<1>27. Draws(k, n, u, s + Batch)
  <2>1. /\ top' \in [Party -> 0 .. Batch] /\ top'["BOB"] = top["BOB"]
        /\ top'["ALICE"] = Batch - ((s + Batch) - (u + n))
    <3>1. top \in [Party -> 0 .. Batch] /\ p # q
      BY DEF IInv, TypeOK
    <3> QED
      BY <1>8, <1>11, <3>1
  <2>2. s + Batch \in Nat /\ Batch <= s + Batch /\ (s + Batch) - Batch = s
    BY ONLY <1>10
  <2> QED
    BY <1>2, <1>9, <1>10, <1>12, <1>23, <1>24, <1>25, <1>26, <2>1, <2>2 DEF Draws
<1>28. Stocked
  BY <1>4, <1>5, <1>13, <1>27, Drawn
<1> QED
  BY <1>2, <1>4, <1>13, <1>21, <1>28, Begins

-----------------------------------------------------------------------------
(* A public reveal at the garbler: she sends her bits, then waits for the  *)
(* result.                                                                 *)

(* The marks on either side of a public reveal that the garbler begins. *)
LEMMA OpenFields ==
  ASSUME IInv, NEW c, Makes("ALICE", c), NEW k, k = at["ALICE"], c.op = "reveal", c.who = "PUBLIC"
  PROVE  /\ mark'[k + 1].used = mark[k].used
         /\ mark'[k + 1].stocked = mark[k].stocked
         /\ mark'[k + 1].to["ALICE"] = mark[k].to["ALICE"] + 1
         /\ mark'[k + 1].to["BOB"] = mark[k].to["BOB"] + 1
         /\ mark[k].to["ALICE"] \in Nat /\ mark[k].to["BOB"] \in Nat
         /\ c.j - c.i + 1 \in Nat
<1>1. ~FeedsBob(c) /\ c.op # "feed" /\ c.op # "and" /\ "ALICE" \in Party
  BY Parties DEF FeedsBob
<1>2. mark'[k + 1].used = mark[k].used
  BY <1>1, MakesFields
<1>3. mark'[k + 1].stocked = mark[k].stocked
  BY <1>1, MakesFields
<1>4. mark'[k + 1].to["ALICE"] = mark[k].to["ALICE"] + 1
  BY <1>1, MakesFields
<1>5. mark'[k + 1].to["BOB"] = mark[k].to["BOB"] + 1
  BY <1>1, MakesFields
<1>6. mark[k].to["ALICE"] \in Nat /\ mark[k].to["BOB"] \in Nat /\ mark[k].wires \in Nat
  BY <1>1, MakesFields
<1>7. c.i \in 1 .. mark[k].wires /\ c.j \in 1 .. mark[k].wires /\ c.i <= c.j
  BY <1>1, MakesCall
<1>8. c.j - c.i + 1 \in Nat
  BY ONLY <1>6, <1>7
<1> QED
  BY <1>2, <1>3, <1>4, <1>5, <1>6, <1>8

(* The pool when the garbler waits for a result *)
LEMMA Untouched ==
  ASSUME IInv, NEW c, Enters(c, "reveal"), UNCHANGED <<pool, part, delta>>
  PROVE  Stocked
<1> PICK k : k = at["ALICE"]
  OBVIOUS
<1>0. Placed /\ "ALICE" \in Party /\ "BOB" \in Party
  BY InvPlaced, Parties
<1>1. /\ Pooled("ALICE")' = mark'[k] /\ Pooled("ALICE") = mark[k] /\ mark'[k] = mark[k]
      /\ Call("BOB")' = Call("BOB") /\ pc["BOB"] # "setup" /\ pc'["BOB"] = pc["BOB"]
      /\ pc'["ALICE"] = "reveal" /\ pc["ALICE"] = "run" /\ Grows
  BY EntersTo DEF Enters, Makes
<1>2. /\ cots' = cots /\ buf' = buf /\ buff' = buff /\ stock' = stock /\ top' = top /\ part' = part
      /\ delta' = delta
  BY DEF pool
<1>3. PoolTyped' /\ Prolongs(stock, stock')
  <2>1. /\ cots \in Nat /\ buff \in [1 .. Batch -> BOOLEAN] /\ stock \in Seq([t : Block, r : BOOLEAN])
        /\ buf \in [Party -> [1 .. Batch -> Block]] /\ top \in [Party -> 0 .. Batch] /\ part \in Seq(Block)
    BY DEF IInv, TypeOK
  <2> QED
    BY <1>2, <2>1, ProlongsSelf DEF PoolTyped
<1>4. top'["ALICE"] = Batch - (Pooled("ALICE")'.stocked - Pooled("ALICE")'.used) /\ top'["BOB"] = top["BOB"]
  BY <1>0, <1>1, <1>2 DEF IInv, Counters
<1>5. mark'[Call("BOB")'] = mark[Call("BOB")]
  BY <1>0, <1>1, Where DEF Grows
<1>6. Pool'
  <2>1. Pool
    BY DEF IInv
  <2> QED
    BY <1>1, <1>2, <1>5, <2>1 DEF Pool
<1> QED
  BY <1>3, <1>4, <1>6 DEF Stocked

(* Action GenRevealPublic: she sends her lsbs and waits. *)
LEMMA GenRevealPublicStep == ASSUME IInv, GenRevealPublic
  PROVE  IInv'
<1> PICK p \in Party, q \in Party : p = "ALICE" /\ q = "BOB" /\ Peer(p) = q /\ Peer(q) = p
  BY Parties
<1>1. PICK c \in Options(p) :
        /\ c.op = "reveal" /\ c.who = "PUBLIC"
        /\ Do(p, c)
        /\ Sends(p, <<Msg("lsbs", Lsbs(p, c))>>)
        /\ pc' = [pc EXCEPT ![p] = "reveal"]
        /\ UNCHANGED <<at, gates, wire, counter, pool, part, out>>
  BY DEF GenRevealPublic
<1>2. /\ delta' = delta /\ constant' = constant /\ gid' = gid /\ wire' = wire
      /\ counter' = counter /\ out' = out /\ at' = at /\ UNCHANGED <<pool, part, delta>>
  BY <1>1 DEF gates
<1>3. Makes(p, c) /\ pc[p] = "run"
  BY <1>1, DoMakes DEF Makes
<1>4. PICK k, bits : k = at[p] /\ bits = Lsbs(p, c)
  OBVIOUS
<1>5. /\ mark'[k + 1].to[p] = mark[k].to[p] + 1
      /\ mark'[k + 1].to[q] = mark[k].to[q] + 1
      /\ mark[k].to[p] \in Nat /\ mark[k].to[q] \in Nat
      /\ c.j - c.i + 1 \in Nat
  BY <1>1, <1>3, <1>4, OpenFields
<1>6. Enters(c, "reveal")
  BY <1>1, <1>2, <1>3 DEF Enters
<1>7. Stocked
  BY <1>2, <1>6, Untouched
<1>8. /\ Read(p) = mark[k].to[p] /\ Read(p)' = mark'[k + 1].to[p] - 1
      /\ Sent(q) = mark[k].to[q] /\ Sent(q)' = mark'[k + 1].to[q] /\ mark'[k] = mark[k]
      /\ Read(q)' = Read(q) /\ Sent(p)' = Sent(p)
  BY <1>4, <1>6, EntersTo
<1>9. Placed
  BY InvPlaced
<1>10. PICK e, msgs : e = Msg("lsbs", bits) /\ msgs = <<e>>
  OBVIOUS
<1>11. msgs \in Seq(Message) /\ Len(msgs) = 1 /\ msgs[1] = e /\ 1 \in 1 .. Len(msgs)
  <2>1. bits \in Seq(BOOLEAN)
    BY <1>4, <1>5, LsbsTyped
  <2>2. e \in Message
    BY <1>10, <2>1, MsgTyped
  <2> QED
    BY <1>10, <2>2, OneFacts
<1>12. net \in [Party -> Seq(Message)] /\ p # q
  BY DEF IInv, TypeOK
<1>13. net' = [net EXCEPT ![q] = @ \o msgs]
  BY <1>1, <1>4, <1>10 DEF Sends
<1>14. net'[p] = net[p] /\ net'[q] = net[q] \o msgs
  BY <1>12, <1>13
<1>15. /\ DueKept(q)
       /\ net'[q] \in Seq(Message)
       /\ Len(net'[q]) = Len(net[q]) + Len(msgs)
       /\ \A i \in 1 .. Len(msgs) : net'[q][Sent(q) + i - Read(q)'] = msgs[i]
  BY <1>8, <1>9, <1>11, <1>14, QueueSends
<1>16. Mailed
  <2>1. Read(p)' = Read(p)
    BY <1>5, <1>8
  <2>2. DueKept(p)
    BY <1>9, <1>14, <2>1, QueueSame
  <2>3. net' \in [Party -> Seq(Message)]
    <3>1. PICK v : v = net[q] \o msgs
      OBVIOUS
    <3>2. v \in Seq(Message) /\ net' = [net EXCEPT ![q] = v]
      BY <1>13, <1>14, <1>15, <3>1
    <3> QED
      BY <1>12, <3>2
  <2>4. Len(net'[p]) = Sent(p)' - Read(p)'
    BY <1>8, <1>9, <1>14, <2>1, Counts
  <2>5. Len(net'[q]) = Sent(q)' - Read(q)'
    <3>1. Len(net[q]) = Sent(q) - Read(q) /\ Sent(q) \in Nat /\ Read(q) \in Nat
      BY <1>9, Counts
    <3>2. Sent(q)' = Sent(q) + 1
      BY <1>5, <1>8
    <3> PICK a, b, d : a = Sent(q) /\ b = Read(q) /\ d = Len(net'[q])
      OBVIOUS
    <3>3. d = (a - b) + 1 /\ a \in Nat /\ b \in Nat
      BY <1>11, <1>15, <3>1
    <3>4. d = (a + 1) - b
      BY ONLY <3>3
    <3> QED
      BY <1>8, <3>2, <3>4
  <2>6. Queues'
    BY <2>4, <2>5, BothQueues
  <2> QED
    BY <1>15, <2>2, <2>3, <2>6 DEF Mailed
<1>17. ToBob(k)'
  <2>1. net'[q][(mark[k].to[q] + 1) - Read(q)'] = e
    <3>1. net'[q][Sent(q) + 1 - Read(q)'] = msgs[1]
      BY <1>11, <1>15, Zenon
    <3>2. PICK a, b : a = Sent(q) /\ b = Read(q)'
      OBVIOUS
    <3>3. a \in Nat /\ b \in Nat
      BY <1>8, <1>9, <3>2, Counts
    <3>4. a + 1 - b = (a + 1) - b
      BY ONLY <3>3
    <3>5. net'[q][a + 1 - b] = e
      BY <1>11, <3>1, <3>2
    <3>6. net'[q][(a + 1) - b] = e
      BY <3>4, <3>5, Zenon
    <3> QED
      BY <1>8, <3>2, <3>6
  <2>2. Due("BOB", mark[k].to["BOB"] + 1)' = e
    BY <1>8, <2>1 DEF Due
  <2>3. script'[k] = c /\ Lsbs("ALICE", c)' = bits
    BY <1>2, <1>3, <1>4 DEF Makes, Lsbs
  <2> QED
    BY <1>1, <1>8, <1>10, <2>2, <2>3 DEF ToBob
<1> QED
  BY <1>2, <1>4, <1>6, <1>7, <1>16, <1>17, Begins

-----------------------------------------------------------------------------
(* The message that completes the call the garbler is in the middle of *)

(* It is the last message of the call, and the evaluator has sent it. *)
LEMMA Completing ==
  ASSUME IInv, NEW s, Leaves(s), NEW k, k = at["ALICE"], net["ALICE"] # <<>>,
         NEW m, m = Head(net["ALICE"])
  PROVE  /\ k \in 1 .. Len(script) /\ k \in Nat /\ k < Call("BOB")
         /\ m = Due("ALICE", mark[k + 1].to["ALICE"]) /\ m \in Message
         /\ ToAlice(k) /\ LSB(delta)
         /\ CallLabels("BOB", k)
         /\ wire["ALICE"] \in Seq(Block) /\ Len(wire["ALICE"]) = mark[k].wires
         /\ out["ALICE"] \in Seq(Seq(BOOLEAN)) /\ Len(out["ALICE"]) = mark[k].reveals
<1> PICK p, q : p = "ALICE" /\ q = "BOB"
  OBVIOUS
<1>0. Placed /\ p \in Party /\ q \in Party
  BY InvPlaced, Parties
<1>1. pc[p] = s /\ s \in {"feed", "reveal"} /\ pc[p] # "setup" /\ at[p] = k /\ net[p] # <<>>
  BY DEF Leaves
<1>2. /\ k \in 1 .. Len(script) /\ k \in Nat /\ k + 1 \in 1 .. Len(script) + 1 /\ k < Call("BOB")
      /\ ToAlice(k) /\ LSB(delta)
  BY <1>1, Awaited
<1>3. Read(p) = mark[k + 1].to[p] - 1 /\ Call(p) = k
  BY LeavesTo
<1>4. m = net[p][1] /\ m \in Message
  <2>1. net[p] \in Seq(Message)
    BY <1>0 DEF Placed
  <2> QED
    BY <1>1, <2>1, TailFacts
<1>5. m = Due("ALICE", mark[k + 1].to["ALICE"])
  <2>1. PICK a, b : a = mark[k + 1].to[p] /\ b = Read(p)
    OBVIOUS
  <2>2. a \in Nat
    BY <1>0, <1>2, <2>1, MarkTyped DEF Placed
  <2>3. a - b = 1
    BY ONLY <1>3, <2>1, <2>2
  <2> QED
    BY <1>4, <2>1, <2>3 DEF Due
<1>6. CallLabels("BOB", k)
  <2>1. k \in 1 .. Call("BOB") - 1
    <3>1. Call("BOB") \in Nat
      BY <1>0, Where
    <3> QED
      BY <1>2, <3>1
  <2> QED
    BY <1>0, <2>1 DEF IInv, Labels
<1>7. /\ wire[p] \in Seq(Block) /\ Len(wire[p]) = mark[k].wires
      /\ out[p] \in Seq(Seq(BOOLEAN)) /\ Len(out[p]) = mark[k].reveals
  BY <1>0, <1>3 DEF IInv, TypeOK, Counters
<1> QED
  BY <1>2, <1>4, <1>5, <1>6, <1>7

(* The labels that a completed feed adds *)
LEMMA EndLabels ==
  ASSUME wire \in [Party -> Seq(Block)], NEW p \in Party, NEW labels \in Seq(Block), Adds(p, labels)
  PROVE  /\ wire' \in [Party -> Seq(Block)] /\ wire'[Peer(p)] = wire[Peer(p)]
         /\ Prolongs(wire[p], wire'[p]) /\ Len(wire'[p]) = Len(wire[p]) + Len(labels)
         /\ \A i \in 1 .. Len(labels) : wire'[p][Len(wire[p]) + i] = labels[i]
<1> PICK q, W, V : q = Peer(p) /\ W = wire[p] /\ V = W \o labels
  OBVIOUS
<1>0. q \in Party /\ q # p
  BY PeerFacts
<1>1. W \in Seq(Block) /\ labels \in Seq(Block) /\ V = W \o labels
  OBVIOUS
<1>2. V \in Seq(Block) /\ Len(V) = Len(W) + Len(labels)
  BY ONLY <1>1, ConcatIs
<1>3. Prolongs(W, V)
  BY ONLY <1>1, ConcatIs
<1>4. \A i \in 1 .. Len(labels) : V[Len(W) + i] = labels[i]
  BY ONLY <1>1, ConcatIs
<1>5. wire' = [wire EXCEPT ![p] = V]
  BY DEF Adds
<1>6. wire' \in [Party -> Seq(Block)] /\ wire'[p] = V /\ wire'[q] = wire[q]
  BY <1>0, <1>2, <1>5
<1> QED
  BY <1>1, <1>2, <1>3, <1>4, <1>6

(* Flips and what they correct *)
LEMMA FlippedBlock ==
  ASSUME NEW x, NEW r \in BOOLEAN, NEW b \in BOOLEAN, NEW d
  PROVE  Active(Active(x, r, d), r # b, d) = Active(x, b, d)
<1>1. CASE r /\ b
  BY <1>1 DEF Active, Mask, XOR
<1>2. CASE r /\ ~b
  BY <1>2 DEF Active, Mask, XOR
<1>3. CASE ~r /\ b
  BY <1>3 DEF Active, Mask, XOR
<1>4. CASE ~r /\ ~b
  BY <1>4 DEF Active, Mask, XOR
<1> QED
  BY <1>1, <1>2, <1>3, <1>4

(* Action GenFlip: she takes the corrections of this feed. *)
LEMMA GenFlipStep == ASSUME IInv, GenFlip
  PROVE  IInv'
<1> PICK p \in Party, q \in Party : p = "ALICE" /\ q = "BOB" /\ Peer(p) = q
  BY Parties
<1>1. /\ pc[p] = "feed"
      /\ Arrived(p, "flips")
      /\ Adds(p, [i \in DOMAIN part |-> Active(part[i], Data(p)[i], delta)])
      /\ part' = <<>>
      /\ Takes(p)
      /\ pc' = [pc EXCEPT ![p] = "run"]
      /\ Done(p)
      /\ UNCHANGED <<program, gates, counter, pool, out>>
  BY DEF GenFlip
<1>2. /\ delta' = delta /\ constant' = constant /\ gid' = gid /\ counter' = counter /\ out' = out
      /\ UNCHANGED <<program, pool, delta>> /\ script' = script /\ mark' = mark /\ val' = val
      /\ stock' = stock
  BY <1>1 DEF gates, program, pool
<1>3. Leaves("feed")
  BY <1>1, <1>2 DEF Leaves, Done
<1>4. PICK k, c, n, m : k = at[p] /\ c = script[k] /\ n = Len(c.bits) /\ m = Head(net[p])
  OBVIOUS
<1>5. PICK w, u : w = mark[k].wires /\ u = mark[k].used
  OBVIOUS
<1>6. net[p] # <<>> /\ m.kind = "flips" /\ Data(p) = m.data
  BY <1>1, <1>4 DEF Arrived, Data
<1>7. /\ k \in 1 .. Len(script) /\ k \in Nat /\ k < Call("BOB")
      /\ m = Due("ALICE", mark[k + 1].to["ALICE"])
      /\ ToAlice(k)
      /\ CallLabels("BOB", k)
      /\ Len(wire["ALICE"]) = w /\ Len(out["ALICE"]) = mark[k].reveals
      /\ out["ALICE"] \in Seq(Seq(BOOLEAN))
  BY <1>3, <1>4, <1>5, <1>6, Completing
<1>8. Mid("ALICE")
  BY <1>1 DEF Mid
<1>9. /\ FeedsBob(c) /\ n <= Batch /\ c.op = "feed" /\ c.who = "BOB"
      /\ mark[k + 1].reveals = mark[k].reveals
  BY <1>1, <1>4, <1>8, MidFields
<1>10. /\ CallOK(k)
       /\ c.bits \in Seq(BOOLEAN) /\ n \in Nat
       /\ w \in Nat /\ u \in Nat
       /\ mark[k + 1].wires = w + n
  <2>1. k = at["ALICE"] /\ c = script[k] /\ n = Len(c.bits)
    BY <1>4
  <2>2. LET j == at["ALICE"]
        IN  /\ CallOK(j)
            /\ script[j].bits \in Seq(BOOLEAN) /\ Len(script[j].bits) \in Nat
            /\ mark[j].wires \in Nat /\ mark[j].used \in Nat
            /\ mark[j + 1].wires = mark[j].wires + Len(script[j].bits)
    BY <1>8, MidWires
  <2> QED
    BY ONLY <1>5, <2>1, <2>2
<1>11. k + 1 \in 1 .. Len(script) + 1
  BY <1>4, <1>8, MidWires
<1>12. m.data = [i \in 1 .. n |-> stock[u + i].r # c.bits[i]]
  <2>1. m = Msg("flips", [i \in 1 .. n |-> stock[u + i].r # c.bits[i]])
    BY <1>4, <1>5, <1>7, <1>9 DEF ToAlice
  <2> QED
    BY <2>1 DEF Msg
<1>13. /\ part \in Seq(Block) /\ Len(part) = n
       /\ \A i \in 1 .. n : part[i] = Active(stock[u + i].t, stock[u + i].r, delta)
  BY <1>1, <1>4, <1>5 DEF IInv, TypeOK, Pool
<1>14. \A i \in 1 .. n : stock[u + i] \in [t : Block, r : BOOLEAN]
  <2>1. mark[k + 1].used <= Len(stock) /\ Len(stock) \in Nat
    <3>1. k \in 1 .. Call("BOB") - 1
      <4>1. Call("BOB") \in Nat
        BY InvPlaced, Where, Parties
      <4> QED
        BY <1>7, <4>1
    <3> QED
      BY <3>1, PastCall, Parties
  <2>2. mark[k + 1].used = u + n
    BY <1>4, <1>5, <1>7, <1>9, InvProgram, CallAfter
  <2>3. \A i \in 1 .. n : u + i \in 1 .. Len(stock)
    BY ONLY <1>10, <2>1, <2>2
  <2>4. stock \in Seq([t : Block, r : BOOLEAN])
    BY DEF IInv, TypeOK
  <2> QED
    BY <2>3, <2>4, ElementOfSeq
<1>15. PICK labels : labels = [i \in DOMAIN part |-> Active(part[i], m.data[i], delta)]
  OBVIOUS
<1>16. ASSUME NEW i \in 1 .. n
       PROVE  /\ Active(part[i], m.data[i], delta) = Active(stock[u + i].t, c.bits[i], delta)
              /\ Active(part[i], m.data[i], delta) \in Block
  <2>1. PICK x, r, b : x = stock[u + i].t /\ r = stock[u + i].r /\ b = c.bits[i]
    OBVIOUS
  <2>2. x \in Block /\ r \in BOOLEAN
    BY <1>14, <2>1
  <2>3. b \in BOOLEAN
    BY <1>4, <1>10, <2>1, SeqAt
  <2>4. part[i] = Active(x, r, delta) /\ m.data[i] = (r # b)
    BY <1>12, <1>13, <2>1
  <2>5. Active(part[i], m.data[i], delta) = Active(x, b, delta)
    BY <2>2, <2>3, <2>4, FlippedBlock
  <2>6. delta \in Block
    BY DEF IInv, TypeOK
  <2>7. Active(x, b, delta) \in Block
    BY <2>2, <2>3, <2>6, ActiveBlock
  <2> QED
    BY <2>1, <2>5, <2>7
<1>17. /\ labels \in Seq(Block) /\ Len(labels) = n
       /\ \A i \in 1 .. n : labels[i] = Active(stock[u + i].t, c.bits[i], delta)
  <2>1. DOMAIN part = 1 .. n
    BY <1>13, LenProperties
  <2>2. labels \in [1 .. n -> Block]
    BY <1>15, <1>16, <2>1
  <2>3. labels \in Seq(Block) /\ Len(labels) = n
    BY <1>10, <2>2, FunSeq
  <2> QED
    BY <1>15, <1>16, <2>1, <2>3
<1>18. /\ wire' \in [Party -> Seq(Block)] /\ wire'[q] = wire[q]
       /\ Prolongs(wire[p], wire'[p]) /\ Len(wire'[p]) = w + n
       /\ \A i \in 1 .. n : wire'[p][w + i] = labels[i]
  <2>1. Adds(p, labels)
    BY <1>1, <1>6, <1>15
  <2>2. wire \in [Party -> Seq(Block)]
    BY DEF IInv, TypeOK
  <2>3. /\ wire' \in [Party -> Seq(Block)] /\ wire'[Peer(p)] = wire[Peer(p)]
        /\ Prolongs(wire[p], wire'[p]) /\ Len(wire'[p]) = Len(wire[p]) + Len(labels)
        /\ \A i \in 1 .. Len(labels) : wire'[p][Len(wire[p]) + i] = labels[i]
    BY <1>17, <2>1, <2>2, EndLabels
  <2> QED
    BY <1>7, <1>17, <2>3, Zenon
<1>19. Labelled("ALICE")
  BY <1>2, <1>4, <1>10, <1>18 DEF Labelled
<1>20. Told("ALICE")
  <2>1. out \in [Party -> Seq(Seq(BOOLEAN))]
    BY DEF IInv, TypeOK
  <2>2. Prolongs(out["ALICE"], out["ALICE"])
    BY <1>7, ProlongsSelf
  <2> QED
    BY <1>2, <1>4, <1>7, <1>9, <2>1, <2>2 DEF Told
<1>21. CallLabels("ALICE", k)'
  <2>1. script'[k] = c /\ mark'[k] = mark[k]
    BY <1>2, <1>4
  <2>2. \A i \in 1 .. n : wire'["ALICE"][w + i] = Active(stock'[u + i].t, c.bits[i], delta')
    BY <1>2, <1>17, <1>18
  <2> QED
    BY <1>4, <1>5, <1>9, <2>1, <2>2 DEF CallLabels
<1>22. Given("ALICE", k)'
  BY <1>2, <1>4, <1>9 DEF Given
<1>23. NewMatch(k)
  <2>0. \A i \in 1 .. n : wire["BOB"][w + i] = stock[u + i].t
    <3>1. FeedsBob(script[k]) /\ Len(script[k].bits) <= Batch /\ "BOB" # "ALICE"
      BY <1>4, <1>9
    <3>2. CallLabels("BOB", k)
      BY <1>7
    <3>3. \A i \in 1 .. Len(script[k].bits) :
            wire["BOB"][mark[k].wires + i] = stock[mark[k].used + i].t
      BY ONLY <3>1, <3>2 DEF CallLabels
    <3> QED
      BY <1>4, <1>5, <3>3, Zenon
  <2>1. ASSUME NEW z \in w + 1 .. w + n
        PROVE  wire'["BOB"][z] = Active(wire'["ALICE"][z], val'[z], delta')
    <3>1. PICK i \in 1 .. n : z = w + i
      <4>1. z - w \in 1 .. n /\ z = w + (z - w)
        BY <1>10
      <4> QED
        BY <4>1
    <3>2. PICK b, x : b = c.bits[i] /\ x = stock[u + i].t
      OBVIOUS
    <3>3. b \in BOOLEAN
      BY <1>4, <1>10, <3>2, SeqAt
    <3>4. wire'["ALICE"][z] = Active(x, b, delta)
      BY <1>17, <1>18, <3>1, <3>2
    <3>5. val'[z] = b
      BY <1>2, <1>4, <1>5, <1>9, <1>10, <3>1, <3>2 DEF CallOK
    <3>6. wire'["BOB"][z] = x
      BY <1>18, <2>0, <3>1, <3>2
    <3>7. Active(Active(x, b, delta), b, delta) = x
      BY <3>3, Undone
    <3> QED
      BY <1>2, <3>4, <3>5, <3>6, <3>7
  <2>2. mark'[k + 1].wires = w + n
    BY <1>2, <1>10
  <2> QED
    BY <1>5, <2>1, <2>2 DEF NewMatch
<1>24. part' \in Seq(Block)
  BY <1>1, EmptySeq
<1> QED
  BY <1>1, <1>2, <1>3, <1>4, <1>6, <1>19, <1>20, <1>21, <1>22, <1>23, <1>24, Ends

(* Action GenRevealed: she takes the bits of this reveal. *)
LEMMA GenRevealedStep == ASSUME IInv, GenRevealed
  PROVE  IInv'
<1> PICK p \in Party, q \in Party : p = "ALICE" /\ q = "BOB" /\ Peer(p) = q
  BY Parties
<1>1. /\ pc[p] = "reveal"
      /\ Arrived(p, "bits")
      /\ Gives(p, Data(p))
      /\ Takes(p)
      /\ pc' = [pc EXCEPT ![p] = "run"]
      /\ Done(p)
      /\ UNCHANGED <<program, gates, wire, counter, pool, part>>
  BY DEF GenRevealed
<1>2. /\ delta' = delta /\ constant' = constant /\ gid' = gid /\ counter' = counter /\ wire' = wire
      /\ UNCHANGED <<program, pool, delta>> /\ script' = script /\ mark' = mark /\ val' = val
      /\ part' = part
  BY <1>1 DEF gates, program, pool
<1>3. Leaves("reveal")
  BY <1>1, <1>2 DEF Leaves, Done
<1>4. PICK k, c, n, m : k = at[p] /\ c = script[k] /\ n = Len(c.bits) /\ m = Head(net[p])
  OBVIOUS
<1>5. net[p] # <<>> /\ Data(p) = m.data
  BY <1>1, <1>4 DEF Arrived, Data
<1>6. /\ k \in 1 .. Len(script) /\ k \in Nat /\ k < Call("BOB")
      /\ m = Due("ALICE", mark[k + 1].to["ALICE"])
      /\ ToAlice(k) /\ LSB(delta)
      /\ wire["ALICE"] \in Seq(Block)
      /\ Len(wire["ALICE"]) = mark[k].wires /\ Len(out["ALICE"]) = mark[k].reveals
      /\ out["ALICE"] \in Seq(Seq(BOOLEAN))
  BY <1>3, <1>4, <1>5, Completing
<1>7. Mid("ALICE")
  BY <1>1 DEF Mid
<1>8. /\ c.op = "reveal" /\ c.who = "PUBLIC" /\ n = 0
      /\ mark[k + 1].reveals = mark[k].reveals + 1
  BY <1>1, <1>4, <1>7, MidFields
<1>9. /\ mark[k].wires \in Nat /\ mark[k].reveals \in Nat
      /\ mark[k + 1].wires = mark[k].wires + n
  <2>1. k = at["ALICE"] /\ c = script[k] /\ n = Len(c.bits)
    BY <1>4
  <2>2. LET j == at["ALICE"]
        IN  /\ mark[j].wires \in Nat /\ mark[j].reveals \in Nat
            /\ mark[j + 1].wires = mark[j].wires + Len(script[j].bits)
    BY <1>7, MidWires
  <2> QED
    BY ONLY <2>1, <2>2
<1>10. PICK bits : bits = Clears(c)
  OBVIOUS
<1>11. bits \in Seq(BOOLEAN)
  <2>1. k <= Call("ALICE") /\ k <= Call(Peer("ALICE"))
    <3>1. Call("ALICE") = k
      BY <1>3, <1>4, LeavesTo
    <3>2. Call("BOB") \in Nat
      BY InvPlaced, Where, Parties
    <3> QED
      BY <1>6, <3>1, <3>2, Parties
  <2> QED
    BY <1>4, <1>6, <1>8, <1>10, <2>1, Opens, Parties
<1>12. m.data = bits
  <2>1. m = Msg("bits", bits)
    BY <1>4, <1>6, <1>8, <1>10 DEF ToAlice
  <2> QED
    BY <2>1 DEF Msg
<1>13. /\ Told("ALICE")
       /\ out'["ALICE"][mark[k].reveals + 1] = bits
  <2>1. PICK O, T : O = out[p] /\ T = Append(O, bits)
    OBVIOUS
  <2>2. O \in Seq(Seq(BOOLEAN)) /\ Len(O) = mark[k].reveals
    BY <1>6, <2>1
  <2>3. /\ T \in Seq(Seq(BOOLEAN)) /\ Len(T) = Len(O) + 1 /\ T[Len(O) + 1] = bits
        /\ \A i \in 1 .. Len(O) : T[i] = O[i]
        /\ Len(O) \in Nat
    BY <1>11, <2>1, <2>2, AppendFacts, LenProperties
  <2>4. Prolongs(O, T)
    BY <2>3 DEF Prolongs
  <2>5. out' = [out EXCEPT ![p] = T]
    BY <1>1, <1>5, <1>12, <2>1 DEF Gives
  <2>6. out \in [Party -> Seq(Seq(BOOLEAN))] /\ p # q
    BY DEF IInv, TypeOK
  <2>7. out' \in [Party -> Seq(Seq(BOOLEAN))] /\ out'[p] = T /\ out'[q] = out[q]
    BY <2>3, <2>5, <2>6
  <2> QED
    BY <1>2, <1>4, <1>8, <2>1, <2>2, <2>3, <2>4, <2>7 DEF Told
<1>14. Labelled("ALICE")
  <2>1. wire \in [Party -> Seq(Block)]
    BY DEF IInv, TypeOK
  <2>2. Prolongs(wire["ALICE"], wire["ALICE"])
    BY <1>6, ProlongsSelf
  <2>3. mark[k + 1].wires = mark[k].wires
    BY <1>8, <1>9
  <2> QED
    BY <1>2, <1>4, <1>6, <2>1, <2>2, <2>3 DEF Labelled
<1>15. CallLabels("ALICE", k)'
  BY <1>2, <1>4, <1>8 DEF CallLabels, FeedsBob
<1>16. Given("ALICE", k)'
  <2>1. Clears(c)' = bits
    BY <1>2, <1>10 DEF Clears
  <2>2. c.who # Peer("ALICE") /\ c.who # "XOR"
    BY <1>8, Parties
  <2> QED
    BY <1>2, <1>4, <1>13, <2>1, <2>2 DEF Given
<1>17. NewMatch(k)
  <2>1. mark'[k + 1].wires = mark[k].wires
    BY <1>2, <1>8, <1>9
  <2>2. mark[k].wires + 1 .. mark'[k + 1].wires = {}
    BY <1>9, <2>1
  <2> QED
    BY <2>2 DEF NewMatch
<1>18. part' \in Seq(Block)
  BY <1>2 DEF IInv, TypeOK
<1> QED
  BY <1>1, <1>2, <1>3, <1>4, <1>5, <1>13, <1>14, <1>15, <1>16, <1>17, <1>18, Ends

-----------------------------------------------------------------------------
(* The constructors *)

(* The steps of the constructors. *)
LEMMA Greeting == ASSUME NEW s \in 1 .. 7
  PROVE  /\ Len(Setup) = 7
         /\ Setup[s].from = IF s \in {3, 5, 7} THEN "BOB" ELSE "ALICE"
         /\ Setup[s].kind = "constants" => s = 1
         /\ Setup[s].kind = "cot" => s = 7
         /\ Setup[s].kind \in {"block", "A", "B", "res", "seed"} => s \in 2 .. 6
         /\ Setup[7].from = "BOB" /\ Setup[1].kind = "constants"
<1>1. s = 1 \/ s = 2 \/ s = 3 \/ s = 4 \/ s = 5 \/ s = 6 \/ s = 7
  OBVIOUS
<1> QED
  BY <1>1 DEF Setup

(* The messages of the constructors, one by one. *)
LEMMA BeforeNext == ASSUME NEW p \in Party, NEW s \in 1 .. 6
  PROVE  /\ Before(p, s) \in Nat /\ Before(p, s + 1) \in Nat
         /\ Setup[s].from # p => Before(p, s + 1) = Before(p, s) + 1
         /\ Setup[s].from = p => Before(p, s + 1) = Before(p, s)
         /\ Setup[s].from = p \/ Setup[s].from = Peer(p)
<1>1. Setup[s].from = IF s \in {3, 5, 7} THEN "BOB" ELSE "ALICE"
  BY Greeting
<1>2. CASE p = "ALICE"
  BY <1>1, <1>2, Parties DEF Before
<1>3. CASE p = "BOB"
  BY <1>1, <1>3, Parties DEF Before
<1> QED
  BY <1>2, <1>3 DEF Party

(* The messages of the constructors, counted. *)
LEMMA BeforeMono == ASSUME NEW p \in Party, NEW s \in 1 .. 7, NEW t \in 1 .. 7
  PROVE  /\ Before(p, s) \in Nat /\ Before(p, t) \in Nat
         /\ s <= t => Before(p, s) <= Before(p, t)
         /\ (s < t /\ Setup[s].from = Peer(p)) => Before(p, s) + 1 <= Before(p, t)
<1>1. Setup[s].from = IF s \in {3, 5, 7} THEN "BOB" ELSE "ALICE"
  BY Greeting
<1>2. CASE p = "ALICE"
  BY <1>1, <1>2, Parties DEF Before
<1>3. CASE p = "BOB"
  BY <1>1, <1>3, Parties DEF Before
<1> QED
  BY <1>2, <1>3 DEF Party

(* The evaluator is done with its constructor only when the garbler has    *)
(* but the last message of its own to read.                                *)
LEMMA LateSetup == ASSUME Placed, pc["ALICE"] = "setup", pc["BOB"] # "setup"
  PROVE  at["ALICE"] = 7
<1>1. at["ALICE"] \in 1 .. 7
  BY Where, Parties
<1>2. /\ Sent("BOB") = Before("BOB", at["ALICE"]) /\ Read("BOB") <= Sent("BOB")
      /\ mark[Call("BOB")].to["BOB"] <= Read("BOB")
      /\ Read("BOB") \in Nat /\ Sent("BOB") \in Nat
  <2>1. Sent("BOB") = Before("BOB", at["ALICE"])
    BY Parties DEF Sent
  <2>2. Len(net["BOB"]) = Sent("BOB") - Read("BOB") /\ Len(net["BOB"]) \in Nat
        /\ Read("BOB") \in Nat /\ Sent("BOB") \in Nat /\ mark[Call("BOB")].to["BOB"] <= Read("BOB")
    BY Counts, Parties
  <2> QED
    BY <2>1, <2>2
<1>3. /\ Call("BOB") \in 1 .. Len(script) + 1 /\ Len(script) \in Nat
      /\ 1 \in 1 .. Len(script) + 1 /\ 1 <= Call("BOB")
  BY Where, Parties
<1>4. 4 <= mark[Call("BOB")].to["BOB"] /\ mark[Call("BOB")].to["BOB"] \in Nat
  BY <1>3, Marks, FirstMark, MarkTyped DEF Placed
<1>5. 4 <= Before("BOB", at["ALICE"])
  BY <1>2, <1>4
<1> QED
  BY <1>1, <1>5 DEF Before

(* A step of p's constructor before the last, which both are still in      *)
Greets(p) == /\ pc["ALICE"] = "setup" /\ pc["BOB"] = "setup"
             /\ at[p] \in 1 .. 6
             /\ pc' = pc
             /\ at' = [at EXCEPT ![p] = @ + 1]
             /\ UNCHANGED <<program, gid, wire, counter, pool, part, out>>

(* Where the parties and their streams are after a step of the             *)
(* constructors.                                                           *)
LEMMA GreetsAt == ASSUME IInv, NEW p \in Party, Greets(p), NEW q, q = Peer(p)
  PROVE  /\ at'[p] = at[p] + 1 /\ at'[q] = at[q]
         /\ at[p] \in 1 .. 6 /\ at[q] \in 1 .. 7
         /\ Stage(p) = at[p] /\ Stage(p)' = at[p] + 1
         /\ Stage(q) = at[q] /\ Stage(q)' = at[q]
         /\ Read(p) = Before(p, at[p]) /\ Read(p)' = Before(p, at[p] + 1)
         /\ Sent(q) = Before(q, at[p]) /\ Sent(q)' = Before(q, at[p] + 1)
         /\ Read(q) = Before(q, at[q]) /\ Read(q)' = Read(q)
         /\ Sent(p) = Before(p, at[q]) /\ Sent(p)' = Sent(p)
         /\ at' \in [Party -> Nat]
         /\ Positions'
<1>0. Placed /\ q \in Party /\ q # p /\ Peer(q) = p
  BY InvPlaced, PeerFacts
<1>1. at \in [Party -> Nat] /\ at[p] \in 1 .. 6
  BY DEF IInv, TypeOK, Greets
<1>2. at'[p] = at[p] + 1 /\ at'[q] = at[q] /\ at' \in [Party -> Nat]
  BY <1>0, <1>1 DEF Greets
<1>3. /\ pc[p] = "setup" /\ pc[q] = "setup" /\ pc' = pc
      /\ pc["ALICE"] = "setup" /\ pc["BOB"] = "setup"
  BY <1>0 DEF Greets, Party
<1>4. at[q] \in 1 .. 7 /\ Len(Setup) = 7
  BY <1>0, <1>1, <1>3, Where, Greeting
<1>5. Stage(p) = at[p] /\ Stage(p)' = at[p] + 1 /\ Stage(q) = at[q] /\ Stage(q)' = at[q]
  BY <1>2, <1>3 DEF Stage
<1>6. /\ Read(p) = Before(p, at[p]) /\ Read(p)' = Before(p, at[p] + 1)
      /\ Read(q) = Before(q, at[q]) /\ Read(q)' = Before(q, at[q])
  BY <1>2, <1>3 DEF Read
<1>7. /\ Sent(q) = Before(q, at[p]) /\ Sent(q)' = Before(q, at[p] + 1)
      /\ Sent(p) = Before(p, at[q]) /\ Sent(p)' = Before(p, at[q])
  BY <1>0, <1>2, <1>3 DEF Sent
<1>8. Positions'
  <2>1. at[p] + 1 \in 1 .. 7
    BY <1>1
  <2>2. \A r \in Party : at'[r] \in 1 .. Len(Setup)
    BY <1>2, <1>4, <2>1, PeerFacts
  <2>3. \A r \in Party : pc'[r] = "setup"
    BY <1>3, PeerFacts
  <2> QED
    BY <1>3, <2>2, <2>3 DEF Positions
<1> QED
  BY <1>1, <1>2, <1>4, <1>5, <1>6, <1>7, <1>8

(* Nothing else has begun. *)
LEMMA GreetsKeeps ==
  ASSUME IInv, NEW p \in Party, Greets(p), net' \in [Party -> Seq(Message)], delta' \in Block,
         constant' \in [Party -> [BOOLEAN -> Block]], Queues', Constants', Greetings'
  PROVE  IInv'
<1>1. /\ pc["ALICE"] = "setup" /\ pc["BOB"] = "setup" /\ pc' = pc
      /\ script' = script /\ val' = val /\ mark' = mark
      /\ gid' = gid /\ wire' = wire /\ counter' = counter /\ cots' = cots /\ buf' = buf
      /\ buff' = buff /\ stock' = stock /\ top' = top /\ part' = part /\ out' = out
  BY DEF Greets, program, pool
<1>2. at' \in [Party -> Nat] /\ Positions'
  BY GreetsAt
<1>3. TypeOK'
  BY <1>1, <1>2 DEF IInv, TypeOK
<1>4. Program' /\ Monotone'
  <2>1. \A j : CallOK(j)' = CallOK(j)
    BY <1>1 DEF CallOK
  <2>2. Program'
    BY <1>1, <2>1 DEF IInv, Program
  <2>3. Monotone'
    BY <1>1 DEF IInv, Monotone
  <2> QED
    BY <2>2, <2>3
<1>5. \A r \in Party : /\ pc[r] = "setup" /\ Call(r) = 1 /\ Call(r)' = 1
                       /\ Reached(r)' = 1 /\ Pooled(r) = mark[1] /\ Pooled(r)' = mark[1]
  BY <1>1 DEF Party, Call, Reached, Pooled
<1>6. Counters'
  BY <1>1, <1>5 DEF IInv, Counters
<1>7. Contents'
  <2>1. Call("ALICE")' = 1 /\ Call("BOB")' = 1 /\ Reached("ALICE")' = 1
    BY <1>5, Parties
  <2> QED
    BY <2>1 DEF Contents
<1>8. Pool'
  <2>1. Len(stock) = 0
    BY <1>1 DEF IInv, Pool
  <2> QED
    BY <1>1, <2>1 DEF Pool
<1>9. Labels'
  <2>1. LabelsMatch'
    <3>1. LabelsMatch /\ mark[1].wires = 0
      BY FirstMark, InvProgram DEF IInv, Labels
    <3>2. Len(wire["ALICE"]) = 0 /\ wire["ALICE"] \in Seq(Block) /\ Len(wire["BOB"]) = 0 /\ wire["BOB"] \in Seq(Block)
      <4>1. wire["ALICE"] \in Seq(Block) /\ wire["BOB"] \in Seq(Block)
        BY Parties DEF IInv, TypeOK
      <4>2. \A r \in Party : Len(wire[r]) = mark[Call(r)].wires
        BY DEF IInv, Counters
      <4>3. \A r \in Party : Len(wire[r]) = 0
        BY <1>5, <3>1, <4>2
      <4> QED
        BY <4>1, <4>3, Parties
    <3>3. DOMAIN wire["ALICE"] = 1 .. 0 /\ DOMAIN wire["BOB"] = 1 .. 0
      BY <3>2, LenProperties
    <3> QED
      BY <1>1, <3>3 DEF LabelsMatch, Both
  <2> QED
    BY <1>5, <2>1 DEF Labels
<1>10. Outputs'
  BY <1>5 DEF Outputs
<1> QED
  BY <1>2, <1>3, <1>4, <1>6, <1>7, <1>8, <1>9, <1>10 DEF IInv

-----------------------------------------------------------------------------
(* Who waits for a message of the peer's constructor finds it. *)
Hailed == \A p \in Party : \A s \in Stage(p) .. Stage(Peer(p)) - 1 :
            Setup[s].from = Peer(p) => Due(p, Before(p, s) + 1).kind = Setup[s].kind

(* A message of the constructors that is not taken keeps its kind. *)
LEMMA HailKept ==
  ASSUME IInv, pc["ALICE"] = "setup", pc["BOB"] = "setup", NEW r \in Party, DueKept(r),
         NEW s \in at[r] .. at[Peer(r)] - 1, Setup[s].from = Peer(r),
         Read(r)' \in Nat, Read(r)' <= Before(r, s)
  PROVE  Due(r, Before(r, s) + 1)' = Due(r, Before(r, s) + 1)
         /\ Due(r, Before(r, s) + 1).kind = Setup[s].kind
<1> PICK q : q = Peer(r)
  OBVIOUS
<1>0. Placed /\ q \in Party /\ pc[r] = "setup" /\ pc[q] = "setup"
  BY InvPlaced, PeerFacts DEF Party
<1>1. at[r] \in 1 .. 7 /\ at[q] \in 1 .. 7
  BY <1>0, Where
<1>2. s \in 1 .. 7 /\ s < at[q] /\ s \in at[r] .. at[q] - 1
  BY <1>1
<1>3. Sent(r) = Before(r, at[q])
  BY <1>0 DEF Sent
<1>4. Before(r, s) \in Nat /\ Before(r, s) + 1 <= Sent(r) /\ Sent(r) \in Nat
  BY <1>1, <1>2, <1>3, BeforeMono
<1> PICK n : n = Before(r, s) + 1
  OBVIOUS
<1>5. n \in Int /\ Read(r)' < n /\ n <= Sent(r)
  BY <1>4
<1>6. Due(r, n)' = Due(r, n)
  BY <1>5 DEF DueKept, Due
<1>7. Due(r, n).kind = Setup[s].kind
  <2>1. Stage(r) = at[r] /\ Stage(q) = at[q]
    BY <1>0 DEF Stage
  <2> QED
    BY <1>2, <2>1 DEF IInv, Greetings
<1> QED
  BY <1>6, <1>7

(* A step of the constructors that sends. *)
LEMMA GreetsSends ==
  ASSUME IInv, NEW p \in Party, Greets(p), Setup[at[p]].from = p, NEW q, q = Peer(p), NEW a, a = at[p],
         NEW e \in Message, e.kind = Setup[at[p]].kind, Sends(p, <<e>>)
  PROVE  /\ net' \in [Party -> Seq(Message)]
         /\ Queues' /\ Hailed'
         /\ DueKept(q)
         /\ Due(q, Before(q, a) + 1)' = e
<1> PICK b, msgs : b = at[q] /\ msgs = <<e>>
  OBVIOUS
<1>0. Placed /\ q \in Party /\ q # p /\ Peer(q) = p /\ Peer(p) = q
  BY InvPlaced, PeerFacts
<1>1. pc["ALICE"] = "setup" /\ pc["BOB"] = "setup"
  BY DEF Greets
<1>2. /\ a \in 1 .. 6 /\ b \in 1 .. 7
      /\ at'[p] = a + 1 /\ at'[q] = b
      /\ Stage(p)' = a + 1 /\ Stage(q)' = b
  BY GreetsAt
<1>3. /\ Read(p) = Before(p, a) /\ Read(p)' = Before(p, a + 1)
      /\ Sent(q) = Before(q, a) /\ Sent(q)' = Before(q, a + 1)
      /\ Read(q) = Before(q, b) /\ Read(q)' = Read(q)
      /\ Sent(p)' = Sent(p)
  BY GreetsAt
<1>4. /\ Before(p, a + 1) = Before(p, a) /\ Before(q, a + 1) = Before(q, a) + 1
      /\ Before(q, a) \in Nat /\ Before(q, b) \in Nat /\ Before(p, a) \in Nat
  <2>1. Before(p, a + 1) = Before(p, a) /\ Before(p, a) \in Nat
    BY <1>2, BeforeNext
  <2>2. Before(q, a + 1) = Before(q, a) + 1 /\ Before(q, a) \in Nat
    BY <1>0, <1>2, BeforeNext
  <2>3. Before(q, b) \in Nat
    BY <1>0, <1>2, BeforeMono
  <2> QED
    BY <2>1, <2>2, <2>3
<1>5. msgs \in Seq(Message) /\ Len(msgs) = 1 /\ msgs[1] = e
  BY OneFacts
<1>6. /\ net \in [Party -> Seq(Message)] /\ net' = [net EXCEPT ![q] = @ \o msgs]
      /\ net[q] \in Seq(Message)
  BY <1>0 DEF Sends, Placed
<1>7. net'[q] = net[q] \o msgs /\ net'[p] = net[p]
  BY <1>0, <1>6
<1>8. /\ DueKept(q)
      /\ net'[q] \in Seq(Message)
      /\ Len(net'[q]) = Len(net[q]) + Len(msgs)
      /\ \A i \in 1 .. Len(msgs) : net'[q][Sent(q) + i - Read(q)'] = msgs[i]
  BY <1>0, <1>3, <1>5, <1>7, QueueSends
<1>9. DueKept(p)
  BY <1>0, <1>3, <1>4, <1>7, QueueSame
<1>10. net' \in [Party -> Seq(Message)]
  <2>1. PICK m : m = net[q] \o msgs
    OBVIOUS
  <2>2. m \in Seq(Message) /\ net' = [net EXCEPT ![q] = m]
    BY <1>6, <1>7, <1>8, <2>1
  <2> QED
    BY <1>0, <1>6, <2>2
<1>11. Queues'
  <2>1. Len(net'[p]) = Sent(p)' - Read(p)'
    BY <1>0, <1>3, <1>4, <1>7, Counts
  <2>2. Len(net'[q]) = Sent(q)' - Read(q)'
    <3>1. Len(net[q]) = Sent(q) - Read(q)
      BY <1>0, Counts
    <3> PICK x, y, z : x = Before(q, a) /\ y = Before(q, b) /\ z = Len(net'[q])
      OBVIOUS
    <3>2. z = (x - y) + 1 /\ x \in Nat /\ y \in Nat
      BY <1>3, <1>4, <1>5, <1>8, <3>1
    <3>3. z = (x + 1) - y
      BY ONLY <3>2
    <3> QED
      BY <1>3, <1>4, <3>3
  <2> QED
    BY <1>0, <2>1, <2>2, BothQueues
<1>12. Due(q, Before(q, a) + 1)' = e
  <2>1. 1 \in 1 .. Len(msgs)
    BY <1>5
  <2>2. net'[q][Sent(q) + 1 - Read(q)'] = e
    BY <1>5, <1>8, <2>1
  <2> PICK x, y : x = Before(q, a) /\ y = Before(q, b)
    OBVIOUS
  <2>3. x \in Nat /\ y \in Nat
    BY <1>4
  <2>4. net'[q][x + 1 - y] = e
    BY <1>3, <2>2
  <2>5. x + 1 - y = (x + 1) - y
    BY ONLY <2>3
  <2>6. net'[q][(x + 1) - y] = e
    BY <2>4, <2>5
  <2> QED
    BY <1>3, <2>6 DEF Due
<1>13. ASSUME NEW r \in Party, NEW s \in Stage(r)' .. Stage(Peer(r))' - 1, Setup[s].from = Peer(r)
       PROVE  (Due(r, Before(r, s) + 1).kind = Setup[s].kind)'
  <2>1. CASE r = p
    <3>1. s \in a + 1 .. b - 1
      BY <1>0, <1>2, <1>13, <2>1
    <3>2. s \in a .. b - 1 /\ s \in 1 .. 7 /\ a \in 1 .. 7 /\ a <= s
      BY <1>2, <3>1
    <3>3. Before(p, a) <= Before(p, s)
      BY <3>2, BeforeMono
    <3>4. Read(p)' \in Nat /\ Read(p)' <= Before(p, s)
      BY <1>3, <1>4, <3>3
    <3> QED
      BY <1>0, <1>1, <1>9, <1>13, <2>1, <3>2, <3>4, HailKept
  <2>2. CASE r = q
    <3>1. s \in b .. a
      BY <1>0, <1>2, <1>13, <2>2
    <3>2. CASE s = a
      BY <1>12, <2>2, <3>2
    <3>3. CASE s # a
      <4>1. s \in b .. a - 1 /\ s \in 1 .. 7 /\ b <= s
        BY <1>2, <3>1, <3>3
      <4>2. Before(q, b) <= Before(q, s)
        BY <1>0, <1>2, <4>1, BeforeMono
      <4>3. Read(q)' \in Nat /\ Read(q)' <= Before(q, s)
        BY <1>3, <1>4, <4>2
      <4> QED
        BY <1>0, <1>1, <1>8, <1>13, <2>2, <4>1, <4>3, HailKept
    <3> QED
      BY <3>2, <3>3
  <2> QED
    BY <1>0, <2>1, <2>2, PeerFacts
<1>14. Hailed'
  BY <1>13 DEF Hailed
<1> QED
  BY <1>8, <1>10, <1>11, <1>12, <1>14

(* A step of the constructors that takes: the message is the one of this   *)
(* step.                                                                   *)
LEMMA GreetsTakes ==
  ASSUME IInv, NEW p \in Party, Greets(p), NEW q, q = Peer(p), Setup[at[p]].from = q,
         net[p] # <<>>, Takes(p)
  PROVE  /\ net' \in [Party -> Seq(Message)]
         /\ Queues' /\ Hailed'
         /\ DueKept(q)
         /\ Head(net[p]) = Due(p, Before(p, at[p]) + 1) /\ Head(net[p]) \in Message
<1> PICK a, b : a = at[p] /\ b = at[q]
  OBVIOUS
<1>0. Placed /\ q \in Party /\ q # p /\ Peer(q) = p /\ Peer(p) = q
  BY InvPlaced, PeerFacts
<1>1. pc["ALICE"] = "setup" /\ pc["BOB"] = "setup"
  BY DEF Greets
<1>2. /\ a \in 1 .. 6 /\ b \in 1 .. 7
      /\ at'[p] = a + 1 /\ at'[q] = b
      /\ Stage(p)' = a + 1 /\ Stage(q)' = b
  BY GreetsAt
<1>3. /\ Read(p) = Before(p, a) /\ Read(p)' = Before(p, a + 1)
      /\ Sent(q) = Before(q, a) /\ Sent(q)' = Before(q, a + 1)
      /\ Read(q) = Before(q, b) /\ Read(q)' = Read(q)
      /\ Sent(p)' = Sent(p)
  BY GreetsAt
<1>4. /\ Before(q, a + 1) = Before(q, a) /\ Before(p, a + 1) = Before(p, a) + 1
      /\ Before(q, a) \in Nat /\ Before(q, b) \in Nat /\ Before(p, a) \in Nat
  <2>1. Before(p, a + 1) = Before(p, a) + 1 /\ Before(p, a) \in Nat
    BY <1>0, <1>2, BeforeNext
  <2>2. Before(q, a + 1) = Before(q, a) /\ Before(q, a) \in Nat
    BY <1>0, <1>2, BeforeNext
  <2>3. Before(q, b) \in Nat
    BY <1>0, <1>2, BeforeMono
  <2> QED
    BY <2>1, <2>2, <2>3
<1>5. /\ net \in [Party -> Seq(Message)] /\ net' = [net EXCEPT ![p] = Tail(@)]
  BY <1>0 DEF Takes, Placed
<1>6. net'[p] = Tail(net[p]) /\ net'[q] = net[q]
  BY <1>0, <1>5
<1>7. /\ DueKept(p)
      /\ net'[p] \in Seq(Message)
      /\ Len(net'[p]) = Len(net[p]) - 1
      /\ Head(net[p]) = Due(p, Read(p) + 1)
      /\ Head(net[p]) \in Message
  BY <1>0, <1>3, <1>4, <1>6, QueueTakes
<1>8. DueKept(q)
  BY <1>0, <1>3, <1>6, QueueSame
<1>9. net' \in [Party -> Seq(Message)]
  <2>1. PICK m : m = Tail(net[p])
    OBVIOUS
  <2>2. m \in Seq(Message) /\ net' = [net EXCEPT ![p] = m]
    BY <1>5, <1>6, <1>7, <2>1
  <2> QED
    BY <1>0, <1>5, <2>2
<1>10. Queues'
  <2>1. Len(net'[q]) = Sent(q)' - Read(q)'
    BY <1>0, <1>3, <1>4, <1>6, Counts
  <2>2. Len(net'[p]) = Sent(p)' - Read(p)'
    <3>1. Len(net[p]) = Sent(p) - Read(p) /\ Sent(p) \in Nat
      BY <1>0, Counts
    <3> PICK x, y, z : x = Sent(p) /\ y = Before(p, a) /\ z = Len(net'[p])
      OBVIOUS
    <3>2. z = (x - y) - 1 /\ x \in Nat /\ y \in Nat
      BY <1>3, <1>4, <1>7, <3>1
    <3>3. z = x - (y + 1)
      BY ONLY <3>2
    <3> QED
      BY <1>3, <1>4, <3>3
  <2> QED
    BY <1>0, <2>1, <2>2, BothQueues
<1>11. ASSUME NEW r \in Party, NEW s \in Stage(r)' .. Stage(Peer(r))' - 1, Setup[s].from = Peer(r)
       PROVE  (Due(r, Before(r, s) + 1).kind = Setup[s].kind)'
  <2>1. CASE r = p
    <3>1. s \in a + 1 .. b - 1
      BY <1>0, <1>2, <1>11, <2>1
    <3>2. s \in a .. b - 1 /\ s \in 1 .. 7 /\ a + 1 \in 1 .. 7 /\ a + 1 <= s
      BY <1>2, <3>1
    <3>3. Before(p, a + 1) <= Before(p, s)
      BY <3>2, BeforeMono
    <3>4. Read(p)' \in Nat /\ Read(p)' <= Before(p, s)
      BY <1>3, <1>4, <3>3
    <3> QED
      BY <1>0, <1>1, <1>7, <1>11, <2>1, <3>2, <3>4, HailKept
  <2>2. CASE r = q
    <3>1. s \in b .. a /\ s # a
      BY <1>0, <1>2, <1>11, <2>2
    <3>2. s \in b .. a - 1 /\ s \in 1 .. 7 /\ b <= s
      BY <1>2, <3>1
    <3>3. Before(q, b) <= Before(q, s)
      BY <1>0, <1>2, <3>2, BeforeMono
    <3>4. Read(q)' \in Nat /\ Read(q)' <= Before(q, s)
      BY <1>3, <1>4, <3>3
    <3> QED
      BY <1>0, <1>1, <1>8, <1>11, <2>2, <3>2, <3>4, HailKept
  <2> QED
    BY <1>0, <2>1, <2>2, PeerFacts
<1>12. Hailed'
  BY <1>11 DEF Hailed
<1> QED
  BY <1>3, <1>7, <1>8, <1>9, <1>10, <1>12

-----------------------------------------------------------------------------
(* The steps of the constructors *)

(* A step whose message is not the last of the constructors: both are there. *)
LEMMA BothThere == ASSUME IInv, NEW p \in Party, NEW k, k # "cot", AtSetup(p, k)
  PROVE  /\ pc["ALICE"] = "setup" /\ pc["BOB"] = "setup"
         /\ at[p] \in 1 .. 6 /\ Setup[at[p]].kind = k
         /\ k = "constants" => at[p] = 1
         /\ k \in {"block", "A", "B", "res", "seed"} => at[p] \in 2 .. 6
<1>0. Placed
  BY InvPlaced
<1>1. pc[p] = "setup" /\ Setup[at[p]].kind = k /\ at[p] \in 1 .. 7
  BY <1>0, Where DEF AtSetup
<1>2. /\ k = "constants" => at[p] = 1
      /\ k \in {"block", "A", "B", "res", "seed"} => at[p] \in 2 .. 6
      /\ at[p] # 7
  <2>1. Setup[7].kind = "cot"
    BY DEF Setup
  <2> QED
    BY <1>1, <2>1, Greeting
<1>3. pc["BOB"] = "setup"
  <2>1. SUFFICES ASSUME pc["BOB"] # "setup" PROVE FALSE
    OBVIOUS
  <2>2. p = "ALICE"
    BY <1>1, <2>1 DEF Party
  <2>3. at["ALICE"] = 7
    BY <1>0, <1>1, <2>1, <2>2, LateSetup
  <2> QED
    BY <1>2, <2>2, <2>3
<1>4. pc["ALICE"] = "setup"
  BY <1>0, <1>3, InSetup
<1> QED
  BY <1>1, <1>2, <1>3, <1>4

(* What waits for an evaluator that has not begun *)
Offered == (Stage("BOB") = 1 /\ Stage("ALICE") > 1) =>
             \A b \in BOOLEAN : Due("BOB", 1).data[b] = Active(constant["ALICE"][b], b, delta)

(* The two parts of what is said of the messages of the constructors. *)
LEMMA Greeted ==
  ASSUME pc' = pc, pc["BOB"] = "setup", Hailed', Offered'
  PROVE  Greetings'
  BY DEF Greetings, Hailed, Offered

(* The labels of the constants stay after the first step. *)
LEMMA ConstantsStay ==
  ASSUME IInv, NEW p \in Party, Greets(p), at[p] # 1, delta' = delta, constant' = constant
  PROVE  Constants'
<1> PICK q : q = Peer(p)
  OBVIOUS
<1>1. /\ Stage(p) = at[p] /\ Stage(p)' = at[p] + 1 /\ Stage(q) = at[q] /\ Stage(q)' = at[q]
      /\ at[p] \in 1 .. 6
  BY GreetsAt
<1>2. Stage(p) > 1 /\ Stage(p)' > 1 /\ Stage(q)' = Stage(q)
  BY <1>1
<1>3. \A r \in Party : Stage(r)' > 1 => Stage(r) > 1
  BY <1>2, PeerFacts
<1> QED
  BY <1>3, Parties DEF IInv, Constants

(* So does the message that carries them. *)
LEMMA OfferedStays ==
  ASSUME IInv, NEW p \in Party, Greets(p), at[p] # 1, delta' = delta, constant' = constant,
         p = "ALICE" => DueKept("BOB")
  PROVE  Offered'
<1>1. CASE p = "BOB"
  <2>1. Stage("BOB")' = at["BOB"] + 1 /\ at["BOB"] \in 1 .. 6
    BY <1>1, GreetsAt
  <2>2. Stage("BOB")' # 1
    BY <2>1
  <2> QED
    BY <2>2 DEF Offered
<1>2. CASE p = "ALICE"
  <2>1. SUFFICES ASSUME Stage("BOB")' = 1 PROVE \A b \in BOOLEAN :
          Due("BOB", 1)'.data[b] = Active(constant["ALICE"][b], b, delta)
    BY DEF Offered
  <2>2. /\ at["ALICE"] \in 1 .. 6 /\ Stage("ALICE") = at["ALICE"]
        /\ Stage("BOB") = at["BOB"] /\ Stage("BOB")' = at["BOB"]
        /\ Read("BOB") = Before("BOB", at["BOB"]) /\ Read("BOB")' = Read("BOB")
        /\ Sent("BOB") = Before("BOB", at["ALICE"])
    BY <1>2, GreetsAt, Parties
  <2>3. at["BOB"] = 1 /\ Stage("BOB") = 1 /\ Stage("ALICE") > 1
    BY <1>2, <2>1, <2>2
  <2>4. Read("BOB")' < 1 /\ 1 <= Sent("BOB")
    BY <1>2, <2>2, <2>3 DEF Before
  <2>5. Due("BOB", 1)' = Due("BOB", 1)
    BY <1>2, <2>4 DEF DueKept, Due
  <2> QED
    BY <2>3, <2>5 DEF IInv, Greetings
<1> QED
  BY <1>1, <1>2 DEF Party

(* Action Handshake: a message of the base OTs and of the PRG's seed. *)
LEMMA HandshakeStep == ASSUME IInv, NEW p \in Party, Handshake(p)
  PROVE  IInv'
<1> PICK q : q = Peer(p)
  OBVIOUS
<1>1. PICK k \in {"block", "A", "B", "res", "seed"} :
        /\ AtSetup(p, k)
        /\ \/ /\ Setup[at[p]].from = p
              /\ Sends(p, <<Msg(k, <<>>)>>)
           \/ /\ Setup[at[p]].from # p
              /\ Arrived(p, k)
              /\ Takes(p)
        /\ Done(p)
        /\ UNCHANGED <<program, pc, gates, wire, counter, pool, part, out>>
  BY DEF Handshake
<1>2. /\ pc["ALICE"] = "setup" /\ pc["BOB"] = "setup"
      /\ at[p] \in 1 .. 6 /\ Setup[at[p]].kind = k /\ at[p] # 1
  <2>1. k # "cot"
    OBVIOUS
  <2>2. at[p] \in 1 .. 6 /\ at[p] \in 2 .. 6 /\ Setup[at[p]].kind = k /\ pc["ALICE"] = "setup" /\ pc["BOB"] = "setup"
    BY <1>1, <2>1, BothThere
  <2> QED
    BY <2>2
<1>3. pc' = pc /\ delta' = delta /\ constant' = constant /\ gid' = gid
  BY <1>1 DEF gates
<1>4. Greets(p)
  BY <1>1, <1>2, <1>3 DEF Greets, Done
<1>5. net' \in [Party -> Seq(Message)] /\ Queues' /\ Hailed' /\ DueKept(q)
  <2>1. CASE Setup[at[p]].from = p /\ Sends(p, <<Msg(k, <<>>)>>)
    <3>1. PICK e : e = Msg(k, <<>>)
      OBVIOUS
    <3>2. e \in Message /\ e.kind = k
      BY <3>1, MsgTyped DEF Msg
    <3> QED
      BY <1>2, <1>4, <2>1, <3>1, <3>2, GreetsSends
  <2>2. CASE Setup[at[p]].from # p /\ Arrived(p, k) /\ Takes(p)
    <3>1. Setup[at[p]].from = q /\ net[p] # <<>>
      BY <1>2, <2>2, BeforeNext DEF Arrived
    <3> QED
      BY <1>4, <2>2, <3>1, GreetsTakes
  <2> QED
    BY <1>1, <2>1, <2>2
<1>6. Constants'
  BY <1>2, <1>3, <1>4, ConstantsStay
<1>7. Offered'
  <2>1. p = "ALICE" => DueKept("BOB")
    BY <1>5, Parties
  <2> QED
    BY <1>2, <1>3, <1>4, <2>1, OfferedStays
<1>8. Greetings'
  BY <1>2, <1>3, <1>5, <1>7, Greeted
<1>9. delta' \in Block /\ constant' \in [Party -> [BOOLEAN -> Block]]
  BY <1>3 DEF IInv, TypeOK
<1> QED
  BY <1>4, <1>5, <1>6, <1>8, <1>9, GreetsKeeps

(* Action EvaConstants: the evaluator takes the labels of the constants. *)
LEMMA EvaConstantsStep == ASSUME IInv, EvaConstants
  PROVE  IInv'
<1> PICK p, q : p = "BOB" /\ q = "ALICE"
  OBVIOUS
<1>0. p \in Party /\ q = Peer(p) /\ p # q /\ q \in Party
  BY Parties
<1>1. /\ AtSetup(p, "constants") /\ Arrived(p, "constants")
      /\ constant' = [constant EXCEPT ![p] = Head(net[p]).data]
      /\ Takes(p) /\ Done(p)
      /\ UNCHANGED <<program, pc, delta, gid, wire, counter, pool, part, out>>
  BY DEF EvaConstants, Data
<1>2. /\ pc["ALICE"] = "setup" /\ pc["BOB"] = "setup" /\ at[p] = 1
      /\ Setup[at[p]].from = q /\ net[p] # <<>>
  <2>1. at[p] = 1 /\ pc["ALICE"] = "setup" /\ pc["BOB"] = "setup"
    BY <1>0, <1>1, BothThere
  <2> QED
    BY <1>1, <2>1 DEF Arrived, Setup
<1>3. Greets(p)
  BY <1>1, <1>2 DEF Greets, Done
<1>4. /\ net' \in [Party -> Seq(Message)] /\ Queues' /\ Hailed'
      /\ Head(net[p]) = Due(p, Before(p, at[p]) + 1) /\ Head(net[p]) \in Message
  BY <1>0, <1>1, <1>2, <1>3, GreetsTakes
<1>5. PICK m : m = Head(net[p])
  OBVIOUS
<1>6. m = Due("BOB", 1) /\ m.data \in [BOOLEAN -> Block]
  <2>1. Before(p, at[p]) + 1 = 1
    BY <1>2 DEF Before
  <2>2. m.kind = "constants"
    BY <1>1, <1>5 DEF Arrived
  <2> QED
    BY <1>4, <1>5, <2>1, <2>2, MessageData
<1>7. /\ Stage(p) = 1 /\ Stage(p)' = 2 /\ Stage(q)' = Stage(q)
      /\ Sent(p) = Before(p, at[q]) /\ Read(p) = Before(p, at[p]) /\ Stage(q) = at[q]
      /\ at[q] \in 1 .. 7
  <2>1. /\ Stage(p) = at[p] /\ Stage(p)' = at[p] + 1 /\ Stage(q)' = at[q] /\ Stage(q) = at[q]
        /\ Sent(p) = Before(p, at[q]) /\ Read(p) = Before(p, at[p]) /\ at[q] \in 1 .. 7
    BY <1>0, <1>3, GreetsAt
  <2> QED
    BY <1>2, <2>1
<1>8. Stage(q) > 1
  <2>1. Len(net[p]) = Sent(p) - Read(p) /\ Len(net[p]) # 0 /\ Sent(p) \in Nat /\ Read(p) \in Nat
    <3>1. net[p] \in Seq(Message)
      BY <1>0 DEF IInv, TypeOK
    <3>2. Len(net[p]) # 0
      BY <1>2, <3>1, EmptySeq
    <3> QED
      BY <1>0, <3>2, Counts, InvPlaced
  <2>2. at[q] # 1
    BY <1>2, <1>7, <2>1
  <2> QED
    BY <1>7, <2>2
<1>9. \A b \in BOOLEAN : m.data[b] = Active(constant[q][b], b, delta)
  BY <1>6, <1>7, <1>8 DEF IInv, Greetings
<1>10. constant' = [constant EXCEPT ![p] = m.data] /\ delta' = delta
  BY <1>1, <1>5
<1>11. delta' \in Block /\ constant' \in [Party -> [BOOLEAN -> Block]]
  BY <1>0, <1>6, <1>10 DEF IInv, TypeOK
<1>12. constant'[p] = m.data /\ constant'[q] = constant[q]
  <2>1. constant \in [Party -> [BOOLEAN -> Block]]
    BY DEF IInv, TypeOK
  <2> QED
    BY <1>0, <1>10, <2>1
<1>13. Constants'
  <2>1. LSB(delta')
    BY <1>8, <1>10 DEF IInv, Constants
  <2>2. \A b \in BOOLEAN : constant'["BOB"][b] = Active(constant'["ALICE"][b], b, delta')
    BY <1>9, <1>10, <1>12
  <2> QED
    BY <2>1, <2>2 DEF Constants
<1>14. Offered'
  BY <1>7 DEF Offered
<1>15. Greetings'
  <2>1. pc' = pc
    BY <1>1
  <2> QED
    BY <1>2, <1>4, <1>14, <2>1, Greeted
<1> QED
  BY <1>0, <1>3, <1>4, <1>11, <1>13, <1>15, GreetsKeeps

(* Action GenConstants: set_delta, and the labels of the constants. *)
LEMMA GenConstantsStep == ASSUME IInv, GenConstants
  PROVE  IInv'
<1> PICK p, q : p = "ALICE" /\ q = "BOB"
  OBVIOUS
<1>0. p \in Party /\ q = Peer(p) /\ p # q /\ q \in Party
  BY Parties
<1>1. /\ AtSetup(p, "constants") /\ Done(p)
      /\ UNCHANGED <<program, pc, gid, wire, counter, pool, part, out>>
  BY DEF GenConstants
<1>2. PICK d, c0, c1 \in Fresh :
        /\ delta' = d \cup {0}
        /\ constant' = [constant EXCEPT ![p] = [b \in BOOLEAN |-> IF b THEN XOR(c1, delta') ELSE c0]]
        /\ Sends(p, <<Msg("constants", [b \in BOOLEAN |-> IF b THEN c1 ELSE c0])>>)
  BY DEF GenConstants
<1>3. PICK f, g, e : /\ f = [b \in BOOLEAN |-> IF b THEN XOR(c1, delta') ELSE c0]
                     /\ g = [b \in BOOLEAN |-> IF b THEN c1 ELSE c0]
                     /\ e = Msg("constants", g)
  OBVIOUS
<1>4. d \in Block /\ c0 \in Block /\ c1 \in Block /\ delta' \in Block /\ LSB(delta')
  <2>1. Fresh \subseteq Block
    BY SemiHonestAssumption
  <2>2. 0 \in 0 .. Width - 1
    BY BlocksAssumption
  <2>3. delta' = d \cup {0}
    BY <1>2
  <2>4. d \in Block /\ c0 \in Block /\ c1 \in Block
    BY <2>1
  <2> QED
    BY <2>2, <2>3, <2>4 DEF Block, LSB
<1>5. /\ f \in [BOOLEAN -> Block] /\ g \in [BOOLEAN -> Block]
      /\ f[TRUE] = XOR(c1, delta') /\ f[FALSE] = c0 /\ g[TRUE] = c1 /\ g[FALSE] = c0
  <2>1. XOR(c1, delta') \in Block
    BY <1>4, XORBlock
  <2> QED
    BY <1>3, <1>4, <2>1
<1>6. e \in Message /\ e.kind = "constants" /\ e.data = g
  BY <1>3, <1>5, MsgTyped DEF Msg
<1>7. /\ pc["ALICE"] = "setup" /\ pc["BOB"] = "setup" /\ at[p] = 1
      /\ Setup[at[p]].from = p /\ Setup[at[p]].kind = "constants"
  <2>1. at[p] = 1 /\ pc["ALICE"] = "setup" /\ pc["BOB"] = "setup"
    BY <1>0, <1>1, BothThere
  <2> QED
    BY <1>1, <2>1 DEF Setup
<1>8. Greets(p)
  BY <1>1, <1>7 DEF Greets, Done
<1>9. /\ net' \in [Party -> Seq(Message)] /\ Queues' /\ Hailed'
      /\ Due(q, Before(q, 1) + 1)' = e
  BY <1>0, <1>2, <1>3, <1>6, <1>7, <1>8, GreetsSends
<1>10. Due("BOB", 1)' = e
  <2>1. Before("BOB", 1) + 1 = 1
    BY DEF Before
  <2> QED
    BY <1>9, <2>1
<1>11. at[q] = 1 /\ Stage(q)' = 1
  <2>1. /\ Stage(q)' = at[q] /\ Sent(q) = Before(q, at[p]) /\ Read(q) = Before(q, at[q]) /\ at[q] \in 1 .. 7
    BY <1>0, <1>8, GreetsAt
  <2>2. Len(net[q]) = Sent(q) - Read(q) /\ Len(net[q]) \in Nat /\ Sent(q) \in Nat /\ Read(q) \in Nat
    BY <1>0, Counts, InvPlaced
  <2>3. Before("BOB", at[q]) <= Before("BOB", 1)
    BY <1>7, <2>1, <2>2
  <2>4. at[q] = 1
    BY <2>1, <2>3 DEF Before
  <2> QED
    BY <2>1, <2>4
<1>12. /\ constant' \in [Party -> [BOOLEAN -> Block]] /\ constant'[p] = f
  <2>1. constant \in [Party -> [BOOLEAN -> Block]] /\ constant' = [constant EXCEPT ![p] = f]
    BY <1>2, <1>3 DEF IInv, TypeOK
  <2> QED
    BY <1>0, <1>5, <2>1
<1>13. \A b \in BOOLEAN : g[b] = Active(f[b], b, delta')
  <2>1. Active(f[TRUE], TRUE, delta') = XOR(XOR(c1, delta'), delta')
    BY <1>5 DEF Active, Mask
  <2>2. XOR(XOR(c1, delta'), delta') = c1
    BY DEF XOR
  <2>3. Active(f[FALSE], FALSE, delta') = c0
    BY <1>5 DEF Active, Mask, XOR
  <2> QED
    BY <1>5, <2>1, <2>2, <2>3
<1>14. Offered'
  BY <1>6, <1>10, <1>12, <1>13 DEF Offered
<1>15. Greetings'
  <2>1. pc' = pc
    BY <1>1
  <2> QED
    BY <1>7, <1>9, <1>14, <2>1, Greeted
<1>16. Constants'
  BY <1>4, <1>11 DEF Constants
<1> QED
  BY <1>0, <1>4, <1>8, <1>9, <1>12, <1>15, <1>16, GreetsKeeps

-----------------------------------------------------------------------------
(* The first refill of the pool, after which a party runs the program *)

Readies(p) == /\ pc[p] = "setup" /\ at[p] = 7
              /\ pc' = [pc EXCEPT ![p] = "run"]
              /\ at' = [at EXCEPT ![p] = 1]
              /\ top' = [top EXCEPT ![p] = 0]
              /\ UNCHANGED <<program, gates, wire, counter, part, out>>

(* Where the parties are when one of them leaves the constructors. *)
LEMMA ReadiesAt == ASSUME IInv, NEW p \in Party, Readies(p), NEW q, q = Peer(p)
  PROVE  /\ pc'[p] = "run" /\ pc'[q] = pc[q] /\ at'[p] = 1 /\ at'[q] = at[q]
         /\ \A r \in Party : Call(r)' = Call(r) /\ Reached(r)' = Reached(r) /\ Pooled(r)' = Pooled(r)
         /\ Call(p) = 1 /\ Pooled(p) = mark[1]
         /\ Read(p) = Before(p, 7) /\ Read(p)' = mark[1].to[p]
         /\ Sent(q) = Before(q, 7) /\ Sent(q)' = mark[1].to[q]
         /\ Read(q)' = Read(q) /\ Sent(p)' = Sent(p)
         /\ Stage(p) = 7 /\ Stage(p)' = 8 /\ Stage(q)' = Stage(q)
         /\ ProgramInv' /\ Grows
         /\ at' \in [Party -> Nat] /\ pc' \in [Party -> {"setup", "run", "feed", "reveal"}]
         /\ Positions'
<1>0. /\ Placed /\ q \in Party /\ q # p /\ Peer(q) = p /\ Len(Setup) = 7
      /\ \A r \in Party : r = p \/ r = q
  BY InvPlaced, PeerFacts DEF Setup
<1>1. /\ at \in [Party -> Nat] /\ pc \in [Party -> {"setup", "run", "feed", "reveal"}]
      /\ pc[p] = "setup" /\ at[p] = 7
  BY DEF IInv, TypeOK, Readies
<1>2. /\ pc'[p] = "run" /\ pc'[q] = pc[q] /\ at'[p] = 1 /\ at'[q] = at[q]
      /\ at' \in [Party -> Nat] /\ pc' \in [Party -> {"setup", "run", "feed", "reveal"}]
  BY <1>0, <1>1 DEF Readies
<1>3. script' = script /\ val' = val /\ mark' = mark
  BY DEF Readies, program
<1>4. ASSUME NEW r \in Party
      PROVE  Call(r)' = Call(r) /\ Reached(r)' = Reached(r) /\ Pooled(r)' = Pooled(r)
  <2>1. CASE r = p
    BY <1>1, <1>2, <1>3, <2>1 DEF Call, Reached, Pooled
  <2>2. CASE r = q
    BY <1>2, <1>3, <2>2 DEF Call, Reached, Pooled
  <2> QED
    BY <1>0, <2>1, <2>2
<1>5. Call(p) = 1 /\ Pooled(p) = mark[1]
  BY <1>1 DEF Call, Pooled
<1>6. Read(p) = Before(p, 7) /\ Read(p)' = mark[1].to[p] /\ Read(q)' = Read(q)
  BY <1>1, <1>2, <1>3 DEF Read, Mid
<1>7. Sent(q) = Before(q, 7) /\ Sent(q)' = mark[1].to[q] /\ Sent(p)' = Sent(p)
  <2>1. Reached(p)' = 1 /\ Reached(q)' = Reached(q)
    BY <1>0, <1>2, <1>4 DEF Reached, Call
  <2> QED
    BY <1>0, <1>1, <1>2, <1>3, <2>1 DEF Sent
<1>8. Stage(p) = 7 /\ Stage(p)' = 8 /\ Stage(q)' = Stage(q)
  BY <1>0, <1>1, <1>2 DEF Stage
<1>9. ProgramInv' /\ Grows
  <2>1. ProgramInv
    BY InvProgram
  <2>2. \A j : CallOK(j)' = CallOK(j)
    BY <1>3 DEF CallOK
  <2>3. ProgramTyped' /\ Monotone'
    BY <1>3, <2>1 DEF ProgramInv, ProgramTyped, Monotone
  <2>4. Program'
    BY <1>3, <2>1, <2>2 DEF ProgramInv, Program
  <2>5. Grows
    <3>1. Len(script) \in Nat /\ Len(val) \in Nat
      BY <2>1, LenProperties DEF ProgramInv, ProgramTyped
    <3> QED
      BY <1>3, <3>1 DEF Grows
  <2> QED
    BY <2>3, <2>4, <2>5 DEF ProgramInv
<1>10. Positions'
  <2>1. Positions
    BY <1>0 DEF Placed
  <2>2. Len(script) + 1 \in Nat /\ 1 \in 1 .. Len(script) + 1
    BY <1>0, Where
  <2>3. p = "ALICE" => pc'["ALICE"] = "run" /\ pc'["BOB"] = pc["BOB"]
    BY <1>0, <1>2, Parties
  <2>4. p = "BOB" => pc'["BOB"] = "run" /\ pc'["ALICE"] = pc["ALICE"] /\ at'["ALICE"] = at["ALICE"]
    BY <1>0, <1>2, Parties
  <2>5. pc'["BOB"] \in {"setup", "run"}
    BY <2>1, <2>3, <2>4 DEF Party, Positions
  <2>6. at'[p] \in 1 .. Len(script') + 1
    BY <1>2, <1>3, <2>2
  <2>7. at'[q] \in IF pc'[q] = "setup" THEN 1 .. Len(Setup)
                   ELSE IF pc'[q] \in {"feed", "reveal"} THEN 1 .. Len(script')
                   ELSE 1 .. Len(script') + 1
    BY <1>0, <1>2, <1>3, <2>1 DEF Positions, Mid
  <2>8. \A r \in Party : at'[r] \in IF pc'[r] = "setup" THEN 1 .. Len(Setup)
                   ELSE IF pc'[r] \in {"feed", "reveal"} THEN 1 .. Len(script')
                   ELSE 1 .. Len(script') + 1
    BY <1>0, <1>2, <2>6, <2>7
  <2>9. /\ pc'["ALICE"] = "feed" => LET c == script'[at'["ALICE"]] IN FeedsBob(c) /\ Len(c.bits) <= Batch
        /\ pc'["ALICE"] = "reveal" => LET c == script'[at'["ALICE"]] IN c.op = "reveal" /\ c.who = "PUBLIC"
    BY <1>3, <2>1, <2>3, <2>4 DEF Party, Positions
  <2> QED
    BY <2>5, <2>8, <2>9 DEF Positions, Mid
<1> QED
  BY <1>2, <1>4, <1>5, <1>6, <1>7, <1>8, <1>9, <1>10

(* Leaving the constructors keeps the invariant, if the pool and the       *)
(* streams are what it says.                                               *)
LEMMA ReadiesKeeps ==
  ASSUME IInv, NEW p \in Party, Readies(p), net' \in [Party -> Seq(Message)], PoolTyped', Queues',
         Prolongs(stock, stock'), Pool', Greetings', DueKept("ALICE"), DueKept("BOB")
  PROVE  IInv'
<1> PICK q : q = Peer(p)
  OBVIOUS
<1>0. Placed /\ q \in Party /\ q # p /\ \A r \in Party : r = p \/ r = q
  BY InvPlaced, PeerFacts
<1>1. /\ script' = script /\ val' = val /\ mark' = mark /\ delta' = delta /\ constant' = constant
      /\ gid' = gid /\ wire' = wire /\ counter' = counter /\ part' = part /\ out' = out
      /\ top' = [top EXCEPT ![p] = 0]
  BY DEF Readies, program, gates
<1>2. /\ \A r \in Party : Call(r)' = Call(r) /\ Reached(r)' = Reached(r) /\ Pooled(r)' = Pooled(r)
      /\ Call(p) = 1 /\ Pooled(p) = mark[1]
      /\ Stage(p) = 7 /\ Stage(p)' = 8 /\ Stage(q)' = Stage(q)
  BY ReadiesAt
<1>3. ProgramInv' /\ Grows /\ Positions'
  BY ReadiesAt
<1>4. TypeOK'
  <2>1. at' \in [Party -> Nat] /\ pc' \in [Party -> {"setup", "run", "feed", "reveal"}]
    BY ReadiesAt
  <2> QED
    BY <1>1, <2>1 DEF IInv, TypeOK, PoolTyped
<1>5. Counters'
  <2>1. top'[p] = 0 /\ top'[q] = top[q]
    BY <1>0, <1>1 DEF IInv, TypeOK
  <2>2. mark[1].stocked = Batch /\ mark[1].used = 0
    BY FirstMark, InvProgram
  <2>3. 0 = Batch - (Batch - 0)
    BY ONLY BatchFacts
  <2>4. \A r \in Party : top'[r] = Batch - (Pooled(r)'.stocked - Pooled(r)'.used)
    BY <1>0, <1>2, <2>1, <2>2, <2>3 DEF IInv, Counters
  <2>5. \A r \in Party : /\ gid'[r] = mark'[Call(r)'].gid
                         /\ counter'[r] = mark'[Call(r)'].counter
                         /\ Len(wire'[r]) = mark'[Call(r)'].wires
                         /\ Len(out'[r]) = mark'[Call(r)'].reveals
    BY <1>1, <1>2 DEF IInv, Counters
  <2> QED
    BY <2>4, <2>5 DEF Counters
<1>6. Constants'
  <2>1. \A r \in Party : Stage(r)' > 1 => Stage(r) > 1
    BY <1>0, <1>2
  <2> QED
    BY <1>1, <2>1, Parties DEF IInv, Constants
<1>7. Onward
  <2>1. \A r \in Party : wire[r] \in Seq(Block) /\ out[r] \in Seq(Seq(BOOLEAN))
    BY DEF IInv, TypeOK
  <2>2. \A r \in Party : Prolongs(wire[r], wire'[r])
    BY <1>1, <2>1, ProlongsSelf
  <2>3. \A r \in Party : Prolongs(out[r], out'[r])
    BY <1>1, <2>1, ProlongsSelf
  <2> QED
    BY <1>1, <1>3, <2>2, <2>3 DEF Onward
<1>8. Placed'
  BY <1>3, <1>4 DEF Placed, TypeOK
<1>9. Contents'
  <2>1. \A r \in Party : Call(r)' = Call(r) /\ Call(r) \in Nat
    BY <1>0, <1>2, Where
  <2>2. ASSUME NEW k \in Call("BOB")' .. Reached("ALICE")' - 1
        PROVE  ToBob(k)'
    <3>1. k \in Call("BOB") .. Reached("ALICE") - 1 /\ Call("BOB")' <= k
      BY <1>2, <2>1, Parties
    <3> QED
      BY <1>7, <1>8, <3>1, ToBobStays
  <2>3. ASSUME NEW k \in Call("ALICE")' .. Call("BOB")' - 1
        PROVE  ToAlice(k)'
    <3>1. k \in Call("ALICE") .. Call("BOB") - 1 /\ Call("ALICE")' <= k
      BY <1>2, <2>1, Parties
    <3> QED
      BY <1>7, <1>8, <3>1, ToAliceStays
  <2> QED
    BY <2>2, <2>3 DEF Contents
<1>10. ASSUME NEW r \in Party, NEW k \in 1 .. Call(r)' - 1
       PROVE  CallLabels(r, k)' /\ Given(r, k)'
  <2>1. k \in 1 .. Call(r) - 1
    BY <1>2
  <2> QED
    BY <1>3, <1>7, <2>1, LabelsStay, GivenStays
<1>11. LabelsMatch'
  <2>1. NewLabelsMatch
    <3>1. \A r \in Party : Len(wire[r]) \in Nat /\ wire'[r] = wire[r]
      BY <1>1, LenProperties DEF IInv, TypeOK
    <3> QED
      BY <3>1, Parties DEF NewLabelsMatch
  <2>2. wire' \in [Party -> Seq(Block)]
    BY <1>4 DEF TypeOK
  <2> QED
    BY <1>7, <2>1, <2>2, MatchStays
<1>12. Labels' /\ Outputs'
  BY <1>10, <1>11 DEF Labels, Outputs
<1>13. Program' /\ Monotone'
  BY <1>3 DEF ProgramInv
<1> QED
  BY <1>3, <1>4, <1>5, <1>6, <1>9, <1>12, <1>13 DEF IInv

(* The message of a refill. *)
LEMMA CotMessage ==
  ASSUME NEW r \in [1 .. Batch -> BOOLEAN], NEW t \in Seq(Block), Len(t) = Batch, t = CotBlocks(Batch),
         NEW e, e = CotMsg(Batch, r)
  PROVE  /\ e \in Message /\ e.kind = "cot"
         /\ e.data.r = r /\ e.data.t = t /\ Len(r) = Batch
<1>1. r \in Seq(BOOLEAN) /\ Len(r) = Batch
  BY BatchFacts, FunSeq
<1>2. PICK d : d = [r |-> r, t |-> t]
  OBVIOUS
<1>3. d \in [r : Seq(BOOLEAN), t : Seq(Block)] /\ d.r = r /\ d.t = t
  BY <1>1, <1>2
<1>4. e = Msg("cot", d)
  BY <1>2 DEF CotMsg
<1>5. e \in Message
  BY <1>3, <1>4, MsgTyped
<1> QED
  BY <1>1, <1>3, <1>4, <1>5 DEF Msg

(* Action EvaFirstRefill: the evaluator fills his pool and begins the      *)
(* program.                                                                *)
LEMMA EvaFirstRefillStep == ASSUME IInv, EvaFirstRefill
  PROVE  IInv'
<1> PICK p, q : p = "BOB" /\ q = "ALICE"
  OBVIOUS
<1>0. /\ p \in Party /\ q = Peer(p) /\ p # q /\ q \in Party /\ Peer(q) = p /\ Placed
      /\ mark[1].to["ALICE"] = 3 /\ mark[1].to["BOB"] = 4
  BY Parties, InvPlaced, InvProgram, FirstMark
<1>1. PICK r \in [1 .. Batch -> BOOLEAN] :
        /\ AtSetup(p, "cot")
        /\ EvaRefill(r)
        /\ Sends(p, <<CotMsg(Batch, r)>>)
        /\ Ready(p)
        /\ UNCHANGED <<program, gates, wire, counter, part, out>>
  BY DEF EvaFirstRefill
<1>2. pc[p] = "setup" /\ at[p] = 7 /\ pc[q] = "setup" /\ at[q] \in 1 .. 7
  <2>1. pc[p] = "setup" /\ at[p] \in 1 .. 7 /\ Setup[at[p]].kind = "cot"
    BY <1>0, <1>1, Where DEF AtSetup
  <2>2. at[p] = 7
    BY <2>1, Greeting
  <2>3. pc[q] = "setup"
    BY <1>0, <2>1, InSetup
  <2> QED
    BY <1>0, <2>1, <2>2, <2>3, Where
<1>3. Readies(p)
  BY <1>1, <1>2 DEF Readies, Ready
<1>4. /\ Read(p) = Before(p, 7) /\ Read(p)' = mark[1].to[p]
      /\ Sent(q) = Before(q, 7) /\ Sent(q)' = mark[1].to[q]
      /\ Read(q)' = Read(q) /\ Sent(p)' = Sent(p)
      /\ pc'[p] = "run" /\ pc'[q] = pc[q] /\ Stage(p)' = 8 /\ Stage(q)' = Stage(q)
      /\ Call(p)' = Call(p) /\ Call(p) = 1
  BY <1>0, <1>3, ReadiesAt
<1>5. Sent(p) = Before(p, at[q]) /\ Read(q) = Before(q, at[q]) /\ Stage(q) = at[q]
  BY <1>0, <1>2 DEF Sent, Read, Stage
<1>6. at[q] = 7
  <2>1. Len(net[p]) = Sent(p) - Read(p) /\ Len(net[p]) \in Nat /\ Sent(p) \in Nat /\ Read(p) \in Nat
    BY <1>0, Counts
  <2>2. Before("BOB", 7) <= Before("BOB", at[q])
    BY <1>4, <1>5, <2>1
  <2> QED
    BY <1>2, <2>2 DEF Before
<1>7. /\ Read(p) = 4 /\ Read(p)' = 4 /\ Sent(p)' = 4 /\ Sent(p) = 4
      /\ Read(q) = 2 /\ Read(q)' = 2 /\ Sent(q) = 2 /\ Sent(q)' = 3
  <2>1. Before("BOB", 7) = 4 /\ Before("ALICE", 7) = 2
    BY DEF Before
  <2> QED
    BY <1>0, <1>4, <1>5, <1>6, <2>1
<1>8. PICK s, t, e, msgs : s = 0 /\ t = CotBlocks(Batch) /\ e = CotMsg(Batch, r) /\ msgs = <<e>>
  OBVIOUS
<1>9. Len(stock) = s
  BY <1>2, <1>8 DEF IInv, Pool
<1>10. Restocked(s, r, t)
  BY <1>1, <1>8, <1>9, Restocks DEF IInv
<1>11. /\ e \in Message /\ e.kind = "cot"
       /\ e.data.r = r /\ e.data.t = t /\ Len(r) = Batch /\ Len(t) = Batch
  BY <1>8, <1>10, CotMessage DEF Restocked
<1>12. msgs \in Seq(Message) /\ Len(msgs) = 1 /\ msgs[1] = e
  BY <1>8, <1>11, OneFacts
<1>13. /\ net \in [Party -> Seq(Message)] /\ net' = [net EXCEPT ![q] = @ \o msgs]
       /\ net'[q] = net[q] \o msgs /\ net'[p] = net[p]
  BY <1>0, <1>1, <1>8 DEF Sends, Placed
<1>14. /\ DueKept(q)
       /\ net'[q] \in Seq(Message)
       /\ Len(net'[q]) = Len(net[q]) + Len(msgs)
       /\ \A i \in 1 .. Len(msgs) : net'[q][Sent(q) + i - Read(q)'] = msgs[i]
  BY <1>0, <1>4, <1>12, <1>13, QueueSends
<1>15. DueKept(p)
  BY <1>0, <1>7, <1>13, QueueSame
<1>16. net' \in [Party -> Seq(Message)]
  <2>1. PICK m : m = net[q] \o msgs
    OBVIOUS
  <2>2. m \in Seq(Message) /\ net' = [net EXCEPT ![q] = m]
    BY <1>13, <1>14, <2>1
  <2> QED
    BY <1>0, <1>13, <2>2
<1>17. Queues'
  <2>1. Len(net'[p]) = Sent(p)' - Read(p)'
    BY <1>0, <1>7, <1>13, Counts
  <2>2. Len(net[q]) = Sent(q) - Read(q)
    BY <1>0, Counts
  <2>3. Len(net'[q]) = Sent(q)' - Read(q)'
    BY <1>7, <1>12, <1>14, <2>2
  <2> QED
    BY <1>0, <2>1, <2>3, BothQueues
<1>18. Due(q, 3)' = e
  <2>1. 1 \in 1 .. Len(msgs)
    BY <1>12
  <2>2. net'[q][2 + 1 - 2] = e
    BY <1>7, <1>12, <1>14, <2>1
  <2>3. 2 + 1 - 2 = 3 - 2
    OBVIOUS
  <2>4. net'[q][3 - 2] = e
    BY <2>2, <2>3
  <2> QED
    BY <1>7, <2>4 DEF Due
<1>19. Refills(e, s)'
  BY <1>10, <1>11 DEF Refills, Restocked
<1>20. Greetings'
  <2>1. ASSUME NEW x \in Party, NEW y \in Stage(x)' .. Stage(Peer(x))' - 1, Setup[y].from = Peer(x)
        PROVE  (Due(x, Before(x, y) + 1).kind = Setup[y].kind)'
    <3>1. CASE x = p
      <4>1. y \in 8 .. 7 - 1
        BY <1>0, <1>4, <1>5, <1>6, <2>1, <3>1
      <4> QED
        BY <4>1
    <3>2. CASE x = q
      <4>1. y \in 7 .. 8 - 1
        BY <1>0, <1>4, <1>5, <1>6, <2>1, <3>2
      <4>2. y = 7 /\ Before(q, y) + 1 = 3 /\ Setup[y].kind = "cot"
        BY <4>1 DEF Before, Setup
      <4> QED
        BY <1>11, <1>18, <3>2, <4>2
    <3> QED
      BY <3>1, <3>2 DEF Party
  <2>2. Stage("BOB")' # 1
    BY <1>4
  <2>3. Refills(Due("ALICE", 3), 0)'
    <3>1. PICK z : z = 0
      OBVIOUS
    <3>2. Refills(e, z)'
      BY <1>8, <1>19, <3>1
    <3> QED
      BY <1>18, <3>1, <3>2 DEF Refills
  <2> QED
    BY <2>1, <2>2, <2>3 DEF Greetings
<1>21. PoolTyped' /\ Prolongs(stock, stock')
  <2>1. part' = part /\ top' = [top EXCEPT ![p] = 0]
    BY <1>1 DEF Ready
  <2>2. top' \in [Party -> 0 .. Batch]
    <3>1. top \in [Party -> 0 .. Batch]
      BY DEF IInv, TypeOK
    <3>2. 0 \in 0 .. Batch
      BY BatchFacts
    <3> QED
      BY ONLY <2>1, <3>1, <3>2
  <2> QED
    BY <1>10, <2>1, <2>2 DEF IInv, TypeOK, PoolTyped, Restocked
<1>22. Pool'
  <2>1. mark' = mark /\ mark[1].stocked = Batch
    BY <1>1, InvProgram, FirstMark DEF program
  <2>2. Len(stock') = mark'[Call("BOB")'].stocked
    <3>1. Len(stock') = 0 + Batch
      BY <1>8, <1>10 DEF Restocked
    <3> QED
      BY <1>4, <2>1, <3>1, BatchFacts
  <2>3. ASSUME NEW i \in 1 .. Batch
        PROVE  /\ buf'["BOB"][i] = stock'[mark'[Call("BOB")'].stocked - Batch + i].t
               /\ buff'[i] = stock'[mark'[Call("BOB")'].stocked - Batch + i].r
    <3>1. buf'["BOB"][i] = stock'[s + i].t /\ buff'[i] = stock'[s + i].r
      BY <1>10 DEF Restocked
    <3>2. Batch - Batch + i = s + i
      BY <1>8, BatchFacts
    <3> QED
      BY <1>4, <2>1, <3>1, <3>2
  <2>4. pc'["ALICE"] = "setup" /\ pc'["BOB"] = "run"
    BY <1>2, <1>4
  <2> QED
    BY <2>2, <2>3, <2>4 DEF Pool
<1> QED
  BY <1>0, <1>3, <1>14, <1>15, <1>16, <1>17, <1>20, <1>21, <1>22, ReadiesKeeps

(* Action GenFirstRefill: the garbler fills hers, from the message of that *)
(* refill.                                                                 *)
LEMMA GenFirstRefillStep == ASSUME IInv, GenFirstRefill
  PROVE  IInv'
<1> PICK p, q : p = "ALICE" /\ q = "BOB"
  OBVIOUS
<1>0. /\ p \in Party /\ q = Peer(p) /\ p # q /\ q \in Party /\ Peer(q) = p /\ Placed
      /\ mark[1].to["ALICE"] = 3 /\ mark[1].to["BOB"] = 4
  BY Parties, InvPlaced, InvProgram, FirstMark
<1>1. PICK m, y : m = Head(net[p]) /\ y = GenBlocks(m.data)
  OBVIOUS
<1>2. /\ AtSetup(p, "cot")
      /\ net[p] # <<>> /\ m.kind = "cot"
      /\ buf' = [buf EXCEPT ![p] = y]
      /\ cots' = cots /\ buff' = buff /\ stock' = stock
      /\ Takes(p) /\ Ready(p)
      /\ UNCHANGED <<program, gates, wire, counter, part, out>>
  BY <1>1 DEF GenFirstRefill, GenRefill, Arrived, Data
<1>3. pc[p] = "setup" /\ at[p] = 7
  <2>1. pc[p] = "setup" /\ at[p] \in 1 .. 7 /\ Setup[at[p]].kind = "cot"
    BY <1>0, <1>2, Where DEF AtSetup
  <2> QED
    BY <2>1, Greeting
<1>4. Readies(p)
  BY <1>2, <1>3 DEF Readies, Ready
<1>5. /\ Read(p) = Before(p, 7) /\ Read(p)' = mark[1].to[p]
      /\ Sent(q) = Before(q, 7) /\ Sent(q)' = mark[1].to[q]
      /\ Read(q)' = Read(q) /\ Sent(p)' = Sent(p)
      /\ pc'[p] = "run" /\ pc'[q] = pc[q] /\ Stage(p)' = 8 /\ Stage(q)' = Stage(q)
      /\ Call(p) = 1 /\ Pooled(p) = mark[1]
      /\ \A r \in Party : Call(r)' = Call(r) /\ Pooled(r)' = Pooled(r)
  BY <1>0, <1>4, ReadiesAt
<1>6. Read(p) = 2 /\ Read(p)' = Read(p) + 1 /\ Read(p)' = 3 /\ Sent(q)' = Sent(q)
  <2>1. Before("BOB", 7) = 4 /\ Before("ALICE", 7) = 2
    BY DEF Before
  <2> QED
    BY <1>0, <1>5, <2>1
<1>7. Sent(p) >= 3 /\ Sent(p) \in Nat
  <2>1. Len(net[p]) = Sent(p) - Read(p) /\ Sent(p) \in Nat
    BY <1>0, Counts
  <2>2. Len(net[p]) # 0 /\ Len(net[p]) \in Nat
    <3>1. net[p] \in Seq(Message)
      BY <1>0 DEF Placed
    <3> QED
      BY <1>2, <3>1, EmptySeq, LenProperties
  <2> QED
    BY <1>6, <2>1, <2>2
<1>8. pc[q] = "run"
  <2>1. SUFFICES ASSUME pc[q] = "setup" PROVE FALSE
    BY <1>0, Where
  <2>2. Sent(p) = Before("ALICE", at[q])
    BY <1>0, <2>1 DEF Sent
  <2> QED
    BY <1>7, <2>2 DEF Before
<1>9. /\ net' = [net EXCEPT ![p] = Tail(@)] /\ net \in [Party -> Seq(Message)]
      /\ net'[p] = Tail(net[p]) /\ net'[q] = net[q]
  BY <1>0, <1>2 DEF Takes, Placed
<1>10. /\ DueKept(p)
       /\ net'[p] \in Seq(Message)
       /\ Len(net'[p]) = Len(net[p]) - 1
       /\ m = Due(p, Read(p) + 1)
       /\ m \in Message
  BY <1>0, <1>1, <1>2, <1>6, <1>9, QueueTakes
<1>11. DueKept(q)
  BY <1>0, <1>5, <1>9, QueueSame
<1>12. net' \in [Party -> Seq(Message)]
  <2>1. PICK v : v = Tail(net[p])
    OBVIOUS
  <2>2. v \in Seq(Message) /\ net' = [net EXCEPT ![p] = v]
    BY <1>9, <1>10, <2>1
  <2> QED
    BY <1>9, <2>2
<1>13. Queues'
  <2>1. Len(net'[q]) = Sent(q)' - Read(q)'
    BY <1>0, <1>5, <1>6, <1>9, Counts
  <2>2. Len(net'[p]) = Sent(p)' - Read(p)'
    <3>1. Len(net[p]) = Sent(p) - Read(p)
      BY <1>0, Counts
    <3> QED
      BY <1>5, <1>6, <1>7, <1>10, <3>1
  <2> QED
    BY <1>0, <2>1, <2>2, BothQueues
<1>14. Refills(m, 0)
  <2>1. Refills(Due("ALICE", 3), 0)
    BY <1>3, <1>8 DEF IInv, Greetings
  <2>2. m = Due("ALICE", 3)
    BY <1>6, <1>10
  <2> QED
    BY <2>1, <2>2
<1>15. Len(stock) \in Nat /\ Batch <= Len(stock)
  <2>1. Len(stock) = mark[Call("BOB")].stocked
    BY <1>8 DEF IInv, Pool
  <2>2. Call("BOB") \in 1 .. Len(script) + 1
    BY <1>0, Where
  <2> QED
    BY <2>1, <2>2, MarkTyped, InvProgram
<1>16. y \in [1 .. Batch -> Block] /\ Holds(Block, y, Pairs, 0)
  <2>1. 0 + Batch <= Len(stock) /\ 0 \in Nat
    BY <1>15, BatchFacts
  <2> QED
    BY <1>1, <1>10, <1>14, <2>1, Refilled DEF IInv
<1>17. /\ buf' \in [Party -> [1 .. Batch -> Block]]
       /\ buf'[p] = y /\ buf'[q] = buf[q]
  <2>1. buf \in [Party -> [1 .. Batch -> Block]]
    BY DEF IInv, TypeOK
  <2> QED
    BY <1>0, <1>2, <1>16, <2>1
<1>18. PoolTyped' /\ Prolongs(stock, stock')
  <2>1. part' = part /\ top' = [top EXCEPT ![p] = 0]
    BY <1>2 DEF Ready
  <2>2. top' \in [Party -> 0 .. Batch]
    <3>1. top \in [Party -> 0 .. Batch]
      BY DEF IInv, TypeOK
    <3>2. 0 \in 0 .. Batch
      BY BatchFacts
    <3> QED
      BY ONLY <2>1, <3>1, <3>2
  <2>3. Prolongs(stock, stock')
    BY <1>2, ProlongsSelf DEF IInv, TypeOK
  <2> QED
    BY <1>2, <1>17, <2>1, <2>2, <2>3 DEF IInv, TypeOK, PoolTyped
<1>19. Greetings'
  <2>1. Stage(q) = 8 /\ Stage(p)' = 8 /\ Stage(q)' = 8
    BY <1>0, <1>5, <1>8, StageFacts
  <2>2. \A x \in Party : \A s \in Stage(x)' .. Stage(Peer(x))' - 1 : FALSE
    <3>1. \A x \in Party : Stage(x)' = 8 /\ Stage(Peer(x))' = 8
      BY <1>0, <2>1 DEF Party
    <3> QED
      BY <3>1
  <2>3. pc'["ALICE"] # "setup" /\ Stage("BOB")' # 1
    BY <1>5, <2>1
  <2> QED
    BY <2>2, <2>3 DEF Greetings
<1>20. Pool'
  <2>1. mark' = mark /\ mark[1].stocked = Batch /\ delta' = delta
    BY <1>2, InvProgram, FirstMark DEF program, gates
  <2>2. /\ Call("BOB")' = Call("BOB") /\ pc'["BOB"] = pc["BOB"] /\ buf'["BOB"] = buf["BOB"]
        /\ Pooled("ALICE")' = mark[1] /\ pc'["ALICE"] = "run" /\ buf'["ALICE"] = y
    BY <1>0, <1>5, <1>17
  <2>3. ASSUME NEW i \in 1 .. Batch
        PROVE  y[i] = Active(stock[Batch - Batch + i].t, stock[Batch - Batch + i].r, delta)
    <3>1. 0 + i \in Nat /\ Batch - Batch + i = 0 + i
      BY BatchFacts
    <3>2. y[i] = Pairs[0 + i]
      BY <1>16 DEF Holds
    <3> QED
      BY <3>1, <3>2 DEF Pairs
  <2>4. /\ Len(stock') = mark'[Call("BOB")'].stocked
        /\ \A i \in 1 .. Batch :
             LET s == stock'[mark'[Call("BOB")'].stocked - Batch + i]
             IN buf'["BOB"][i] = s.t /\ buff'[i] = s.r
    BY <1>2, <1>8, <2>1, <2>2 DEF IInv, Pool
  <2>5. /\ Pooled("ALICE")'.stocked <= Len(stock')
        /\ \A i \in 1 .. Batch :
             LET s == stock'[Pooled("ALICE")'.stocked - Batch + i]
             IN buf'["ALICE"][i] = Active(s.t, s.r, delta')
    BY <1>2, <1>15, <2>1, <2>2, <2>3
  <2>6. pc'["BOB"] # "setup" /\ pc'["ALICE"] # "feed"
    BY <1>8, <2>2
  <2> QED
    BY <2>4, <2>5, <2>6 DEF Pool
<1> QED
  BY <1>0, <1>4, <1>10, <1>11, <1>12, <1>13, <1>18, <1>19, <1>20, ReadiesKeeps

-----------------------------------------------------------------------------
(* Every step *)

(* The invariant holds at the start. *)
LEMMA InitInv == ASSUME Init
  PROVE  IInv
<1>0. /\ script = <<>> /\ val = <<>> /\ at = [p \in Party |-> 1]
      /\ pc = [p \in Party |-> "setup"] /\ net = [p \in Party |-> <<>>]
      /\ wire = [p \in Party |-> <<>>] /\ out = [p \in Party |-> <<>>]
      /\ stock = <<>>
  BY DEF Init
<1>1. PICK m : m = [gid |-> 0, counter |-> 0, used |-> 0, stocked |-> Batch, wires |-> 0, reveals |-> 0,
                    to |-> [p \in Party |-> IF p = "ALICE" THEN 3 ELSE 4]]
  OBVIOUS
<1>2. m \in Mark /\ mark = <<m>>
  <2>1. Batch \in Nat
    BY BatchFacts
  <2> QED
    BY <1>1, <2>1 DEF Init, Mark
<1>3. mark \in Seq(Mark) /\ Len(mark) = 1 /\ mark[1] = m
  BY <1>2, OneFacts
<1>4. /\ <<>> \in Seq(CallType) /\ <<>> \in Seq(BOOLEAN) /\ <<>> \in Seq(Message) /\ <<>> \in Seq(Block)
      /\ <<>> \in Seq(Seq(BOOLEAN)) /\ <<>> \in Seq([t : Block, r : BOOLEAN]) /\ Len(<<>>) = 0
  BY EmptySeq
<1>5. {} \in Block
  BY DEF Block
<1>6. TypeOK
  <2>1. /\ script \in Seq(CallType) /\ val \in Seq(BOOLEAN) /\ net \in [Party -> Seq(Message)]
        /\ wire \in [Party -> Seq(Block)] /\ out \in [Party -> Seq(Seq(BOOLEAN))]
        /\ stock \in Seq([t : Block, r : BOOLEAN])
    BY <1>0, <1>4
  <2>2. at \in [Party -> Nat] /\ pc \in [Party -> {"setup", "run", "feed", "reveal"}]
    BY <1>0
  <2>3. /\ delta \in Block /\ constant \in [Party -> [BOOLEAN -> Block]]
        /\ gid \in [Party -> Nat] /\ counter \in [Party -> Nat] /\ cots \in Nat
    BY <1>5 DEF Init
  <2>4. /\ buf \in [Party -> [1 .. Batch -> Block]] /\ buff \in [1 .. Batch -> BOOLEAN]
    BY <1>5 DEF Init
  <2>5. top \in [Party -> 0 .. Batch]
    <3>1. 0 \in 0 .. Batch
      BY BatchFacts
    <3> QED
      BY <3>1 DEF Init
  <2>6. part \in Seq(Block)
    BY <1>4 DEF Init
  <2> QED
    BY <1>3, <2>1, <2>2, <2>3, <2>4, <2>5, <2>6 DEF TypeOK
<1>7. \A p \in Party : /\ pc[p] = "setup" /\ at[p] = 1 /\ Call(p) = 1 /\ Stage(p) = 1
                       /\ Reached(p) = 1 /\ Pooled(p) = mark[1] /\ net[p] = <<>>
                       /\ wire[p] = <<>> /\ out[p] = <<>>
  BY <1>0 DEF Call, Stage, Reached, Pooled
<1>8. /\ pc["ALICE"] = "setup" /\ pc["BOB"] = "setup" /\ Stage("ALICE") = 1 /\ Stage("BOB") = 1
      /\ Call("ALICE") = 1 /\ Call("BOB") = 1 /\ Reached("ALICE") = 1
  BY <1>7, Parties
<1>9. Positions
  <2>1. 1 \in 1 .. Len(Setup)
    BY DEF Setup
  <2> QED
    BY <1>7, <1>8, <2>1 DEF Positions
<1>10. Program
  <2>1. Len(script) = 0 /\ Len(val) = 0
    BY <1>0, <1>4
  <2>2. m.wires = 0
    BY <1>1
  <2> QED
    BY <1>1, <1>3, <2>1, <2>2 DEF Program
<1>11. Monotone
  <2>1. /\ m.used = 0 /\ m.stocked = Batch /\ Batch \in Nat
    BY <1>1, BatchFacts
  <2>2. Precedes(m, m)
    BY <1>2, PrecedesSelf
  <2> QED
    BY <1>3, <2>1, <2>2 DEF Monotone
<1>12. Counters
  <2>1. /\ m.gid = 0 /\ m.counter = 0 /\ m.wires = 0 /\ m.reveals = 0
        /\ m.used = 0 /\ m.stocked = Batch
    BY <1>1
  <2>2. \A p \in Party : gid[p] = 0 /\ counter[p] = 0 /\ top[p] = 0
    BY DEF Init
  <2>3. 0 = Batch - (Batch - 0)
    BY BatchFacts
  <2> QED
    BY <1>3, <1>4, <1>7, <2>1, <2>2, <2>3 DEF Counters
<1>13. Queues
  <2>1. \A p \in Party : Before(p, 1) = 0
    BY Parties DEF Before, Party
  <2>2. \A p \in Party : Sent(p) = 0 /\ Read(p) = 0
    BY <1>7, <2>1, PeerFacts DEF Sent, Read
  <2> QED
    BY <1>4, <1>7, <2>2 DEF Queues
<1>14. Constants
  BY <1>8 DEF Constants
<1>15. Greetings
  <2>1. \A p \in Party : Stage(p) = 1 /\ Stage(Peer(p)) = 1
    BY <1>7, PeerFacts
  <2> QED
    BY <1>8, <2>1 DEF Greetings
<1>16. Contents
  BY <1>8 DEF Contents
<1>17. Pool
  BY <1>0, <1>4, <1>8 DEF Pool
<1>18. Labels /\ Outputs
  <2>1. DOMAIN wire["ALICE"] = {} /\ DOMAIN wire["BOB"] = {}
    <3>1. \A p \in Party : wire[p] \in Seq(Block) /\ Len(wire[p]) = 0
      BY <1>4, <1>7
    <3>2. \A p \in Party : DOMAIN wire[p] = 1 .. 0
      BY <3>1, LenProperties
    <3> QED
      BY <3>2, Parties
  <2>2. LabelsMatch
    BY <2>1 DEF LabelsMatch, Both
  <2> QED
    BY <1>7, <2>2 DEF Labels, Outputs
<1> QED
  BY <1>6, <1>9, <1>10, <1>11, <1>12, <1>13, <1>14, <1>15, <1>16, <1>17, <1>18 DEF IInv

(* What a step that changes nothing keeps. *)
LEMMA Stutters == ASSUME IInv, UNCHANGED vars
  PROVE  IInv'
<1>1. /\ script' = script /\ val' = val /\ mark' = mark /\ at' = at /\ pc' = pc /\ net' = net
      /\ delta' = delta /\ constant' = constant /\ wire' = wire /\ gid' = gid /\ counter' = counter
      /\ cots' = cots /\ buf' = buf /\ buff' = buff /\ stock' = stock /\ top' = top
      /\ part' = part /\ out' = out
  BY DEF vars, program, gates, pool
<1>2. /\ \A p : /\ Stage(p)' = Stage(p) /\ Call(p)' = Call(p) /\ Mid(p)' = Mid(p)
                /\ Reached(p)' = Reached(p) /\ Pooled(p)' = Pooled(p)
  BY <1>1 DEF Stage, Call, Mid, Reached, Pooled
<1>3. /\ \A p : Read(p)' = Read(p)
  BY <1>1, <1>2 DEF Read
<1>4. /\ \A p : Sent(p)' = Sent(p)
  BY <1>1, <1>2 DEF Sent
<1>5. /\ \A p, n : Due(p, n)' = Due(p, n)
  BY <1>1, <1>3 DEF Due
<1>6. TypeOK' /\ Positions' /\ Monotone'
  <2>1. TypeOK'
    BY <1>1 DEF IInv, TypeOK
  <2>2. Positions'
    BY <1>1, <1>2 DEF IInv, Positions
  <2>3. Monotone'
    BY <1>1 DEF IInv, Monotone
  <2> QED
    BY <2>1, <2>2, <2>3
<1>7. Program'
  <2>1. \A j : CallOK(j)' = CallOK(j)
    BY <1>1 DEF CallOK
  <2> QED
    BY <1>1, <2>1 DEF IInv, Program
<1>8. Counters' /\ Queues' /\ Constants'
  <2>1. Counters'
    BY <1>1, <1>2 DEF IInv, Counters
  <2>2. Queues'
    BY <1>1, <1>3, <1>4 DEF IInv, Queues
  <2>3. Constants'
    BY <1>1, <1>2 DEF IInv, Constants
  <2> QED
    BY <2>1, <2>2, <2>3
<1>9. \A m, s : Refills(m, s)' = Refills(m, s)
  BY <1>1 DEF Refills
<1>10. Greetings'
  <2>1. Due("BOB", 1)' = Due("BOB", 1) /\ Due("ALICE", 3)' = Due("ALICE", 3)
    BY <1>5
  <2>2. (\A p \in Party : \A s \in Stage(p) .. Stage(Peer(p)) - 1 :
           Setup[s].from = Peer(p) => Due(p, Before(p, s) + 1).kind = Setup[s].kind)'
    <3>1. ASSUME NEW p \in Party, NEW s \in Stage(p)' .. Stage(Peer(p))' - 1, Setup[s].from = Peer(p)
          PROVE  (Due(p, Before(p, s) + 1).kind = Setup[s].kind)'
      <4>1. s \in Stage(p) .. Stage(Peer(p)) - 1
        BY <1>2, <3>1
      <4>2. Due(p, Before(p, s) + 1).kind = Setup[s].kind
        BY <3>1, <4>1 DEF IInv, Greetings
      <4>3. Due(p, Before(p, s) + 1)' = Due(p, Before(p, s) + 1)
        BY <1>1, <1>3 DEF Due
      <4> QED
        BY <4>2, <4>3
    <3> QED
      BY <3>1
  <2>3. Stage("BOB")' = Stage("BOB") /\ Stage("ALICE")' = Stage("ALICE")
    BY <1>2
  <2>4. Refills(Due("ALICE", 3), 0)' = Refills(Due("ALICE", 3), 0)
    BY <1>1, <2>1 DEF Refills
  <2> QED
    BY <1>1, <2>1, <2>2, <2>3, <2>4 DEF IInv, Greetings
<1>11. Onward /\ ProgramInv'
  <2>1. \A p \in Party : wire[p] \in Seq(Block) /\ out[p] \in Seq(Seq(BOOLEAN))
    BY DEF IInv, TypeOK
  <2>2. \A p \in Party : Prolongs(wire[p], wire'[p])
    BY <1>1, <2>1, ProlongsSelf
  <2>3. \A p \in Party : Prolongs(out[p], out'[p])
    BY <1>1, <2>1, ProlongsSelf
  <2>4. Prolongs(stock, stock')
    BY <1>1, ProlongsSelf DEF IInv, TypeOK
  <2>5. Grows
    <3>1. Len(script) \in Nat /\ Len(val) \in Nat
      BY LenProperties DEF IInv, TypeOK
    <3> QED
      BY <1>1, <3>1 DEF Grows
  <2>6. ProgramTyped'
    BY <1>6 DEF TypeOK, ProgramTyped
  <2> QED
    BY <1>1, <1>6, <1>7, <2>2, <2>3, <2>4, <2>5, <2>6 DEF Onward, ProgramInv
<1>12. Placed /\ Placed' /\ DueKept("ALICE") /\ DueKept("BOB")
  <2>1. Placed
    BY InvPlaced
  <2>2. Placed'
    BY <1>6, <1>8, <1>11 DEF Placed, TypeOK
  <2>3. DueKept("ALICE") /\ DueKept("BOB")
    BY <1>1, <1>3, <2>1, QueueSame, Parties
  <2> QED
    BY <2>1, <2>2, <2>3
<1>13. Contents'
  <2>0. \A p \in Party : Call(p) \in Nat
    BY <1>12, Where
  <2>1. ASSUME NEW k \in Call("BOB")' .. Reached("ALICE")' - 1
        PROVE  ToBob(k)'
    <3>1. k \in Call("BOB") .. Reached("ALICE") - 1 /\ Call("BOB")' <= k
      BY <1>2, <2>0, Parties
    <3> QED
      BY <1>11, <1>12, <3>1, ToBobStays
  <2>2. ASSUME NEW k \in Call("ALICE")' .. Call("BOB")' - 1
        PROVE  ToAlice(k)'
    <3>1. k \in Call("ALICE") .. Call("BOB") - 1 /\ Call("ALICE")' <= k
      BY <1>2, <2>0, Parties
    <3> QED
      BY <1>11, <1>12, <3>1, ToAliceStays
  <2> QED
    BY <2>1, <2>2 DEF Contents
<1>14. Pool'
  BY <1>1, <1>2 DEF IInv, Pool
<1>15. Labels' /\ Outputs'
  <2>1. LabelsMatch'
    BY <1>1 DEF IInv, Labels, LabelsMatch, Both
  <2>2. ASSUME NEW p \in Party, NEW k \in 1 .. Call(p)' - 1
        PROVE  CallLabels(p, k)' /\ Given(p, k)'
    <3>1. k \in 1 .. Call(p) - 1
      BY <1>2
    <3> QED
      BY <1>11, <3>1, LabelsStay, GivenStays
  <2> QED
    BY <2>1, <2>2 DEF Labels, Outputs
<1> QED
  BY <1>6, <1>7, <1>8, <1>10, <1>13, <1>14, <1>15 DEF IInv

(* Every step keeps the invariant. *)
LEMMA NextInv == ASSUME IInv, Next
  PROVE  IInv'
<1>1. CASE \E p \in Party : PartyStep(p)
  <2>1. PICK p \in Party : PartyStep(p)
    BY <1>1
  <2>2. CASE CommonStep(p)
    <3>1. CASE Handshake(p)
      BY <3>1, HandshakeStep
    <3>2. CASE Local(p)
      BY <3>2, LocalStep
    <3>3. CASE FeedAlice(p)
      BY <3>3, FeedAliceStep
    <3>4. CASE RevealShare(p)
      BY <3>4, RevealShareStep
    <3>5. CASE RevealTo(p)
      BY <3>5, RevealToStep
    <3>6. CASE Learn(p)
      BY <3>6, LearnStep
    <3> QED
      BY <2>2, <3>1, <3>2, <3>3, <3>4, <3>5, <3>6 DEF CommonStep
  <2>3. CASE GenStep
    <3>1. CASE GenConstants
      BY <3>1, GenConstantsStep
    <3>2. CASE GenFirstRefill
      BY <3>2, GenFirstRefillStep
    <3>3. CASE GenAnd
      BY <3>3, GenAndStep
    <3>4. CASE GenDirect
      BY <3>4, GenDirectStep
    <3>5. CASE GenTake
      BY <3>5, GenTakeStep
    <3>6. CASE GenWrap
      BY <3>6, GenWrapStep
    <3>7. CASE GenFlip
      BY <3>7, GenFlipStep
    <3>8. CASE GenRevealPublic
      BY <3>8, GenRevealPublicStep
    <3>9. CASE GenRevealed
      BY <3>9, GenRevealedStep
    <3> QED
      BY <2>3, <3>1, <3>2, <3>3, <3>4, <3>5, <3>6, <3>7, <3>8, <3>9 DEF GenStep
  <2>4. CASE EvaStep
    <3>1. CASE EvaConstants
      BY <3>1, EvaConstantsStep
    <3>2. CASE EvaFirstRefill
      BY <3>2, EvaFirstRefillStep
    <3>3. CASE EvaAnd
      BY <3>3, EvaAndStep
    <3>4. CASE EvaDirect
      BY <3>4, EvaDirectStep
    <3>5. CASE EvaTake
      BY <3>5, EvaTakeStep
    <3>6. CASE EvaWrap
      BY <3>6, EvaWrapStep
    <3>7. CASE EvaRevealPublic
      BY <3>7, EvaRevealPublicStep
    <3> QED
      BY <2>4, <3>1, <3>2, <3>3, <3>4, <3>5, <3>6, <3>7 DEF EvaStep
  <2> QED
    BY <2>1, <2>2, <2>3, <2>4 DEF PartyStep
<1>2. CASE Terminated
  BY <1>2, Stutters DEF Terminated
<1> QED
  BY <1>1, <1>2 DEF Next

-----------------------------------------------------------------------------
(* What follows of it *)

(* The inductive invariant holds in every reachable state. *)
THEOREM Invariance == Spec => []IInv
<1>1. Init => IInv
  BY InitInv
<1>2. IInv /\ [Next]_vars => IInv'
  BY NextInv, Stutters
<1> QED
  BY <1>1, <1>2, PTL DEF Spec

(* In every reachable state the variables have their types: every label,   *)
(* table and pad is a block, and every counter a number.                   *)
THEOREM TypeCorrect == Spec => []TypeOK
<1>1. IInv => TypeOK
  BY DEF IInv
<1> QED
  BY <1>1, Invariance, PTL

(* On every wire that both parties have, the evaluator's label is the      *)
(* garbler's, xored with delta if the wire's value is set: half gates, free*)
(* xor, both ways to feed the evaluator's bits and the pool that wraps keep*)
(* it, however far ahead either party is.                                  *)
THEOREM Matching == Spec => []LabelsMatch
<1>1. IInv => LabelsMatch
  BY DEF IInv, Labels
<1> QED
  BY <1>1, Invariance, PTL

(* A result that a party has is that of a call it has completed. *)
LEMMA HasResult ==
  ASSUME IInv, NEW p \in Party, NEW k \in DOMAIN script, mark[k].reveals + 1 \in DOMAIN out[p]
  PROVE  k \in 1 .. Len(script) /\ k \in 1 .. Call(p) - 1 /\ Given(p, k)
<1>1. Placed /\ ProgramInv
  BY InvPlaced, InvProgram
<1>2. k \in 1 .. Len(script) /\ Len(script) \in Nat
  BY LenProperties DEF IInv, TypeOK
<1>3. Call(p) \in 1 .. Len(script) + 1 /\ k \in 1 .. Len(script) + 1
  BY <1>1, <1>2, Where
<1>4. Len(out[p]) = mark[Call(p)].reveals /\ mark[k].reveals + 1 \in 1 .. Len(out[p])
  <2>1. out[p] \in Seq(Seq(BOOLEAN))
    BY DEF IInv, TypeOK
  <2>2. DOMAIN out[p] = 1 .. Len(out[p])
    BY <2>1, LenProperties
  <2> QED
    BY <2>2 DEF IInv, Counters
<1>5. k < Call(p)
  <2>1. SUFFICES ASSUME Call(p) <= k PROVE FALSE
    BY <1>2, <1>3
  <2>2. mark[Call(p)].reveals <= mark[k].reveals
    BY <1>1, <1>3, <2>1, Marks
  <2>3. mark[Call(p)].reveals \in Nat /\ mark[k].reveals \in Nat
    BY <1>1, <1>3, MarkTyped
  <2> QED
    BY <1>4, <2>2, <2>3
<1>6. k \in 1 .. Call(p) - 1
  BY <1>2, <1>3, <1>5
<1>7. Given(p, k)
  BY <1>6 DEF IInv, Outputs
<1> QED
  BY <1>2, <1>6, <1>7

(* The invariant says what a party that has made a reveal was given. *)
LEMMA InvOutputs == ASSUME IInv
  PROVE  OutputsCorrect
<1>1. ASSUME NEW p \in Party, NEW k \in DOMAIN script, NEW n, n = mark[k].reveals + 1,
             NEW c, c = script[k], c.op = "reveal", n \in DOMAIN out[p]
      PROVE  /\ c.who \in {p, "PUBLIC"} => out[p][n] = Clears(c)
             /\ c.who = Peer(p) => out[p][n] = Nothing(c)
             /\ (c.who = "XOR" /\ n \in DOMAIN out[Peer(p)]) =>
                  out[p][n] = Differ(out[Peer(p)][n], Clears(c))
  <2> PICK q : q = Peer(p)
    OBVIOUS
  <2>0. q \in Party /\ Peer(q) = p /\ Placed
    BY PeerFacts, InvPlaced
  <2>1. k \in 1 .. Len(script) /\ k \in 1 .. Call(p) - 1 /\ Given(p, k)
    BY <1>1, HasResult
  <2>2. /\ c.who \in {p, "PUBLIC"} => out[p][n] = Clears(c)
        /\ c.who = q => out[p][n] = Nothing(c)
        /\ c.who = "XOR" => out[p][n] = Lsbs(p, c)
    BY <1>1, <2>1 DEF Given
  <2>3. ASSUME c.who = "XOR", n \in DOMAIN out[q]
        PROVE  out[p][n] = Differ(out[q][n], Clears(c))
    <3>1. k \in 1 .. Call(q) - 1 /\ Given(q, k)
      BY <1>1, <2>0, <2>3, HasResult
    <3>2. out[q][n] = Lsbs(q, c)
      BY <1>1, <2>3, <3>1 DEF Given
    <3>3. /\ k <= Call(p) /\ k <= Call(q) /\ Call(q) # 1 /\ Call(p) # 1
      BY <2>0, <2>1, <3>1, Where
    <3>4. LSB(delta)
      <4>1. pc[p] # "setup" /\ pc[q] # "setup"
        BY <3>3 DEF Call
      <4>2. pc["ALICE"] # "setup"
        BY <2>0, <4>1, Parties DEF Party
      <4>3. Stage("ALICE") > 1
        BY <2>0, <4>2, StageFacts, Parties
      <4> QED
        BY <4>3 DEF IInv, Constants
    <3>5. Differ(Lsbs(q, c), Clears(c)) = Lsbs(p, c)
      <4>1. script[k].op = "reveal"
        BY <1>1
      <4>2. Differ(Lsbs(q, script[k]), Clears(script[k])) = Lsbs(Peer(q), script[k])
        BY <2>0, <2>1, <3>3, <3>4, <4>1, Opens
      <4> QED
        BY <1>1, <2>0, <4>2
    <3> QED
      BY <2>2, <2>3, <3>2, <3>5
  <2> QED
    BY <2>2, <2>3
<1>2. SUFFICES ASSUME NEW p \in Party, NEW k \in DOMAIN script
               PROVE  LET c == script[k]
                          n == mark[k].reveals + 1
                      IN (c.op = "reveal" /\ n \in DOMAIN out[p]) =>
                           /\ c.who \in {p, "PUBLIC"} => out[p][n] = Clears(c)
                           /\ c.who = Peer(p) => out[p][n] = Nothing(c)
                           /\ (c.who = "XOR" /\ n \in DOMAIN out[Peer(p)]) =>
                                out[p][n] = Differ(out[Peer(p)][n], Clears(c))
  BY DEF OutputsCorrect
<1>3. PICK n, c : n = mark[k].reveals + 1 /\ c = script[k]
  OBVIOUS
<1>4. (c.op = "reveal" /\ n \in DOMAIN out[p]) =>
        /\ c.who \in {p, "PUBLIC"} => out[p][n] = Clears(c)
        /\ c.who = Peer(p) => out[p][n] = Nothing(c)
        /\ (c.who = "XOR" /\ n \in DOMAIN out[Peer(p)]) =>
             out[p][n] = Differ(out[Peer(p)][n], Clears(c))
  BY <1>1, <1>3
<1> QED
  BY <1>3, <1>4, Zenon

(* A reveal gives a party that learns the values of the program on the     *)
(* inputs fed: what both parties compute together, for any program of any  *)
(* length.                                                                 *)
THEOREM Computes == Spec => []OutputsCorrect
<1>1. IInv => OutputsCorrect
  BY InvOutputs
<1> QED
  BY <1>1, Invariance, PTL

(* At the same call, with nothing begun, the marks are the same. *)
LEMMA InvInStep == ASSUME IInv
  PROVE  InStep
<1>1. SUFFICES ASSUME at["ALICE"] = at["BOB"], \A p \in Party : pc[p] = "run"
               PROVE  /\ gid["ALICE"] = gid["BOB"]
                      /\ counter["ALICE"] = counter["BOB"]
                      /\ top["ALICE"] = top["BOB"]
                      /\ \A i \in 1 .. Batch : buf["ALICE"][i] = Active(buf["BOB"][i], buff[i], delta)
                      /\ \A p \in Party : net[p] = <<>>
  BY DEF InStep
<1>2. PICK k : k = at["ALICE"]
  OBVIOUS
<1>3. \A p \in Party : /\ pc[p] = "run" /\ at[p] = k /\ Call(p) = k /\ Pooled(p) = mark[k]
                       /\ Reached(p) = k
  BY <1>1, <1>2, Parties DEF Party, Call, Pooled, Reached
<1>4. pc["ALICE"] = "run" /\ pc["BOB"] = "run" /\ Call("BOB") = k /\ Pooled("ALICE") = mark[k]
  BY <1>3, Parties
<1>5. \A p \in Party : /\ gid[p] = mark[k].gid /\ counter[p] = mark[k].counter
                       /\ top[p] = Batch - (mark[k].stocked - mark[k].used)
  BY <1>3 DEF IInv, Counters
<1>6. ASSUME NEW i \in 1 .. Batch
      PROVE  buf["ALICE"][i] = Active(buf["BOB"][i], buff[i], delta)
  <2> PICK s : s = stock[mark[k].stocked - Batch + i]
    OBVIOUS
  <2>1. buf["BOB"][i] = s.t /\ buff[i] = s.r
    BY <1>4 DEF IInv, Pool
  <2>2. buf["ALICE"][i] = Active(s.t, s.r, delta)
    BY <1>4 DEF IInv, Pool
  <2> QED
    BY <2>1, <2>2
<1>7. ASSUME NEW p \in Party
      PROVE  net[p] = <<>>
  <2>1. Sent(p) = mark[k].to[p] /\ Read(p) = mark[k].to[p]
    BY <1>3, PeerFacts DEF Sent, Read, Mid
  <2>2. Len(net[p]) = Sent(p) - Read(p) /\ Sent(p) \in Nat
    BY InvPlaced, Counts
  <2>3. Len(net[p]) = 0
    BY <2>1, <2>2
  <2>4. net[p] \in Seq(Message)
    BY DEF IInv, TypeOK
  <2> QED
    BY <2>3, <2>4, EmptySeq
<1> QED
  BY <1>5, <1>6, <1>7, Parties

(* Parties that have made the same calls agree on the gate counter, the    *)
(* PRG's counter and the place in the pool, and have left no message       *)
(* unread.                                                                 *)
THEOREM StaysInStep == Spec => []InStep
<1>1. IInv => InStep
  BY InvInStep
<1> QED
  BY <1>1, Invariance, PTL

-----------------------------------------------------------------------------
(* What a party finds that waits for a message *)

Found(p) == /\ Head(net[p]).kind = Expects(p)
            /\ pc[p] # "setup" => Length(Head(net[p])) = Size(p)

(* The first message in a stream is the one after those taken. *)
LEMMA FirstDue == ASSUME IInv, NEW p \in Party, net[p] # <<>>
  PROVE  /\ Head(net[p]) = Due(p, Read(p) + 1)
         /\ Read(p) \in Nat /\ Sent(p) \in Nat /\ Read(p) < Sent(p)
<1>1. net[p] \in Seq(Message) /\ Placed
  BY InvPlaced DEF IInv, TypeOK
<1>2. Head(net[p]) = net[p][1] /\ Len(net[p]) \in Nat \ {0}
  BY <1>1, TailFacts
<1>3. Read(p) \in Nat /\ Sent(p) \in Nat /\ Len(net[p]) = Sent(p) - Read(p)
  BY <1>1, Counts
<1>4. (Read(p) + 1) - Read(p) = 1
  BY <1>3
<1>5. Head(net[p]) = Due(p, Read(p) + 1)
  BY <1>2, <1>4, Zenon DEF Due
<1> QED
  BY <1>2, <1>3, <1>5

(* In the constructors a party finds the message of its step. *)
LEMMA FindsGreeting ==
  ASSUME IInv, NEW p \in Party, net[p] # <<>>, pc[p] = "setup", Setup[at[p]].from # p
  PROVE  Found(p)
<1> PICK q, s : q = Peer(p) /\ s = at[p]
  OBVIOUS
<1>0. Placed /\ q \in Party /\ Peer(q) = p
  BY InvPlaced, PeerFacts
<1>1. s \in 1 .. 7 /\ Read(p) = Before(p, s) /\ Stage(p) = s
  BY <1>0, Where DEF Read, Stage
<1>2. Setup[s].from = q
  <2>1. Setup[s].from \in Party
    BY <1>1, Greeting DEF Party
  <2> QED
    BY <2>1, PeerFacts
<1>3. s < Stage(q) /\ Stage(q) \in 1 .. 8
  <2>1. CASE pc[q] # "setup"
    BY <1>0, <1>1, <2>1, StageFacts
  <2>2. CASE pc[q] = "setup"
    <3>1. Stage(q) = at[q] /\ at[q] \in 1 .. 7 /\ Sent(p) = Before(p, at[q])
      BY <1>0, <2>2, StageFacts DEF Sent
    <3>2. Before(p, s) < Before(p, at[q])
      BY <1>1, <3>1, FirstDue
    <3>3. at[q] <= s => Before(p, at[q]) <= Before(p, s) /\ Before(p, s) \in Nat /\ Before(p, at[q]) \in Nat
      BY <1>1, <3>1, BeforeMono
    <3>4. ~(at[q] <= s)
      BY <3>2, <3>3
    <3> QED
      BY <1>1, <3>1, <3>4
  <2> QED
    BY <2>1, <2>2
<1>4. s \in Stage(p) .. Stage(q) - 1
  BY <1>1, <1>3
<1>5. Due(p, Before(p, s) + 1).kind = Setup[s].kind
  BY <1>2, <1>4 DEF IInv, Greetings
<1>6. Head(net[p]) = Due(p, Before(p, s) + 1)
  BY <1>1, FirstDue
<1> QED
  BY <1>5, <1>6 DEF Found, Expects

(* The message of the evaluator's call *)
LEMMA FindsToBob ==
  ASSUME IInv, NEW p, p = "BOB", net[p] # <<>>, pc[p] = "run", NEW k, k = at[p]
  PROVE  /\ k \in 1 .. Len(script) /\ ToBob(k) /\ CallOK(k)
         /\ Head(net[p]) = Due("BOB", mark[k].to["BOB"] + 1)
<1>0. Placed /\ ProgramInv /\ p \in Party /\ Peer(p) = "ALICE" /\ "ALICE" \in Party
  BY InvPlaced, InvProgram, Parties
<1>1. /\ Call(p) < Reached("ALICE") /\ Call(p) = k
  BY <1>0, Ahead DEF Call
<1>2. /\ Call(p) \in 1 .. Len(script) + 1 /\ Reached("ALICE") \in 1 .. Len(script) + 1
      /\ Len(script) \in Nat
  BY <1>0, Where
<1>3. k \in 1 .. Len(script) /\ k \in Call("BOB") .. Reached("ALICE") - 1
  BY <1>1, <1>2
<1>4. ToBob(k) /\ CallOK(k)
  BY <1>3 DEF IInv, Contents, Program
<1>5. Read(p) = mark[k].to["BOB"]
  BY DEF Read, Mid
<1>6. Head(net[p]) = Due(p, Read(p) + 1)
  BY <1>0, FirstDue
<1> QED
  BY <1>3, <1>4, <1>5, <1>6

(* The size of a reveal's message. *)
LEMMA RevealRange == ASSUME IInv, NEW k \in 1 .. Len(script), NEW c, c = script[k], c.op = "reveal"
  PROVE  /\ c.j - c.i + 1 \in Nat
         /\ Len(Clears(c)) = c.j - c.i + 1
         /\ \A p : Len(Lsbs(p, c)) = c.j - c.i + 1
<1>1. /\ c.i \in 1 .. mark[k].wires /\ c.j \in 1 .. mark[k].wires /\ c.i <= c.j
      /\ mark[k].wires \in Nat /\ mark[k].wires <= Len(val)
  <2>1. CallOK(k)
    BY DEF IInv, Program
  <2>2. mark[k].wires <= mark[k + 1].wires /\ mark[k + 1].wires <= Len(val)
    BY InvProgram, CallInRange
  <2>3. k \in 1 .. Len(script) + 1 /\ k + 1 \in 1 .. Len(script) + 1
    BY InvProgram, CallInRange, MarkTyped
  <2>4. mark[k].wires \in Nat /\ mark[k + 1].wires \in Nat
    BY <2>3, InvProgram, MarkTyped
  <2>5. val \in Seq(BOOLEAN) /\ Len(val) \in Nat
    BY LenProperties DEF IInv, TypeOK
  <2>6. c.i \in 1 .. mark[k].wires /\ c.j \in 1 .. mark[k].wires /\ c.i <= c.j
    BY <2>1 DEF CallOK
  <2> QED
    BY <2>2, <2>4, <2>5, <2>6
<1>2. val \in Seq(BOOLEAN) /\ Len(val) \in Nat
  BY LenProperties DEF IInv, TypeOK
<1>3. PICK a, b, v : a = c.i /\ b = c.j /\ v = val
  OBVIOUS
<1>4. a \in 1 .. Len(v) /\ b \in 1 .. Len(v) /\ a <= b /\ v \in Seq(BOOLEAN) /\ b - a + 1 \in Nat
  BY <1>1, <1>2, <1>3
<1>5. Len(SubSeq(v, a, b)) = b - a + 1
  BY <1>4, Segment
<1>6. ASSUME NEW p PROVE Len(Lsbs(p, c)) = b - a + 1
  BY <1>3, <1>4, LsbsTyped
<1> QED
  BY <1>3, <1>4, <1>5, <1>6 DEF Clears

(* Who learns finds as many lsbs as it asks for. *)
LEMMA FindsLsbs ==
  ASSUME IInv, NEW p \in Party, net[p] # <<>>, pc[p] = "run", NEW k, k = at[p],
         k \in 1 .. Len(script), NEW c, c = script[k], c.op = "reveal",
         Head(net[p]) = Msg("lsbs", Lsbs(Peer(p), c))
  PROVE  Found(p)
<1>1. Len(Lsbs(Peer(p), c)) = c.j - c.i + 1
  BY RevealRange
<1>2. PICK m : m = Head(net[p])
  OBVIOUS
<1>3. m.kind = "lsbs" /\ m.data = Lsbs(Peer(p), c)
  BY <1>2 DEF Msg
<1>4. Expects(p) = "lsbs"
  BY DEF Expects
<1>5. Size(p) = c.j - c.i + 1 /\ Length(m) = c.j - c.i + 1
  BY <1>1, <1>3 DEF Size, Length
<1> QED
  BY <1>2, <1>3, <1>4, <1>5 DEF Found

(* What the evaluator waits for is what is first in his stream. *)
LEMMA EvaFinds ==
  ASSUME IInv, NEW p, p = "BOB", net[p] # <<>>, pc[p] = "run", Waits(p)
  PROVE  Found(p)
<1> PICK k, c : k = at[p] /\ c = script[k]
  OBVIOUS
<1>0. p \in Party /\ Peer(p) = "ALICE"
  BY Parties
<1>1. /\ k \in 1 .. Len(script) /\ ToBob(k) /\ CallOK(k)
      /\ Head(net[p]) = Due("BOB", mark[k].to["BOB"] + 1)
  BY FindsToBob
<1>2. PICK m : m = Head(net[p])
  OBVIOUS
<1>3. \/ c.op = "and"
      \/ c.op = "reveal" /\ c.who \in {"BOB", "PUBLIC"}
  BY DEF Waits
<1>4. CASE c.op = "and"
  <2>1. m = Msg("table", Garble(wire["ALICE"][c.i], wire["ALICE"][c.j], delta, mark[k].gid + 1).table)
    BY <1>1, <1>2, <1>4 DEF ToBob
  <2>2. PICK g : g = Garble(wire["ALICE"][c.i], wire["ALICE"][c.j], delta, mark[k].gid + 1).table
    OBVIOUS
  <2>3. m.kind = "table" /\ m.data = g
    BY <2>1, <2>2 DEF Msg
  <2>4. PICK x, y : g = <<x, y>>
    BY <2>2 DEF Garble
  <2>5. Len(g) = 2
    BY <2>4
  <2>6. Expects(p) = "table" /\ Size(p) = 2 /\ Length(m) = 2
    BY <1>4, <2>3, <2>5 DEF Expects, Size, Length
  <2> QED
    BY <1>2, <2>3, <2>6 DEF Found
<1>5. CASE c.op = "reveal" /\ c.who \in {"BOB", "PUBLIC"}
  <2>1. m = Msg("lsbs", Lsbs("ALICE", c))
    BY <1>1, <1>2, <1>5 DEF ToBob
  <2> QED
    BY <1>0, <1>1, <1>2, <1>5, <2>1, FindsLsbs
<1> QED
  BY <1>3, <1>4, <1>5

(* What the garbler waits for is what is first in hers. *)
LEMMA GenFinds ==
  ASSUME IInv, NEW p, p = "ALICE", net[p] # <<>>, pc[p] # "setup", Waits(p)
  PROVE  Found(p)
<1> PICK k, c, n : k = at[p] /\ c = script[k] /\ n = Len(c.bits)
  OBVIOUS
<1>0. p \in Party /\ Peer(p) = "BOB" /\ Placed /\ ProgramInv
  BY Parties, InvPlaced, InvProgram
<1>1. k \in 1 .. Len(script) /\ k + 1 \in 1 .. Len(script) + 1 /\ ToAlice(k)
  BY Awaited
<1>2. PICK m : m = Head(net[p])
  OBVIOUS
<1>3. m = Due(p, Read(p) + 1)
  BY <1>0, <1>2, FirstDue
<1>4. /\ mark[k].to[p] \in Nat /\ mark[k + 1].to[p] \in Nat
      /\ mark[k].used \in Nat /\ mark[k].stocked \in Nat /\ n \in Nat /\ Batch \in Nat \ {0}
      /\ mark[k + 1].stocked = IF FeedsBob(c) /\ n <= Batch /\ mark[k].used + n > mark[k].stocked
                               THEN mark[k].stocked + Batch ELSE mark[k].stocked
  <2>1. /\ mark[k].to[p] \in Nat /\ mark[k + 1].to[p] \in Nat
        /\ mark[k].used \in Nat /\ mark[k].stocked \in Nat /\ n \in Nat
    BY <1>0, <1>1, CallAfter
  <2>2. mark[k + 1].stocked = IF FeedsBob(c) /\ n <= Batch /\ mark[k].used + n > mark[k].stocked
                              THEN mark[k].stocked + Batch ELSE mark[k].stocked
    BY <1>0, <1>1, CallAfter
  <2> QED
    BY <2>1, <2>2, BatchFacts
<1>5. CASE Mid(p)
  <2>1. Read(p) = mark[k + 1].to[p] - 1
    BY <1>5 DEF Read, Mid
  <2>2. Read(p) + 1 = mark[k + 1].to[p]
    BY <1>4, <2>1
  <2>3. m = Due("ALICE", mark[k + 1].to["ALICE"])
    BY <1>3, <2>2
  <2>4. CASE pc[p] = "feed"
    <3>1. FeedsBob(c) /\ n <= Batch
      BY <2>4 DEF IInv, Positions
    <3>2. Len(part) = n
      BY <2>4 DEF IInv, Pool
    <3>3. PICK f : f = [i \in 1 .. n |-> stock[mark[k].used + i].r # c.bits[i]]
      OBVIOUS
    <3>4. m = Msg("flips", f)
      BY <1>1, <2>3, <3>1, <3>3 DEF ToAlice
    <3>5. m.kind = "flips" /\ m.data = f
      BY <3>4 DEF Msg
    <3>6. Len(f) = n
      BY <1>4, <3>3
    <3>7. Expects(p) = "flips" /\ Size(p) = n /\ Length(m) = n
      BY <2>4, <3>2, <3>5, <3>6 DEF Expects, Size, Length
    <3> QED
      BY <1>2, <3>5, <3>7 DEF Found
  <2>5. CASE pc[p] = "reveal"
    <3>1. c.op = "reveal" /\ c.who = "PUBLIC"
      BY <2>5 DEF IInv, Positions
    <3>2. m = Msg("bits", Clears(c))
      BY <1>1, <2>3, <3>1 DEF ToAlice
    <3>3. m.kind = "bits" /\ m.data = Clears(c)
      BY <3>2 DEF Msg
    <3>4. Len(Clears(c)) = c.j - c.i + 1
      BY <1>1, <3>1, RevealRange
    <3>5. Expects(p) = "bits" /\ Size(p) = c.j - c.i + 1 /\ Length(m) = c.j - c.i + 1
      BY <2>5, <3>1, <3>3, <3>4 DEF Expects, Size, Length
    <3> QED
      BY <1>2, <3>3, <3>5 DEF Found
  <2> QED
    BY <1>5, <2>4, <2>5 DEF Mid
<1>6. CASE ~Mid(p)
  <2>0. pc[p] = "run"
    BY <1>0, <1>6, Where DEF Mid
  <2>1. Read(p) = mark[k].to[p]
    BY <2>0 DEF Read, Mid
  <2>2. m = Due("ALICE", mark[k].to["ALICE"] + 1)
    BY <1>3, <2>1
  <2>3. \/ FeedsBob(c) /\ n > Left(p)
        \/ c.op = "reveal" /\ c.who = "ALICE"
    BY <2>0 DEF Waits
  <2>4. CASE c.op = "reveal" /\ c.who = "ALICE"
    <3>1. mark[k + 1].to["ALICE"] = mark[k].to["ALICE"] + 1
      <4>1. ~FeedsBob(c)
        BY <2>4 DEF FeedsBob
      <4> QED
        BY <1>0, <1>1, <2>4, <4>1, CallAfter
    <3>2. m = Msg("lsbs", Lsbs("BOB", c))
      BY <1>1, <2>2, <2>4, <3>1 DEF ToAlice
    <3> QED
      BY <1>0, <1>1, <1>2, <2>0, <2>4, <3>2, FindsLsbs
  <2>5. CASE FeedsBob(c) /\ n > Left(p)
    <3>0. c.op = "feed"
      BY <2>5 DEF FeedsBob
    <3>1. CASE n > Batch
      <4>1. mark[k + 1].to["ALICE"] = mark[k].to["ALICE"] + 1
        <5>1. ~(n <= Batch)
          BY <1>4, <3>1
        <5> QED
          BY <1>0, <1>1, <2>5, <5>1, CallAfter
      <4>2. m.kind = "cot" /\ Len(m.data.t) = n
        BY <1>1, <2>2, <2>5, <3>1, <4>1 DEF ToAlice
      <4>3. Expects(p) = "cot" /\ Size(p) = n /\ Length(m) = n
        BY <2>0, <3>0, <3>1, <4>2 DEF Expects, Size, Length
      <4> QED
        BY <1>2, <4>2, <4>3 DEF Found
    <3>2. CASE ~(n > Batch)
      <4>1. top[p] = Batch - (mark[k].stocked - mark[k].used)
        <5>1. Pooled(p) = mark[k]
          BY <2>0 DEF Pooled, Call
        <5> QED
          BY <1>0, <5>1 DEF IInv, Counters
      <4>2. n <= Batch /\ mark[k].used + n > mark[k].stocked
        <5>1. n > Batch - top[p]
          BY <2>5 DEF Left
        <5> PICK u, s, t : u = mark[k].used /\ s = mark[k].stocked /\ t = top[p]
          OBVIOUS
        <5>2. u \in Nat /\ s \in Nat /\ n \in Nat /\ Batch \in Nat
          BY <1>4
        <5>3. t = Batch - (s - u) /\ n > Batch - t /\ ~(n > Batch)
          BY <3>2, <4>1, <5>1
        <5>4. n <= Batch /\ u + n > s
          BY ONLY <5>2, <5>3
        <5> QED
          BY <5>4
      <4>3. mark[k].stocked # mark[k + 1].stocked
        BY <1>4, <2>5, <4>2
      <4>4. Read("ALICE") <= mark[k].to["ALICE"]
        BY <1>4, <2>1
      <4>5. Refills(m, mark[k].stocked)
        BY <1>1, <2>2, <4>3, <4>4 DEF ToAlice
      <4>6. m.kind = "cot" /\ Len(m.data.t) = Batch
        BY <4>5 DEF Refills
      <4>7. Expects(p) = "cot" /\ Size(p) = Batch /\ Length(m) = Batch
        BY <2>0, <3>0, <3>2, <4>6 DEF Expects, Size, Length
      <4> QED
        BY <1>2, <4>6, <4>7 DEF Found
    <3> QED
      BY <3>1, <3>2
  <2> QED
    BY <2>3, <2>4, <2>5
<1> QED
  BY <1>5, <1>6

(* So a party reads what its peer sent for the call it is at. *)
LEMMA InvReads == ASSUME IInv
  PROVE  ReadsItsOwn
<1>1. ASSUME NEW p \in Party, Waits(p), net[p] # <<>>
      PROVE  Found(p)
  <2>1. CASE pc[p] = "setup"
    <3>1. Setup[at[p]].from # p
      BY <1>1, <2>1 DEF Waits
    <3> QED
      BY <1>1, <2>1, <3>1, FindsGreeting
  <2>2. CASE pc[p] # "setup" /\ p = "ALICE"
    BY <1>1, <2>2, GenFinds
  <2>3. CASE pc[p] # "setup" /\ p = "BOB"
    <3>1. pc[p] = "run"
      BY <2>3 DEF IInv, Positions
    <3> QED
      BY <1>1, <2>3, <3>1, EvaFinds
  <2> QED
    BY <2>1, <2>2, <2>3 DEF Party
<1> QED
  BY <1>1 DEF ReadsItsOwn, Found

(* A party never takes a message of another call or another kind than the  *)
(* one it waits for, although the stream carries no tag.                   *)
THEOREM ReadsWhatIsMeant == Spec => []ReadsItsOwn
<1>1. IInv => ReadsItsOwn
  BY InvReads
<1> QED
  BY <1>1, Invariance, PTL

-----------------------------------------------------------------------------
(* The refinement: a step of a party is a step of ClearProgram, or nothing *)
(* its two users see.  OutputsCorrect of the next state says what a reveal *)
(* gives, Ahead what a party knows that finds a message.                   *)

Unseen == /\ UNCHANGED <<script, val, out>>
          /\ Completed' = Completed

(* How many calls a party has completed, before a call and after it. *)
LEMMA CompletedIs ==
  ASSUME IInv, NEW p \in Party
  PROVE  /\ Completed[p] = Call(p) - 1
         /\ Completed[p] \in 0 .. Len(script) /\ Len(script) \in Nat
         /\ Circuit!Peer(p) = Peer(p)
<1>1. Call(p) \in 1 .. Len(script) + 1 /\ Len(script) \in Nat
  BY InvPlaced, Where
<1>2. Completed[p] = Call(p) - 1
  BY DEF Completed, Call
<1> QED
  BY <1>1, <1>2 DEF Circuit!Peer, Peer

(* A call completed adds one to them. *)
LEMMA CompletesOne ==
  ASSUME IInv, NEW p \in Party, pc[p] # "setup", pc'[p] # "setup",
         \A q \in Party : q # p => pc'[q] = pc[q],
         at' = [at EXCEPT ![p] = @ + 1]
  PROVE  Completed' = [Completed EXCEPT ![p] = @ + 1]
<1>1. at \in [Party -> Nat] /\ at[p] \in Nat
  BY DEF IInv, TypeOK
<1>2. \A q \in Party : q # p => Completed'[q] = Completed[q]
  BY <1>1 DEF Completed
<1>3. Completed'[p] = Completed[p] + 1
  BY <1>1 DEF Completed
<1>4. Completed' \in [Party -> {Completed'[q] : q \in Party}] /\ DOMAIN Completed = Party /\ DOMAIN Completed' = Party
  BY DEF Completed
<1>5. Completed' = [q \in Party |-> Completed'[q]]
  BY DEF Completed
<1> HIDE DEF Completed
<1>6. [Completed EXCEPT ![p] = @ + 1] = [q \in Party |-> IF q = p THEN Completed[p] + 1 ELSE Completed[q]]
  BY <1>4
<1> QED
  BY <1>2, <1>3, <1>5, <1>6

(* A call of either party is one of the circuit's. *)
LEMMA DoDecides ==
  ASSUME IInv, NEW p \in Party, NEW c \in Options(p), Do(p, c)
  PROVE  /\ Circuit!Decides(p, c)
         /\ Completed[p] = at[p] - 1 /\ at[p] \in Nat \ {0}
         /\ Completed[p] < Len(script') /\ Len(script') \in Nat
         /\ script'[Completed[p] + 1] = c
<1>1. Makes(p, c) /\ pc[p] = "run"
  BY DoMakes, CallOptions
<1>2. /\ Call(p) = at[p] /\ at[p] \in 1 .. Len(script) + 1 /\ at[p] \in Nat /\ Len(script) \in Nat
  BY <1>1, InvPlaced, Where
<1>3. Completed[p] = at[p] - 1
  BY <1>2, CompletedIs
<1>4. at[p] \in 1 .. Len(script') /\ script'[at[p]] = c /\ Len(script') \in Nat
  BY <1>1, MarkTyped, <1>2, LenProperties DEF Makes, ProgramInv, ProgramTyped
<1>5. Circuit!Decides(p, c)
  <2>1. CASE at[p] <= Len(script)
    <3>1. script' = script /\ val' = val /\ c = script[at[p]]
      BY <2>1, CallOptions DEF Do, program
    <3>2. Completed[p] < Len(script) /\ Completed[p] + 1 = at[p]
      BY <1>2, <1>3, <2>1
    <3> QED
      BY <3>1, <3>2 DEF Circuit!Decides
  <2>2. CASE ~(at[p] <= Len(script))
    <3>1. script' = Append(script, c) /\ val' = val \o Clear(c) /\ c \in Calls
      BY <2>2, CallOptions DEF Do
    <3>2. Completed[p] = Len(script)
      BY <1>2, <1>3, <2>2
    <3>3. Clear(c) = Circuit!Clear(c)
      BY DEF Clear, Circuit!Clear
    <3>4. Circuit!IsCall(c)
      <4>1. /\ c \in CallType
            /\ c.op \in {"and", "xor", "not", "reveal"} => c.i \in 1 .. Len(val) /\ c.j \in 1 .. Len(val)
            /\ c.op = "reveal" => c.i <= c.j
            /\ c.op = "public" => Len(c.bits) = 1
            /\ c.op = "feed" => c.who \in Party
        BY <3>1, InvProgram, CallsTyped DEF ProgramInv
      <4>2. DOMAIN val = 1 .. Len(val)
        BY LenProperties DEF IInv, TypeOK
      <4>3. c.op \in Ops /\ Circuit!Party = Party
        BY <4>1 DEF CallType, Circuit!Party, Party
      <4> QED
        BY <4>1, <4>2, <4>3 DEF Circuit!IsCall, Ops
    <3> QED
      BY <3>1, <3>2, <3>3, <3>4 DEF Circuit!Decides
  <2> QED
    BY <2>1, <2>2
<1> QED
  BY <1>2, <1>3, <1>4, <1>5

(* A call that is complete in one step is a step of the circuit.           *)
LEMMA DoCompletes ==
  ASSUME IInv, NEW p \in Party, NEW c \in Options(p), Do(p, c), Done(p), pc' = pc,
         Circuit!Second(p, c) => Call(p) < Call(Peer(p)),
         (p = "BOB" /\ c.op = "reveal" /\ c.who = "PUBLIC") => Call(p) <= Call(Peer(p)),
         Circuit!Gives(p, c)
  PROVE  Circuit!Next
<1>1. /\ Circuit!Decides(p, c) /\ Completed[p] < Len(script') /\ script'[Completed[p] + 1] = c
  BY DoDecides
<1>2. pc[p] = "run"
  BY CallOptions
<1>3. Completed' = [Completed EXCEPT ![p] = @ + 1]
  BY <1>2, CompletesOne DEF Done
<1>4. PICK q \in Party : q = Peer(p) /\ Circuit!Peer(p) = q
  BY CompletedIs, PeerFacts
<1>5. /\ Completed[p] = Call(p) - 1 /\ Completed[q] = Call(q) - 1
      /\ Call(p) \in Nat /\ Call(q) \in Nat
  <2>1. \A r \in Party : Call(r) \in 1 .. Len(script) + 1 /\ Len(script) \in Nat
    BY InvPlaced, Where
  <2> QED
    BY <2>1, CompletedIs
<1>6. Circuit!Second(p, c) => Completed[p] < Completed[q]
  BY <1>4, <1>5
<1>7. (p = "BOB" /\ c.op = "reveal" /\ c.who = "PUBLIC") => Completed[p] <= Completed[q]
  BY <1>4, <1>5
<1>8. Circuit!Complete(p, c)
  BY <1>1, <1>3, <1>4, <1>6, <1>7 DEF Circuit!Complete
<1> QED
  BY <1>1, <1>8 DEF Circuit!Next, Circuit!Party, Party

(* The last position of a sequence that is not empty. *)
LEMMA LastIn == ASSUME NEW n \in Nat \ {0}
  PROVE  n \in 1 .. n
  OBVIOUS

(* A reveal gives a party what it is to learn, or a share that goes with   *)
(* the peer's.                                                             *)
LEMMA GivesResult ==
  ASSUME IInv, OutputsCorrect', NEW p \in Party, NEW c \in CallType, c.op = "reveal",
         NEW k, k = Call(p), k \in 1 .. Len(script'), script'[k] = c, mark'[k] = mark[k],
         Grows, ProgramInv', c.i \in 1 .. Len(val), c.j \in 1 .. Len(val), c.i <= c.j,
         NEW bits \in Seq(BOOLEAN), Gives(p, bits), c.who = "XOR" => bits = Lsbs(p, c)
  PROVE  Circuit!Gives(p, c)
<1> PICK q \in Party : q = Peer(p) /\ Circuit!Peer(p) = q
  BY CompletedIs, PeerFacts
<1>0. Peer(q) = p /\ q # p
  BY PeerFacts
<1>1. PICK n \in Nat \ {0} : n = mark[k].reveals + 1 /\ n = Len(out[p]) + 1
  <2>1. Len(out[p]) = mark[k].reveals
    BY DEF IInv, Counters
  <2>2. Len(out[p]) \in Nat
    BY LenProperties DEF IInv, TypeOK
  <2> QED
    BY <2>1, <2>2
<1>2. out \in [Party -> Seq(Seq(BOOLEAN))] /\ out' = [out EXCEPT ![p] = Append(out[p], bits)]
  BY DEF IInv, TypeOK, Gives
<1>3. out'[p] = Append(out[p], bits) /\ out'[q] = out[q] /\ out[p] \in Seq(Seq(BOOLEAN)) /\ out[q] \in Seq(Seq(BOOLEAN))
  BY <1>0, <1>2
<1>4. n \in DOMAIN out'[p] /\ out'[p][n] = bits
  <2>1. /\ Append(out[p], bits) \in Seq(Seq(BOOLEAN)) /\ Len(Append(out[p], bits)) = Len(out[p]) + 1
        /\ Append(out[p], bits)[Len(out[p]) + 1] = bits
    BY <1>3, AppendFacts
  <2>2. DOMAIN Append(out[p], bits) = 1 .. Len(Append(out[p], bits))
    BY <2>1, LenProperties
  <2>3. n \in 1 .. n
    BY LastIn
  <2> QED
    BY <1>1, <1>3, <2>1, <2>2, <2>3
<1>5. k \in DOMAIN script'
  BY LenProperties DEF ProgramInv, ProgramTyped
<1>6. PICK clears : clears = SubSeq(val, c.i, c.j) /\ clears = SubSeq(val', c.i, c.j)
  <2>1. val' \in Seq(BOOLEAN)
    BY DEF ProgramInv, ProgramTyped
  <2> QED
    BY <2>1, InvProgram, ClearsStay DEF Clears
<1>7. /\ c.who \in {p, "PUBLIC"} => bits = clears
      /\ c.who = q => bits = Nothing(c)
      /\ (c.who = "XOR" /\ n \in DOMAIN out[q]) => bits = Differ(out[q][n], clears)
  <2>1. /\ script'[k].op = "reveal"
        /\ mark'[k].reveals + 1 = n /\ n \in DOMAIN out'[p] /\ k \in DOMAIN script'
    BY <1>1, <1>4, <1>5
  <2>2. /\ script'[k].who \in {p, "PUBLIC"} => out'[p][n] = SubSeq(val', script'[k].i, script'[k].j)
        /\ script'[k].who = Peer(p) => out'[p][n] = Nothing(script'[k])
        /\ (script'[k].who = "XOR" /\ n \in DOMAIN out'[Peer(p)]) =>
             out'[p][n] = Differ(out'[Peer(p)][n], SubSeq(val', script'[k].i, script'[k].j))
    BY <2>1 DEF OutputsCorrect, Clears
  <2> QED
    BY <1>3, <1>4, <1>6, <2>2, Zenon
<1>8. Completed[p] < Completed[q] => n \in DOMAIN out[q]
  <2> SUFFICES ASSUME Completed[p] < Completed[q]
               PROVE  n \in DOMAIN out[q]
    OBVIOUS
  <2>1. /\ Call(p) \in 1 .. Len(script) + 1 /\ Call(q) \in 1 .. Len(script) + 1 /\ Len(script) \in Nat
        /\ Completed[p] = Call(p) - 1 /\ Completed[q] = Call(q) - 1
    BY InvPlaced, Where, CompletedIs
  <2>2. k \in 1 .. Call(q) - 1
    BY <2>1
  <2>3. k \in 1 .. Len(script) /\ mark[k + 1].reveals <= Len(out[q]) /\ Len(out[q]) \in Nat
    BY <2>2, PastCall
  <2>4. script[k] = c
    BY <2>3 DEF Grows
  <2>5. mark[k + 1].reveals = n
    BY <1>1, <2>3, <2>4, CallAfter, InvProgram
  <2>6. n \in 1 .. Len(out[q])
    BY <1>1, <2>3, <2>5
  <2> QED
    BY <1>3, <2>6, LenProperties
<1>9. PICK w : w = c.j - c.i + 1
  OBVIOUS
<1>10. c.who = "XOR" => bits \in [1 .. w -> BOOLEAN]
  BY <1>9 DEF Lsbs, LSB
<1>11. bits \in Circuit!Results(p, c)
  <2>1. CASE c.who \in {p, "PUBLIC"}
    BY <1>6, <1>7, <2>1 DEF Circuit!Results
  <2>2. CASE c.who \notin {p, "PUBLIC"} /\ c.who = q
    BY <1>7, <1>9, <2>2 DEF Circuit!Results, Nothing
  <2>3. CASE c.who = "XOR" /\ c.who \notin {p, q, "PUBLIC"} /\ Completed[p] < Completed[q]
    <3>1. bits = [j \in DOMAIN out[q][n] |-> out[q][n][j] # clears[j]]
      BY <1>7, <1>8, <2>3 DEF Differ
    <3>2. c.who # p /\ c.who # "PUBLIC" /\ c.who # q /\ out[q][n] = out[Circuit!Peer(p)][Len(out[p]) + 1]
      BY <1>1, <2>3
    <3> QED
      BY <1>6, <2>3, <3>1, <3>2, Zenon DEF Circuit!Results
  <2>4. CASE c.who = "XOR" /\ c.who \notin {p, q, "PUBLIC"} /\ ~(Completed[p] < Completed[q])
    BY <1>10, <1>9, <2>4 DEF Circuit!Results
  <2>5. c.who \in {p, q, "PUBLIC", "XOR"}
    <3>1. c.who \in Party \cup {"PUBLIC", "XOR"}
      BY DEF CallType
    <3> QED
      BY <3>1, PeerFacts
  <2>6. c.who = "XOR" => c.who \notin {p, q, "PUBLIC"}
    BY DEF Party
  <2> QED
    BY <2>1, <2>2, <2>3, <2>4, <2>5, <2>6
<1> QED
  BY <1>2, <1>11 DEF Circuit!Gives

(* The same of a call that is complete in one step. *)
LEMMA MovesGive ==
  ASSUME IInv, OutputsCorrect', NEW p \in Party, NEW c, Moves(p, c), c.op = "reveal",
         NEW bits \in Seq(BOOLEAN), Gives(p, bits), c.who = "XOR" => bits = Lsbs(p, c)
  PROVE  Circuit!Gives(p, c)
<1>1. /\ c \in CallType /\ at[p] = Call(p) /\ at[p] \in 1 .. Len(script') /\ script'[at[p]] = c
      /\ mark'[at[p]] = mark[at[p]] /\ Grows /\ ProgramInv'
  BY MovesTo DEF Moves, Makes
<1>2. c.i \in 1 .. Len(wire[p]) /\ c.j \in 1 .. Len(wire[p]) /\ c.i <= c.j
  BY CallWires
<1>3. c.i \in 1 .. Len(val) /\ c.j \in 1 .. Len(val)
  BY <1>2, WiresInVal
<1> QED
  BY <1>1, <1>2, <1>3, GivesResult

(* A party that finds a message is not ahead of its peer; it is behind,    *)
(* unless the peer is the garbler and waits in a public reveal.            *)
LEMMA FindsLater ==
  ASSUME IInv, NEW p \in Party, NEW c \in Options(p), net[p] # <<>>
  PROVE  /\ Call(p) <= Call(Peer(p))
         /\ (p = "ALICE" \/ ~(c.op = "reveal" /\ c.who = "PUBLIC")) => Call(p) < Call(Peer(p))
<1> PICK q \in Party : q = Peer(p)
  BY PeerFacts
<1>1. /\ Call(p) \in 1 .. Len(script) + 1 /\ Call(q) \in 1 .. Len(script) + 1 /\ Len(script) \in Nat
      /\ Call(q) <= Reached(q) /\ Reached(q) <= Call(q) + 1 /\ Reached(q) \in Nat
      /\ pc[q] # "reveal" => Reached(q) = Call(q)
      /\ pc[q] = "reveal" => q = "ALICE" /\ Call(q) = at[q]
  <2>1. \A r \in Party : Call(r) \in 1 .. Len(script) + 1 /\ Reached(r) \in 1 .. Len(script) + 1
    BY InvPlaced, Where
  <2>2. /\ Len(script) \in Nat /\ Call(q) <= Reached(q) /\ Reached(q) <= Call(q) + 1
        /\ pc[q] # "reveal" => Reached(q) = Call(q)
        /\ pc[q] = "reveal" => q = "ALICE" /\ Call(q) = at[q]
    BY InvPlaced, Where
  <2> QED
    BY <2>1, <2>2
<1>2. pc[p] = "run" /\ (at[p] <= Len(script) => c = script[at[p]])
  BY CallOptions
<1>3. Call(p) < Reached(q) /\ Call(p) = at[p]
  BY <1>2, InvPlaced, Ahead, Where
<1>4. CASE pc[q] # "reveal"
  BY <1>1, <1>3, <1>4
<1>5. CASE pc[q] = "reveal"
  <2>1. p = "BOB" /\ q = "ALICE"
    BY <1>1, <1>5, PeerFacts, Parties
  <2>2. at[q] \in 1 .. Len(script) /\ script[at[q]].op = "reveal" /\ script[at[q]].who = "PUBLIC"
    BY <1>5, <2>1, Parties DEF IInv, Positions, Mid
  <2>3. Call(p) = Call(q) => c.op = "reveal" /\ c.who = "PUBLIC"
    BY <1>1, <1>2, <1>3, <1>5, <2>2
  <2>4. p # "ALICE"
    BY <2>1
  <2> QED
    BY <1>1, <1>3, <2>3, <2>4
<1> QED
  BY <1>4, <1>5

(* What is appended to a sequence is of the type of what comes of it. *)
LEMMA AppendedIn == ASSUME NEW S, NEW s \in Seq(S), NEW e, Append(s, e) \in Seq(S)
  PROVE  e \in S
<1> DEFINE T == S \cup {e}
<1>1. s \in Seq(T) /\ e \in T
  <2>1. s \in [1 .. Len(s) -> S] /\ Len(s) \in Nat
    BY LenProperties
  <2>2. s \in [1 .. Len(s) -> T]
    BY <2>1
  <2> QED
    BY <2>1, <2>2, SeqDef
<1> HIDE DEF T
<1>2. Append(s, e)[Len(s) + 1] = e /\ Len(Append(s, e)) = Len(s) + 1 /\ Len(s) \in Nat
  BY <1>1, AppendFacts, LenProperties
<1>3. Len(s) + 1 \in 1 .. Len(Append(s, e))
  BY <1>2
<1> QED
  BY <1>2, <1>3, SeqAt

(* Local gates, and feeds of the garbler's bits: no message. *)
LEMMA LocalRefines == ASSUME IInv, NEW p \in Party, Local(p) \/ FeedAlice(p)
  PROVE  Circuit!Next
<1>1. PICK c \in Options(p) :
        /\ c.op \in {"public", "xor", "not"} \/ (c.op = "feed" /\ c.who = "ALICE")
        /\ Do(p, c) /\ Done(p) /\ pc' = pc /\ out' = out
  BY Zenon DEF Local, FeedAlice
<1>2. ~Circuit!Second(p, c) /\ c.op # "reveal"
  BY <1>1 DEF Circuit!Second
<1>3. Circuit!Gives(p, c)
  BY <1>1, <1>2 DEF Circuit!Gives
<1> QED
  BY <1>1, <1>2, <1>3, DoCompletes

(* Gates and feeds whose message the party sends. *)
LEMMA SendingRefines == ASSUME IInv, GenAnd \/ EvaDirect \/ EvaTake \/ EvaWrap
  PROVE  Circuit!Next
<1>1. PICK p \in Party : \E c \in Options(p) :
        /\ \/ p = "ALICE" /\ c.op = "and"
           \/ p = "BOB" /\ c.op = "feed"
        /\ Do(p, c) /\ Done(p) /\ pc' = pc /\ out' = out
  <2>1. CASE GenAnd
    BY <2>1, Parties, Zenon DEF GenAnd
  <2>2. CASE EvaDirect
    BY <2>2, Parties, Zenon DEF EvaDirect, FeedsBob
  <2>3. CASE EvaTake
    BY <2>3, Parties, Zenon DEF EvaTake, FeedsBob
  <2>4. CASE EvaWrap
    BY <2>4, Parties, Zenon DEF EvaWrap, FeedsBob
  <2> QED
    BY <2>1, <2>2, <2>3, <2>4
<1>2. PICK c \in Options(p) :
        /\ \/ p = "ALICE" /\ c.op = "and"
           \/ p = "BOB" /\ c.op = "feed"
        /\ Do(p, c) /\ Done(p) /\ pc' = pc /\ out' = out
  BY <1>1
<1>3. ~Circuit!Second(p, c) /\ c.op # "reveal"
  BY <1>2 DEF Circuit!Second
<1>4. Circuit!Gives(p, c)
  BY <1>2, <1>3 DEF Circuit!Gives
<1> QED
  BY <1>2, <1>3, <1>4, DoCompletes

(* Gates and feeds whose message the party waits for. *)
LEMMA TakingRefines == ASSUME IInv, EvaAnd \/ GenDirect
  PROVE  Circuit!Next
<1>1. PICK p \in Party : \E c \in Options(p) :
        /\ c.op \in {"and", "feed"} /\ net[p] # <<>>
        /\ Do(p, c) /\ Done(p) /\ pc' = pc /\ out' = out
  <2>1. CASE EvaAnd
    BY <2>1, Parties, Zenon DEF EvaAnd, Arrived
  <2>2. CASE GenDirect
    BY <2>2, Parties, Zenon DEF GenDirect, FeedsBob, Arrived
  <2> QED
    BY <2>1, <2>2
<1>2. PICK c \in Options(p) :
        /\ c.op \in {"and", "feed"} /\ net[p] # <<>>
        /\ Do(p, c) /\ Done(p) /\ pc' = pc /\ out' = out
  BY <1>1
<1>3. c.op # "reveal" /\ Call(p) < Call(Peer(p))
  BY <1>2, FindsLater
<1>4. Circuit!Gives(p, c)
  BY <1>2, <1>3 DEF Circuit!Gives
<1> QED
  BY <1>2, <1>3, <1>4, DoCompletes

(* The wires a reveal opens: as many bits as there are wires. *)
LEMMA OpenTyped == ASSUME IInv, NEW p \in Party, NEW c, Moves(p, c), c.op = "reveal"
  PROVE  Lsbs(p, c) \in Seq(BOOLEAN) /\ Nothing(c) \in Seq(BOOLEAN)
<1>1. c.i \in Nat /\ c.j \in Nat /\ c.i <= c.j
  BY CallWires DEF Moves, Makes, CallType
<1>2. PICK w \in Nat : w = c.j - c.i + 1
  BY <1>1
<1>3. Lsbs(p, c) \in [1 .. w -> BOOLEAN] /\ Nothing(c) \in [1 .. w -> BOOLEAN]
  BY <1>2 DEF Lsbs, LSB, Nothing
<1> QED
  BY <1>2, <1>3, SeqDef

(* Reveals without a message to wait for: shares, and to the peer. *)
LEMMA OpeningRefines == ASSUME IInv, OutputsCorrect', NEW p \in Party, RevealShare(p) \/ RevealTo(p)
  PROVE  Circuit!Next
<1>1. PICK c \in Options(p) :
        /\ c.op = "reveal"
        /\ Do(p, c) /\ Done(p) /\ pc' = pc
        /\ \/ c.who = "XOR" /\ Gives(p, Lsbs(p, c))
           \/ c.who = Peer(p) /\ Gives(p, Nothing(c))
  BY Zenon DEF RevealShare, RevealTo
<1>2. Moves(p, c)
  BY <1>1, DoMoves
<1>3. c.who # p /\ c.who # "PUBLIC"
  BY <1>1, PeerFacts DEF Party
<1>4. ~Circuit!Second(p, c)
  BY <1>1, <1>3 DEF Circuit!Second
<1>5. Lsbs(p, c) \in Seq(BOOLEAN) /\ Nothing(c) \in Seq(BOOLEAN)
  BY <1>1, <1>2, OpenTyped
<1>6. Circuit!Gives(p, c)
  <2>1. CASE c.who = "XOR" /\ Gives(p, Lsbs(p, c))
    BY <1>1, <1>2, <1>5, <2>1, MovesGive
  <2>2. CASE c.who = Peer(p) /\ Gives(p, Nothing(c))
    <3>1. c.who # "XOR"
      BY <2>2, PeerFacts DEF Party
    <3> QED
      BY <1>1, <1>2, <1>5, <2>2, <3>1, MovesGive
  <2> QED
    BY <1>1, <2>1, <2>2
<1> QED
  BY <1>1, <1>3, <1>4, <1>6, DoCompletes

(* Reveals that the party completes with the peer's bits. *)
LEMMA LearningRefines == ASSUME IInv, TypeOK', OutputsCorrect', NEW p \in Party, Learn(p) \/ (p = "BOB" /\ EvaRevealPublic)
  PROVE  Circuit!Next
<1>1. PICK c \in Options(p) :
        /\ c.op = "reveal" /\ net[p] # <<>>
        /\ Do(p, c) /\ Done(p) /\ pc' = pc
        /\ c.who = p \/ (p = "BOB" /\ c.who = "PUBLIC")
        /\ \E bits : Gives(p, bits)
  BY Zenon DEF Learn, EvaRevealPublic, Arrived
<1>2. PICK bits : Gives(p, bits)
  BY <1>1
<1>3. Moves(p, c)
  BY <1>1, DoMoves
<1>4. c.who # "XOR"
  BY <1>1 DEF Party
<1>5. /\ Call(p) <= Call(Peer(p))
      /\ c.who = p => Call(p) < Call(Peer(p))
  BY <1>1, FindsLater DEF Party
<1>6. Circuit!Second(p, c) => c.who = p
  BY <1>1 DEF Circuit!Second
<1>7. bits \in Seq(BOOLEAN)
  <2>1. out \in [Party -> Seq(Seq(BOOLEAN))] /\ out' \in [Party -> Seq(Seq(BOOLEAN))]
    BY DEF IInv, TypeOK
  <2>2. out'[p] = Append(out[p], bits)
    BY <1>2, <2>1 DEF Gives
  <2> QED
    BY <2>1, <2>2, AppendedIn
<1>8. Circuit!Gives(p, c)
  BY <1>1, <1>3, <1>4, <1>7, <1>2, MovesGive
<1> QED
  BY <1>1, <1>5, <1>6, <1>8, DoCompletes

(* The first half of a call of the garbler's: the circuit may learn of the *)
(* call, but nothing of it is done.                                        *)
LEMMA BeginningRefines == ASSUME IInv, GenTake \/ GenWrap \/ GenRevealPublic
  PROVE  Circuit!Next \/ Unseen
<1>1. PICK p \in Party : \E c \in Options(p) : \E s \in {"feed", "reveal"} :
        /\ Do(p, c) /\ at' = at /\ out' = out
        /\ pc' = [pc EXCEPT ![p] = s]
  <2>1. CASE GenTake
    BY <2>1, Parties, Zenon DEF GenTake
  <2>2. CASE GenWrap
    BY <2>2, Parties, Zenon DEF GenWrap
  <2>3. CASE GenRevealPublic
    BY <2>3, Parties, Zenon DEF GenRevealPublic
  <2> QED
    BY <2>1, <2>2, <2>3
<1>2. PICK c \in Options(p), s \in {"feed", "reveal"} :
        /\ Do(p, c) /\ at' = at /\ out' = out
        /\ pc' = [pc EXCEPT ![p] = s]
  BY <1>1
<1>3. /\ Circuit!Decides(p, c) /\ Completed[p] < Len(script') /\ script'[Completed[p] + 1] = c
      /\ Completed[p] = at[p] - 1 /\ at[p] \in Nat \ {0}
  BY <1>2, DoDecides
<1>4. Completed' = Completed
  <2>1. pc \in [Party -> {"setup", "run", "feed", "reveal"}] /\ pc[p] = "run"
    BY <1>2, CallOptions DEF IInv, TypeOK
  <2>2. \A q \in Party : (pc'[q] = "setup") <=> (pc[q] = "setup")
    BY <1>2, <2>1
  <2> QED
    BY <1>2, <2>2 DEF Completed
<1>5. CASE at[p] <= Len(script)
  BY <1>2, <1>4, <1>5 DEF Do, program, Unseen
<1>6. CASE ~(at[p] <= Len(script))
  <2>1. Completed[p] = Len(script)
    <3>1. Completed[p] \in 0 .. Len(script) /\ Len(script) \in Nat
      BY CompletedIs
    <3> QED
      BY <1>3, <1>6, <3>1
  <2>2. Circuit!Begin(p, c)
    BY <1>2, <1>3, <1>4, <2>1 DEF Circuit!Begin
  <2> QED
    BY <1>3, <2>2 DEF Circuit!Next, Circuit!Party, Party
<1> QED
  BY <1>5, <1>6

(* The second half completes it. *)
LEMMA EndingRefines == ASSUME IInv, TypeOK', OutputsCorrect', GenFlip \/ GenRevealed
  PROVE  Circuit!Next
<1>1. PICK p \in Party : p = "ALICE"
  BY Parties
<1>2. PICK k : k = at[p]
  OBVIOUS
<1>3. PICK c : c = script[k]
  OBVIOUS
<1>4. /\ net[p] # <<>> /\ pc[p] \in {"feed", "reveal"}
      /\ pc' = [pc EXCEPT ![p] = "run"] /\ at' = [at EXCEPT ![p] = @ + 1]
      /\ script' = script /\ val' = val /\ mark' = mark
      /\ \/ pc[p] = "feed" /\ out' = out
         \/ pc[p] = "reveal" /\ \E bits : Gives(p, bits)
  <2>1. CASE GenFlip
    BY <1>1, <2>1 DEF GenFlip, Arrived, Done, program
  <2>2. CASE GenRevealed
    BY <1>1, <2>2 DEF GenRevealed, Arrived, Done, program
  <2> QED
    BY <2>1, <2>2
<1>5. PICK q \in Party : q = Peer(p) /\ Circuit!Peer(p) = q
  BY CompletedIs, PeerFacts
<1>6. /\ Call(p) = k /\ k \in 1 .. Len(script) /\ Len(script) \in Nat
      /\ Completed[p] = Call(p) - 1 /\ Completed[q] = Call(q) - 1
      /\ Call(q) \in 1 .. Len(script) + 1
  <2>1. k \in 1 .. Len(script)
    BY <1>1, <1>2, <1>4 DEF IInv, Positions, Mid
  <2> QED
    BY <1>2, <1>4, <2>1, CompletedIs, InvPlaced, Where
<1>7. Call(p) < Call(q)
  <2>1. Call(p) < Reached(q)
    BY <1>4, <1>5, InvPlaced, Ahead
  <2>2. pc[q] # "reveal" /\ (pc[q] # "reveal" => Reached(q) = Call(q))
    BY <1>1, <1>5, InvPlaced, Where, Parties
  <2> QED
    BY <2>1, <2>2
<1>8. Completed[p] < Completed[q]
  BY <1>6, <1>7
<1>9. Completed' = [Completed EXCEPT ![p] = @ + 1]
  <2>1. pc \in [Party -> {"setup", "run", "feed", "reveal"}]
    BY DEF IInv, TypeOK
  <2>2. pc[p] # "setup" /\ pc'[p] # "setup" /\ \A r \in Party : r # p => pc'[r] = pc[r]
    BY <1>4, <2>1
  <2> QED
    BY <1>4, <2>2, CompletesOne
<1>10. Circuit!Decides(p, c) /\ Completed[p] < Len(script') /\ script'[Completed[p] + 1] = c
  <2>1. Completed[p] < Len(script) /\ Completed[p] + 1 = k
    BY <1>6
  <2> QED
    BY <1>3, <1>4, <2>1 DEF Circuit!Decides
<1>11. Circuit!Gives(p, c)
  <2>1. CASE pc[p] = "feed" /\ out' = out
    <3>1. c.op = "feed"
      BY <1>1, <1>2, <1>3, <2>1 DEF IInv, Positions, FeedsBob
    <3> QED
      BY <2>1, <3>1 DEF Circuit!Gives
  <2>2. CASE pc[p] = "reveal" /\ \E bits : Gives(p, bits)
    <3>1. PICK bits : Gives(p, bits)
      BY <2>2
    <3>2. c.op = "reveal" /\ c.who = "PUBLIC"
      BY <1>1, <1>2, <1>3, <2>2 DEF IInv, Positions
    <3>3. bits \in Seq(BOOLEAN)
      <4>1. out \in [Party -> Seq(Seq(BOOLEAN))] /\ out' \in [Party -> Seq(Seq(BOOLEAN))]
        BY DEF IInv, TypeOK
      <4>2. out'[p] = Append(out[p], bits)
        BY <3>1, <4>1 DEF Gives
      <4> QED
        BY <4>1, <4>2, AppendedIn
    <3>4. c \in CallType /\ CallOK(k) /\ c.i <= c.j
      <4>1. c \in CallType /\ CallOK(k)
        BY <1>3, <1>6, InvProgram, CallInRange
      <4> QED
        BY <1>3, <3>2, <4>1 DEF CallOK
    <3>5. c.i \in 1 .. Len(val) /\ c.j \in 1 .. Len(val)
      <4>1. Len(wire[p]) = mark[Call(p)].wires
        BY DEF IInv, Counters
      <4> QED
        BY <1>3, <1>6, <3>2, <4>1, InvPlaced, CallTakes
    <3>6. Grows /\ ProgramInv'
      <4>1. ProgramInv
        BY InvProgram
      <4>2. Grows
        BY <1>4, <4>1, LenProperties DEF Grows, ProgramInv, ProgramTyped
      <4>3. ProgramInv'
        BY <1>4, <4>1 DEF ProgramInv, ProgramTyped, Program, Monotone, CallOK
      <4> QED
        BY <4>2, <4>3
    <3> QED
      BY <1>3, <1>4, <1>6, <3>1, <3>2, <3>3, <3>4, <3>5, <3>6, GivesResult
  <2> QED
    BY <1>4, <2>1, <2>2
<1>12. Circuit!Complete(p, c)
  BY <1>5, <1>1, <1>8, <1>9, <1>10, <1>11 DEF Circuit!Complete
<1> QED
  BY <1>10, <1>12 DEF Circuit!Next, Circuit!Party, Party

(* The constructors are not seen. *)
LEMMA SetupRefines ==
  ASSUME IInv,
         GenConstants \/ EvaConstants \/ GenFirstRefill \/ EvaFirstRefill \/ \E r \in Party : Handshake(r)
  PROVE  Unseen
<1>1. PICK p \in Party :
        /\ pc[p] = "setup"
        /\ UNCHANGED <<program, out>>
        /\ \/ pc' = pc /\ Done(p)
           \/ Ready(p)
  <2>1. CASE GenConstants
    BY <2>1, Parties DEF GenConstants, AtSetup
  <2>2. CASE EvaConstants
    BY <2>2, Parties DEF EvaConstants, AtSetup
  <2>3. CASE GenFirstRefill
    BY <2>3, Parties DEF GenFirstRefill, AtSetup
  <2>4. CASE EvaFirstRefill
    BY <2>4, Parties DEF EvaFirstRefill, AtSetup
  <2>5. CASE \E r \in Party : Handshake(r)
    BY <2>5 DEF Handshake, AtSetup
  <2> QED
    BY <2>1, <2>2, <2>3, <2>4, <2>5
<1>2. at \in [Party -> Nat] /\ pc \in [Party -> {"setup", "run", "feed", "reveal"}]
  BY DEF IInv, TypeOK
<1>3. Completed' = Completed
  <2>1. CASE pc' = pc /\ Done(p)
    BY <1>1, <1>2, <2>1 DEF Completed, Done
  <2>2. CASE Ready(p)
    BY <1>1, <1>2, <2>2 DEF Completed, Ready
  <2> QED
    BY <1>1, <2>1, <2>2
<1> QED
  BY <1>1, <1>3 DEF Unseen, program

(* Every step is one of the circuit's, or not seen. *)
LEMMA StepRefines == ASSUME IInv, TypeOK', OutputsCorrect', [Next]_vars
  PROVE  Circuit!Next \/ Unseen
<1>1. CASE \E p \in Party : PartyStep(p)
  <2>1. PICK p \in Party : PartyStep(p)
    BY <1>1
  <2>2. CASE CommonStep(p)
    <3>1. CASE Handshake(p)
      BY <3>1, SetupRefines
    <3>2. CASE Local(p) \/ FeedAlice(p)
      BY <3>2, LocalRefines
    <3>3. CASE RevealShare(p) \/ RevealTo(p)
      BY <3>3, OpeningRefines
    <3>4. CASE Learn(p)
      BY <3>4, LearningRefines
    <3> QED
      BY <2>2, <3>1, <3>2, <3>3, <3>4 DEF CommonStep
  <2>3. CASE GenStep
    BY <2>3, SetupRefines, SendingRefines, TakingRefines, BeginningRefines, EndingRefines DEF GenStep
  <2>4. CASE EvaStep
    <3>1. CASE EvaRevealPublic
      BY <3>1, LearningRefines, Parties
    <3> QED
      BY <2>4, <3>1, SetupRefines, SendingRefines, TakingRefines DEF EvaStep
  <2> QED
    BY <2>1, <2>2, <2>3, <2>4 DEF PartyStep
<1>2. CASE UNCHANGED vars
  BY <1>2 DEF vars, program, Unseen, Completed
<1> QED
  BY <1>1, <1>2 DEF Next, Terminated

(* The protocol computes what a plain circuit does: the labels, tables,    *)
(* pools, OTs and messages of both parties only bring about ClearProgram's *)
(* reveals, each once, in the program's order, with its results, however   *)
(* far one party runs ahead of the other.                                  *)
THEOREM ProtocolImplementsClearProgram == Spec => ImplementsClearProgram
<1>1. Init => Circuit!Init
  BY DEF Init, Circuit!Init, Circuit!Party, Party, Completed
<1>2. IInv /\ TypeOK' /\ OutputsCorrect' /\ [Next]_vars => [Circuit!Next]_<<script, val, Completed, out>>
  BY StepRefines DEF Unseen
<1>3. Spec => Circuit!Init /\ [][Circuit!Next]_<<script, val, Completed, out>>
  BY <1>1, <1>2, Invariance, TypeCorrect, Computes, PTL DEF Spec
<1> QED
  BY <1>3 DEF ImplementsClearProgram, Circuit!Spec, Circuit!vars
=============================================================================
